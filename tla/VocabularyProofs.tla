--------------------------- MODULE VocabularyProofs ---------------------------
(***************************************************************************)
(* Proofs about Vocabularies.                                              *)
(*                                                                         *)
(* TypeInv adds to the types where a request of each kind can be and what  *)
(* it then has.  Two rounds of lemmas say once what a step of a request    *)
(* does: Moves (to the request), and RowStep, StoreStep and KnowStep (to   *)
(* the key of its row, to the bucket, to what it knows).  FileThere is not *)
(* inductive: a request about to remove a file must not mean that of its   *)
(* row (Spares), which needs that an update alone knows the file it is     *)
(* about to put there (Unknown), that no two vocabularies name one file    *)
(* (Owned), and that an id without a row is not created twice (Alone).     *)
(* The properties of the cache and of the flag follow from SeenInv: while  *)
(* no request owes the readers a word, they have what they would now read. *)
(***************************************************************************)
EXTENDS Vocabularies, TLAPS

-----------------------------------------------------------------------------
(* The inductive invariant                                                 *)

\* Where a request of each kind can be, and what it then has.
OpShape(c) ==
    /\ c.op = "create" =>
         /\ c.pc \in {"create", "insert", "unterms", "unrow", "unfile", "flag"}
         /\ c.file # None /\ c.name # None
    /\ c.op = "update" =>
         /\ c.pc \in {"save", "wipe", "insert", "fail", "swap", "previous", "unfile", "flag"}
         /\ c.loaded # None
         /\ c.pc \in {"wipe", "insert", "fail", "swap", "previous", "unfile"} => c.file # None
    /\ c.op = "delete" =>
         /\ c.pc \in {"unterms", "unrow", "unfile", "flag"}
         /\ c.loaded # None /\ c.file # None /\ c.failed = FALSE

Shapes == \A r \in Request : req[r] # None => OpShape(req[r])

TypeInv == TypeOK /\ Shapes

-----------------------------------------------------------------------------
(* Type correctness                                                        *)

LEMMA Apart ==
    /\ \A c \in Call : c # None
    /\ \A w \in Row : w # None
    /\ \A f \in File : f # None /\ LanguageOf[f] \in Language
  <1>1. None \notin Row /\ None \notin Call /\ None \notin File
    BY VocabularyAssumption
  <1>3. (\A c \in Call : c # None) /\ (\A w \in Row : w # None)
    BY <1>1
  <1>2. \A f \in File : LanguageOf[f] \in Language
    BY DEF Language
  <1> QED
    BY <1>1, <1>2, <1>3

LEMMA InitTypeInv == Init => TypeInv
  <1> SUFFICES ASSUME Init PROVE TypeInv
    OBVIOUS
  <1>1. NoExpansion \in Expansion /\ NoRun \in Run
    BY DEF NoExpansion, Expansion, NoRun, Run
  <1> USE DEF Init
  <1>2. /\ row \in [Vocab -> {None} \cup Row] /\ terms \in [Vocab -> SUBSET File]
        /\ ingest \in [Ingest -> Expansion] /\ req \in [Request -> {None} \cup Call]
    BY <1>1
  <1>3. calls \in 0..MaxCalls /\ events \in 0..MaxEvents
    BY VocabularyAssumption
  <1>4. TypeOK
    BY <1>1, <1>2, <1>3 DEF TypeOK
  <1> QED
    BY <1>4 DEF TypeInv, Shapes

\* What r has, when it is at a step.
LEMMA Known ==
    ASSUME TypeInv, NEW r \in Request, req[r] # None
    PROVE  /\ req[r] \in Call /\ OpShape(req[r]) /\ On(r) \in Vocab
           /\ req[r].file # None => req[r].file \in File /\ LanguageOf[req[r].file] \in Language
           /\ req[r].loaded # None => req[r].loaded \in Row
           /\ req[r].inSearch \in BOOLEAN /\ req[r].failed \in BOOLEAN
           /\ req[r].name # None => req[r].name \in Name
  <1>1. req[r] \in Call /\ OpShape(req[r])
    BY DEF TypeInv, TypeOK, Shapes
  <1> QED
    BY <1>1, Apart DEF Call, On

\* A request that goes on: to another step, perhaps as failed.
Onward(r, s) ==
    /\ req'[r] \in Call
    /\ req'[r].pc = s /\ req'[r].op = req[r].op /\ req'[r].vocab = req[r].vocab
    /\ req'[r].loaded = req[r].loaded /\ req'[r].name = req[r].name /\ req'[r].file = req[r].file
    /\ req'[r].inSearch = req[r].inSearch
Others(r) == \A q \in Request : q # r => req'[q] = req[q]

LEMMA Goes ==
    ASSUME TypeInv, NEW r \in Request, req[r] # None, NEW s \in Step, Goto(r, s)
    PROVE  /\ Onward(r, s) /\ req'[r].failed = req[r].failed /\ Others(r)
           /\ req' \in [Request -> {None} \cup Call]
  <1>1. req[r] \in Call /\ req \in [Request -> {None} \cup Call]
    BY Known DEF TypeInv, TypeOK
  <1> DEFINE d == [req[r] EXCEPT !.pc = s]
  <1>2. /\ d \in Call /\ d.pc = s /\ d.op = req[r].op /\ d.vocab = req[r].vocab
        /\ d.loaded = req[r].loaded /\ d.name = req[r].name /\ d.file = req[r].file
        /\ d.inSearch = req[r].inSearch /\ d.failed = req[r].failed
    BY <1>1 DEF Call
  <1>3. req' = [req EXCEPT ![r] = d]
    BY DEF Goto
  <1> HIDE DEF d
  <1>4. req'[r] = d /\ \A q \in Request : q # r => req'[q] = req[q]
    BY <1>1, <1>3
  <1>5. req' \in [Request -> {None} \cup Call]
    BY <1>1, <1>2, <1>3
  <1> QED
    BY <1>2, <1>4, <1>5 DEF Onward, Others

LEMMA GoesFailed ==
    ASSUME TypeInv, NEW r \in Request, req[r] # None, NEW s \in Step,
           req' = [req EXCEPT ![r].pc = s, ![r].failed = TRUE]
    PROVE  /\ Onward(r, s) /\ req'[r].failed = TRUE /\ Others(r)
           /\ req' \in [Request -> {None} \cup Call]
  <1>1. req[r] \in Call /\ req \in [Request -> {None} \cup Call]
    BY Known DEF TypeInv, TypeOK
  <1> DEFINE d == [req[r] EXCEPT !.pc = s, !.failed = TRUE]
  <1>2. /\ d \in Call /\ d.pc = s /\ d.op = req[r].op /\ d.vocab = req[r].vocab
        /\ d.loaded = req[r].loaded /\ d.name = req[r].name /\ d.file = req[r].file
        /\ d.inSearch = req[r].inSearch /\ d.failed = TRUE
    BY <1>1 DEF Call
  <1>3. req' = [req EXCEPT ![r] = d]
    BY <1>1
  <1> HIDE DEF d
  <1>4. req'[r] = d /\ \A q \in Request : q # r => req'[q] = req[q]
    BY <1>1, <1>3
  <1>5. req' \in [Request -> {None} \cup Call]
    BY <1>1, <1>2, <1>3
  <1> QED
    BY <1>2, <1>4, <1>5 DEF Onward, Others

LEMMA Returns ==
    ASSUME TypeInv, NEW r \in Request, Return(r)
    PROVE  req'[r] = None /\ Others(r) /\ req' \in [Request -> {None} \cup Call]
  BY DEF TypeInv, TypeOK, Return, Others

\* What a step of r may do to r: nothing else of the requests changes.
Moved(r, steps) ==
    /\ Others(r) /\ req' \in [Request -> {None} \cup Call]
    /\ req'[r] = None \/ \E s \in steps : Onward(r, s)

LEMMA Steps ==
    /\ {"create", "save", "wipe", "insert", "fail", "swap", "previous", "unterms", "unrow", "unfile",
        "flag"} \subseteq Step
    /\ \A s \in Step : s \in {"create", "save", "wipe", "insert", "fail", "swap", "previous",
                              "unterms", "unrow", "unfile", "flag"}
  BY DEF Step

LEMMA Bounds ==
    ASSUME TypeInv
    PROVE  /\ Called => calls' \in 0..MaxCalls /\ events' \in 0..MaxEvents
           /\ Fault => calls' \in 0..MaxCalls /\ events' \in 0..MaxEvents
           /\ UNCHANGED bounds => calls' \in 0..MaxCalls /\ events' \in 0..MaxEvents
  BY VocabularyAssumption DEF TypeInv, TypeOK, Called, Fault, Read, bounds

-----------------------------------------------------------------------------
(* Each step keeps the types                                               *)

\* The requests after a step of r.
LEMMA ReqTyped ==
    ASSUME TypeInv, NEW r \in Request, Others(r), req' \in [Request -> {None} \cup Call],
           req'[r] # None => OpShape(req'[r])
    PROVE  req' \in [Request -> {None} \cup Call] /\ Shapes'
  BY DEF TypeInv, Shapes, Others

\* What the steps of a request leave in the state it shares.
SharedTyped ==
    /\ row \in [Vocab -> {None} \cup Row]
    /\ terms \in [Vocab -> SUBSET File]
    /\ store \subseteq File
    /\ pending \in BOOLEAN
    /\ topic \subseteq File
    /\ cached = None \/ cached \subseteq File
    /\ ingest \in [Ingest -> Expansion]
    /\ worker \in Run
    /\ used \subseteq File \cup Vocab
    /\ calls \in 0..MaxCalls /\ events \in 0..MaxEvents
    /\ raced \subseteq Vocab /\ unswapped \subseteq Vocab
    /\ behind \in BOOLEAN /\ missed \in BOOLEAN

LEMMA Assemble ==
    /\ TypeInv => SharedTyped
    /\ SharedTyped' /\ req' \in [Request -> {None} \cup Call] /\ Shapes' => TypeInv'
  BY DEF TypeInv, TypeOK, SharedTyped

LEMMA LeaveBehindTyped ==
    ASSUME TypeInv, LeaveBehind
    PROVE  ingest' \in [Ingest -> Expansion] /\ behind' \in BOOLEAN /\ missed' \in BOOLEAN
  <1>1. \A i \in Ingest : [ingest[i] EXCEPT !.old = TRUE] \in Expansion
    BY DEF TypeInv, TypeOK, Expansion
  <1> QED
    BY <1>1 DEF LeaveBehind

LEMMA BeginTyped ==
    ASSUME TypeInv, NEW r \in Request, BeginCreate(r) \/ BeginUpdate(r) \/ BeginDelete(r)
    PROVE  TypeInv'
  <1>0. SharedTyped /\ req \in [Request -> {None} \cup Call]
    BY Assemble DEF TypeInv, TypeOK
  <1>1. ASSUME NEW c, c \in Call, OpShape(c), req' = [req EXCEPT ![r] = c], SharedTyped' PROVE TypeInv'
    <2>1. req' \in [Request -> {None} \cup Call] /\ req'[r] = c /\ Others(r)
      BY <1>0, <1>1 DEF Others
    <2> QED
      BY <1>1, <2>1, ReqTyped, Assemble
  <1>2. CASE BeginCreate(r)
    <2>1. PICK v \in Vocab \ used, n \in Name, f \in File \ used, s \in BOOLEAN :
            /\ req' = [req EXCEPT ![r] = [pc |-> "create", op |-> "create", vocab |-> v, loaded |-> None,
                                          name |-> n, file |-> f, inSearch |-> s, failed |-> FALSE]]
            /\ used' = used \cup {v, f}
            /\ store' = store \cup {f}
      BY <1>2 DEF BeginCreate
    <2> DEFINE c == [pc |-> "create", op |-> "create", vocab |-> v, loaded |-> None,
                     name |-> n, file |-> f, inSearch |-> s, failed |-> FALSE]
    <2>2. c \in Call
      BY DEF Call, Step
    <2>3. OpShape(c)
      BY VocabularyAssumption DEF OpShape
    <2>4. SharedTyped'
      BY <1>0, <1>2, <2>1, Bounds DEF BeginCreate, SharedTyped, readers, history
    <2> HIDE DEF c
    <2> QED
      BY <1>1, <2>1, <2>2, <2>3, <2>4 DEF c
  <1>3. CASE BeginUpdate(r)
    <2>1. PICK v \in Vocab, f \in {None} \cup (File \ used), s \in BOOLEAN :
            /\ Exists(v)
            /\ req' = [req EXCEPT ![r] = [pc |-> "save", op |-> "update", vocab |-> v,
                                          loaded |-> row[v], name |-> None, file |-> f,
                                          inSearch |-> s, failed |-> FALSE]]
            /\ used' = used \cup ({f} \ {None})
            /\ store' = store \cup ({f} \ {None})
            /\ raced' = raced \cup IF Busy(v) THEN {v} ELSE {}
      BY <1>3 DEF BeginUpdate
    <2> DEFINE c == [pc |-> "save", op |-> "update", vocab |-> v, loaded |-> row[v],
                     name |-> None, file |-> f, inSearch |-> s, failed |-> FALSE]
    <2>2. c \in Call
      BY <1>0 DEF Call, Step, SharedTyped
    <2>3. OpShape(c)
      BY <2>1 DEF OpShape, Exists
    <2>4. SharedTyped'
      BY <1>0, <1>3, <2>1, Bounds DEF BeginUpdate, SharedTyped, readers
    <2> HIDE DEF c
    <2> QED
      BY <1>1, <2>1, <2>2, <2>3, <2>4 DEF c
  <1>4. CASE BeginDelete(r)
    <2>1. PICK v \in Vocab :
            /\ Exists(v)
            /\ req' = [req EXCEPT ![r] = [pc |-> "unterms", op |-> "delete", vocab |-> v,
                                          loaded |-> row[v], name |-> None, file |-> row[v].key,
                                          inSearch |-> row[v].inSearch, failed |-> FALSE]]
            /\ raced' = raced \cup IF Busy(v) THEN {v} ELSE {}
      BY <1>4 DEF BeginDelete
    <2> DEFINE c == [pc |-> "unterms", op |-> "delete", vocab |-> v, loaded |-> row[v],
                     name |-> None, file |-> row[v].key, inSearch |-> row[v].inSearch, failed |-> FALSE]
    <2>1a. row[v] \in Row /\ row[v].key \in File /\ row[v].inSearch \in BOOLEAN
      <3>1. row[v] \in Row
        BY <1>0, <2>1 DEF SharedTyped, Exists
      <3> QED
        BY <3>1 DEF Row
    <2>2. c \in Call
      BY <2>1a DEF Call, Step
    <2>3. OpShape(c)
      BY <2>1, <2>1a, Apart DEF OpShape
    <2>4. SharedTyped'
      BY <1>0, <1>4, <2>1, Bounds DEF BeginDelete, SharedTyped, readers
    <2> HIDE DEF c
    <2> QED
      BY <1>1, <2>1, <2>2, <2>3, <2>4 DEF c
  <1> QED
    BY <1>2, <1>3, <1>4

\* What a step of a request does to that request.
Ends(r) == req'[r] = None
Moves(r) ==
    /\ req[r] # None
    /\ Others(r)
    /\ At(r, "create") => Onward(r, "insert") \/ Onward(r, "unfile")
    /\ At(r, "save") => Onward(r, "wipe") \/ Onward(r, "unfile") \/ Onward(r, "flag") \/ Ends(r)
    /\ At(r, "save") /\ Onward(r, "wipe") => req[r].file # None
    /\ At(r, "save") /\ Onward(r, "unfile") => req[r].file # None
    /\ At(r, "wipe") => Onward(r, "insert") \/ Onward(r, "fail")
    /\ At(r, "insert") /\ req[r].op = "create" => Onward(r, "flag") \/ Onward(r, "unterms")
    /\ At(r, "insert") /\ req[r].op = "update" => Onward(r, "swap") \/ Onward(r, "fail")
    /\ At(r, "fail") => Ends(r)
    /\ At(r, "swap") => Onward(r, "previous")
    /\ At(r, "previous") => Onward(r, "flag")
    /\ At(r, "unterms") => Onward(r, "unrow")
    /\ At(r, "unrow") => Onward(r, "unfile") \/ (Ends(r) /\ req[r].op = "delete")
    /\ At(r, "unfile") => Onward(r, "flag") \/ Ends(r)
    /\ At(r, "flag") => Ends(r)
    /\ req'[r] # None /\ req[r].op = "delete" => req'[r].failed = FALSE

RequestStep(r) ==
    \/ CreateRow(r) \/ SaveHeader(r)
    \/ WipeTerms(r) \/ InsertTerms(r) \/ MarkFailed(r) \/ SwapKey(r) \/ DropPrevious(r)
    \/ RemoveTerms(r) \/ RemoveRow(r) \/ RemoveFile(r) \/ Flag(r)

LEMMA StepMoves ==
    ASSUME TypeInv, NEW r \in Request, RequestStep(r)
    PROVE  Moves(r) /\ req' \in [Request -> {None} \cup Call]
  <1>0. req[r] # None
    BY DEF RequestStep, CreateRow, SaveHeader, WipeTerms, InsertTerms, MarkFailed, SwapKey,
           DropPrevious, RemoveTerms, RemoveRow, RemoveFile, Flag, At
  <1>1. req[r] \in Call /\ OpShape(req[r])
    BY <1>0, Known
  <1>2. \A s \in Step : Goto(r, s) =>
          /\ Onward(r, s) /\ req'[r].failed = req[r].failed /\ Others(r)
          /\ req' \in [Request -> {None} \cup Call]
    BY <1>0, Goes
  <1>3. \A s \in Step : req' = [req EXCEPT ![r].pc = s, ![r].failed = TRUE] =>
          /\ Onward(r, s) /\ Others(r) /\ req' \in [Request -> {None} \cup Call]
    BY <1>0, GoesFailed
  <1>4. Return(r) => Ends(r) /\ Others(r) /\ req' \in [Request -> {None} \cup Call]
    BY Returns DEF Ends
  <1> USE DEF At, Moves
  <1>5. CASE CreateRow(r)
    <2>1. Onward(r, "insert") \/ Onward(r, "unfile")
      BY <1>2, <1>3, <1>5, Steps DEF CreateRow
    <2>2. Others(r) /\ req' \in [Request -> {None} \cup Call]
      BY <1>2, <1>3, <1>5, Steps DEF CreateRow
    <2> QED
      BY <1>0, <1>1, <1>5, <2>1, <2>2 DEF CreateRow, OpShape
  <1>6. CASE SaveHeader(r)
    <2>1. /\ (Onward(r, "wipe") /\ req[r].file # None) \/ (Onward(r, "unfile") /\ req[r].file # None)
             \/ Onward(r, "flag") \/ Ends(r)
          /\ Others(r) /\ req' \in [Request -> {None} \cup Call]
      BY <1>2, <1>3, <1>4, <1>6, Steps DEF SaveHeader
    <2>2. req[r].pc = "save" /\ req[r].op # "delete"
      BY <1>0, <1>1, <1>6 DEF SaveHeader, OpShape
    <2> QED
      BY <1>0, <2>1, <2>2, Apart DEF Onward, Ends
  <1>7. CASE WipeTerms(r)
    BY <1>0, <1>1, <1>2, <1>7, Steps DEF WipeTerms, OpShape
  <1>8. CASE InsertTerms(r)
    <2>1. req[r].pc = "insert" /\ req[r].op \in {"create", "update"}
      BY <1>0, <1>1, <1>8 DEF InsertTerms, OpShape, Call
    <2>2. CASE req[r].op = "create"
      BY <1>0, <1>2, <1>3, <1>8, <2>1, <2>2, Steps DEF InsertTerms
    <2>3. CASE req[r].op = "update"
      BY <1>0, <1>2, <1>3, <1>8, <2>1, <2>3, Steps DEF InsertTerms
    <2> QED
      BY <2>1, <2>2, <2>3
  <1>9. CASE MarkFailed(r)
    BY <1>0, <1>4, <1>9, Steps DEF MarkFailed, Ends
  <1>10. CASE SwapKey(r)
    BY <1>0, <1>1, <1>2, <1>10, Steps DEF SwapKey, OpShape
  <1>11. CASE DropPrevious(r)
    BY <1>0, <1>1, <1>2, <1>11, Steps DEF DropPrevious, OpShape
  <1>12. CASE RemoveTerms(r)
    BY <1>0, <1>1, <1>2, <1>12, Steps DEF RemoveTerms, OpShape
  <1>13. CASE RemoveRow(r)
    BY <1>0, <1>1, <1>2, <1>4, <1>13, Steps DEF RemoveRow, OpShape, Ends, Call
  <1>14. CASE RemoveFile(r)
    BY <1>0, <1>1, <1>2, <1>4, <1>14, Steps DEF RemoveFile, OpShape, Ends
  <1>15. CASE Flag(r)
    BY <1>0, <1>4, <1>15 DEF Flag, Ends
  <1> QED
    BY <1>5, <1>6, <1>7, <1>8, <1>9, <1>10, <1>11, <1>12, <1>13, <1>14, <1>15 DEF RequestStep

LEMMA StepShapes ==
    ASSUME TypeInv, NEW r \in Request, RequestStep(r)
    PROVE  req' \in [Request -> {None} \cup Call] /\ Shapes'
  <1>1. Moves(r) /\ req' \in [Request -> {None} \cup Call]
    BY StepMoves
  <1>2. req[r] # None /\ req[r] \in Call /\ OpShape(req[r]) /\ req[r].pc \in Step
    BY <1>1, Known DEF Moves, Call
  <1>3. ASSUME req'[r] # None PROVE OpShape(req'[r])
    <2>1. PICK s \in Step : Onward(r, s)
      <3>1. \E s \in Step : At(r, s)
        BY <1>2 DEF At
      <3>2. (At(r, "insert") => req[r].op \in {"create", "update"}) /\ ~Ends(r)
        BY <1>2, <1>3 DEF At, OpShape, Ends, Call
      <3> QED
        BY <1>1, <3>1, <3>2, Steps DEF Moves
    <2>2. CASE req[r].op = "create"
      <3>1. s \in {"create", "insert", "unterms", "unrow", "unfile", "flag"}
        BY <1>1, <1>2, <1>3, <2>1, <2>2 DEF Moves, At, Onward, Ends, OpShape
      <3> QED
        BY <1>2, <2>1, <2>2, <3>1 DEF Onward, OpShape
    <2>3. CASE req[r].op = "update"
      <3>1. /\ s \in {"save", "wipe", "insert", "fail", "swap", "previous", "unfile", "flag"}
            /\ s \in {"wipe", "insert", "fail", "swap", "previous", "unfile"} => req[r].file # None
        BY <1>1, <1>2, <1>3, <2>1, <2>3 DEF Moves, At, Onward, Ends, OpShape
      <3> QED
        BY <1>2, <2>1, <2>3, <3>1 DEF Onward, OpShape
    <2>4. CASE req[r].op = "delete"
      <3>1. s \in {"unterms", "unrow", "unfile", "flag"} /\ req'[r].failed = FALSE
        BY <1>1, <1>2, <1>3, <2>1, <2>4 DEF Moves, At, Onward, Ends, OpShape
      <3> QED
        BY <1>2, <2>1, <2>4, <3>1 DEF Onward, OpShape
    <2> QED
      BY <1>2, <2>2, <2>3, <2>4 DEF Call
  <1> QED
    BY <1>1, <1>3, ReqTyped DEF Moves

\* The row that a request changes, and its type afterwards.
LEMMA RowOf ==
    ASSUME TypeInv, NEW r \in Request, req[r] # None, NEW w \in {None} \cup Row,
           row' = [row EXCEPT ![On(r)] = w]
    PROVE  /\ row' \in [Vocab -> {None} \cup Row] /\ row'[On(r)] = w
           /\ \A v \in Vocab : v # On(r) => row'[v] = row[v]
  BY Known DEF TypeInv, TypeOK

LEMMA RowNow ==
    ASSUME TypeInv, NEW v \in Vocab, Exists(v)
    PROVE  /\ row[v] \in Row /\ row[v].key \in File /\ row[v].inSearch \in BOOLEAN
           /\ row[v].file \in File
  <1>1. row[v] \in Row
    BY DEF TypeInv, TypeOK, Exists
  <1> QED
    BY <1>1 DEF Row

\* Creating a row.
LEMMA CreateRowActs ==
    ASSUME TypeInv, NEW r \in Request, CreateRow(r)
    PROVE  /\ req[r] # None /\ req[r].pc = "create" /\ req[r].file \in File
           /\ \/ /\ req'[r].pc = "insert"
                 /\ row'[On(r)] \in Row /\ row'[On(r)].key = req[r].file /\ row'[On(r)].file = req[r].file
                 /\ row'[On(r)].ready = TRUE /\ row'[On(r)].inSearch = req[r].inSearch
              \/ req'[r].pc = "unfile" /\ row' = row
           /\ row' \in [Vocab -> {None} \cup Row]
           /\ \A v \in Vocab : v # On(r) => row'[v] = row[v]
  <1>1. req[r] # None /\ req[r].pc = "create"
    BY DEF CreateRow, At
  <1>2. req[r] \in Call /\ req[r].op = "create" /\ req[r].file \in File /\ req[r].name \in Name
        /\ LanguageOf[req[r].file] \in Language /\ req[r].inSearch \in BOOLEAN
    BY <1>1, Known DEF OpShape, Call
  <1> DEFINE c == req[r]
             w == [name |-> c.name, inSearch |-> c.inSearch, ready |-> TRUE, file |-> c.file,
                   key |-> c.file, language |-> LanguageOf[c.file], version |-> 0]
  <1>3. w \in Row /\ w.key = c.file /\ w.file = c.file /\ w.ready = TRUE /\ w.inSearch = c.inSearch
    BY <1>2 DEF Row
  <1>4. CASE row' = [row EXCEPT ![c.vocab] = w] /\ Goto(r, "insert")
    <2> HIDE DEF w
    <2>1. req'[r].pc = "insert"
      BY <1>1, <1>4, Goes, Steps DEF Onward
    <2> QED
      BY <1>1, <1>2, <1>3, <1>4, <2>1, RowOf DEF On
  <1>5. CASE row' = row /\ req' = [req EXCEPT ![r].pc = "unfile", ![r].failed = TRUE]
    <2>1. req'[r].pc = "unfile"
      BY <1>1, <1>5, GoesFailed, Steps DEF Onward
    <2> QED
      BY <1>1, <1>2, <1>5, <2>1 DEF TypeInv, TypeOK
  <1> QED
    BY <1>4, <1>5 DEF CreateRow

\* Saving a header: the key stays, the file is the new one, if there is one.
LEMMA SaveHeaderActs ==
    ASSUME TypeInv, NEW r \in Request, SaveHeader(r)
    PROVE  /\ req[r] # None /\ req[r].pc = "save" /\ req[r].op = "update"
           /\ \/ /\ Exists(On(r)) /\ row'[On(r)] \in Row /\ row'[On(r)].key = row[On(r)].key
                 /\ row'[On(r)].ready = row[On(r)].ready
                 /\ row'[On(r)].inSearch \in {req[r].inSearch, row[On(r)].inSearch}
                 /\ req[r].inSearch = req[r].loaded.inSearch => row'[On(r)].inSearch = row[On(r)].inSearch
                 /\ req'[r] = None => req[r].inSearch = req[r].loaded.inSearch
                 /\ row'[On(r)].file = IF req[r].file # None THEN req[r].file ELSE row[On(r)].file
                 /\ IF req[r].file # None THEN req'[r] # None /\ req'[r].pc = "wipe"
                    ELSE req'[r] = None \/ req'[r].pc = "flag"
              \/ row' = row /\ (req'[r] = None \/ req'[r].pc = "unfile")
           /\ row' \in [Vocab -> {None} \cup Row]
           /\ \A v \in Vocab : v # On(r) => row'[v] = row[v]
  <1>1. req[r] # None /\ req[r].pc = "save"
    BY DEF SaveHeader, At
  <1>2. /\ req[r] \in Call /\ req[r].op = "update" /\ req[r].inSearch \in BOOLEAN
        /\ req[r].file # None => req[r].file \in File /\ LanguageOf[req[r].file] \in Language
    BY <1>1, Known DEF OpShape, Call
  <1>3. CASE /\ ~Stale(r) /\ row' = [row EXCEPT ![req[r].vocab] = Saved(@, req[r])]
             /\ IF req[r].file # None THEN Goto(r, "wipe")
                ELSE Goto(r, "flag") \/ (Return(r) /\ ~Affects(req[r]))
    <2> DEFINE v == On(r)
    <2>1. v \in Vocab /\ row[v] \in Row /\ Exists(v)
      BY <1>1, <1>3, Known, RowNow DEF Stale, On
    <2> DEFINE w == Saved(row[v], req[r])
    <2>2. /\ w \in Row /\ w.key = row[v].key /\ w.ready = row[v].ready
          /\ w.file = IF req[r].file # None THEN req[r].file ELSE row[v].file
          /\ w.inSearch \in {req[r].inSearch, row[v].inSearch}
          /\ req[r].inSearch = req[r].loaded.inSearch => w.inSearch = row[v].inSearch
      <3>2. PICK f \in File : f = IF req[r].file # None THEN req[r].file ELSE row[v].file
        BY <1>2, <2>1, RowNow
      <3>3. PICK l \in Language : l = IF Relabels(req[r]) THEN LanguageOf[req[r].file] ELSE row[v].language
        BY <1>2, <2>1 DEF Relabels, Row
      <3>4. PICK n \in Nat : n = IF Relabels(req[r]) THEN row[v].version + 1 ELSE row[v].version
        BY <2>1 DEF Row
      <3>5. PICK b \in BOOLEAN :
              b = IF req[r].inSearch # req[r].loaded.inSearch THEN req[r].inSearch ELSE row[v].inSearch
        BY <1>2, <2>1, RowNow
      <3>6. w = [row[v] EXCEPT !.inSearch = b, !.file = f, !.language = l, !.version = n]
        BY <3>2, <3>3, <3>4, <3>5 DEF Saved
      <3> HIDE DEF w
      <3> QED
        BY <2>1, <3>2, <3>5, <3>6 DEF Row
    <2>3. row' = [row EXCEPT ![v] = w]
      BY <1>3 DEF On
    <2> HIDE DEF w, v
    <2>4. /\ row'[v] = w /\ row' \in [Vocab -> {None} \cup Row]
          /\ \A u \in Vocab : u # v => row'[u] = row[u]
      BY <2>1, <2>2, <2>3 DEF TypeInv, TypeOK
    <2>5. /\ IF req[r].file # None THEN req'[r] # None /\ req'[r].pc = "wipe"
             ELSE req'[r] = None \/ req'[r].pc = "flag"
          /\ req'[r] = None => req[r].inSearch = req[r].loaded.inSearch
      <3>1. CASE req[r].file # None
        <4>1. Onward(r, "wipe")
          BY <1>1, <1>3, <3>1, Goes, Steps
        <4> QED
          BY <3>1, <4>1, Apart DEF Onward
      <3>2. CASE req[r].file = None
        <4>1. \/ Onward(r, "flag")
              \/ req'[r] = None /\ ~Affects(req[r])
          BY <1>1, <1>3, <3>2, Goes, Returns, Steps
        <4> QED
          BY <3>2, <4>1, Apart DEF Onward, Affects
      <3> QED
        BY <3>1, <3>2
    <2>6. /\ row'[v].inSearch \in {req[r].inSearch, row[v].inSearch}
          /\ req[r].inSearch = req[r].loaded.inSearch => row'[v].inSearch = row[v].inSearch
          /\ row'[v] \in Row /\ row'[v].key = row[v].key /\ row'[v].ready = row[v].ready
          /\ row'[v].file = IF req[r].file # None THEN req[r].file ELSE row[v].file
      BY <2>2, <2>4
    <2> QED
      BY <1>1, <1>2, <2>1, <2>4, <2>5, <2>6 DEF v
  <1>4. CASE /\ row' = row
             /\ Return(r) \/ req' = [req EXCEPT ![r].pc = "unfile", ![r].failed = TRUE]
    BY <1>1, <1>2, <1>4, Returns, GoesFailed, Steps DEF Onward, TypeInv, TypeOK
  <1> QED
    BY <1>3, <1>4 DEF SaveHeader

\* The new key of an update, or none.
LEMMA SwapKeyActs ==
    ASSUME TypeInv, NEW r \in Request, SwapKey(r)
    PROVE  /\ req[r] # None /\ req[r].pc = "swap" /\ req[r].op = "update" /\ req[r].file \in File
           /\ req'[r] # None /\ req'[r].pc = "previous"
           /\ \/ /\ Exists(On(r)) /\ row'[On(r)] \in Row /\ row'[On(r)].key = req[r].file
                 /\ row'[On(r)].file = row[On(r)].file /\ row'[On(r)].ready = row[On(r)].ready
                 /\ row'[On(r)].inSearch = row[On(r)].inSearch
                 /\ unswapped' = unswapped
              \/ row' = row /\ ~Exists(On(r)) /\ unswapped' = unswapped
              \/ row' = row /\ unswapped' = unswapped \cup {On(r)}
           /\ row' \in [Vocab -> {None} \cup Row]
           /\ \A v \in Vocab : v # On(r) => row'[v] = row[v]
  <1>1. req[r] # None /\ req[r].pc = "swap"
    BY DEF SwapKey, At
  <1>2. /\ req[r].op = "update" /\ req[r].file \in File /\ On(r) \in Vocab
        /\ row \in [Vocab -> {None} \cup Row]
    BY <1>1, Known DEF OpShape, Call, TypeInv, TypeOK
  <1>3. req'[r] # None /\ req'[r].pc = "previous"
    <2>1. Onward(r, "previous")
      BY <1>1, Goes, Steps DEF SwapKey
    <2> QED
      BY <2>1, Apart DEF Onward
  <1>4. CASE /\ row' = [row EXCEPT ![On(r)] = IF Exists(On(r)) THEN [@ EXCEPT !.key = req[r].file] ELSE @]
             /\ unswapped' = unswapped
    <2>1. CASE Exists(On(r))
      <3> DEFINE w == [row[On(r)] EXCEPT !.key = req[r].file]
      <3>1. /\ w \in Row /\ w.key = req[r].file
            /\ w.file = row[On(r)].file /\ w.ready = row[On(r)].ready
            /\ w.inSearch = row[On(r)].inSearch
        BY <1>2, <2>1, RowNow DEF Row
      <3>2. row' = [row EXCEPT ![On(r)] = w]
        BY <1>4, <2>1
      <3> HIDE DEF w
      <3> QED
        BY <1>1, <1>2, <1>3, <1>4, <2>1, <3>1, <3>2, RowOf
    <2>2. CASE ~Exists(On(r))
      <3>1. row' = row
        BY <1>2, <1>4, <2>2
      <3> QED
        BY <1>1, <1>2, <1>3, <1>4, <2>2, <3>1
    <2> QED
      BY <2>1, <2>2
  <1>5. CASE row' = row /\ unswapped' = unswapped \cup {On(r)}
    BY <1>1, <1>2, <1>3, <1>5
  <1> QED
    BY <1>4, <1>5 DEF SwapKey, On

\* A row without its terms is taken out of use, unless that fails.
LEMMA MarkFailedActs ==
    ASSUME TypeInv, NEW r \in Request, MarkFailed(r)
    PROVE  /\ req[r] # None /\ req[r].pc = "fail" /\ req[r].op = "update" /\ req'[r] = None
           /\ \/ /\ Exists(On(r)) /\ row'[On(r)] \in Row /\ row'[On(r)].key = row[On(r)].key
                 /\ row'[On(r)].ready = FALSE /\ row'[On(r)].inSearch = row[On(r)].inSearch
                 /\ raced' = raced
              \/ row' = row /\ ~Exists(On(r)) /\ raced' = raced
              \/ row' = row /\ raced' = raced \cup {On(r)}
           /\ row' \in [Vocab -> {None} \cup Row]
           /\ \A v \in Vocab : v # On(r) => row'[v] = row[v]
  <1>1. req[r] # None /\ req[r].pc = "fail" /\ req'[r] = None
    BY Returns DEF MarkFailed, At
  <1>2. req[r].op = "update" /\ On(r) \in Vocab /\ row \in [Vocab -> {None} \cup Row]
    BY <1>1, Known DEF OpShape, Call, TypeInv, TypeOK
  <1>4. CASE /\ row' = [row EXCEPT ![On(r)] = IF Exists(On(r)) THEN [@ EXCEPT !.ready = Ready(r)] ELSE @]
             /\ raced' = raced
    <2>1. CASE Exists(On(r))
      <3> DEFINE w == [row[On(r)] EXCEPT !.ready = FALSE]
      <3>1. w \in Row /\ w.key = row[On(r)].key /\ w.ready = FALSE /\ w.inSearch = row[On(r)].inSearch
        BY <1>2, <2>1, RowNow DEF Row
      <3>2. row' = [row EXCEPT ![On(r)] = w]
        BY <1>4, <2>1 DEF Ready
      <3> HIDE DEF w
      <3> QED
        BY <1>1, <1>2, <1>4, <2>1, <3>1, <3>2, RowOf
    <2>2. CASE ~Exists(On(r))
      <3>1. row' = row
        BY <1>2, <1>4, <2>2
      <3> QED
        BY <1>1, <1>2, <1>4, <2>2, <3>1
    <2> QED
      BY <2>1, <2>2
  <1>5. CASE row' = row /\ raced' = raced \cup {On(r)}
    BY <1>1, <1>2, <1>5
  <1> QED
    BY <1>4, <1>5 DEF MarkFailed

\* The row of a request that removes it is gone, or in unswapped.
LEMMA RemoveRowActs ==
    ASSUME TypeInv, NEW r \in Request, RemoveRow(r)
    PROVE  /\ req[r] # None /\ req[r].pc = "unrow" /\ req[r].op \in {"create", "delete"}
           /\ \/ row'[On(r)] = None /\ req'[r] # None /\ raced' = raced /\ unswapped' = unswapped
              \/ row' = row /\ raced' = raced \cup {On(r)} /\ unswapped' = unswapped \cup {On(r)}
           /\ req'[r] = None \/ req'[r].pc = "unfile"
           /\ row' \in [Vocab -> {None} \cup Row]
           /\ \A v \in Vocab : v # On(r) => row'[v] = row[v]
  <1>1. req[r] # None /\ req[r].pc = "unrow"
    BY DEF RemoveRow, At
  <1>2. req[r].op \in {"create", "delete"} /\ On(r) \in Vocab /\ row \in [Vocab -> {None} \cup Row]
    BY <1>1, Known DEF OpShape, Call, TypeInv, TypeOK
  <1>3. Goto(r, "unfile") => req'[r] # None /\ req'[r].pc = "unfile"
    BY <1>1, Goes, Steps, Apart DEF Onward
  <1>4. Return(r) => req'[r] = None
    BY Returns
  <1>5. CASE row' = [row EXCEPT ![On(r)] = None] /\ Goto(r, "unfile") /\ raced' = raced
               /\ unswapped' = unswapped
    BY <1>1, <1>2, <1>3, <1>5
  <1>6. CASE /\ row' = row /\ raced' = raced \cup {On(r)} /\ unswapped' = unswapped \cup {On(r)}
             /\ Goto(r, "unfile") \/ Return(r)
    BY <1>1, <1>2, <1>3, <1>4, <1>6
  <1> QED
    BY <1>5, <1>6 DEF RemoveRow

LEMMA StepShared ==
    ASSUME TypeInv, NEW r \in Request, RequestStep(r) PROVE SharedTyped'
  <1>0. SharedTyped /\ (req[r] # None => On(r) \in Vocab)
    BY Assemble, Known
  <1>1. \A f : store \ {f} \subseteq File
    BY <1>0 DEF SharedTyped
  <1>2. CASE CreateRow(r)
    BY <1>0, <1>2, Bounds, CreateRowActs DEF CreateRow, SharedTyped, readers, history
  <1>3. CASE SaveHeader(r)
    BY <1>0, <1>3, Bounds, SaveHeaderActs DEF SaveHeader, SharedTyped, readers, history
  <1>4. CASE WipeTerms(r)
    BY <1>0, <1>4, Bounds DEF WipeTerms, Wipe, At, SharedTyped, readers, history
  <1>5. CASE InsertTerms(r)
    <2>1. req[r] # None /\ req[r].file \in File /\ req[r].vocab = On(r)
      BY <1>5, Known DEF InsertTerms, At, OpShape, On, Call
    <2>2. [terms EXCEPT ![On(r)] = @ \cup {req[r].file}] \in [Vocab -> SUBSET File]
      BY <1>0, <2>1 DEF SharedTyped
    <2>3. terms' \in [Vocab -> SUBSET File]
      BY <1>0, <1>5, <2>1, <2>2 DEF InsertTerms, SharedTyped
    <2> QED
      BY <1>0, <1>5, <2>3, Bounds DEF InsertTerms, SharedTyped, readers, history
  <1>6. CASE MarkFailed(r)
    BY <1>0, <1>6, Bounds, MarkFailedActs, LeaveBehindTyped DEF MarkFailed, SharedTyped, readers
  <1>7. CASE SwapKey(r)
    BY <1>0, <1>7, Bounds, SwapKeyActs DEF SwapKey, SharedTyped, readers
  <1>8. CASE DropPrevious(r)
    BY <1>0, <1>1, <1>8, Bounds DEF DropPrevious, SharedTyped, readers, history
  <1>9. CASE RemoveTerms(r)
    BY <1>0, <1>9, Bounds DEF RemoveTerms, At, SharedTyped, readers
  <1>10. CASE RemoveRow(r)
    BY <1>0, <1>10, Bounds, RemoveRowActs, LeaveBehindTyped DEF RemoveRow, SharedTyped, readers
  <1>11. CASE RemoveFile(r)
    BY <1>0, <1>1, <1>11, Bounds DEF RemoveFile, SharedTyped, readers, history
  <1>12. CASE Flag(r)
    <2>1. req[r] # None /\ req[r].inSearch \in BOOLEAN
      BY <1>12, Known DEF Flag, At
    <2>2. ingest' \in [Ingest -> Expansion]
      <3>1. \A i \in Ingest, b \in BOOLEAN : [ingest[i] EXCEPT !.old = b] \in Expansion
        BY <1>0 DEF SharedTyped, Expansion
      <3>2. \A i \in Ingest : (ingest[i].old \/ WasInSearch(r)) \in BOOLEAN
        OBVIOUS
      <3> QED
        BY <1>12, <3>1, <3>2, LeaveBehindTyped DEF Flag
    <2>3. pending' \in BOOLEAN /\ missed' \in BOOLEAN /\ behind' \in BOOLEAN
      BY <1>0, <1>12, <2>1, LeaveBehindTyped DEF Flag, Flags, SharedTyped
    <2>4. cached' = None \/ cached' \subseteq File
      BY <1>0, <1>12 DEF Flag, SharedTyped
    <2>5. calls' \in 0..MaxCalls /\ events' \in 0..MaxEvents
      BY <1>12, Bounds DEF Flag
    <2>6. UNCHANGED <<row, terms, store, topic, worker, used, raced, unswapped>>
      BY <1>12 DEF Flag
    <2> QED
      BY <1>0, <2>2, <2>3, <2>4, <2>5, <2>6 DEF SharedTyped
  <1> QED
    BY <1>2, <1>3, <1>4, <1>5, <1>6, <1>7, <1>8, <1>9, <1>10, <1>11, <1>12 DEF RequestStep

LEMMA IndexTyped ==
    ASSUME TypeInv, NEW ids \in SUBSET Vocab PROVE Index(ids) \subseteq File
  BY DEF TypeInv, TypeOK, Index

ReaderStep ==
    \/ \E i \in Ingest : ReadCache(i) \/ LoadTerms(i) \/ WriteTopic(i)
    \/ Expire
    \/ WorkerIds \/ WorkerTerms \/ WorkerTopics \/ WorkerClear \/ WorkerFails

LEMMA ReaderTyped == ASSUME TypeInv, ReaderStep PROVE TypeInv' /\ UNCHANGED <<row, terms, files, req, raced, unswapped>>
  <1>0. SharedTyped /\ ActiveIds \subseteq Vocab
    BY Assemble DEF ActiveIds
  <1>1. UNCHANGED <<row, terms, files, req, raced, unswapped>>
    BY DEF ReaderStep, ReadCache, LoadTerms, WriteTopic, Expire, WorkerIds, WorkerTerms, WorkerTopics,
           WorkerClear, WorkerFails, history, readers
  <1>2. calls' \in 0..MaxCalls /\ events' \in 0..MaxEvents
    BY Bounds DEF ReaderStep, ReadCache, LoadTerms, WriteTopic, Expire, WorkerIds, WorkerTerms, WorkerTopics,
           WorkerClear, WorkerFails, Fault
  <1>3. pending' \in BOOLEAN /\ missed' \in BOOLEAN
    BY <1>0 DEF SharedTyped, ReaderStep, ReadCache, LoadTerms, WriteTopic, Expire, WorkerIds, WorkerTerms,
           WorkerTopics, WorkerClear, WorkerFails, history, readers
  <1>4. /\ topic' \subseteq File /\ (cached' = None \/ cached' \subseteq File) /\ behind' \in BOOLEAN
        /\ ingest' \in [Ingest -> Expansion] /\ worker' \in Run
    <2>1. ASSUME NEW i \in Ingest, ReadCache(i)
          PROVE  /\ UNCHANGED <<topic, cached, behind, worker>> /\ ingest' \in [Ingest -> Expansion]
      <3>1. UNCHANGED <<topic, cached, behind, worker>>
        BY <2>1 DEF ReadCache, readers, history
      <3>2. cached # None => [NoExpansion EXCEPT !.pc = "write", !.index = cached] \in Expansion
        BY <1>0 DEF SharedTyped, NoExpansion, Expansion
      <3>3. [NoExpansion EXCEPT !.pc = "terms", !.ids = ActiveIds] \in Expansion
        BY <1>0 DEF NoExpansion, Expansion
      <3> QED
        BY <1>0, <2>1, <3>1, <3>2, <3>3 DEF ReadCache, SharedTyped
    <2>2. ASSUME NEW i \in Ingest, LoadTerms(i)
          PROVE  /\ UNCHANGED <<topic, worker>> /\ ingest' \in [Ingest -> Expansion]
                 /\ cached' \subseteq File /\ behind' \in BOOLEAN
      <3>1. ingest[i] \in Expansion /\ ingest[i].ids \subseteq Vocab /\ ingest[i].old \in BOOLEAN
        BY <1>0 DEF SharedTyped, Expansion
      <3>2. PICK x \in SUBSET File : x = Index(ingest[i].ids)
        BY <3>1, IndexTyped
      <3>3. [ingest[i] EXCEPT !.pc = "write", !.index = x] \in Expansion
        BY <3>1 DEF Expansion
      <3>4. ingest' = [ingest EXCEPT ![i] = [ingest[i] EXCEPT !.pc = "write", !.index = x]]
        BY <1>0, <2>2, <3>2 DEF LoadTerms, SharedTyped
      <3> QED
        BY <1>0, <2>2, <3>1, <3>2, <3>3, <3>4 DEF LoadTerms, SharedTyped
    <2>3. ASSUME NEW i \in Ingest, WriteTopic(i)
          PROVE  /\ UNCHANGED <<cached, worker, behind>> /\ ingest' \in [Ingest -> Expansion]
                 /\ topic' \subseteq File
      <3>1. NoExpansion \in Expansion /\ ingest[i].index \subseteq File
        BY <1>0 DEF SharedTyped, NoExpansion, Expansion
      <3> QED
        BY <1>0, <2>3, <3>1 DEF WriteTopic, SharedTyped
    <2>4. ASSUME Expire
          PROVE  UNCHANGED <<topic, ingest, worker>> /\ cached' = None /\ behind' \in BOOLEAN
      BY <2>4 DEF Expire
    <2>5. ASSUME WorkerIds \/ WorkerTerms \/ WorkerTopics \/ WorkerClear \/ WorkerFails
          PROVE  UNCHANGED <<cached, behind, ingest>> /\ topic' \subseteq File /\ worker' \in Run
      <3>1. NoRun \in Run /\ [NoRun EXCEPT !.pc = "terms", !.ids = ActiveIds] \in Run
        BY <1>0 DEF NoRun, Run
      <3>2. worker \in Run /\ worker.ids \subseteq Vocab /\ worker.index \subseteq File
        BY <1>0 DEF SharedTyped, Run
      <3>3. PICK x \in SUBSET File : x = Index(worker.ids)
        BY <3>2, IndexTyped
      <3>4. [worker EXCEPT !.pc = "topics", !.index = x] \in Run /\ [worker EXCEPT !.pc = "clear"] \in Run
        BY <3>2 DEF Run
      <3>5. UNCHANGED <<cached, behind, ingest>>
        BY <2>5 DEF WorkerIds, WorkerTerms, WorkerTopics, WorkerClear, WorkerFails, readers, history
      <3>6. topic' \subseteq File
        BY <1>0, <2>5, <3>2 DEF SharedTyped, WorkerIds, WorkerTerms, WorkerTopics, WorkerClear, WorkerFails
      <3>7. worker' \in Run
        BY <2>5, <3>1, <3>3, <3>4 DEF WorkerIds, WorkerTerms, WorkerTopics, WorkerClear, WorkerFails
      <3> QED
        BY <3>5, <3>6, <3>7
    <2> QED
      BY <1>0, <2>1, <2>2, <2>3, <2>4, <2>5 DEF ReaderStep, SharedTyped
  <1> QED
    BY <1>0, <1>1, <1>2, <1>3, <1>4, Assemble DEF SharedTyped, files, Shapes, TypeInv, TypeOK

LEMMA CrashTyped == ASSUME TypeInv, Crash PROVE TypeInv'
  <1>0. SharedTyped
    BY Assemble
  <1>1. NoExpansion \in Expansion /\ NoRun \in Run
    BY DEF NoExpansion, Expansion, NoRun, Run
  <1>2. SharedTyped'
    BY <1>0, <1>1, Bounds DEF Crash, SharedTyped, files
  <1>3. req' \in [Request -> {None} \cup Call] /\ Shapes'
    BY DEF Crash, Shapes
  <1> QED
    BY <1>2, <1>3, Assemble

LEMMA NextCases ==
    ASSUME [Next]_vars
    PROVE  \/ \E r \in Request : BeginCreate(r) \/ BeginUpdate(r) \/ BeginDelete(r) \/ RequestStep(r)
           \/ ReaderStep \/ Crash \/ UNCHANGED vars
  BY DEF Next, RequestStep, ReaderStep

LEMMA TypeInvariant == Spec => []TypeInv
  <1>1. TypeInv /\ [Next]_vars => TypeInv'
    <2> SUFFICES ASSUME TypeInv, [Next]_vars PROVE TypeInv'
      OBVIOUS
    <2>1. CASE UNCHANGED vars
      BY <2>1 DEF vars, readers, files, bounds, history, TypeInv, TypeOK, Shapes
    <2>2. ASSUME NEW r \in Request, RequestStep(r) PROVE TypeInv'
      BY <2>2, StepShared, StepShapes, Assemble
    <2> QED
      BY <2>1, <2>2, NextCases, BeginTyped, ReaderTyped, CrashTyped
  <1> QED
    BY <1>1, InitTypeInv, PTL DEF Spec

\* TypeOK: the state is well typed, and a request has what its next step needs.
THEOREM TypeCorrect == Spec => []TypeOK
  BY TypeInvariant, PTL DEF TypeInv
-----------------------------------------------------------------------------
(* The file of a row                                                       *)

\* Who may name a file: the row of v, or a request on v.
Names(r, f) == req[r] # None /\ (req[r].file = f \/ (req[r].loaded # None /\ req[r].loaded.key = f))
Claims(f, v) ==
    \/ Exists(v) /\ row[v].key = f
    \/ \E r \in Request : Names(r, f) /\ req[r].vocab = v

\* A file is of one vocabulary, and files and ids that are named were taken.
Owned ==
    /\ \A v \in Vocab : Exists(v) => v \in used
    /\ \A r \in Request : req[r] # None => req[r].vocab \in used
    /\ \A f \in File, v \in Vocab : Claims(f, v) =>
          f \in used /\ \A w \in Vocab : Claims(f, w) => v = w

\* A create that has not made its row yet is alone on its id.
Alone(r) ==
    At(r, "create") =>
        /\ ~Exists(On(r))
        /\ \A q \in Request : q # r /\ req[q] # None => req[q].vocab # On(r)

\* Until a request makes its file that of the row nobody else names it.
Private(c) ==
    /\ c.file # None
    /\ \/ c.pc \in {"create", "save", "wipe", "swap"}
       \/ c.op = "update" /\ c.pc \in {"insert", "unfile"}

Unknown(r) ==
    req[r] # None /\ Private(req[r]) =>
        /\ req[r].file \in store
        /\ \A v \in Vocab : Exists(v) => row[v].key # req[r].file
        /\ \A q \in Request : q # r => ~Names(q, req[r].file)
        /\ req[r].loaded # None => req[r].loaded.key # req[r].file

\* A file that a request is going to remove is not that of its row.
Spares(r) ==
    req[r] # None /\ Exists(On(r)) /\ On(r) \notin unswapped =>
        /\ req[r].pc = "unfile" => row[On(r)].key # req[r].file
        /\ req[r].pc = "previous" => row[On(r)].key # req[r].loaded.key

FileInv ==
    /\ Owned
    /\ \A r \in Request : Alone(r) /\ Unknown(r) /\ Spares(r)
    /\ FileThere

\* What a step of a request does to the key of its row, ...
KeyKept(r) == Exists(On(r)) /\ row'[On(r)] # None /\ row'[On(r)].key = row[On(r)].key
KeySet(r) ==
    /\ row'[On(r)] # None /\ row'[On(r)].key = req[r].file /\ Private(req[r])
    /\ At(r, "create") \/ Exists(On(r))
    /\ req'[r] # None => ~Private(req'[r])
    /\ store' = store
RowStep(r) ==
    /\ \A v \in Vocab : v # On(r) => row'[v] = row[v]
    /\ row'[On(r)] = None \/ KeyKept(r) \/ KeySet(r)

\* ... to the bucket, ...
StoreStep(r) ==
    \/ store' = store
    \/ /\ row' = row
       /\ req'[r] # None => ~Private(req'[r])
       /\ \/ req[r].pc = "unfile" /\ req[r].file # None /\ store' = store \ {req[r].file}
          \/ req[r].pc = "previous" /\ req[r].loaded # None /\ store' = store \ {req[r].loaded.key}

\* ... and to what it knows.
KnowStep(r) ==
    /\ req[r] # None /\ Others(r)
    /\ used' = used /\ unswapped \subseteq unswapped'
    /\ req'[r] # None =>
         /\ req'[r].vocab = req[r].vocab /\ req'[r].file = req[r].file
         /\ req'[r].loaded = req[r].loaded /\ req'[r].pc # "create"
         /\ Private(req'[r]) => Private(req[r])
         /\ req'[r].pc = "unfile" =>
              \/ row' = row /\ (At(r, "create") \/ Private(req[r]))
              \/ row'[On(r)] = None \/ On(r) \in unswapped'
         /\ req'[r].pc = "previous" =>
              \/ row'[On(r)] = None \/ On(r) \in unswapped'
              \/ row'[On(r)].key = req[r].file /\ Private(req[r]) /\ req[r].loaded # None

LEMMA RowSteps == ASSUME TypeInv, NEW r \in Request, RequestStep(r) PROVE RowStep(r)
  <1>0. req[r] # None /\ Moves(r) /\ req[r] \in Call /\ OpShape(req[r]) /\ On(r) \in Vocab
    BY StepMoves, Known DEF Moves
  <1>1. ASSUME row' = row PROVE RowStep(r)
    BY <1>1 DEF RowStep, KeyKept, Exists
  <1>2. CASE CreateRow(r)
    <2>1. CASE row' = row
      BY <1>1, <2>1
    <2>2. CASE row' # row
      <3>1. row'[On(r)] \in Row /\ row'[On(r)].key = req[r].file /\ req[r].file \in File
            /\ req'[r].pc = "insert" /\ req[r].pc = "create"
            /\ \A v \in Vocab : v # On(r) => row'[v] = row[v]
        BY <1>2, <2>2, CreateRowActs
      <3>2. req[r].op = "create" /\ store' = store
        BY <1>0, <1>2, <3>1 DEF OpShape, CreateRow, Call
      <3>3. req'[r] # None => req'[r].op = "create"
        BY <1>0, <3>1, <3>2 DEF Moves, At, Onward
      <3>4. req[r].file # None /\ row'[On(r)] # None
        BY <3>1, Apart
      <3>5. Private(req[r]) /\ (req'[r] # None => ~Private(req'[r]))
        BY <3>1, <3>3, <3>4 DEF Private
      <3>6. KeySet(r)
        BY <1>0, <3>1, <3>2, <3>4, <3>5 DEF KeySet, At
      <3> QED
        BY <3>1, <3>6 DEF RowStep
    <2> QED
      BY <2>1, <2>2
  <1>3. CASE SaveHeader(r)
    <2>1. CASE row' = row
      BY <1>1, <2>1
    <2>2. CASE row' # row
      BY <1>3, <2>2, SaveHeaderActs, Apart DEF RowStep, KeyKept
    <2> QED
      BY <2>1, <2>2
  <1>4. CASE MarkFailed(r)
    <2>1. CASE row' = row
      BY <1>1, <2>1
    <2>2. CASE row' # row
      BY <1>4, <2>2, MarkFailedActs, Apart DEF RowStep, KeyKept
    <2> QED
      BY <2>1, <2>2
  <1>5. CASE SwapKey(r)
    <2>1. CASE row' = row
      BY <1>1, <2>1
    <2>2. CASE row' # row
      <3>1. /\ Exists(On(r)) /\ row'[On(r)] \in Row /\ row'[On(r)].key = req[r].file /\ req[r].file \in File
            /\ req'[r].pc = "previous" /\ req[r].pc = "swap"
            /\ \A v \in Vocab : v # On(r) => row'[v] = row[v]
        BY <1>5, <2>2, SwapKeyActs
      <3>2. store' = store
        BY <1>5 DEF SwapKey
      <3>4. req[r].file # None /\ row'[On(r)] # None
        BY <3>1, Apart
      <3>5. Private(req[r]) /\ ~Private(req'[r])
        BY <3>1, <3>4 DEF Private
      <3>6. KeySet(r)
        BY <3>1, <3>2, <3>4, <3>5 DEF KeySet
      <3> QED
        BY <3>1, <3>6 DEF RowStep
    <2> QED
      BY <2>1, <2>2
  <1>6. CASE RemoveRow(r)
    <2>1. CASE row' = row
      BY <1>1, <2>1
    <2>2. CASE row' # row
      BY <1>6, <2>2, RemoveRowActs DEF RowStep
    <2> QED
      BY <2>1, <2>2
  <1>7. CASE \/ WipeTerms(r) \/ InsertTerms(r) \/ DropPrevious(r) \/ RemoveTerms(r)
             \/ RemoveFile(r) \/ Flag(r)
    BY <1>1, <1>7 DEF WipeTerms, InsertTerms, DropPrevious, RemoveTerms, RemoveFile, Flag
  <1> QED
    BY <1>2, <1>3, <1>4, <1>5, <1>6, <1>7 DEF RequestStep

LEMMA StoreSteps == ASSUME TypeInv, NEW r \in Request, RequestStep(r) PROVE StoreStep(r)
  <1>0. req[r] # None /\ Moves(r) /\ req[r] \in Call /\ OpShape(req[r])
    BY StepMoves, Known DEF Moves
  <1>1. CASE DropPrevious(r)
    <2>1. req[r].pc = "previous" /\ row' = row /\ (store' = store \/ store' = store \ {req[r].loaded.key})
      BY <1>1 DEF DropPrevious, Previous, At
    <2>2. req[r].loaded # None
      BY <1>0, <2>1 DEF OpShape, Call
    <2>3. req'[r].pc = "flag"
      BY <1>0, <2>1 DEF Moves, At, Onward
    <2> QED
      BY <2>1, <2>2, <2>3 DEF StoreStep, Private
  <1>2. CASE RemoveFile(r)
    <2>1. req[r].pc = "unfile" /\ row' = row /\ (store' = store \/ store' = store \ {req[r].file})
      BY <1>2 DEF RemoveFile, At
    <2>2. req[r].file # None
      BY <1>0, <2>1 DEF OpShape, Call
    <2>3. req'[r] = None \/ req'[r].pc = "flag"
      BY <1>0, <2>1 DEF Moves, At, Onward, Ends
    <2> QED
      BY <2>1, <2>2, <2>3 DEF StoreStep, Private
  <1>3. CASE ~DropPrevious(r) /\ ~RemoveFile(r)
    BY <1>3 DEF RequestStep, StoreStep, CreateRow, SaveHeader, WipeTerms, InsertTerms, MarkFailed, SwapKey,
                RemoveTerms, RemoveRow, Flag
  <1> QED
    BY <1>1, <1>2, <1>3

LEMMA KnowSteps == ASSUME TypeInv, NEW r \in Request, RequestStep(r) PROVE KnowStep(r)
  <1>0. /\ req[r] # None /\ Moves(r) /\ Others(r) /\ req[r] \in Call /\ OpShape(req[r])
        /\ req[r].op \in {"create", "update", "delete"} /\ On(r) \in Vocab
    BY StepMoves, Known DEF Moves, Call
  <1>1. used' = used /\ unswapped \subseteq unswapped'
    BY DEF RequestStep, CreateRow, SaveHeader, WipeTerms, InsertTerms, MarkFailed, SwapKey, DropPrevious,
           RemoveTerms, RemoveRow, RemoveFile, Flag, history, files
  <1>2. CASE req'[r] = None
    BY <1>0, <1>1, <1>2 DEF KnowStep
  <1>3. CASE req'[r] # None
    <2>1. PICK s \in Step : Onward(r, s)
      <3>1. \E s \in Step : At(r, s)
        BY <1>0 DEF At, Call
      <3>2. (At(r, "insert") => req[r].op \in {"create", "update"}) /\ ~Ends(r)
        BY <1>0, <1>3 DEF At, OpShape, Ends
      <3> QED
        BY <1>0, <3>1, <3>2, Steps DEF Moves
    <2>2. /\ req'[r].vocab = req[r].vocab /\ req'[r].file = req[r].file /\ req'[r].op = req[r].op
          /\ req'[r].loaded = req[r].loaded /\ req'[r].pc = s
      BY <2>1 DEF Onward
    <2>3. s # "create" /\ (Private(req'[r]) => Private(req[r]))
      BY <1>0, <1>3, <2>1, <2>2 DEF Moves, At, Onward, Ends, OpShape, Private
    <2>4. s = "unfile" => \/ row' = row /\ (At(r, "create") \/ Private(req[r]))
                          \/ row'[On(r)] = None \/ On(r) \in unswapped'
      <3>1. ASSUME s = "unfile"
            PROVE  At(r, "create") \/ (At(r, "save") /\ req[r].file # None) \/ At(r, "unrow")
        BY <1>0, <1>3, <2>1, <2>2, <3>1 DEF Moves, At, Onward, Ends, OpShape
      <3>2. s = "unfile" /\ At(r, "create") => row' = row
        <4> SUFFICES ASSUME s = "unfile", At(r, "create") PROVE row' = row
          OBVIOUS
        <4>1. CreateRow(r)
          BY DEF RequestStep, CreateRow, SaveHeader, WipeTerms, InsertTerms, MarkFailed, SwapKey,
                 DropPrevious, RemoveTerms, RemoveRow, RemoveFile, Flag, At
        <4> QED
          BY <2>2, <4>1, CreateRowActs
      <3>3. s = "unfile" /\ At(r, "save") => row' = row
        <4> SUFFICES ASSUME s = "unfile", At(r, "save") PROVE row' = row
          OBVIOUS
        <4>1. SaveHeader(r)
          BY DEF RequestStep, CreateRow, SaveHeader, WipeTerms, InsertTerms, MarkFailed, SwapKey,
                 DropPrevious, RemoveTerms, RemoveRow, RemoveFile, Flag, At
        <4> QED
          BY <1>3, <2>2, <4>1, SaveHeaderActs
      <3>4. At(r, "unrow") => row'[On(r)] = None \/ On(r) \in unswapped'
        <4> SUFFICES ASSUME At(r, "unrow") PROVE row'[On(r)] = None \/ On(r) \in unswapped'
          OBVIOUS
        <4>1. RemoveRow(r)
          BY DEF RequestStep, CreateRow, SaveHeader, WipeTerms, InsertTerms, MarkFailed, SwapKey,
                 DropPrevious, RemoveTerms, RemoveRow, RemoveFile, Flag, At
        <4> QED
          BY <4>1, RemoveRowActs
      <3> QED
        BY <3>1, <3>2, <3>3, <3>4 DEF Private, At
    <2>5. s = "previous" => \/ row'[On(r)] = None \/ On(r) \in unswapped'
                            \/ row'[On(r)].key = req[r].file /\ Private(req[r]) /\ req[r].loaded # None
      <3> SUFFICES ASSUME s = "previous"
                   PROVE  \/ row'[On(r)] = None \/ On(r) \in unswapped'
                          \/ row'[On(r)].key = req[r].file /\ Private(req[r]) /\ req[r].loaded # None
        OBVIOUS
      <3>1. At(r, "swap")
        BY <1>0, <1>3, <2>1, <2>2 DEF Moves, At, Onward, Ends, OpShape
      <3>2. SwapKey(r)
        BY <3>1 DEF RequestStep, CreateRow, SaveHeader, WipeTerms, InsertTerms, MarkFailed, SwapKey,
                    DropPrevious, RemoveTerms, RemoveRow, RemoveFile, Flag, At
      <3>3. req[r].op = "update" /\ req[r].file # None /\ req[r].loaded # None /\ req[r].pc = "swap"
        BY <1>0, <3>1 DEF OpShape, At
      <3>4. Private(req[r])
        BY <3>3 DEF Private
      <3>5. row'[On(r)].key = req[r].file \/ (row' = row /\ ~Exists(On(r))) \/ On(r) \in unswapped'
        BY <3>2, SwapKeyActs
      <3> QED
        BY <3>3, <3>4, <3>5 DEF Exists
    <2> QED
      BY <1>0, <1>1, <2>2, <2>3, <2>4, <2>5 DEF KnowStep
  <1> QED
    BY <1>2, <1>3
\* What the invariant says of the requests at work, in the terms of its parts.
LEMMA Named ==
    ASSUME TypeInv, NEW r \in Request, NEW f, Names(r, f)
    PROVE  Claims(f, On(r)) /\ (f # None => f \in File) /\ On(r) \in Vocab
  <1>1. req[r] # None /\ On(r) \in Vocab
    BY Known DEF Names
  <1>2. f # None => f \in File
    <2>1. CASE req[r].file = f
      BY <1>1, <2>1, Known
    <2>2. CASE req[r].loaded # None /\ req[r].loaded.key = f
      <3>1. req[r].loaded \in Row
        BY <1>1, <2>2, Known
      <3> QED
        BY <2>2, <3>1 DEF Row
    <2> QED
      BY <2>1, <2>2 DEF Names
  <1> QED
    BY <1>1, <1>2 DEF Claims, On

\* A step of a request names no file anew.
LEMMA NoNewClaims ==
    ASSUME TypeInv, NEW r \in Request, RowStep(r), KnowStep(r)
    PROVE  /\ \A q \in Request, f \in File : Names(q, f)' => Names(q, f)
           /\ \A f \in File, v \in Vocab : Claims(f, v)' => Claims(f, v)
  <1>0. req[r] # None /\ On(r) \in Vocab
    BY Known DEF KnowStep
  <1>1. ASSUME NEW q \in Request, NEW f \in File, Names(q, f)' PROVE Names(q, f) /\ req'[q].vocab = req[q].vocab
    <2>1. CASE q = r
      BY <1>1, <2>1 DEF Names, KnowStep
    <2>2. CASE q # r
      BY <1>1, <2>2 DEF Names, KnowStep, Others
    <2> QED
      BY <2>1, <2>2
  <1>2. ASSUME NEW f \in File, NEW v \in Vocab, Claims(f, v)' PROVE Claims(f, v)
    <2>1. CASE \E q \in Request : Names(q, f)' /\ req'[q].vocab = v
      BY <1>1, <2>1 DEF Claims
    <2>2. CASE row'[v] # None /\ row'[v].key = f
      <3>1. CASE v # On(r)
        BY <2>2, <3>1 DEF RowStep, Claims, Exists
      <3>2. CASE v = On(r)
        <4>1. CASE KeyKept(r)
          BY <2>2, <3>2, <4>1 DEF KeyKept, Claims
        <4>2. CASE KeySet(r)
          <5>1. Names(r, f)
            BY <1>0, <2>2, <3>2, <4>2 DEF KeySet, Names
          <5> QED
            BY <3>2, <5>1 DEF Claims, On
        <4> QED
          BY <2>2, <3>2, <4>1, <4>2 DEF RowStep
      <3> QED
        BY <3>1, <3>2
    <2> QED
      BY <1>2, <2>1, <2>2 DEF Claims, Exists
  <1> QED
    BY <1>1, <1>2

LEMMA StepKeepsOwned ==
    ASSUME TypeInv, FileInv, NEW r \in Request, RowStep(r), KnowStep(r) PROVE Owned'
  <1>0. req[r] # None /\ On(r) \in Vocab /\ On(r) \in used
    BY Known DEF KnowStep, FileInv, Owned, On
  <1>1. \A v \in Vocab : Exists(v)' => v \in used'
    <2> SUFFICES ASSUME NEW v \in Vocab, Exists(v)' PROVE v \in used'
      OBVIOUS
    <2>1. CASE v = On(r)
      BY <1>0, <2>1 DEF KnowStep
    <2>2. CASE v # On(r)
      BY <2>2 DEF RowStep, KnowStep, Exists, FileInv, Owned
    <2> QED
      BY <2>1, <2>2
  <1>2. \A q \in Request : req'[q] # None => req'[q].vocab \in used'
    BY DEF KnowStep, Others, FileInv, Owned
  <1>3. \A f \in File, v \in Vocab : Claims(f, v)' => f \in used' /\ \A w \in Vocab : Claims(f, w)' => v = w
    BY NoNewClaims DEF FileInv, Owned, KnowStep
  <1> QED
    BY <1>1, <1>2, <1>3 DEF Owned

LEMMA StepKeepsAlone ==
    ASSUME TypeInv, FileInv, NEW r \in Request, RowStep(r), KnowStep(r), NEW q \in Request PROVE Alone(q)'
  <1> SUFFICES ASSUME req'[q] # None, req'[q].pc = "create"
               PROVE  /\ row'[req'[q].vocab] = None
                      /\ \A p \in Request : p # q /\ req'[p] # None => req'[p].vocab # req'[q].vocab
    BY DEF Alone, At, Exists, On
  <1>1. q # r /\ req'[q] = req[q] /\ req[r] # None
    BY DEF KnowStep, Others
  <1>2. row[req[q].vocab] = None /\ \A p \in Request : p # q /\ req[p] # None => req[p].vocab # req[q].vocab
    BY <1>1 DEF FileInv, Alone, At, Exists, On
  <1>3. req[q].vocab \in Vocab /\ req[q].vocab # On(r)
    BY <1>1, <1>2, Known DEF On
  <1>4. row'[req[q].vocab] = None
    BY <1>2, <1>3 DEF RowStep
  <1>5. \A p \in Request : req'[p] # None => req[p] # None /\ req'[p].vocab = req[p].vocab
    BY DEF KnowStep, Others
  <1> QED
    BY <1>1, <1>2, <1>4, <1>5

LEMMA StepKeepsUnknown ==
    ASSUME TypeInv, FileInv, NEW r \in Request, RowStep(r), StoreStep(r), KnowStep(r), NEW q \in Request
    PROVE  Unknown(q)'
  <1> SUFFICES ASSUME req'[q] # None, Private(req'[q])
               PROVE  /\ req'[q].file \in store'
                      /\ \A v \in Vocab : row'[v] # None => row'[v].key # req'[q].file
                      /\ \A p \in Request : p # q /\ req'[p] # None =>
                            /\ req'[p].file # req'[q].file
                            /\ req'[p].loaded # None => req'[p].loaded.key # req'[q].file
                      /\ req'[q].loaded # None => req'[q].loaded.key # req'[q].file
    BY DEF Unknown, Exists, Names
  <1>1. /\ req[q] # None /\ Private(req[q]) /\ req'[q].file = req[q].file /\ req'[q].loaded = req[q].loaded
    BY DEF KnowStep, Others
  <1>2. PICK f \in File : f = req[q].file
    BY <1>1, Known DEF Private
  <1>3. /\ f \in store /\ (\A v \in Vocab : Exists(v) => row[v].key # f)
        /\ (\A p \in Request : p # q => ~Names(p, f)) /\ (req[q].loaded # None => req[q].loaded.key # f)
    BY <1>1, <1>2 DEF FileInv, Unknown
  <1>4. f \in store'
    <2>1. CASE store' # store
      <3>1. q # r
        BY <2>1 DEF StoreStep
      <3>2. ~Names(r, f) /\ req[r] # None
        BY <1>3, <3>1 DEF KnowStep
      <3> QED
        BY <1>3, <3>2 DEF StoreStep, Names
    <2> QED
      BY <1>3, <2>1
  <1>5. \A v \in Vocab : row'[v] # None => row'[v].key # f
    <2> SUFFICES ASSUME NEW v \in Vocab, row'[v] # None PROVE row'[v].key # f
      OBVIOUS
    <2>1. CASE v # On(r) \/ KeyKept(r)
      BY <1>3, <2>1 DEF RowStep, KeyKept, Exists
    <2>2. CASE v = On(r) /\ KeySet(r)
      <3>1. q # r
        BY <2>2 DEF KeySet
      <3>2. ~Names(r, f) /\ req[r] # None
        BY <1>3, <3>1 DEF KnowStep
      <3> QED
        BY <2>2, <3>2 DEF KeySet, Names
    <2> QED
      BY <2>1, <2>2 DEF RowStep
  <1>6. \A p \in Request : p # q => ~Names(p, f)'
    BY <1>3, NoNewClaims
  <1>7. req'[q].file = f
    BY <1>1, <1>2
  <1>8. \A p \in Request : p # q /\ req'[p] # None =>
          req'[p].file # f /\ (req'[p].loaded # None => req'[p].loaded.key # f)
    BY <1>6 DEF Names
  <1> QED
    BY <1>1, <1>3, <1>4, <1>5, <1>6, <1>7, <1>8

LEMMA StepKeepsSpares ==
    ASSUME TypeInv, FileInv, NEW r \in Request, RowStep(r), KnowStep(r), NEW q \in Request
    PROVE  Spares(q)'
  <1>0. /\ req[r] # None /\ On(r) \in Vocab
        /\ \A p \in Request : req'[p] # None =>
              /\ req[p] # None /\ req'[p].vocab = req[p].vocab /\ req[p].vocab \in Vocab
              /\ req'[p].file = req[p].file /\ req'[p].loaded = req[p].loaded
    BY Known DEF KnowStep, Others, On
  <1> SUFFICES ASSUME req'[q] # None, row'[On(q)] # None, On(q) \notin unswapped'
               PROVE  /\ req'[q].pc = "unfile" => row'[On(q)].key # req[q].file
                      /\ req'[q].pc = "previous" => row'[On(q)].key # req[q].loaded.key
    BY <1>0 DEF Spares, Exists, On
  <1>1. On(q) \notin unswapped /\ On(q) \in Vocab /\ req[q] # None
    BY <1>0 DEF KnowStep, On
  <1>2. CASE q = r
    <2>1. ASSUME req'[r].pc = "unfile" PROVE row'[On(r)].key # req[r].file
      <3>1. row' = row /\ (At(r, "create") \/ Private(req[r]))
        BY <1>2, <2>1 DEF KnowStep
      <3>2. ~At(r, "create")
        BY <1>2, <3>1 DEF FileInv, Alone, Exists
      <3> QED
        BY <1>0, <1>2, <3>1, <3>2 DEF FileInv, Unknown, Exists
    <2>2. ASSUME req'[r].pc = "previous" PROVE row'[On(r)].key # req[r].loaded.key
      <3>1. row'[On(r)].key = req[r].file /\ Private(req[r]) /\ req[r].loaded # None
        BY <1>2, <2>2 DEF KnowStep
      <3> QED
        BY <1>0, <3>1 DEF FileInv, Unknown
    <2> QED
      BY <1>2, <2>1, <2>2
  <1>3. CASE q # r
    <2>0. req'[q] = req[q]
      BY <1>3 DEF KnowStep, Others
    <2>1. CASE On(q) # On(r) \/ KeyKept(r)
      <3>1. Exists(On(q)) /\ row'[On(q)].key = row[On(q)].key
        BY <1>1, <2>1 DEF RowStep, KeyKept, Exists
      <3> QED
        BY <1>1, <2>0, <3>1 DEF FileInv, Spares
    <2>2. CASE On(q) = On(r) /\ KeySet(r)
      <3>1. ~Names(q, req[r].file) /\ row'[On(q)].key = req[r].file
        BY <1>0, <1>3, <2>2 DEF KeySet, FileInv, Unknown
      <3>2. req[q].pc = "previous" => req[q].loaded # None
        BY <1>1, Known DEF OpShape, Call
      <3> QED
        BY <1>1, <2>0, <3>1, <3>2 DEF Names
    <2> QED
      BY <2>1, <2>2 DEF RowStep
  <1> QED
    BY <1>2, <1>3

LEMMA StepKeepsFile ==
    ASSUME TypeInv, FileInv, NEW r \in Request, RowStep(r), StoreStep(r), KnowStep(r)
    PROVE  FileThere'
  <1>0. req[r] # None /\ On(r) \in Vocab
    BY Known DEF KnowStep
  <1> SUFFICES ASSUME NEW v \in Vocab, v \notin unswapped', row'[v] # None PROVE row'[v].key \in store'
    BY DEF FileThere, Exists
  <1>1. v \notin unswapped
    BY DEF KnowStep
  <1>2. CASE KeySet(r) /\ v = On(r)
    BY <1>0, <1>2 DEF KeySet, FileInv, Unknown
  <1>3. CASE v # On(r) \/ KeyKept(r)
    <2>1. Exists(v) /\ row'[v].key = row[v].key /\ row[v].key \in store
      BY <1>1, <1>3 DEF RowStep, KeyKept, Exists, FileInv, FileThere
    <2>2. PICK f \in File : f = row[v].key
      BY <2>1, RowNow
    <2>3. Claims(f, v)
      BY <2>1, <2>2 DEF Claims
    <2>4. CASE v # On(r)
      <3>1. ~Names(r, f)
        BY <2>3, <2>4, Named DEF FileInv, Owned
      <3> QED
        BY <1>0, <2>1, <2>2, <3>1 DEF StoreStep, Names
    <2>5. CASE v = On(r)
      <3>1. /\ req[r].pc = "unfile" => f # req[r].file
            /\ req[r].pc = "previous" => f # req[r].loaded.key
        BY <1>0, <1>1, <2>1, <2>2, <2>5 DEF FileInv, Spares
      <3> QED
        BY <2>1, <2>2, <3>1 DEF StoreStep
    <2> QED
      BY <2>4, <2>5
  <1> QED
    BY <1>2, <1>3 DEF RowStep

LEMMA StepKeepsFileInv == ASSUME TypeInv, FileInv, NEW r \in Request, RequestStep(r) PROVE FileInv'
  BY RowSteps, StoreSteps, KnowSteps, StepKeepsOwned, StepKeepsAlone, StepKeepsUnknown, StepKeepsSpares,
     StepKeepsFile DEF FileInv

\* What a new request c knows: a new file, or the row as it is.
Fresh(c) == c.file \notin used /\ c.file \in used' /\ c.file \in store'
Knows(r, c) ==
    /\ req[r] = None /\ req'[r] = c /\ c \in Call /\ Others(r)
    /\ row' = row /\ unswapped' = unswapped /\ used \subseteq used' /\ store \subseteq store'
    /\ c.vocab \in used' /\ c.pc \notin {"unfile", "previous"}
    /\ IF c.pc = "create" THEN c.vocab \notin used /\ c.loaded = None ELSE Exists(c.vocab)
    /\ c.loaded # None => c.loaded = row[c.vocab]
    /\ \/ c.file = None \/ Fresh(c)
       \/ ~Private(c) /\ c.file = row[c.vocab].key

LEMMA BeginKnows ==
    ASSUME TypeInv, Owned, NEW r \in Request, BeginCreate(r) \/ BeginUpdate(r) \/ BeginDelete(r)
    PROVE  \E c \in Call : Knows(r, c)
  <1>0. SharedTyped /\ req \in [Request -> {None} \cup Call]
    BY Assemble DEF TypeInv, TypeOK
  <1>1. ASSUME NEW c, c \in Call, req' = [req EXCEPT ![r] = c] PROVE req'[r] = c /\ Others(r)
    BY <1>0, <1>1 DEF Others
  <1>2. CASE BeginCreate(r)
    <2>1. PICK v \in Vocab \ used, n \in Name, f \in File \ used, s \in BOOLEAN :
            /\ req' = [req EXCEPT ![r] = [pc |-> "create", op |-> "create", vocab |-> v, loaded |-> None,
                                          name |-> n, file |-> f, inSearch |-> s, failed |-> FALSE]]
            /\ used' = used \cup {v, f}
            /\ store' = store \cup {f}
      BY <1>2 DEF BeginCreate
    <2> DEFINE c == [pc |-> "create", op |-> "create", vocab |-> v, loaded |-> None,
                     name |-> n, file |-> f, inSearch |-> s, failed |-> FALSE]
    <2>2. c \in Call /\ c.pc = "create" /\ c.vocab = v /\ c.loaded = None /\ c.file = f
      BY DEF Call, Step
    <2>3. req[r] = None /\ row' = row /\ unswapped' = unswapped
      BY <1>2 DEF BeginCreate, history
    <2> HIDE DEF c
    <2>4. req'[r] = c /\ Others(r)
      BY <1>1, <2>1, <2>2 DEF c
    <2> QED
      BY <2>1, <2>2, <2>3, <2>4 DEF Knows, Fresh
  <1>3. CASE BeginUpdate(r)
    <2>1. PICK v \in Vocab, f \in {None} \cup (File \ used), s \in BOOLEAN :
            /\ Exists(v)
            /\ req' = [req EXCEPT ![r] = [pc |-> "save", op |-> "update", vocab |-> v,
                                          loaded |-> row[v], name |-> None, file |-> f,
                                          inSearch |-> s, failed |-> FALSE]]
            /\ used' = used \cup ({f} \ {None})
            /\ store' = store \cup ({f} \ {None})
      BY <1>3 DEF BeginUpdate
    <2> DEFINE c == [pc |-> "save", op |-> "update", vocab |-> v, loaded |-> row[v],
                     name |-> None, file |-> f, inSearch |-> s, failed |-> FALSE]
    <2>2. c \in Call /\ c.pc = "save" /\ c.vocab = v /\ c.loaded = row[v] /\ c.file = f
      BY <1>0 DEF Call, Step, SharedTyped
    <2>3. req[r] = None /\ row' = row /\ unswapped' = unswapped
      BY <1>3 DEF BeginUpdate
    <2> HIDE DEF c
    <2>4. req'[r] = c /\ Others(r)
      BY <1>1, <2>1, <2>2 DEF c
    <2>5. v \in used
      BY <2>1 DEF Owned
    <2> QED
      BY <2>1, <2>2, <2>3, <2>4, <2>5 DEF Knows, Fresh
  <1>4. CASE BeginDelete(r)
    <2>1. PICK v \in Vocab :
            /\ Exists(v)
            /\ req' = [req EXCEPT ![r] = [pc |-> "unterms", op |-> "delete", vocab |-> v,
                                          loaded |-> row[v], name |-> None, file |-> row[v].key,
                                          inSearch |-> row[v].inSearch, failed |-> FALSE]]
      BY <1>4 DEF BeginDelete
    <2> DEFINE c == [pc |-> "unterms", op |-> "delete", vocab |-> v, loaded |-> row[v],
                     name |-> None, file |-> row[v].key, inSearch |-> row[v].inSearch, failed |-> FALSE]
    <2>2. /\ c \in Call /\ c.pc = "unterms" /\ c.op = "delete" /\ c.vocab = v /\ c.loaded = row[v]
          /\ c.file = row[v].key
      BY <1>0, <2>1, RowNow DEF Call, Step, SharedTyped, Exists
    <2>3. req[r] = None /\ row' = row /\ unswapped' = unswapped /\ used' = used /\ store' = store
      BY <1>4 DEF BeginDelete
    <2> HIDE DEF c
    <2>4. req'[r] = c /\ Others(r)
      BY <1>1, <2>1, <2>2 DEF c
    <2>5. v \in used /\ ~Private(c)
      BY <2>1, <2>2 DEF Owned, Private
    <2> QED
      BY <2>1, <2>2, <2>3, <2>4, <2>5 DEF Knows
  <1> QED
    BY <1>2, <1>3, <1>4

LEMMA BeginKeepsFileInv ==
    ASSUME TypeInv, FileInv, NEW r \in Request, NEW c \in Call, Knows(r, c) PROVE FileInv'
  <1>0. /\ c # None /\ c.vocab \in Vocab /\ (c.file # None => c.file \in File)
        /\ (c.loaded # None => c.loaded \in Row /\ c.loaded.key \in File)
        /\ req[r] = None /\ req'[r] = c /\ row' = row
    BY Apart DEF Call, Knows, Row
  <1>1. \A q \in Request : q # r => req'[q] = req[q]
    BY DEF Knows, Others
  <1>2. \A f \in File, v \in Vocab : Claims(f, v) => f \in used
    BY DEF FileInv, Owned
  <1>3. \A v \in Vocab : Exists(v) => row[v].key \in File /\ row[v].key \in used
    BY <1>2, RowNow DEF Claims
  <1>4. \A q \in Request, f \in File : Names(q, f) => f \in used
    BY <1>2, Named
  <1>5. ASSUME NEW f \in File, NEW v \in Vocab, Claims(f, v)'
        PROVE  Claims(f, v) \/ (v = c.vocab /\ f = c.file /\ Fresh(c))
    <2>1. CASE Exists(v)' /\ row'[v].key = f
      BY <1>0, <2>1 DEF Claims, Exists
    <2>2. ASSUME NEW q \in Request, Names(q, f)', req'[q].vocab = v, q # r PROVE Claims(f, v)
      BY <1>1, <2>2 DEF Claims, Names
    <2>3. CASE Names(r, f)' /\ c.vocab = v
      <3>1. CASE c.loaded # None /\ c.loaded.key = f
        <4>1. Exists(v) /\ row[v].key = f
          BY <2>3, <3>1 DEF Knows
        <4> QED
          BY <4>1 DEF Claims
      <3>2. CASE c.file = f
        <4>1. Fresh(c) \/ c.file = row[c.vocab].key
          BY <1>0, <3>2, Apart DEF Knows
        <4>2. c.file = row[c.vocab].key /\ ~Fresh(c) => Exists(v)
          BY <1>0, <2>3, <3>2, Apart DEF Knows, Private
        <4> QED
          BY <2>3, <3>2, <4>1, <4>2 DEF Claims
      <3> QED
        BY <1>0, <2>3, <3>1, <3>2 DEF Names
    <2> QED
      BY <1>0, <1>5, <2>1, <2>2, <2>3 DEF Claims
  <1>6. Owned'
    <2>1. \A v \in Vocab : Exists(v)' => v \in used'
      BY <1>0 DEF Exists, Knows, FileInv, Owned
    <2>2. \A q \in Request : req'[q] # None => req'[q].vocab \in used'
      BY <1>0, <1>1 DEF Knows, FileInv, Owned
    <2>3. \A f \in File, v \in Vocab : Claims(f, v)' => f \in used' /\ \A w \in Vocab : Claims(f, w)' => v = w
      BY <1>2, <1>5 DEF FileInv, Owned, Knows, Fresh
    <2> QED
      BY <2>1, <2>2, <2>3 DEF Owned
  <1>7. ASSUME NEW q \in Request PROVE Alone(q)'
    <2> SUFFICES ASSUME req'[q] # None, req'[q].pc = "create"
                 PROVE  /\ row'[req'[q].vocab] = None
                        /\ \A p \in Request : p # q /\ req'[p] # None => req'[p].vocab # req'[q].vocab
      BY DEF Alone, At, Exists, On
    <2>1. CASE q = r
      <3>1. c.pc = "create" /\ c.vocab \notin used
        BY <1>0, <2>1 DEF Knows
      <3>2. row[c.vocab] = None /\ \A p \in Request : req[p] # None => req[p].vocab # c.vocab
        BY <1>0, <3>1 DEF FileInv, Owned, Exists
      <3> QED
        BY <1>0, <1>1, <2>1, <3>2
    <2>2. CASE q # r
      <3>1. /\ row[req[q].vocab] = None /\ req[q] # None /\ req[q].vocab \in used
            /\ \A p \in Request : p # q /\ req[p] # None => req[p].vocab # req[q].vocab
        BY <1>1, <2>2 DEF FileInv, Alone, At, Exists, On, Owned
      <3>2. c.vocab # req[q].vocab
        BY <3>1 DEF Knows, Exists
      <3> QED
        BY <1>0, <1>1, <2>2, <3>1, <3>2
    <2> QED
      BY <2>1, <2>2
  <1>8. ASSUME NEW q \in Request PROVE Unknown(q)'
    <2> SUFFICES ASSUME req'[q] # None, Private(req'[q])
                 PROVE  /\ req'[q].file \in store'
                        /\ \A v \in Vocab : row'[v] # None => row'[v].key # req'[q].file
                        /\ \A p \in Request : p # q /\ req'[p] # None =>
                              /\ req'[p].file # req'[q].file
                              /\ req'[p].loaded # None => req'[p].loaded.key # req'[q].file
                        /\ req'[q].loaded # None => req'[q].loaded.key # req'[q].file
      BY DEF Unknown, Exists, Names
    <2>1. CASE q = r
      <3>1. c.file \in File /\ Fresh(c)
        BY <1>0, <2>1 DEF Knows, Private
      <3>2. \A v \in Vocab : row[v] # None => row[v].key # c.file
        BY <1>3, <3>1 DEF Exists, Fresh
      <3>3. \A p \in Request : ~Names(p, c.file)
        BY <1>4, <3>1 DEF Fresh
      <3>4. c.loaded # None => c.loaded.key # c.file
        BY <1>0, <3>2 DEF Knows
      <3> QED
        BY <1>0, <1>1, <2>1, <3>1, <3>2, <3>3, <3>4 DEF Names, Fresh
    <2>2. CASE q # r
      <3>1. req'[q] = req[q]
        BY <1>1, <2>2
      <3>2. PICK f \in File : f = req[q].file
        BY <3>1, Known DEF Private
      <3>3. /\ f \in store /\ (\A v \in Vocab : Exists(v) => row[v].key # f)
            /\ (\A p \in Request : p # q => ~Names(p, f)) /\ (req[q].loaded # None => req[q].loaded.key # f)
        BY <3>1, <3>2 DEF FileInv, Unknown
      <3>4. f \in used
        BY <1>4, <3>1, <3>2 DEF Names
      <3>5. c.loaded # None => c.loaded.key # f
        BY <1>0, <3>3 DEF Knows, Exists
      <3>6. c.file # f
        <4>1. c.file = None \/ Fresh(c) \/ (c.file = row[c.vocab].key /\ Exists(c.vocab))
          BY DEF Knows, Private
        <4> QED
          BY <1>0, <3>3, <3>4, <4>1, Apart DEF Fresh
      <3> QED
        BY <1>0, <1>1, <3>1, <3>2, <3>3, <3>5, <3>6 DEF Names, Knows, Exists
    <2> QED
      BY <2>1, <2>2
  <1>9. ASSUME NEW q \in Request PROVE Spares(q)'
    <2>1. CASE q = r
      BY <1>0, <2>1 DEF Knows, Spares
    <2>2. CASE q # r
      BY <1>0, <1>1, <2>2 DEF Knows, Spares, FileInv, On, Exists
    <2> QED
      BY <2>1, <2>2
  <1>10. FileThere'
    BY <1>0 DEF FileInv, FileThere, Knows, Exists
  <1> QED
    BY <1>6, <1>7, <1>8, <1>9, <1>10 DEF FileInv

LEMMA InitFileInv == Init => FileInv
  BY DEF Init, FileInv, Owned, Alone, Unknown, Spares, FileThere, Claims, Names, At, Exists

LEMMA RestKeepsFileInv ==
    ASSUME FileInv, UNCHANGED <<row, store, used, unswapped>>, req' = req \/ \A r \in Request : req'[r] = None
    PROVE  FileInv'
  <1>1. CASE req' = req
    BY <1>1 DEF FileInv, Owned, Alone, Unknown, Spares, FileThere, Claims, Names, At, Exists, On
  <1>2. CASE \A r \in Request : req'[r] = None
    <2>1. \A f, v : Claims(f, v)' => Claims(f, v)
      BY <1>2 DEF Claims, Names, Exists
    <2>2. Owned'
      BY <1>2, <2>1 DEF FileInv, Owned, Exists
    <2>3. FileThere'
      BY DEF FileInv, FileThere, Exists
    <2> QED
      BY <1>2, <2>2, <2>3 DEF FileInv, Alone, Unknown, Spares, At
  <1> QED
    BY <1>1, <1>2

LEMMA FileStays == TypeInv /\ FileInv /\ [Next]_vars => FileInv'
  <1> SUFFICES ASSUME TypeInv, FileInv, [Next]_vars PROVE FileInv'
    OBVIOUS
  <1>1. CASE UNCHANGED vars
    BY <1>1, RestKeepsFileInv DEF vars, history
  <1>2. CASE ReaderStep
    <2>1. UNCHANGED <<row, store, used, unswapped>> /\ req' = req
      BY <1>2, ReaderTyped DEF files
    <2> QED
      BY <2>1, RestKeepsFileInv
  <1>3. CASE Crash
    <2>1. UNCHANGED <<row, store, used, unswapped>> /\ \A r \in Request : req'[r] = None
      BY <1>3 DEF Crash, files
    <2> QED
      BY <2>1, RestKeepsFileInv
  <1>4. ASSUME NEW r \in Request, BeginCreate(r) \/ BeginUpdate(r) \/ BeginDelete(r) PROVE FileInv'
    <2>1. PICK c \in Call : Knows(r, c)
      BY <1>4, BeginKnows DEF FileInv
    <2> QED
      BY <2>1, BeginKeepsFileInv
  <1>5. ASSUME NEW r \in Request, RequestStep(r) PROVE FileInv'
    BY <1>5, StepKeepsFileInv
  <1> QED
    BY <1>1, <1>2, <1>3, <1>4, <1>5, NextCases

\* FileThere: the file that a row names for download is in the bucket, whatever
\* requests on it overlap or fail, unless the error of the one save that would
\* have named another file, or of the removal of the row, was swallowed.
THEOREM NamedFileIsThere == Spec => []FileThere
  <1>1. FileInv => FileThere
    BY DEF FileInv
  <1> QED
    BY <1>1, FileStays, TypeInvariant, InitFileInv, PTL DEF Spec

-----------------------------------------------------------------------------
(* The terms of a file                                                     *)

Match(v) ==
    /\ Exists(v) /\ row[v].ready => terms[v] = {row[v].file}
    /\ ~Exists(v) => terms[v] = {}

\* How far the only request on a vocabulary has brought its row and terms.
Reached(r) ==
    /\ At(r, "create") => ~Exists(On(r)) /\ terms[On(r)] = {}
    /\ req[r].pc \in {"save", "swap", "previous", "unfile", "flag"} => Match(On(r))
    /\ req[r].pc \in {"wipe", "insert"} => Exists(On(r)) /\ row[On(r)].file = req[r].file
    /\ req[r].pc \in {"insert", "unrow"} => terms[On(r)] = {}
    /\ At(r, "fail") => Exists(On(r))

TermInv ==
    /\ \A v \in Vocab : v \notin used => terms[v] = {}
    /\ \A r, q \in Request :
          req[r] # None /\ req[q] # None /\ On(r) = On(q) /\ On(r) \notin raced => r = q
    /\ \A v \in Vocab \ raced : ~Busy(v) => Match(v)
    /\ \A r \in Request : req[r] # None /\ On(r) \notin raced => Reached(r)

\* A step of a request touches the terms of its vocabulary only.
TermStep(r) ==
    /\ raced \subseteq raced'
    /\ \A v \in Vocab : v # On(r) => terms'[v] = terms[v]

LEMMA TermSteps == ASSUME TypeInv, NEW r \in Request, RequestStep(r) PROVE TermStep(r)
  <1>1. raced \subseteq raced'
    BY DEF RequestStep, CreateRow, SaveHeader, WipeTerms, InsertTerms, MarkFailed, SwapKey, DropPrevious,
           RemoveTerms, RemoveRow, RemoveFile, Flag, history
  <1>2. terms \in [Vocab -> SUBSET File]
    BY DEF TypeInv, TypeOK
  <1>3. CASE WipeTerms(r) \/ RemoveTerms(r)
    BY <1>1, <1>2, <1>3 DEF WipeTerms, RemoveTerms, Wipe, TermStep
  <1>4. CASE InsertTerms(r)
    BY <1>1, <1>2, <1>4 DEF InsertTerms, TermStep, On
  <1>5. CASE ~WipeTerms(r) /\ ~RemoveTerms(r) /\ ~InsertTerms(r)
    BY <1>1, <1>5 DEF RequestStep, CreateRow, SaveHeader, MarkFailed, SwapKey, DropPrevious,
                      RemoveRow, RemoveFile, Flag, TermStep
  <1> QED
    BY <1>3, <1>4, <1>5

\* A step of the only request on a vocabulary goes on from what it has reached.
LEMMA GoesOn ==
    ASSUME TypeInv, TermInv, NEW r \in Request, RequestStep(r), On(r) \notin raced'
    PROVE  IF req'[r] = None
           THEN (row'[On(r)] # None /\ row'[On(r)].ready => terms'[On(r)] = {row'[On(r)].file})
                /\ (row'[On(r)] = None => terms'[On(r)] = {})
           ELSE Reached(r)'
  <1> DEFINE v == On(r)
             Kept == (row'[v] # None /\ row'[v].ready => terms'[v] = {row'[v].file})
                     /\ (row'[v] = None => terms'[v] = {})
  <1>0. /\ req[r] # None /\ req[r] \in Call /\ OpShape(req[r]) /\ v \in Vocab
        /\ terms \in [Vocab -> SUBSET File] /\ req[r].op \in {"create", "update", "delete"}
    BY StepMoves, Known DEF Moves, TypeInv, TypeOK, Call
  <1>1. Reached(r)
    <2>1. raced \subseteq raced'
      BY TermSteps DEF TermStep
    <2> QED
      BY <1>0, <2>1 DEF TermInv
  <1>2. ASSUME NEW s \in Step, Onward(r, s)
        PROVE  req'[r] # None /\ req'[r].pc = s /\ req'[r].vocab = v /\ req'[r].file = req[r].file
    BY <1>2, Apart DEF Onward, On
  <1>3. \A s \in Step : Goto(r, s) => Onward(r, s)
    BY <1>0, Goes
  <1>4. \A s \in Step : req' = [req EXCEPT ![r].pc = s, ![r].failed = TRUE] => Onward(r, s)
    BY <1>0, GoesFailed
  <1>5. Return(r) => req'[r] = None
    BY Returns
  <1> HIDE DEF v
  <1>6. ASSUME Kept, req'[r] # None => /\ req'[r].vocab = v
                                       /\ req'[r].pc \in {"swap", "previous", "unfile", "flag", "unterms"}
        PROVE  IF req'[r] = None THEN Kept ELSE Reached(r)'
    BY <1>6 DEF Reached, At, Match, Exists, On
  <1>6a. ASSUME req'[r] # None, req'[r].vocab = v, req'[r].pc = "unterms"
        PROVE  IF req'[r] = None THEN Kept ELSE Reached(r)'
    BY <1>6a DEF Reached, At, Match, Exists, On
  <1>7. CASE CreateRow(r)
    <2>1. row[v] = None /\ terms[v] = {} /\ terms' = terms
      BY <1>1, <1>7 DEF CreateRow, Reached, At, Exists, v
    <2>2. Onward(r, "insert") \/ Onward(r, "unfile")
      BY <1>3, <1>4, <1>7, Steps DEF CreateRow
    <2>3. CASE row' = row
      <3>1. req'[r].pc = "unfile"
        BY <1>7, <2>1, <2>3, CreateRowActs, Apart DEF v
      <3>2. req'[r] # None => req'[r].vocab = v
        BY <1>2, <2>2, Steps DEF v
      <3>3. Kept
        BY <2>1, <2>3
      <3> QED
        BY <1>6, <3>1, <3>2, <3>3 DEF v
    <2>4. CASE row' # row
      <3>1. req'[r].pc = "insert" /\ row'[v] # None /\ row'[v].file = req[r].file
        BY <1>7, <2>4, CreateRowActs, Apart DEF v
      <3>2. req'[r] # None /\ req'[r].vocab = v /\ req'[r].file = req[r].file
        BY <1>2, <2>2, Steps DEF v
      <3> QED
        BY <2>1, <3>1, <3>2 DEF Reached, At, Exists, On
    <2> QED
      BY <2>3, <2>4 DEF v
  <1>8. CASE SaveHeader(r)
    <2>1. Match(v) /\ terms' = terms
      BY <1>1, <1>8 DEF SaveHeader, Reached, At, v
    <2>2. Onward(r, "wipe") \/ Onward(r, "unfile") \/ Onward(r, "flag") \/ req'[r] = None
      BY <1>3, <1>4, <1>5, <1>8, Steps DEF SaveHeader
    <2>3. req'[r] # None => req'[r].vocab = v /\ req'[r].file = req[r].file
      BY <1>2, <2>2, Steps DEF v
    <2>4. CASE row' = row /\ (req'[r] = None \/ req'[r].pc = "unfile")
      <3>1. Kept
        BY <2>1, <2>4 DEF Match, Exists
      <3> QED
        BY <1>6, <2>3, <2>4, <3>1 DEF v
    <2>5. CASE /\ Exists(v) /\ row'[v] \in Row /\ row'[v].ready = row[v].ready
               /\ row'[v].file = IF req[r].file # None THEN req[r].file ELSE row[v].file
               /\ IF req[r].file # None THEN req'[r] # None /\ req'[r].pc = "wipe"
                  ELSE req'[r] = None \/ req'[r].pc = "flag"
      <3>1. row'[v] # None
        BY <2>5, Apart
      <3>2. CASE req[r].file = None
        <4>1. Kept
          BY <2>1, <2>5, <3>1, <3>2 DEF Match
        <4> QED
          BY <1>6, <2>3, <2>5, <3>2, <4>1 DEF v
      <3>3. CASE req[r].file # None
        BY <2>3, <2>5, <3>1, <3>3 DEF Reached, At, Exists, On
      <3> QED
        BY <3>2, <3>3
    <2> QED
      BY <1>8, <2>4, <2>5, SaveHeaderActs DEF v
  <1>9. CASE WipeTerms(r)
    <2>1. /\ req[r].pc = "wipe" /\ Exists(v) /\ row[v].file = req[r].file /\ row' = row
      BY <1>1, <1>9 DEF WipeTerms, Reached, At, v
    <2>2. (Onward(r, "insert") /\ terms'[v] = {}) \/ Onward(r, "fail")
      BY <1>0, <1>3, <1>9, Steps DEF WipeTerms, Wipe, v
    <2>3. /\ req'[r] # None /\ req'[r].vocab = v /\ req'[r].file = req[r].file
          /\ (req'[r].pc = "insert" /\ terms'[v] = {}) \/ req'[r].pc = "fail"
      BY <1>2, <2>2, Steps DEF v
    <2> QED
      BY <2>1, <2>3 DEF Reached, At, Exists, On
  <1>10. CASE InsertTerms(r)
    <2>1. /\ req[r].pc = "insert" /\ Exists(v) /\ row[v].file = req[r].file /\ row' = row /\ terms[v] = {}
          /\ req[r].vocab = v
      BY <1>1, <1>10 DEF InsertTerms, Reached, At, v, On
    <2>2. \/ terms'[v] = {req[r].file} /\ (Onward(r, "flag") \/ Onward(r, "swap"))
          \/ Onward(r, "unterms") \/ Onward(r, "fail")
      BY <1>0, <1>3, <1>4, <1>10, <2>1, Steps DEF InsertTerms
    <2>3. CASE terms'[v] = {req[r].file} /\ (Onward(r, "flag") \/ Onward(r, "swap"))
      <3>1. Kept
        BY <2>1, <2>3 DEF Exists
      <3>2. req'[r].vocab = v /\ req'[r].pc \in {"flag", "swap"}
        BY <1>2, <2>3, Steps DEF v
      <3> QED
        BY <1>6, <3>1, <3>2 DEF v
    <2>4. CASE Onward(r, "unterms")
      <3>1. req'[r] # None /\ req'[r].vocab = v /\ req'[r].pc = "unterms"
        BY <1>2, <2>4, Steps DEF v
      <3> QED
        BY <1>6a, <3>1 DEF v
    <2>5. CASE Onward(r, "fail")
      <3>1. req'[r] # None /\ req'[r].vocab = v /\ req'[r].pc = "fail"
        BY <1>2, <2>5, Steps DEF v
      <3> QED
        BY <2>1, <3>1 DEF Reached, At, Exists, On
    <2> QED
      BY <2>2, <2>3, <2>4, <2>5
  <1>11. CASE MarkFailed(r)
    <2>1. Exists(v) /\ req'[r] = None
      BY <1>1, <1>5, <1>11 DEF MarkFailed, Reached, At, v
    <2>2. row'[v] \in Row /\ row'[v].ready = FALSE
      BY <1>0, <1>11, <2>1, MarkFailedActs DEF v
    <2> QED
      BY <2>1, <2>2, Apart DEF v
  <1>12. CASE SwapKey(r)
    <2>1. Match(v) /\ terms' = terms
      BY <1>1, <1>12 DEF SwapKey, Reached, At, v
    <2>2. Onward(r, "previous")
      BY <1>3, <1>12, Steps DEF SwapKey
    <2>3. Kept
      <3>1. \/ row' = row
            \/ Exists(v) /\ row'[v] \in Row /\ row'[v].file = row[v].file /\ row'[v].ready = row[v].ready
        BY <1>12, SwapKeyActs DEF v
      <3> QED
        BY <2>1, <3>1, Apart DEF Match, Exists
    <2>4. req'[r].vocab = v /\ req'[r].pc = "previous"
      BY <1>2, <2>2, Steps DEF v
    <2> QED
      BY <1>6, <2>3, <2>4 DEF v
  <1>13. CASE DropPrevious(r)
    <2>1. Match(v) /\ terms' = terms /\ row' = row /\ Onward(r, "flag")
      BY <1>1, <1>3, <1>13, Steps DEF DropPrevious, Reached, At, v
    <2>2. Kept
      BY <2>1 DEF Match, Exists
    <2>3. req'[r].vocab = v /\ req'[r].pc = "flag"
      BY <1>2, <2>1, Steps DEF v
    <2> QED
      BY <1>6, <2>2, <2>3 DEF v
  <1>14. CASE RemoveTerms(r)
    <2>1. terms'[v] = {} /\ Onward(r, "unrow")
      BY <1>0, <1>3, <1>14, Steps DEF RemoveTerms, v
    <2>2. req'[r] # None /\ req'[r].vocab = v /\ req'[r].pc = "unrow"
      BY <1>2, <2>1, Steps DEF v
    <2> QED
      BY <2>1, <2>2 DEF Reached, At, Exists, On
  <1>15. CASE RemoveRow(r)
    <2>1. terms[v] = {} /\ terms' = terms
      BY <1>1, <1>15 DEF RemoveRow, Reached, At, v
    <2>2. row'[v] = None /\ req'[r] # None /\ req'[r].pc = "unfile"
      BY <1>15, RemoveRowActs DEF v
    <2>3. req'[r].vocab = v
      BY <1>2, <1>3, <1>5, <1>15, <2>2, Steps DEF RemoveRow, v
    <2> QED
      BY <1>6, <2>1, <2>2, <2>3 DEF v
  <1>16. CASE RemoveFile(r)
    <2>1. Match(v) /\ terms' = terms /\ row' = row /\ (Onward(r, "flag") \/ req'[r] = None)
      BY <1>1, <1>3, <1>5, <1>16, Steps DEF RemoveFile, Reached, At, v
    <2>2. Kept
      BY <2>1 DEF Match, Exists
    <2>3. req'[r] # None => req'[r].vocab = v /\ req'[r].pc = "flag"
      BY <1>2, <2>1, Steps DEF v
    <2> QED
      BY <1>6, <2>2, <2>3 DEF v
  <1>17. CASE Flag(r)
    BY <1>1, <1>5, <1>17 DEF Flag, Reached, At, Match, Exists, v
  <1> QED
    BY <1>7, <1>8, <1>9, <1>10, <1>11, <1>12, <1>13, <1>14, <1>15, <1>16, <1>17 DEF RequestStep

LEMMA StepKeepsTermInv ==
    ASSUME TypeInv, FileInv, TermInv, NEW r \in Request, RequestStep(r) PROVE TermInv'
  <1>0. /\ RowStep(r) /\ KnowStep(r) /\ TermStep(r) /\ req[r] # None /\ On(r) \in Vocab /\ On(r) \in used
        /\ used' = used
    BY RowSteps, KnowSteps, TermSteps, Known DEF KnowStep, FileInv, Owned, On
  <1>1. \A q \in Request : req'[q] # None => req[q] # None /\ req'[q].vocab = req[q].vocab
    BY <1>0 DEF KnowStep, Others
  <1>2. \A q \in Request : q # r => req'[q] = req[q]
    BY <1>0 DEF KnowStep, Others
  <1>3. \A v \in Vocab : v # On(r) => row'[v] = row[v] /\ terms'[v] = terms[v]
    BY <1>0 DEF RowStep, TermStep
  <1>4. \A v : v \notin raced' => v \notin raced
    BY <1>0 DEF TermStep
  <1>5. \A v \in Vocab : v \notin used' => terms'[v] = {}
    BY <1>0, <1>3 DEF TermInv
  <1>6. \A p, q \in Request : req'[p] # None /\ req'[q] # None /\ req'[p].vocab = req'[q].vocab
                                 /\ req'[p].vocab \notin raced' => p = q
    BY <1>1, <1>4 DEF TermInv, On
  <1>7. ASSUME NEW q \in Request, q # r, req[q] # None, req[q].vocab \notin raced'
        PROVE  req[q].vocab # On(r) /\ req[q].vocab \in Vocab
    BY <1>0, <1>4, <1>7, Known DEF TermInv, On
  <1>8. ASSUME NEW v \in Vocab \ raced', ~(\E q \in Request : req'[q] # None /\ req'[q].vocab = v)
        PROVE  Match(v)'
    <2>1. CASE v = On(r)
      <3>1. req'[r] = None
        BY <1>1, <1>8, <2>1 DEF On
      <3> QED
        BY <1>8, <2>1, <3>1, GoesOn DEF Match, Exists
    <2>2. CASE v # On(r)
      <3>1. ~Busy(v)
        BY <1>2, <1>8, <2>2 DEF Busy, On
      <3>2. Match(v)
        BY <1>4, <1>8, <3>1 DEF TermInv
      <3> QED
        BY <1>3, <2>2, <3>2 DEF Match, Exists
    <2> QED
      BY <2>1, <2>2
  <1>9. ASSUME NEW q \in Request, req'[q] # None, req'[q].vocab \notin raced' PROVE Reached(q)'
    <2>1. CASE q = r
      <3>1. On(r) \notin raced'
        BY <1>1, <1>9, <2>1 DEF On
      <3> QED
        BY <1>9, <2>1, <3>1, GoesOn
    <2>2. CASE q # r
      <3>1. req'[q] = req[q] /\ req[q].vocab # On(r) /\ req[q].vocab \in Vocab
        BY <1>2, <1>7, <1>9, <2>2
      <3>2. Reached(q)
        BY <1>4, <1>9, <3>1 DEF TermInv, On
      <3>3. row'[req[q].vocab] = row[req[q].vocab] /\ terms'[req[q].vocab] = terms[req[q].vocab]
        BY <1>3, <3>1
      <3> QED
        BY <3>1, <3>2, <3>3 DEF Reached, At, Match, Exists, On
    <2> QED
      BY <2>1, <2>2
  <1> QED
    BY <1>5, <1>6, <1>8, <1>9 DEF TermInv, On, Busy

\* A request begins on a vocabulary that no other works on, or marks it.
LEMMA BeginMarks ==
    ASSUME TypeInv, NEW r \in Request, NEW c \in Call, Knows(r, c),
           BeginCreate(r) \/ BeginUpdate(r) \/ BeginDelete(r)
    PROVE  /\ terms' = terms /\ raced \subseteq raced'
           /\ c.pc \in {"create", "save", "unterms"}
           /\ c.pc # "create" /\ Busy(c.vocab) => c.vocab \in raced'
  <1>0. req'[r] = c /\ req \in [Request -> {None} \cup Call]
    BY DEF Knows, TypeInv, TypeOK
  <1>1. CASE BeginCreate(r)
    <2>1. PICK v \in Vocab \ used, n \in Name, f \in File \ used, s \in BOOLEAN :
            req' = [req EXCEPT ![r] = [pc |-> "create", op |-> "create", vocab |-> v, loaded |-> None,
                                       name |-> n, file |-> f, inSearch |-> s, failed |-> FALSE]]
      BY <1>1 DEF BeginCreate
    <2>2. c.pc = "create"
      BY <1>0, <2>1
    <2> QED
      BY <1>1, <2>2 DEF BeginCreate, history
  <1>2. CASE BeginUpdate(r)
    <2>1. PICK v \in Vocab, f \in {None} \cup (File \ used), s \in BOOLEAN :
            /\ req' = [req EXCEPT ![r] = [pc |-> "save", op |-> "update", vocab |-> v,
                                          loaded |-> row[v], name |-> None, file |-> f,
                                          inSearch |-> s, failed |-> FALSE]]
            /\ raced' = raced \cup IF Busy(v) THEN {v} ELSE {}
      BY <1>2 DEF BeginUpdate
    <2>2. c.pc = "save" /\ c.vocab = v
      BY <1>0, <2>1
    <2> QED
      BY <1>2, <2>1, <2>2 DEF BeginUpdate
  <1>3. CASE BeginDelete(r)
    <2>1. PICK v \in Vocab :
            /\ req' = [req EXCEPT ![r] = [pc |-> "unterms", op |-> "delete", vocab |-> v,
                                          loaded |-> row[v], name |-> None, file |-> row[v].key,
                                          inSearch |-> row[v].inSearch, failed |-> FALSE]]
            /\ raced' = raced \cup IF Busy(v) THEN {v} ELSE {}
      BY <1>3 DEF BeginDelete
    <2>2. c.pc = "unterms" /\ c.vocab = v
      BY <1>0, <2>1
    <2> QED
      BY <1>3, <2>1, <2>2 DEF BeginDelete
  <1> QED
    BY <1>1, <1>2, <1>3

LEMMA BeginKeepsTermInv ==
    ASSUME TypeInv, FileInv, TermInv, NEW r \in Request, BeginCreate(r) \/ BeginUpdate(r) \/ BeginDelete(r)
    PROVE  TermInv'
  <1>0. PICK c \in Call : Knows(r, c)
    BY BeginKnows DEF FileInv
  <1>1. /\ req[r] = None /\ req'[r] = c /\ c # None /\ c.vocab \in Vocab /\ row' = row /\ used \subseteq used'
        /\ \A q \in Request : q # r => req'[q] = req[q]
    BY <1>0, Apart DEF Knows, Others, Call
  <1>2. /\ terms' = terms /\ raced \subseteq raced' /\ c.pc \in {"create", "save", "unterms"}
        /\ c.pc # "create" /\ Busy(c.vocab) => c.vocab \in raced'
    BY <1>0, BeginMarks
  <1>3. ASSUME c.vocab \notin raced'
        PROVE  \A q \in Request : q # r /\ req[q] # None => req[q].vocab # c.vocab
    <2>1. CASE c.pc = "create"
      BY <1>0, <2>1 DEF Knows, FileInv, Owned
    <2>2. CASE c.pc # "create"
      BY <1>2, <1>3, <2>2 DEF Busy
    <2> QED
      BY <2>1, <2>2
  <1>4. \A v \in Vocab : v \notin used' => terms'[v] = {}
    BY <1>1, <1>2 DEF TermInv
  <1>5. ASSUME NEW p \in Request, NEW q \in Request, req'[p] # None, req'[q] # None,
               req'[p].vocab = req'[q].vocab, req'[p].vocab \notin raced'
        PROVE  p = q
    <2>1. CASE p # r /\ q # r
      BY <1>1, <1>2, <1>5, <2>1 DEF TermInv, On
    <2>2. CASE p = r \/ q = r
      BY <1>1, <1>3, <1>5, <2>2
    <2> QED
      BY <2>1, <2>2
  <1>6. ASSUME NEW v \in Vocab \ raced', ~(\E q \in Request : req'[q] # None /\ req'[q].vocab = v)
        PROVE  Match(v)'
    <2>1. ~Busy(v)
      BY <1>1, <1>6 DEF Busy
    <2>2. Match(v)
      BY <1>2, <1>6, <2>1 DEF TermInv
    <2> QED
      BY <1>1, <1>2, <2>2 DEF Match, Exists
  <1>7. ASSUME NEW q \in Request, req'[q] # None, req'[q].vocab \notin raced' PROVE Reached(q)'
    <2>1. CASE q # r
      <3>1. req'[q] = req[q] /\ Reached(q)
        BY <1>1, <1>2, <1>7, <2>1 DEF TermInv, On
      <3> QED
        BY <1>1, <1>2, <3>1 DEF Reached, At, Match, Exists, On
    <2>2. CASE q = r
      <3>1. c.pc = "create" => row[c.vocab] = None /\ terms[c.vocab] = {}
        BY <1>0, <1>1 DEF Knows, FileInv, Owned, TermInv, Exists
      <3>2. c.pc = "save" => Match(c.vocab)
        <4> SUFFICES ASSUME c.pc = "save" PROVE Match(c.vocab)
          OBVIOUS
        <4>1. ~Busy(c.vocab)
          BY <1>1, <1>2, <1>7, <2>2
        <4> QED
          BY <1>1, <1>2, <1>7, <2>2, <4>1 DEF TermInv
      <3> QED
        BY <1>1, <1>2, <2>2, <3>1, <3>2 DEF Reached, At, Match, Exists, On
    <2> QED
      BY <2>1, <2>2
  <1> QED
    BY <1>4, <1>5, <1>6, <1>7 DEF TermInv, On, Busy

LEMMA RestKeepsTermInv ==
    /\ TermInv /\ UNCHANGED <<row, terms, used, raced, req>> => TermInv'
    /\ TermInv /\ Crash => TermInv'
  <1>1. ASSUME TermInv, UNCHANGED <<row, terms, used, raced, req>> PROVE TermInv'
    BY <1>1 DEF TermInv, Busy, Match, Exists, Reached, At, On
  <1>2. ASSUME TermInv, Crash PROVE TermInv'
    <2>1. /\ \A r \in Request : req'[r] = None
          /\ row' = row /\ terms' = terms /\ used' = used /\ raced' = raced \cup {v \in Vocab : Busy(v)}
      BY <1>2 DEF Crash, files
    <2>2. \A v \in Vocab \ raced' : Match(v)'
      BY <1>2, <2>1 DEF TermInv, Match, Exists
    <2> QED
      BY <1>2, <2>1, <2>2 DEF TermInv
  <1> QED
    BY <1>1, <1>2

LEMMA TermsStay == TypeInv /\ FileInv /\ TermInv /\ [Next]_vars => TermInv'
  <1> SUFFICES ASSUME TypeInv, FileInv, TermInv, [Next]_vars PROVE TermInv'
    OBVIOUS
  <1>1. CASE UNCHANGED vars
    BY <1>1, RestKeepsTermInv DEF vars, history
  <1>2. CASE ReaderStep
    <2>1. UNCHANGED <<row, terms, used, raced, req>>
      BY <1>2, ReaderTyped DEF files
    <2> QED
      BY <2>1, RestKeepsTermInv
  <1> QED
    BY <1>1, <1>2, NextCases, RestKeepsTermInv, BeginKeepsTermInv, StepKeepsTermInv

LEMMA InitTerms == Init => TermInv
  BY DEF Init, TermInv, Match, Exists

\* TermsMatchFile: between requests a vocabulary in use has exactly the terms of
\* the file its row describes, and one that is gone has none, unless requests on
\* it overlapped, a crash cut one short or an error that lost a delete was
\* swallowed.
THEOREM TermsAreOfTheFile == Spec => []TermsMatchFile
  <1>1. TermInv => TermsMatchFile
    BY DEF TermInv, TermsMatchFile, Match
  <1> QED
    BY <1>1, FileStays, TermsStay, TypeInvariant, InitFileInv, InitTerms, PTL DEF Spec

-----------------------------------------------------------------------------
(* What the readers of the index have seen                                 *)

\* Where a request may have changed the rows or terms of a vocabulary and has
\* yet to say so.
Touching(c) ==
    \/ c.op = "create" /\ c.pc \in {"insert", "unterms", "unrow", "flag"}
    \/ c.op = "update" /\ c.pc \in {"wipe", "insert", "fail", "swap", "previous", "flag"}
    \/ c.op = "delete"

\* A request alone on a vocabulary that is and stays out of search changes
\* nothing that a reader sees; any other that touches it owes a word.
Harmless(r) ==
    /\ req[r].inSearch = FALSE
    /\ req[r].loaded # None => req[r].loaded.inSearch = FALSE
    /\ On(r) \notin raced
Owes(r) == req[r] # None /\ Touching(req[r]) /\ ~Harmless(r)
Calm == \A r \in Request : ~Owes(r)

Outside(r) == req[r] # None /\ Harmless(r) /\ Exists(On(r)) => row[On(r)].inSearch = FALSE

Wanted == Index(ActiveIds)

\* What was read is what a reader would read now, or somebody knows it is not.
CacheSeen == cached # None => behind \/ cached = Wanted
LoadsSeen == \A i \in Ingest : ingest[i].pc = "terms" => ingest[i].old \/ ingest[i].ids = ActiveIds
TopicSeen ==
    pending \/ missed \/
        /\ topic = Wanted
        /\ worker.pc = "terms" => worker.ids = ActiveIds
        /\ worker.pc = "topics" => worker.index = Wanted

SeenInv ==
    /\ \A r \in Request : Outside(r)
    /\ Calm => CacheSeen /\ LoadsSeen /\ TopicSeen

\* What a step of r may do to the readers: nothing, or say that all is old.
Unseen == ActiveIds' = ActiveIds /\ Wanted' = Wanted
Weakens ==
    /\ topic' = topic /\ worker' = worker
    /\ \/ cached' = None
       \/ cached' = cached /\ (behind => behind')
    /\ \A i \in Ingest : /\ ingest'[i].pc = ingest[i].pc /\ ingest'[i].ids = ingest[i].ids
                         /\ ingest[i].old => ingest'[i].old
    /\ pending \/ missed => pending' \/ missed'
Invalidates ==
    /\ cached' = None \/ behind'
    /\ \A i \in Ingest : ingest'[i].old
    /\ pending' \/ missed'

\* Rows that look the same and terms that are not in use change nothing.
LEMMA SameIsUnseen ==
    ASSUME NEW v \in Vocab,
           \A u \in Vocab : u # v => row'[u] = row[u] /\ terms'[u] = terms[u],
           \/ row'[v] = row[v] /\ terms'[v] = terms[v]
           \/ v \notin ActiveIds /\ v \notin ActiveIds'
    PROVE  Unseen
  <1>1. ActiveIds' = ActiveIds
    <2>1. \A u \in Vocab : u # v => (u \in ActiveIds' <=> u \in ActiveIds)
      BY DEF ActiveIds, Exists
    <2>2. v \in ActiveIds' <=> v \in ActiveIds
      BY DEF ActiveIds, Exists
    <2>3. ActiveIds \subseteq Vocab /\ ActiveIds' \subseteq Vocab
      BY DEF ActiveIds
    <2> QED
      BY <2>1, <2>2, <2>3
  <1>2. \A u \in ActiveIds : terms'[u] = terms[u]
    BY <1>1 DEF ActiveIds
  <1>3. \A f : f \in Wanted' <=> f \in Wanted
    BY <1>1, <1>2 DEF Wanted, Index
  <1>4. Wanted' = Wanted
    BY <1>3 DEF Wanted, Index
  <1> QED
    BY <1>1, <1>4 DEF Unseen

LEMMA SameActive ==
    ASSUME NEW v \in Vocab, Exists(v), row'[v] # None, terms' = terms,
           row'[v].ready = row[v].ready, row'[v].inSearch = row[v].inSearch,
           \A u \in Vocab : u # v => row'[u] = row[u]
    PROVE  Unseen
  <1>1. \A u \in Vocab : u \in ActiveIds' <=> u \in ActiveIds
    BY DEF ActiveIds, Exists
  <1>2. ActiveIds' = ActiveIds
    BY <1>1 DEF ActiveIds
  <1>3. Wanted' = Wanted
    BY <1>2 DEF Wanted, Index
  <1> QED
    BY <1>2, <1>3 DEF Unseen

LEMMA LeavesBehind ==
    ASSUME TypeInv, LeaveBehind PROVE Invalidates
  <1>1. behind' = TRUE /\ missed' = TRUE
    BY DEF LeaveBehind
  <1>2. \A i \in Ingest : ingest'[i].old = TRUE
    <2>1. \A i \in Ingest : ingest[i] \in Expansion
      BY DEF TypeInv, TypeOK
    <2>2. \A i \in Ingest : [ingest[i] EXCEPT !.old = TRUE].old = TRUE
      BY <2>1 DEF Expansion
    <2> QED
      BY <2>2 DEF LeaveBehind
  <1> QED
    BY <1>1, <1>2 DEF Invalidates

\* A harmless request leaves its row out of search.
LEMMA StaysOutside ==
    ASSUME TypeInv, NEW r \in Request, RequestStep(r), Harmless(r), Outside(r)
    PROVE  row'[On(r)] # None => row'[On(r)].inSearch = FALSE
  <1>0. /\ req[r] # None /\ OpShape(req[r]) /\ On(r) \in Vocab
        /\ Exists(On(r)) => row[On(r)].inSearch = FALSE
    BY StepMoves, Known DEF Moves, Outside
  <1>1. CASE CreateRow(r)
    BY <1>0, <1>1, CreateRowActs DEF Harmless, Exists
  <1>2. CASE SaveHeader(r)
    BY <1>0, <1>2, SaveHeaderActs DEF Harmless, Exists
  <1>3. CASE SwapKey(r)
    BY <1>0, <1>3, SwapKeyActs DEF Exists
  <1>4. CASE MarkFailed(r)
    BY <1>0, <1>4, MarkFailedActs DEF Exists
  <1>5. CASE RemoveRow(r)
    BY <1>0, <1>5, RemoveRowActs DEF Exists
  <1>6. CASE WipeTerms(r) \/ InsertTerms(r) \/ DropPrevious(r) \/ RemoveTerms(r) \/ RemoveFile(r) \/ Flag(r)
    <2>1. row' = row
      BY <1>6 DEF WipeTerms, InsertTerms, DropPrevious, RemoveTerms, RemoveFile, Flag
    <2> QED
      BY <1>0, <2>1 DEF Exists
  <1> QED
    BY <1>1, <1>2, <1>3, <1>4, <1>5, <1>6 DEF RequestStep

LEMMA HarmlessUnseen ==
    ASSUME TypeInv, NEW r \in Request, RequestStep(r), Harmless(r), Outside(r) PROVE Unseen
  <1>1. /\ req[r] # None /\ On(r) \in Vocab
        /\ \A u \in Vocab : u # On(r) => row'[u] = row[u] /\ terms'[u] = terms[u]
    BY StepMoves, Known, RowSteps, TermSteps DEF Moves, RowStep, TermStep
  <1>2. On(r) \notin ActiveIds
    BY <1>1 DEF ActiveIds, Outside
  <1>3. On(r) \notin ActiveIds'
    BY <1>1, StaysOutside DEF ActiveIds, Exists
  <1> QED
    BY <1>1, <1>2, <1>3, SameIsUnseen

\* A request that leaves the readers alone.
Ignores == UNCHANGED <<readers, ingest, pending, behind, missed>>

LEMMA IgnoresWeakens == Ignores => Weakens
  BY DEF Ignores, Weakens, readers

LEMMA Quietly ==
    ASSUME NEW r \in Request, RequestStep(r), ~MarkFailed(r), ~RemoveRow(r), ~Flag(r) PROVE Ignores
  BY DEF RequestStep, CreateRow, SaveHeader, WipeTerms, InsertTerms, SwapKey, DropPrevious, RemoveTerms,
         RemoveFile, Ignores, readers, history

LEMMA RemoveRowSays ==
    ASSUME TypeInv, NEW r \in Request, RemoveRow(r)
    PROVE  \/ Invalidates
           \/ Ignores /\ req[r].op = "delete" /\ req'[r] # None
  <1>1. req[r].op \in {"create", "delete"}
    BY RemoveRowActs
  <1>2. CASE req'[r] = None \/ req[r].op = "create"
    BY <1>2, LeavesBehind DEF RemoveRow
  <1>3. CASE ~(req'[r] = None \/ req[r].op = "create")
    BY <1>1, <1>3 DEF RemoveRow, Ignores, readers
  <1> QED
    BY <1>2, <1>3

\* The end of a request: either it has nothing to say, or says it.
LEMMA FlagSays ==
    ASSUME TypeInv, NEW r \in Request, Flag(r)
    PROVE  /\ Harmless(r) /\ Outside(r) => Weakens \/ Invalidates
           /\ ~Harmless(r) => Invalidates
  <1>0. /\ req[r] # None /\ req[r].inSearch \in BOOLEAN /\ req[r].op \in {"create", "update", "delete"}
        /\ req[r].loaded # None => req[r].loaded \in Row
        /\ \A i \in Ingest : ingest[i] \in Expansion
        /\ UNCHANGED <<topic, worker>>
    BY Known DEF Flag, At, Call, TypeInv, TypeOK
  <1>1. \A i \in Ingest, b \in BOOLEAN :
           LET e == [ingest[i] EXCEPT !.old = b] IN
           e.pc = ingest[i].pc /\ e.ids = ingest[i].ids /\ e.old = b
    BY <1>0 DEF Expansion
  <1>2. CASE LeaveBehind
    BY <1>2, LeavesBehind
  <1>3. CASE /\ pending' = (pending \/ Flags(req[r]))
             /\ missed' = (missed \/ (~req[r].inSearch /\ WasInSearch(r)))
             /\ cached' = None
             /\ ingest' = [i \in Ingest |-> [ingest[i] EXCEPT !.old = TRUE]]
    <2>1. \A i \in Ingest : /\ ingest'[i].pc = ingest[i].pc /\ ingest'[i].ids = ingest[i].ids
                            /\ ingest'[i].old = TRUE
      BY <1>1, <1>3
    <2>2. Weakens
      BY <1>0, <1>3, <2>1 DEF Weakens
    <2>3. ~Harmless(r) => pending' \/ missed'
      <3>1. CASE req[r].inSearch = TRUE
        BY <1>3, <3>1 DEF Flags
      <3>2. CASE req[r].inSearch = FALSE
        <4>1. ~Harmless(r) => WasInSearch(r)
          <5>1. req[r].loaded # None => req[r].loaded.inSearch \in BOOLEAN
            BY <1>0 DEF Row
          <5> QED
            BY <3>2, <5>1 DEF Harmless, WasInSearch
        <4> QED
          BY <1>3, <3>2, <4>1
      <3> QED
        BY <1>0, <3>1, <3>2
    <2> QED
      BY <1>3, <2>1, <2>2, <2>3 DEF Invalidates
  <1>4. CASE /\ req[r].op = "delete" /\ req[r].inSearch = FALSE
             /\ pending' = (pending \/ Flags(req[r]))
             /\ missed' = (missed \/ (~req[r].inSearch /\ WasInSearch(r)))
             /\ behind' = (behind \/ WasInSearch(r))
             /\ ingest' = [i \in Ingest |-> [ingest[i] EXCEPT !.old = @ \/ WasInSearch(r)]]
             /\ cached' = cached
    <2>1. PICK b \in BOOLEAN : b <=> WasInSearch(r)
      OBVIOUS
    <2>2. \A i \in Ingest : /\ ingest'[i].pc = ingest[i].pc /\ ingest'[i].ids = ingest[i].ids
                            /\ ingest'[i].old = (ingest[i].old \/ b)
      <3>1. \A i \in Ingest : ingest[i].old \in BOOLEAN
        BY <1>0 DEF Expansion
      <3>2. \A i \in Ingest : ingest'[i] = [ingest[i] EXCEPT !.old = ingest[i].old \/ b]
        BY <1>4, <2>1
      <3> QED
        BY <1>1, <3>1, <3>2
    <2>3. Weakens
      BY <1>0, <1>4, <2>2 DEF Weakens
    <2>4. ~Harmless(r) => b = TRUE
      <3>1. req[r].loaded # None => req[r].loaded.inSearch \in BOOLEAN
        BY <1>0 DEF Row
      <3> QED
        BY <1>4, <2>1, <3>1 DEF Harmless, WasInSearch
    <2>5. b = TRUE => Invalidates
      BY <1>4, <2>1, <2>2 DEF Invalidates
    <2> QED
      BY <2>3, <2>4, <2>5
  <1> QED
    BY <1>0, <1>2, <1>3, <1>4 DEF Flag

\* A step of a request shows the readers nothing, or leaves it owing a word, or
\* says that what they have is old.
LEMMA StepSays ==
    ASSUME TypeInv, NEW r \in Request, RequestStep(r), Outside(r)
    PROVE  \/ Owes(r)' \/ Invalidates
           \/ ~Owes(r) /\ Unseen /\ Weakens
  <1>0. /\ Moves(r) /\ req[r] # None /\ req[r] \in Call /\ OpShape(req[r]) /\ On(r) \in Vocab
        /\ raced \subseteq raced' /\ req[r].op \in {"create", "update", "delete"}
    BY StepMoves, TermSteps, Known DEF Moves, TermStep, Call
  <1>1. ASSUME NEW s \in Step, Onward(r, s), ~Harmless(r), ~Owes(r)' PROVE ~Touching(req'[r])
    <2>1. /\ req'[r] # None /\ req'[r].inSearch = req[r].inSearch /\ req'[r].loaded = req[r].loaded
          /\ req'[r].vocab = req[r].vocab
      BY <1>1, Apart DEF Onward
    <2> QED
      BY <1>0, <1>1, <2>1 DEF Owes, Harmless, On
  <1>2. CASE Harmless(r)
    <2>1. ~Owes(r) /\ Unseen
      BY <1>2, HarmlessUnseen DEF Owes
    <2>2. CASE MarkFailed(r)
      BY <2>2, LeavesBehind DEF MarkFailed
    <2>3. CASE RemoveRow(r)
      BY <2>1, <2>3, RemoveRowSays, IgnoresWeakens
    <2>4. CASE Flag(r)
      BY <1>2, <2>1, <2>4, FlagSays
    <2> QED
      BY <2>1, <2>2, <2>3, <2>4, Quietly, IgnoresWeakens
  <1>3. CASE ~Harmless(r)
    <2> SUFFICES ASSUME ~Owes(r)' PROVE Invalidates \/ (~Owes(r) /\ Unseen /\ Weakens)
      OBVIOUS
    <2>0. \A u \in Vocab : u # On(r) => row'[u] = row[u] /\ terms'[u] = terms[u]
      BY <1>0, RowSteps, TermSteps DEF RowStep, TermStep
    <2>1. \A s \in Step : Onward(r, s) => ~Touching(req'[r]) /\ req'[r].pc = s /\ req'[r].op = req[r].op
      BY <1>1, <1>3 DEF Onward
    <2>2. CASE CreateRow(r)
      <3>1. req[r].pc = "create" /\ req[r].op = "create" /\ terms' = terms
        BY <1>0, <2>2, CreateRowActs DEF OpShape, CreateRow
      <3>2. ~Onward(r, "insert")
        BY <2>1, <3>1, Steps DEF Touching
      <3>3. row' = row
        BY <1>0, <2>1, <2>2, <3>1, <3>2, CreateRowActs, Steps DEF Moves, At
      <3>4. Unseen
        BY <1>0, <3>1, <3>3, SameIsUnseen
      <3> QED
        BY <2>2, <3>1, <3>4, Quietly, IgnoresWeakens DEF Owes, Touching, CreateRow, MarkFailed, RemoveRow, Flag, At
    <2>3. CASE SaveHeader(r)
      <3>1. req[r].pc = "save" /\ req[r].op = "update" /\ terms' = terms
        BY <2>3, SaveHeaderActs DEF SaveHeader
      <3>2. req'[r] = None \/ req'[r].pc = "unfile"
        BY <1>0, <2>1, <3>1, Steps DEF Moves, At, Touching, Ends
      <3>3. \/ row' = row
            \/ /\ Exists(On(r)) /\ row'[On(r)] # None
               /\ row'[On(r)].ready = row[On(r)].ready /\ row'[On(r)].inSearch = row[On(r)].inSearch
        BY <2>3, <3>2, SaveHeaderActs, Apart
      <3>4. Unseen
        <4>1. CASE row' = row
          BY <1>0, <3>1, <4>1, SameIsUnseen
        <4>2. CASE row' # row
          BY <1>0, <2>0, <3>1, <3>3, <4>2, SameActive
        <4> QED
          BY <4>1, <4>2
      <3> QED
        BY <2>3, <3>1, <3>4, Quietly, IgnoresWeakens DEF Owes, Touching, SaveHeader, MarkFailed, RemoveRow, Flag, At
    <2>4. CASE WipeTerms(r) \/ InsertTerms(r) \/ SwapKey(r) \/ DropPrevious(r) \/ RemoveTerms(r)
      <3>1. \/ req[r].op = "update" /\ req[r].pc \in {"wipe", "insert", "swap", "previous"}
            \/ req[r].op = "create" /\ req[r].pc \in {"insert", "unterms"}
            \/ req[r].op = "delete" /\ req[r].pc = "unterms"
        BY <1>0, <2>4 DEF WipeTerms, InsertTerms, SwapKey, DropPrevious, RemoveTerms, At, OpShape
      <3> QED
        BY <1>0, <2>1, <3>1, Steps DEF Moves, At, Touching
    <2>5. CASE MarkFailed(r)
      BY <2>5, LeavesBehind DEF MarkFailed
    <2>6. CASE RemoveRow(r)
      <3>1. CASE Ignores /\ req[r].op = "delete" /\ req'[r] # None
        BY <1>0, <2>1, <2>6, <3>1, RemoveRowActs, Steps DEF Moves, At, Touching, Ends
      <3> QED
        BY <2>6, <3>1, RemoveRowSays
    <2>7. CASE RemoveFile(r)
      <3>1. req[r].pc = "unfile" /\ row' = row /\ terms' = terms
        BY <2>7 DEF RemoveFile, At
      <3>2. req[r].op # "delete"
        <4>1. req[r].op = "delete" => Onward(r, "flag")
          BY <1>0, <2>7, <3>1, Goes, Steps DEF RemoveFile, OpShape
        <4> QED
          BY <2>1, <4>1, Steps DEF Touching
      <3>3. ~Owes(r)
        BY <1>0, <3>1, <3>2 DEF Owes, Touching
      <3>4. Unseen
        BY <1>0, <3>1, SameIsUnseen
      <3> QED
        BY <2>7, <3>1, <3>3, <3>4, Quietly, IgnoresWeakens DEF MarkFailed, RemoveRow, Flag, At
    <2>8. CASE Flag(r)
      BY <1>3, <2>8, FlagSays
    <2> QED
      BY <2>2, <2>3, <2>4, <2>5, <2>6, <2>7, <2>8 DEF RequestStep
  <1> QED
    BY <1>2, <1>3

\* Others go on owing: requests on a vocabulary stay marked.
LEMMA OthersOwe ==
    ASSUME NEW r \in Request, Others(r), raced \subseteq raced', Calm'
    PROVE  \A q \in Request : q # r => ~Owes(q)
  BY DEF Others, Calm, Owes, Harmless, On

LEMMA StepKeepsSeen ==
    ASSUME TypeInv, TermInv, SeenInv, NEW r \in Request, RequestStep(r) PROVE SeenInv'
  <1>0. /\ Moves(r) /\ Others(r) /\ raced \subseteq raced' /\ req[r] # None
        /\ \A u \in Vocab : u # On(r) => row'[u] = row[u]
    BY StepMoves, RowSteps, TermSteps DEF Moves, RowStep, TermStep
  <1>1. ASSUME NEW q \in Request PROVE Outside(q)'
    <2> SUFFICES ASSUME req'[q] # None, Harmless(q)', row'[req'[q].vocab] # None
                 PROVE  row'[req'[q].vocab].inSearch = FALSE
      BY DEF Outside, Exists, On
    <2>1. CASE q # r
      <3>1. req'[q] = req[q] /\ Harmless(q) /\ On(q) \in Vocab
        BY <1>0, <2>1, Known DEF Others, Harmless, On
      <3>2. On(q) # On(r)
        BY <1>0, <2>1, <3>1 DEF TermInv, Harmless
      <3> QED
        BY <1>0, <3>1, <3>2 DEF SeenInv, Outside, Exists, On
    <2>2. CASE q = r
      <3>1. \E s \in Step : Onward(r, s)
        <4>1. req[r] \in Call /\ OpShape(req[r]) /\ ~Ends(r)
          BY <1>0, <2>2, Known DEF Ends
        <4>2. \E s \in Step : At(r, s)
          BY <1>0, <4>1 DEF Call, At
        <4>3. At(r, "insert") => req[r].op \in {"create", "update"}
          BY <4>1 DEF At, OpShape, Call
        <4> QED
          BY <1>0, <4>1, <4>2, <4>3, Steps DEF Moves
      <3>2. /\ req'[r].inSearch = req[r].inSearch /\ req'[r].loaded = req[r].loaded
            /\ req'[r].vocab = req[r].vocab
        BY <3>1 DEF Onward
      <3>3. Harmless(r)
        BY <1>0, <2>2, <3>2 DEF Harmless, On
      <3> QED
        BY <2>2, <3>2, <3>3, StaysOutside DEF SeenInv, On
    <2> QED
      BY <2>1, <2>2
  <1>2. ASSUME Calm' PROVE CacheSeen' /\ LoadsSeen' /\ TopicSeen'
    <2>1. ~Owes(r)' /\ \A q \in Request : q # r => ~Owes(q)
      BY <1>0, <1>2, OthersOwe DEF Calm
    <2>2. CASE Invalidates
      BY <2>2 DEF Invalidates, CacheSeen, LoadsSeen, TopicSeen
    <2>3. CASE ~Owes(r) /\ Unseen /\ Weakens
      <3>1. CacheSeen /\ LoadsSeen /\ TopicSeen
        BY <2>1, <2>3 DEF SeenInv, Calm
      <3>2. CacheSeen'
        BY <2>3, <3>1 DEF Unseen, Weakens, CacheSeen
      <3>3. LoadsSeen'
        BY <2>3, <3>1 DEF Unseen, Weakens, LoadsSeen
      <3>4. TopicSeen'
        BY <2>3, <3>1 DEF Unseen, Weakens, TopicSeen
      <3> QED
        BY <3>2, <3>3, <3>4
    <2> QED
      BY <2>1, <2>2, <2>3, StepSays DEF SeenInv
  <1> QED
    BY <1>1, <1>2 DEF SeenInv

\* A new request has read its row, and changes nothing.
LEMMA BeginReads ==
    ASSUME TypeInv, NEW r \in Request, NEW c, req'[r] = c,
           BeginCreate(r) \/ BeginUpdate(r) \/ BeginDelete(r)
    PROVE  /\ Ignores
           /\ c.pc # "create" => c.loaded = row[c.vocab]
  <1>0. req \in [Request -> {None} \cup Call]
    BY DEF TypeInv, TypeOK
  <1>1. CASE BeginCreate(r)
    <2>1. PICK v \in Vocab \ used, n \in Name, f \in File \ used, s \in BOOLEAN :
            req' = [req EXCEPT ![r] = [pc |-> "create", op |-> "create", vocab |-> v, loaded |-> None,
                                       name |-> n, file |-> f, inSearch |-> s, failed |-> FALSE]]
      BY <1>1 DEF BeginCreate
    <2>2. c.pc = "create"
      BY <1>0, <2>1
    <2> QED
      BY <1>1, <2>2 DEF BeginCreate, history, Ignores
  <1>2. CASE BeginUpdate(r)
    <2>1. PICK v \in Vocab, f \in {None} \cup (File \ used), s \in BOOLEAN :
            req' = [req EXCEPT ![r] = [pc |-> "save", op |-> "update", vocab |-> v,
                                       loaded |-> row[v], name |-> None, file |-> f,
                                       inSearch |-> s, failed |-> FALSE]]
      BY <1>2 DEF BeginUpdate
    <2>2. c.loaded = row[v] /\ c.vocab = v
      BY <1>0, <2>1
    <2> QED
      BY <1>2, <2>2 DEF BeginUpdate, Ignores
  <1>3. CASE BeginDelete(r)
    <2>1. PICK v \in Vocab :
            req' = [req EXCEPT ![r] = [pc |-> "unterms", op |-> "delete", vocab |-> v,
                                       loaded |-> row[v], name |-> None, file |-> row[v].key,
                                       inSearch |-> row[v].inSearch, failed |-> FALSE]]
      BY <1>3 DEF BeginDelete
    <2>2. c.loaded = row[v] /\ c.vocab = v
      BY <1>0, <2>1
    <2> QED
      BY <1>3, <2>2 DEF BeginDelete, Ignores
  <1> QED
    BY <1>1, <1>2, <1>3

LEMMA SameSeen ==
    ASSUME CacheSeen /\ LoadsSeen /\ TopicSeen, Unseen, Ignores
    PROVE  CacheSeen' /\ LoadsSeen' /\ TopicSeen'
  BY DEF CacheSeen, LoadsSeen, TopicSeen, Unseen, Ignores, readers

LEMMA SameRows == ASSUME row' = row, terms' = terms PROVE Unseen
  BY DEF Unseen, Wanted, Index, ActiveIds, Exists

LEMMA BeginKeepsSeen ==
    ASSUME TypeInv, FileInv, SeenInv, NEW r \in Request, BeginCreate(r) \/ BeginUpdate(r) \/ BeginDelete(r)
    PROVE  SeenInv'
  <1>0. PICK c \in Call : Knows(r, c)
    BY BeginKnows DEF FileInv
  <1>1. /\ req[r] = None /\ req'[r] = c /\ Others(r) /\ row' = row /\ terms' = terms /\ raced \subseteq raced'
        /\ Ignores
        /\ IF c.pc = "create" THEN row[c.vocab] = None ELSE c.loaded = row[c.vocab] /\ row[c.vocab] # None
    BY <1>0, BeginMarks, BeginReads DEF Knows, FileInv, Owned, Exists, Call
  <1>2. ASSUME NEW q \in Request PROVE Outside(q)'
    <2>1. CASE q # r
      BY <1>1, <2>1 DEF SeenInv, Outside, Harmless, Others, On, Exists
    <2>2. CASE q = r
      BY <1>1, <2>2 DEF Outside, Harmless, On, Exists
    <2> QED
      BY <2>1, <2>2
  <1>3. ASSUME Calm' PROVE CacheSeen' /\ LoadsSeen' /\ TopicSeen'
    <2>1. Calm
      BY <1>1, <1>3, OthersOwe DEF Calm, Owes
    <2> QED
      BY <1>1, <2>1, SameRows, SameSeen DEF SeenInv
  <1> QED
    BY <1>2, <1>3 DEF SeenInv

LEMMA ReaderKeepsSeen == ASSUME TypeInv, SeenInv, ReaderStep PROVE SeenInv'
  <1>0. /\ UNCHANGED <<row, terms, req, raced>>
        /\ \A i \in Ingest : ingest[i] \in Expansion
        /\ worker \in Run
        /\ ingest \in [Ingest -> Expansion]
    BY ReaderTyped DEF TypeInv, TypeOK
  <1>1. /\ \A r \in Request : Outside(r)' <=> Outside(r)
        /\ \A r \in Request : Owes(r)' <=> Owes(r)
    BY <1>0 DEF Outside, Owes, Harmless, On, Exists
  <1>2. Unseen
    BY <1>0, SameRows
  <1> SUFFICES ASSUME Calm PROVE CacheSeen' /\ LoadsSeen' /\ TopicSeen'
    BY <1>1 DEF SeenInv, Calm
  <1>3. CacheSeen /\ LoadsSeen /\ TopicSeen /\ ActiveIds' = ActiveIds /\ Wanted' = Wanted
    BY <1>2 DEF SeenInv, Unseen
  <1>4. ASSUME NEW i \in Ingest, ReadCache(i) PROVE CacheSeen' /\ LoadsSeen' /\ TopicSeen'
    <2>1. UNCHANGED <<topic, cached, worker, pending, behind, missed>>
      BY <1>4 DEF ReadCache, readers, history
    <2>2. \/ ingest'[i].pc = "write"
          \/ ingest'[i].ids = ActiveIds
      <3>1. [NoExpansion EXCEPT !.pc = "terms", !.ids = ActiveIds].ids = ActiveIds
        BY DEF NoExpansion
      <3>2. [NoExpansion EXCEPT !.pc = "write", !.index = cached].pc = "write"
        BY DEF NoExpansion
      <3> QED
        BY <1>0, <1>4, <3>1, <3>2 DEF ReadCache
    <2>3. \A j \in Ingest : j # i => ingest'[j] = ingest[j]
      BY <1>0, <1>4 DEF ReadCache
    <2> QED
      BY <1>3, <2>1, <2>2, <2>3 DEF CacheSeen, LoadsSeen, TopicSeen
  <1>5. ASSUME NEW i \in Ingest, LoadTerms(i) PROVE CacheSeen' /\ LoadsSeen' /\ TopicSeen'
    <2>1. UNCHANGED <<topic, worker, pending, missed>>
      BY <1>5 DEF LoadTerms
    <2>2. cached' = Index(ingest[i].ids) /\ behind' = ingest[i].old /\ (ingest[i].old \/ ingest[i].ids = ActiveIds)
      BY <1>3, <1>5 DEF LoadTerms, LoadsSeen
    <2>3. ingest[i].ids = ActiveIds => Index(ingest[i].ids) = Wanted
      BY DEF Wanted
    <2>4. /\ ingest'[i].pc = "write"
          /\ \A j \in Ingest : j # i => ingest'[j] = ingest[j]
      <3>1. PICK x : x = Index(ingest[i].ids)
        OBVIOUS
      <3>2. ingest' = [ingest EXCEPT ![i] = [ingest[i] EXCEPT !.pc = "write", !.index = x]]
        BY <1>0, <1>5, <3>1 DEF LoadTerms
      <3>3. [ingest[i] EXCEPT !.pc = "write", !.index = x].pc = "write"
        BY <1>0 DEF Expansion
      <3> QED
        BY <1>0, <3>2, <3>3
    <2> QED
      BY <1>3, <2>1, <2>2, <2>3, <2>4 DEF CacheSeen, LoadsSeen, TopicSeen
  <1>6. ASSUME NEW i \in Ingest, WriteTopic(i) PROVE CacheSeen' /\ LoadsSeen' /\ TopicSeen'
    <2>1. /\ UNCHANGED <<cached, worker, pending, behind>>
          /\ topic' = ingest[i].index
          /\ missed' = (missed \/ ingest[i].index # Wanted)
      BY <1>6 DEF WriteTopic, Wanted
    <2>2. /\ ingest'[i].pc = "idle"
          /\ \A j \in Ingest : j # i => ingest'[j] = ingest[j]
      BY <1>0, <1>6 DEF WriteTopic, NoExpansion
    <2> QED
      BY <1>3, <2>1, <2>2 DEF CacheSeen, LoadsSeen, TopicSeen
  <1>7. CASE Expire
    BY <1>3, <1>7 DEF Expire, CacheSeen, LoadsSeen, TopicSeen
  <1>8. CASE WorkerIds \/ WorkerTerms \/ WorkerTopics \/ WorkerClear \/ WorkerFails
    <2>1. CacheSeen' /\ LoadsSeen'
      BY <1>3, <1>8 DEF CacheSeen, LoadsSeen, WorkerIds, WorkerTerms, WorkerTopics, WorkerClear, WorkerFails,
                        readers, history
    <2>2. CASE WorkerIds
      <3>1. worker'.pc = "terms" /\ worker'.ids = ActiveIds
        BY <2>2 DEF WorkerIds, NoRun
      <3>2. UNCHANGED <<topic, pending, missed>>
        BY <2>2 DEF WorkerIds, history
      <3> QED
        BY <1>3, <2>1, <3>1, <3>2 DEF TopicSeen
    <2>3. CASE WorkerTerms
      <3>1. PICK x : x = Index(worker.ids)
        OBVIOUS
      <3>2. worker'.pc = "topics" /\ worker'.index = x
        BY <1>0, <2>3, <3>1 DEF WorkerTerms, Run
      <3>3. worker.ids = ActiveIds => x = Wanted
        BY <3>1 DEF Wanted
      <3>4. UNCHANGED <<topic, pending, missed>> /\ worker.pc = "terms"
        BY <2>3 DEF WorkerTerms, history
      <3> QED
        BY <1>3, <2>1, <3>2, <3>3, <3>4 DEF TopicSeen
    <2>4. CASE WorkerTopics
      <3>1. worker'.pc = "clear"
        BY <1>0, <2>4 DEF WorkerTopics, Run
      <3>2. topic' = worker.index /\ UNCHANGED <<pending, missed>> /\ worker.pc = "topics"
        BY <2>4 DEF WorkerTopics, history
      <3> QED
        BY <1>3, <2>1, <3>1, <3>2 DEF TopicSeen
    <2>5. CASE WorkerClear
      <3>1. worker'.pc = "idle"
        BY <2>5 DEF WorkerClear, NoRun
      <3>2. topic' = topic /\ missed' = (missed \/ topic # Wanted)
        BY <2>5 DEF WorkerClear, Wanted
      <3> QED
        BY <1>3, <2>1, <3>1, <3>2 DEF TopicSeen
    <2>6. CASE WorkerFails
      <3>1. worker'.pc = "idle"
        BY <2>6 DEF WorkerFails, NoRun
      <3>2. UNCHANGED <<topic, pending, missed>>
        BY <2>6 DEF WorkerFails, history
      <3> QED
        BY <1>3, <2>1, <3>1, <3>2 DEF TopicSeen
    <2> QED
      BY <1>8, <2>1, <2>2, <2>3, <2>4, <2>5, <2>6
  <1> QED
    BY <1>4, <1>5, <1>6, <1>7, <1>8 DEF ReaderStep

LEMMA CrashKeepsSeen == ASSUME TypeInv, SeenInv, Crash PROVE SeenInv'
  <1>1. /\ \A r \in Request : req'[r] = None
        /\ \A i \in Ingest : ingest'[i].pc = "idle"
        /\ worker'.pc = "idle" /\ cached' = None
        /\ row' = row /\ terms' = terms /\ topic' = topic /\ pending' = pending
        /\ missed' = (missed \/ \E v \in Vocab : Busy(v))
    BY DEF Crash, NoExpansion, NoRun, files
  <1>2. Unseen
    BY <1>1, SameRows
  <1>3. CacheSeen' /\ LoadsSeen'
    BY <1>1 DEF CacheSeen, LoadsSeen
  <1>4. TopicSeen'
    <2>1. CASE \E v \in Vocab : Busy(v)
      BY <1>1, <2>1 DEF TopicSeen
    <2>2. CASE ~(\E v \in Vocab : Busy(v))
      <3>1. Calm
        BY <2>2, Known DEF Calm, Owes, Busy, On
      <3> QED
        BY <1>1, <1>2, <3>1 DEF SeenInv, TopicSeen, Unseen
    <2> QED
      BY <2>1, <2>2
  <1> QED
    BY <1>1, <1>3, <1>4 DEF SeenInv, Outside

LEMMA InitSeen == Init => SeenInv
  <1> SUFFICES ASSUME Init PROVE SeenInv
    OBVIOUS
  <1>1. ActiveIds = {}
    BY DEF Init, ActiveIds, Exists
  <1>2. Wanted = {}
    BY <1>1 DEF Wanted, Index
  <1> QED
    BY <1>2 DEF Init, SeenInv, Outside, CacheSeen, LoadsSeen, TopicSeen, NoExpansion, NoRun

LEMMA SeenInvariant == Spec => []SeenInv
  <1>1. TypeInv /\ FileInv /\ TermInv /\ [Next]_vars => FileInv' /\ TermInv'
    BY FileStays, TermsStay
  <1>2. TypeInv /\ FileInv /\ TermInv /\ SeenInv /\ [Next]_vars => SeenInv'
    <2> SUFFICES ASSUME TypeInv, FileInv, TermInv, SeenInv, [Next]_vars PROVE SeenInv'
      OBVIOUS
    <2>1. CASE UNCHANGED vars
      <3>1. Unseen /\ Ignores /\ UNCHANGED <<req, row, raced>>
        BY <2>1, SameRows DEF vars, history, readers, Ignores
      <3>2. \A r \in Request : (Outside(r)' <=> Outside(r)) /\ (Owes(r)' <=> Owes(r))
        BY <3>1 DEF Outside, Owes, Harmless, On, Exists
      <3> QED
        BY <3>1, <3>2, SameSeen DEF SeenInv, Calm
    <2> QED
      BY <2>1, NextCases, BeginKeepsSeen, StepKeepsSeen, ReaderKeepsSeen, CrashKeepsSeen
  <1> QED
    BY <1>1, <1>2, TypeInvariant, InitFileInv, InitTerms, InitSeen, PTL DEF Spec

\* CacheFollows: when no request is under way the cached index is that of the
\* rows, apart from a load that an invalidation did not stop and requests that
\* gave up.
THEOREM CacheIsOfTheRows == Spec => []CacheFollows
  <1>1. SeenInv => CacheFollows
    BY DEF SeenInv, Calm, Owes, CacheSeen, CacheFollows, Wanted
  <1> QED
    BY <1>1, SeenInvariant, PTL

\* PendingIsHonest: at rest, topics whose synonyms are not those of the
\* vocabularies in search come with the flag that asks for a reprocess, but for
\* the changes that the code makes without it.
THEOREM FlagTellsOfTopics == Spec => []PendingIsHonest
  <1>1. SeenInv => PendingIsHonest
    BY DEF SeenInv, Calm, Owes, TopicSeen, PendingIsHonest, Wanted
  <1> QED
    BY <1>1, SeenInvariant, PTL
=============================================================================
