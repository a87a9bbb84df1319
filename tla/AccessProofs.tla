----------------------------- MODULE AccessProofs -----------------------------
(***************************************************************************)
(* Proofs about AccessRules, for any rules, requests, contents and crashes. *)
(*                                                                         *)
(* TypeInv types the state; RowStep says what any step does to one row, and *)
(* the invariants of the switch (LegacyInv, StagedInv) follow from it.  What *)
(* an apply leaves (AppliedInv) is argued per apply: the steps of others     *)
(* only reach rules they are then recorded to have touched (OthersTouch).   *)
(* What a topic inherits is shown of its ancestors, by induction over the    *)
(* steps upwards: a set of numbers that is not empty has a least one.       *)
(***************************************************************************)
EXTENDS AccessRules, WellFoundedInduction, TLAPS

-----------------------------------------------------------------------------
(* Type correctness                                                        *)

\* What the program counter says of a request: an edit and a deletion have a
\* rule, and the copy they loaded was a row.
RequestShape(s) == s.pc \in {"edit", "delete"} => s.rule \in Rule /\ s.copy[s.rule] \in Row

TypeInv == TypeOK /\ \A q \in Request : RequestShape(req[q])

LEMMA IdleTyped ==
    /\ Idle \in RequestState /\ RequestShape(Idle)
    /\ \A pc \in {"done", "applied"} : Ended(pc) \in RequestState /\ RequestShape(Ended(pc))
  <1>1. AnyDefault \in Defaults
    BY AccessAssumption DEF AnyDefault
  <1>2. AnyConfig \in Config
    BY <1>1 DEF AnyConfig, Config
  <1>3. NoRows \in [Rule -> Rows]
    BY DEF NoRows, Rows
  <1> QED
    BY <1>2, <1>3 DEF Idle, Ended, RequestState, RequestShape

\* An absent row is no row, and says of itself what the record says.
LEMMA AbsentRows ==
    /\ NoRow.status = "none" /\ ~NoRow.draft /\ NoRow.born = "enhanced" /\ NoRow.content = None
    /\ GoneRow.status = "gone" /\ ~GoneRow.draft /\ GoneRow.born = "enhanced"
    /\ GoneRow.content = None
  BY DEF NoRow, GoneRow

LEMMA RowsApart == NoRow \notin Row /\ GoneRow \notin Row /\ NoRow # GoneRow
  <1>1. \A s \in Row : s.status \in {"New", "Modified", "Active", "Deleted"}
    BY DEF Row
  <1>2. NoRow.status \notin {"New", "Modified", "Active", "Deleted", "gone"}
    BY AbsentRows
  <1>3. GoneRow.status \notin {"New", "Modified", "Active", "Deleted"} /\ GoneRow.status = "gone"
    BY AbsentRows
  <1> QED
    BY <1>1, <1>2, <1>3

LEMMA ExistsIsRow == ASSUME TypeOK, NEW r \in Rule PROVE Exists(r) <=> row[r] \in Row
  <1>1. row[r] \in Row \/ row[r] = NoRow \/ row[r] = GoneRow
    BY DEF TypeOK, Rows
  <1> QED
    BY <1>1, RowsApart DEF Exists

LEMMA InitTypeInv == Init => TypeInv
  <1> SUFFICES ASSUME Init PROVE TypeInv
    OBVIOUS
  <1>1. ASSUME NEW r \in Rule PROVE row[r] \in Rows /\ row[r].content \in Content \cup {None}
    <2>1. CASE row[r] = NoRow
      BY <2>1, AbsentRows DEF Rows
    <2>2. ASSUME NEW c \in Content,
                 row[r] = [status |-> "Active", draft |-> FALSE, content |-> c, born |-> cfg.mode]
          PROVE  row[r] \in Rows /\ row[r].content \in Content
      <3>1. cfg.mode \in {"legacy", "draft", "enhanced"}
        BY DEF Init, Config
      <3> QED
        BY <2>2, <3>1 DEF Rows, Row
    <2> QED
      BY <2>1, <2>2 DEF Init
  <1>2. row \in [Rule -> Rows]
    BY <1>1 DEF Init
  <1>3. promoted \in [Rule -> Content \cup {None}]
    BY <1>1 DEF Init
  <1>4. req \in [Request -> RequestState] /\ \A q \in Request : RequestShape(req[q])
    BY IdleTyped DEF Init
  <1>5. touched \in [Request -> SUBSET Rule] /\ crashes \in 0..MaxCrashes
    BY AccessAssumption DEF Init
  <1>6. cfg \in Config /\ overtaken \subseteq Rule /\ late \subseteq Rule /\ hurried \in BOOLEAN
    BY DEF Init
  <1> QED
    BY <1>2, <1>3, <1>4, <1>5, <1>6 DEF TypeInv, TypeOK

\* One request moves to a well-formed state.
LEMMA MoveTyped ==
    ASSUME TypeInv, NEW q \in Request, NEW s \in RequestState, RequestShape(s),
           req' = [req EXCEPT ![q] = s]
    PROVE  req' \in [Request -> RequestState] /\ \A p \in Request : RequestShape(req'[p])
  BY DEF TypeInv, TypeOK

LEMMA EndTyped ==
    ASSUME TypeInv, NEW q \in Request, End(q)
    PROVE  req' \in [Request -> RequestState] /\ \A p \in Request : RequestShape(req'[p])
  BY IdleTyped, MoveTyped DEF End

LEMMA GoTyped ==
    ASSUME TypeInv, NEW q \in Request, NEW pc \in {"drafts", "wipe", "flip"}, Go(q, pc)
    PROVE  req' \in [Request -> RequestState] /\ \A p \in Request : RequestShape(req'[p])
  <1> DEFINE s == [req[q] EXCEPT !.pc = pc]
  <1>1. s \in RequestState /\ RequestShape(s)
    BY DEF TypeInv, TypeOK, RequestState, RequestShape
  <1> QED
    BY <1>1, MoveTyped DEF Go

\* What a save of a loaded row leaves.
LEMMA SaveTyped ==
    ASSUME TypeInv, NEW q \in Request, NEW r \in Rule, NEW new \in Rows, SaveCopy(q, r, new)
    PROVE  /\ row' \in [Rule -> Rows]
           /\ overtaken' \subseteq Rule
           /\ touched' \in [Request -> SUBSET Rule]
  BY DEF TypeInv, TypeOK, SaveCopy, Touch

LEMMA TouchTyped ==
    ASSUME TypeInv, NEW q \in Request, NEW rules \in SUBSET Rule, Touch(q, rules)
    PROVE  touched' \in [Request -> SUBSET Rule]
  BY DEF TypeInv, TypeOK, Touch

LEMMA RuleStepTyped == ASSUME TypeInv, NEW q \in Request, RuleStep(q) PROVE TypeInv'
  <1> USE DEF TypeInv
  <1>1. CASE CreateRead(q)
    <2> DEFINE s == [Idle EXCEPT !.pc = "insert", !.cfg = cfg]
    <2>1. s \in RequestState /\ RequestShape(s)
      BY IdleTyped DEF TypeOK, Idle, RequestState, RequestShape
    <2> QED
      BY <1>1, <2>1, MoveTyped DEF CreateRead, TypeOK, history
  <1>2. CASE CreateInsert(q)
    <2>1. PICK r \in Rule, c \in Content, d \in BOOLEAN :
             LET draft == req[q].cfg.mode = "legacy" /\ d
                 born == IF draft THEN "draft" ELSE req[q].cfg.mode
             IN  /\ row' = [row EXCEPT ![r] =
                              [status |-> "New", draft |-> draft, content |-> c, born |-> born]]
                 /\ late' \in {late, late \cup {r}}
                 /\ Touch(q, {r})
      BY <1>2 DEF CreateInsert
    <2>2. req[q].cfg.mode \in {"legacy", "enhanced"}
      BY DEF TypeOK, RequestState, Config
    <2>3. row' \in [Rule -> Rows]
      BY <2>1, <2>2 DEF TypeOK, Rows, Row
    <2>4. touched' \in [Request -> SUBSET Rule]
      BY <2>1, TouchTyped
    <2>5. End(q) /\ UNCHANGED <<cfg, promoted, overtaken, hurried, crashes>>
      BY <1>2 DEF CreateInsert
    <2>6. req' \in [Request -> RequestState] /\ \A p \in Request : RequestShape(req'[p])
      BY <2>5, EndTyped
    <2> QED
      BY <2>1, <2>3, <2>4, <2>5, <2>6 DEF TypeOK
  <1>3. ASSUME NEW r \in Rule, NEW pc \in {"edit", "delete"}, LoadRule(q, r, pc) PROVE TypeInv'
    <2> DEFINE s == [Idle EXCEPT !.pc = pc, !.rule = r, !.copy = [NoRows EXCEPT ![r] = row[r]]]
    <2>1. row[r] \in Row
      BY <1>3, ExistsIsRow DEF LoadRule
    <2>2. NoRows \in [Rule -> Rows] /\ row[r] \in Rows
      BY <2>1 DEF NoRows, Rows
    <2>3. s \in RequestState /\ RequestShape(s)
      BY <2>1, <2>2, IdleTyped DEF Idle, RequestState, RequestShape
    <2> QED
      BY <1>3, <2>3, MoveTyped DEF LoadRule, TypeOK, history
  <1>4. CASE EditLoad(q) \/ DeleteLoad(q)
    BY <1>3, <1>4 DEF EditLoad, DeleteLoad
  <1>5. CASE EditSave(q)
    <2> DEFINE r == req[q].rule
    <2>1. r \in Rule /\ req[q].copy[r] \in Row /\ row[r] \in Row
      BY <1>5, ExistsIsRow DEF EditSave, RequestShape
    <2>2. EditedStatus(req[q].copy[r]) \in {"New", "Modified", "Active", "Deleted"}
      BY <2>1 DEF EditedStatus, Row
    <2>3. SavedStatus(q, r, EditedStatus(req[q].copy[r])) \in {"New", "Modified", "Active", "Deleted"}
      BY <2>1, <2>2 DEF SavedStatus, Row
    <2>4. PICK c \in Content :
            SaveCopy(q, r, [row[r] EXCEPT !.content = c,
                              !.status = SavedStatus(q, r, EditedStatus(req[q].copy[r]))])
      BY <1>5 DEF EditSave
    <2>5. [row[r] EXCEPT !.content = c, !.status = SavedStatus(q, r, EditedStatus(req[q].copy[r]))] \in Rows
      BY <2>1, <2>3 DEF Row, Rows
    <2>6. End(q) /\ UNCHANGED <<cfg, promoted, late, hurried, crashes>>
      BY <1>5 DEF EditSave
    <2> QED
      BY <2>1, <2>4, <2>5, <2>6, SaveTyped, EndTyped DEF TypeOK
  <1>6. CASE DeleteMark(q)
    <2> DEFINE r == req[q].rule
    <2>1. r \in Rule /\ req[q].copy[r] \in Row
      BY <1>6 DEF DeleteMark, RequestShape
    <2>2. End(q) /\ UNCHANGED <<cfg, promoted, late, hurried, crashes>>
      BY <1>6 DEF DeleteMark
    <2>3. CASE Exists(r)
      <3>1. row[r] \in Row
        BY <2>1, <2>3, ExistsIsRow
      <3>2. [row[r] EXCEPT !.status = SavedStatus(q, r, "Deleted")] \in Rows
        BY <2>1, <3>1 DEF SavedStatus, Row, Rows
      <3>3. SaveCopy(q, r, [row[r] EXCEPT !.status = SavedStatus(q, r, "Deleted")])
        BY <1>6, <2>3 DEF DeleteMark
      <3> QED
        BY <2>1, <2>2, <3>2, <3>3, SaveTyped, EndTyped DEF TypeOK
    <2>4. CASE ~Exists(r)
      BY <1>6, <2>2, <2>4, EndTyped DEF DeleteMark, TypeOK
    <2> QED
      BY <2>3, <2>4
  <1>7. CASE DeleteRow(q)
    <2> DEFINE r == req[q].rule
    <2>1. r \in Rule /\ GoneRow \in Rows
      BY <1>7 DEF DeleteRow, RequestShape, Rows
    <2>2. SaveCopy(q, r, GoneRow) /\ End(q) /\ UNCHANGED <<cfg, promoted, late, hurried, crashes>>
      BY <1>7 DEF DeleteRow
    <2> QED
      BY <2>1, <2>2, SaveTyped, EndTyped DEF TypeOK
  <1>8. CASE EditRefused(q)
    BY <1>8, EndTyped DEF EditRefused, TypeOK, history
  <1>9. CASE ConfigLoad(q)
    <2> DEFINE s == [Idle EXCEPT !.pc = "config", !.cfg = cfg]
    <2>1. s \in RequestState /\ RequestShape(s)
      BY IdleTyped DEF TypeOK, Idle, RequestState, RequestShape
    <2> QED
      BY <1>9, <2>1, MoveTyped DEF ConfigLoad, TypeOK, history
  <1>10. CASE ConfigSave(q)
    <2>1. PICK new \in Config :
            cfg' = [f \in DOMAIN cfg |->
                      IF f = "mode" \/ new[f] = req[q].cfg[f] THEN cfg[f] ELSE new[f]]
      BY <1>10 DEF ConfigSave
    <2>2. cfg' \in Config
      BY <2>1 DEF TypeOK, Config
    <2> QED
      BY <1>10, <2>2, EndTyped DEF ConfigSave, TypeOK, history
  <1> QED
    BY <1>1, <1>2, <1>4, <1>5, <1>6, <1>7, <1>8, <1>9, <1>10 DEF RuleStep

LEMMA LoadAllTyped ==
    ASSUME TypeInv, NEW q \in Request, NEW pc \in {"draft", "promote"}, NEW rules \in SUBSET Rule,
           LoadAll(q, pc, rules)
    PROVE  req' \in [Request -> RequestState] /\ \A p \in Request : RequestShape(req'[p])
  <1> DEFINE copy == [r \in Rule |-> IF r \in rules THEN row[r] ELSE NoRow]
             s == [req[q] EXCEPT !.pc = pc, !.todo = rules, !.copy = copy]
  <1>1. copy \in [Rule -> Rows]
    BY DEF TypeInv, TypeOK, Rows
  <1>2. s \in RequestState /\ RequestShape(s)
    BY <1>1 DEF TypeInv, TypeOK, RequestState, RequestShape
  <1>3. req' = [req EXCEPT ![q] = s]
    BY DEF LoadAll
  <1> QED
    BY <1>2, <1>3, MoveTyped

LEMMA ApplyStepTyped == ASSUME TypeInv, NEW q \in Request, ApplyStep(q) PROVE TypeInv'
  <1> USE DEF TypeInv
  <1>1. CASE ApplyRequest(q)
    BY <1>1, GoTyped DEF ApplyRequest, TypeOK
  <1>2. CASE FindDrafts(q)
    <2>1. LoadAll(q, "draft", {r \in Rule : row[r].draft})
      BY <1>2 DEF FindDrafts
    <2>2. hurried' \in BOOLEAN
      BY <1>2 DEF FindDrafts, TypeOK
    <2> QED
      BY <1>2, <2>1, <2>2, LoadAllTyped DEF FindDrafts, TypeOK
  <1>3. CASE FindPending(q)
    BY <1>3, LoadAllTyped DEF FindPending, TypeOK, history
  <1>4. CASE Promote(q)
    <2>1. PICK r \in req[q].todo :
            /\ Exists(r)
            /\ SaveCopy(q, r, [row[r] EXCEPT !.status = "Active",
                                 !.draft = @ /\ req[q].pc = "promote"])
            /\ promoted' = [promoted EXCEPT ![r] = row[r].content]
            /\ req' = [req EXCEPT ![q].todo = @ \ {r}]
      BY <1>4 DEF Promote
    <2>2. r \in Rule /\ row[r] \in Row
      BY <2>1, ExistsIsRow DEF TypeOK, RequestState
    <2>3. [row[r] EXCEPT !.status = "Active", !.draft = @ /\ req[q].pc = "promote"] \in Rows
      BY <2>2 DEF Row, Rows
    <2> DEFINE s == [req[q] EXCEPT !.todo = @ \ {r}]
    <2>4. s \in RequestState /\ RequestShape(s)
      BY DEF TypeOK, RequestState, RequestShape
    <2>5. promoted' \in [Rule -> Content \cup {None}]
      BY <2>1, <2>2 DEF TypeOK, Row
    <2>6. UNCHANGED <<cfg, late, hurried, crashes>>
      BY <1>4 DEF Promote
    <2>7. req' \in [Request -> RequestState] /\ \A p \in Request : RequestShape(req'[p])
      BY <2>1, <2>4, MoveTyped
    <2> QED
      BY <2>1, <2>2, <2>3, <2>5, <2>6, <2>7, SaveTyped DEF TypeOK
  <1>5. CASE PromoteFails(q)
    BY <1>5, EndTyped DEF PromoteFails, TypeOK, history
  <1>6. CASE Purge(q)
    <2> DEFINE dead == {r \in Rule : row[r].status = "Deleted"}
    <2>1. row' = [r \in Rule |-> IF r \in dead THEN GoneRow ELSE row[r]] /\ Touch(q, dead)
      BY <1>6 DEF Purge
    <2>2. row' \in [Rule -> Rows]
      BY <2>1 DEF TypeOK, Rows
    <2>3. touched' \in [Request -> SUBSET Rule]
      BY <2>1, TouchTyped
    <2>4. req' \in [Request -> RequestState] /\ \A p \in Request : RequestShape(req'[p])
      BY <1>6, IdleTyped, MoveTyped DEF Purge
    <2> QED
      BY <1>6, <2>2, <2>3, <2>4 DEF Purge, TypeOK
  <1> QED
    BY <1>1, <1>2, <1>3, <1>4, <1>5, <1>6 DEF ApplyStep

LEMMA SwitchStepTyped == ASSUME TypeInv, NEW q \in Request, SwitchStep(q) PROVE TypeInv'
  <1> USE DEF TypeInv
  <1>1. CASE SwitchRead(q)
    BY <1>1, GoTyped, EndTyped DEF SwitchRead, TypeOK, history
  <1>2. CASE Wipe(q)
    <2> DEFINE wiped == {r \in Rule : Exists(r) /\ ~row[r].draft}
    <2>1. row' = [r \in Rule |-> IF r \in wiped THEN GoneRow ELSE row[r]] /\ Touch(q, wiped)
      BY <1>2 DEF Wipe
    <2>2. row' \in [Rule -> Rows]
      BY <2>1 DEF TypeOK, Rows
    <2>3. touched' \in [Request -> SUBSET Rule]
      BY <2>1, TouchTyped
    <2>4. late' \subseteq Rule /\ hurried' \in BOOLEAN /\ Go(q, "flip")
             /\ UNCHANGED <<cfg, promoted, overtaken, crashes>>
      BY <1>2 DEF Wipe, TypeOK
    <2>5. req' \in [Request -> RequestState] /\ \A p \in Request : RequestShape(req'[p])
      BY <2>4, GoTyped
    <2> QED
      BY <2>2, <2>3, <2>4, <2>5 DEF TypeOK
  <1>3. CASE SaveMode(q)
    <2>1. cfg' \in Config
      BY <1>3 DEF SaveMode, TypeOK, Config
    <2> QED
      BY <1>3, <2>1, GoTyped DEF SaveMode, TypeOK
  <1> QED
    BY <1>1, <1>2, <1>3 DEF SwitchStep

LEMMA CrashTyped == TypeInv /\ Crash => TypeInv'
  BY IdleTyped, AccessAssumption DEF TypeInv, TypeOK, Crash, history

LEMMA NextTyped == TypeInv /\ [Next]_vars => TypeInv'
  <1>1. TypeInv /\ UNCHANGED vars => TypeInv'
    BY DEF TypeInv, TypeOK, vars, history
  <1> QED
    BY <1>1, RuleStepTyped, ApplyStepTyped, SwitchStepTyped, CrashTyped DEF Next

LEMMA TypeInvariant == Spec => []TypeInv
  BY InitTypeInv, NextTyped, PTL DEF Spec

\* TypeOK: every reachable state of the rules, the configuration and the
\* requests is well typed.
THEOREM TypeCorrect == Spec => []TypeOK
  BY TypeInvariant, PTL DEF TypeInv

-----------------------------------------------------------------------------
(* What a step does to a row                                               *)

\* Every change of a row, whoever makes it: it goes, it is created, or a row
\* that was there changes its status, its content or its place in the set of
\* drafts, which only an apply that found it there takes it out of.
Goes(r) == row'[r] = GoneRow
Comes(r) ==
    /\ row[r] = NoRow
    /\ row'[r] \in Row /\ row'[r].status = "New" /\ (row'[r].draft <=> row'[r].born = "draft")
    /\ row'[r].born = "legacy" /\ (Wiping \/ cfg.mode = "enhanced") => r \in late'
Changes(r) ==
    /\ row[r] \in Row /\ row'[r] \in Row
    /\ row'[r].born = row[r].born
    /\ \/ row'[r].draft = row[r].draft
       \/ \E q \in Request : req[q].pc = "draft" /\ r \in req[q].todo /\ ~row'[r].draft

RowStep(r) == row'[r] = row[r] \/ Goes(r) \/ Comes(r) \/ Changes(r)

\* What a request that creates a rule writes.
LEMMA CreateWrites ==
    ASSUME TypeInv, NEW q \in Request, CreateInsert(q)
    PROVE  \E n \in Rule :
             /\ row[n] = NoRow /\ row'[n] \in Row /\ row'[n].status = "New"
             /\ row' = [row EXCEPT ![n] = row'[n]]
             /\ row'[n].draft <=> row'[n].born = "draft"
             /\ late' = IF row'[n].born = "legacy" /\ (Wiping \/ cfg.mode = "enhanced")
                        THEN late \cup {n} ELSE late
             /\ Touch(q, {n})
  <1>1. PICK n \in Rule, c \in Content, d \in BOOLEAN :
           LET draft == req[q].cfg.mode = "legacy" /\ d
               born == IF draft THEN "draft" ELSE req[q].cfg.mode
           IN  /\ row[n] = NoRow
               /\ row' = [row EXCEPT ![n] =
                            [status |-> "New", draft |-> draft, content |-> c, born |-> born]]
               /\ late' = IF born = "legacy" /\ (Wiping \/ cfg.mode = "enhanced")
                          THEN late \cup {n} ELSE late
               /\ Touch(q, {n})
    BY DEF CreateInsert
  <1> DEFINE draft == req[q].cfg.mode = "legacy" /\ d
             born == IF draft THEN "draft" ELSE req[q].cfg.mode
             new == [status |-> "New", draft |-> draft, content |-> c, born |-> born]
  <1>2. req[q].cfg.mode \in {"legacy", "enhanced"}
    BY DEF TypeInv, TypeOK, RequestState, Config
  <1>3. draft \in BOOLEAN /\ born \in {"legacy", "draft", "enhanced"} /\ (draft <=> born = "draft")
    BY <1>2
  <1>4. row' = [row EXCEPT ![n] = new] /\ row[n] = NoRow /\ Touch(q, {n})
           /\ late' = IF born = "legacy" /\ (Wiping \/ cfg.mode = "enhanced")
                      THEN late \cup {n} ELSE late
    BY <1>1
  <1> HIDE DEF draft, born
  <1>5. new \in Row /\ new.status = "New" /\ new.draft = draft /\ new.born = born
    BY <1>3 DEF Row
  <1> HIDE DEF new
  <1>6. row'[n] = new
    BY <1>4 DEF TypeInv, TypeOK
  <1> QED
    BY <1>3, <1>4, <1>5, <1>6

\* What an edit writes.
LEMMA EditWrites ==
    ASSUME TypeInv, NEW q \in Request, EditSave(q)
    PROVE  LET r == req[q].rule
               copy == req[q].copy[r]
           IN  /\ r \in Rule /\ copy \in Row /\ row[r] \in Row /\ row'[r] \in Row
               /\ row' = [row EXCEPT ![r] = row'[r]]
               /\ row'[r].born = row[r].born /\ row'[r].draft = row[r].draft
               /\ row'[r].status = SavedStatus(q, r, EditedStatus(copy))
               /\ overtaken' = IF row[r] = copy THEN overtaken ELSE overtaken \cup {r}
  <1> DEFINE r == req[q].rule
             copy == req[q].copy[r]
             status == SavedStatus(q, r, EditedStatus(copy))
  <1>1. r \in Rule /\ copy \in Row /\ row[r] \in Row
    BY ExistsIsRow DEF TypeInv, EditSave, RequestShape
  <1>2. PICK c \in Content : SaveCopy(q, r, [row[r] EXCEPT !.content = c, !.status = status])
    BY DEF EditSave
  <1>3. status \in {"New", "Modified", "Active", "Deleted"}
    BY <1>1 DEF EditedStatus, SavedStatus, Row
  <1> HIDE DEF status
  <1>4. row' = [row EXCEPT ![r] = [row[r] EXCEPT !.content = c, !.status = status]]
          /\ overtaken' = IF row[r] = copy THEN overtaken ELSE overtaken \cup {r}
    BY <1>2 DEF SaveCopy
  <1>5. row'[r] = [row[r] EXCEPT !.content = c, !.status = status]
    BY <1>1, <1>4 DEF TypeInv, TypeOK
  <1>6. row'[r] \in Row /\ row'[r].born = row[r].born /\ row'[r].draft = row[r].draft
          /\ row'[r].status = status
    BY <1>1, <1>3, <1>5 DEF Row
  <1> QED
    BY <1>1, <1>4, <1>5, <1>6 DEF status

\* What a tombstone writes, if the row is there.
LEMMA MarkWrites ==
    ASSUME TypeInv, NEW q \in Request, DeleteMark(q), Exists(req[q].rule)
    PROVE  LET r == req[q].rule
               copy == req[q].copy[r]
           IN  /\ r \in Rule /\ copy \in Row /\ row[r] \in Row /\ row'[r] \in Row
               /\ row' = [row EXCEPT ![r] = row'[r]]
               /\ row'[r].born = row[r].born /\ row'[r].draft = row[r].draft
               /\ row'[r].status = SavedStatus(q, r, "Deleted")
               /\ overtaken' = IF row[r] = copy THEN overtaken ELSE overtaken \cup {r}
  <1> DEFINE r == req[q].rule
             copy == req[q].copy[r]
             status == SavedStatus(q, r, "Deleted")
  <1>1. r \in Rule /\ copy \in Row /\ row[r] \in Row
    BY ExistsIsRow DEF TypeInv, DeleteMark, RequestShape
  <1>2. SaveCopy(q, r, [row[r] EXCEPT !.status = status])
    BY DEF DeleteMark
  <1>3. status \in {"New", "Modified", "Active", "Deleted"}
    BY <1>1 DEF SavedStatus, Row
  <1> HIDE DEF status
  <1>4. row' = [row EXCEPT ![r] = [row[r] EXCEPT !.status = status]]
          /\ overtaken' = IF row[r] = copy THEN overtaken ELSE overtaken \cup {r}
    BY <1>2 DEF SaveCopy
  <1>5. row'[r] = [row[r] EXCEPT !.status = status]
    BY <1>1, <1>4 DEF TypeInv, TypeOK
  <1>6. row'[r] \in Row /\ row'[r].born = row[r].born /\ row'[r].draft = row[r].draft
          /\ row'[r].status = status
    BY <1>1, <1>3, <1>5 DEF Row
  <1> QED
    BY <1>1, <1>4, <1>5, <1>6 DEF status

\* What an apply writes of the rule it saves next.
LEMMA PromoteWrites ==
    ASSUME TypeInv, NEW q \in Request, Promote(q)
    PROVE  \E r \in req[q].todo :
             /\ r \in Rule /\ row[r] \in Row /\ row'[r] \in Row
             /\ row' = [row EXCEPT ![r] = row'[r]]
             /\ row'[r].born = row[r].born /\ row'[r].status = "Active"
             /\ row'[r].content = row[r].content
             /\ row'[r].draft <=> (row[r].draft /\ req[q].pc = "promote")
             /\ promoted' = [promoted EXCEPT ![r] = row[r].content]
             /\ overtaken \subseteq overtaken'
             /\ Touch(q, {r})
             /\ req' = [req EXCEPT ![q].todo = @ \ {r}]
  <1>1. PICK r \in req[q].todo :
          /\ Exists(r)
          /\ SaveCopy(q, r, [row[r] EXCEPT !.status = "Active",
                               !.draft = @ /\ req[q].pc = "promote"])
          /\ promoted' = [promoted EXCEPT ![r] = row[r].content]
          /\ req' = [req EXCEPT ![q].todo = @ \ {r}]
    BY DEF Promote
  <1>2. r \in Rule /\ row[r] \in Row
    BY <1>1, ExistsIsRow DEF TypeInv, TypeOK, RequestState
  <1> DEFINE new == [row[r] EXCEPT !.status = "Active", !.draft = @ /\ req[q].pc = "promote"]
  <1>3. /\ new \in Row /\ new.born = row[r].born /\ new.status = "Active"
        /\ new.content = row[r].content
        /\ new.draft <=> (row[r].draft /\ req[q].pc = "promote")
    BY <1>2 DEF Row
  <1>4. row' = [row EXCEPT ![r] = new] /\ overtaken \subseteq overtaken' /\ Touch(q, {r})
    BY <1>1 DEF SaveCopy
  <1> HIDE DEF new
  <1>5. row'[r] = new
    BY <1>2, <1>4 DEF TypeInv, TypeOK
  <1>6. row' = [row EXCEPT ![r] = row'[r]]
    BY <1>4, <1>5
  <1>7. /\ row'[r] \in Row
        /\ row'[r].born = row[r].born /\ row'[r].status = "Active"
        /\ row'[r].content = row[r].content
        /\ row'[r].draft <=> (row[r].draft /\ req[q].pc = "promote")
    BY <1>3, <1>5
  <1> QED
    BY <1>1, <1>2, <1>4, <1>6, <1>7

LEMMA OneRow ==
    ASSUME TypeInv, NEW n \in Rule, row' = [row EXCEPT ![n] = row'[n]], NEW r \in Rule
    PROVE  r = n \/ row'[r] = row[r]
  BY DEF TypeInv, TypeOK

LEMMA NextRows == ASSUME TypeInv, [Next]_vars, NEW r \in Rule PROVE RowStep(r)
  <1> USE DEF RowStep
  <1>1. ASSUME NEW q \in Request, RuleStep(q) PROVE RowStep(r)
    <2>1. CASE CreateInsert(q)
      <3>1. PICK n \in Rule :
              /\ row[n] = NoRow /\ row'[n] \in Row /\ row'[n].status = "New"
              /\ row' = [row EXCEPT ![n] = row'[n]]
              /\ row'[n].draft <=> row'[n].born = "draft"
              /\ late' = IF row'[n].born = "legacy" /\ (Wiping \/ cfg.mode = "enhanced")
                         THEN late \cup {n} ELSE late
        BY <2>1, CreateWrites
      <3> QED
        BY <3>1, OneRow DEF Comes
    <2>2. CASE EditSave(q)
      <3> DEFINE n == req[q].rule
      <3>1. /\ n \in Rule /\ row[n] \in Row /\ row'[n] \in Row
            /\ row' = [row EXCEPT ![n] = row'[n]]
            /\ row'[n].born = row[n].born /\ row'[n].draft = row[n].draft
        BY <2>2, EditWrites
      <3> QED
        BY <3>1, OneRow DEF Changes
    <2>3. CASE DeleteRow(q)
      BY <2>3 DEF DeleteRow, SaveCopy, Goes, TypeInv, TypeOK
    <2>4. CASE DeleteMark(q)
      <3> DEFINE n == req[q].rule
      <3>1. CASE ~Exists(n)
        BY <2>4, <3>1 DEF DeleteMark
      <3>2. CASE Exists(n)
        <4>1. /\ n \in Rule /\ row[n] \in Row /\ row'[n] \in Row
              /\ row' = [row EXCEPT ![n] = row'[n]]
              /\ row'[n].born = row[n].born /\ row'[n].draft = row[n].draft
          BY <2>4, <3>2, MarkWrites
        <4> QED
          BY <4>1, OneRow DEF Changes
      <3> QED
        BY <3>1, <3>2
    <2> QED
      BY <1>1, <2>1, <2>2, <2>3, <2>4
      DEF RuleStep, CreateRead, EditLoad, DeleteLoad, LoadRule, EditRefused, ConfigLoad, ConfigSave
  <1>2. ASSUME NEW q \in Request, ApplyStep(q) PROVE RowStep(r)
    <2>1. CASE Promote(q)
      <3>1. req[q].pc \in {"draft", "promote"}
        BY <2>1 DEF Promote
      <3>2. PICK n \in req[q].todo :
              /\ n \in Rule /\ row[n] \in Row /\ row'[n] \in Row
              /\ row' = [row EXCEPT ![n] = row'[n]]
              /\ row'[n].born = row[n].born
              /\ row'[n].draft <=> (row[n].draft /\ req[q].pc = "promote")
        BY <2>1, PromoteWrites
      <3>3. row'[n].draft = row[n].draft \/ (req[q].pc = "draft" /\ ~row'[n].draft)
        BY <3>1, <3>2 DEF Row
      <3> QED
        BY <3>2, <3>3, OneRow DEF Changes
    <2>2. CASE Purge(q)
      BY <2>2 DEF Purge, Goes
    <2> QED
      BY <1>2, <2>1, <2>2 DEF ApplyStep, ApplyRequest, FindDrafts, FindPending, PromoteFails
  <1>3. ASSUME NEW q \in Request, SwitchStep(q) PROVE RowStep(r)
    BY <1>3 DEF SwitchStep, SwitchRead, Wipe, SaveMode, Goes
  <1> QED
    BY <1>1, <1>2, <1>3 DEF Next, Crash, vars

-----------------------------------------------------------------------------
(* What is live was applied                                                *)

LEMMA AppliedInit == Init => LiveWasApplied
  BY DEF Init, LiveWasApplied, Live

LEMMA AppliedNext == TypeInv /\ LiveWasApplied /\ [Next]_vars => LiveWasApplied'
  <1> SUFFICES ASSUME TypeInv, LiveWasApplied, [Next]_vars PROVE LiveWasApplied'
    OBVIOUS
  \* The rows no step touches.
  <1>1. ASSUME NEW r \in Rule, row'[r] = row[r], promoted'[r] = promoted[r],
               overtaken \subseteq overtaken',
               r \in Live', r \notin overtaken'
        PROVE  row'[r].content = promoted'[r]
    BY <1>1 DEF LiveWasApplied, Live
  <1>2. ASSUME UNCHANGED <<row, promoted>>, overtaken \subseteq overtaken' PROVE LiveWasApplied'
    BY <1>1, <1>2 DEF LiveWasApplied, Live
  <1>3. ASSUME UNCHANGED promoted, overtaken \subseteq overtaken', NEW n \in Rule,
               row' = [row EXCEPT ![n] = row'[n]], n \in overtaken' \/ n \notin Live'
        PROVE  LiveWasApplied'
    <2>1. ASSUME NEW r \in Rule, r \in Live', r \notin overtaken' PROVE row'[r] = row[r]
      BY <1>3, <2>1 DEF TypeInv, TypeOK
    <2> QED
      BY <1>1, <1>3, <2>1 DEF LiveWasApplied, Live
  <1>4. ASSUME UNCHANGED promoted, overtaken \subseteq overtaken',
               \A r \in Rule : row'[r] = row[r] \/ row'[r] = GoneRow
        PROVE  LiveWasApplied'
    BY <1>1, <1>4, AbsentRows DEF LiveWasApplied, Live
  <1>5. ASSUME NEW q \in Request, RuleStep(q) PROVE LiveWasApplied'
    <2>1. CASE CreateInsert(q)
      <3>1. PICK n \in Rule : row'[n].status = "New" /\ row' = [row EXCEPT ![n] = row'[n]]
        BY <2>1, CreateWrites
      <3>2. UNCHANGED <<promoted, overtaken>>
        BY <2>1 DEF CreateInsert
      <3> QED
        BY <1>3, <3>1, <3>2 DEF Live
    <2>2. CASE EditSave(q)
      <3> DEFINE n == req[q].rule
                 copy == req[q].copy[n]
      <3>1. /\ n \in Rule /\ copy \in Row
            /\ row' = [row EXCEPT ![n] = row'[n]] /\ row'[n].draft = row[n].draft
            /\ row'[n].status = SavedStatus(q, n, EditedStatus(copy))
            /\ overtaken' = IF row[n] = copy THEN overtaken ELSE overtaken \cup {n}
        BY <2>2, EditWrites
      <3>2. UNCHANGED promoted
        BY <2>2 DEF EditSave
      <3>3. ASSUME row[n] = copy PROVE n \notin Live'
        <4>1. copy.draft \/ SavedStatus(q, n, EditedStatus(copy)) # "Active"
          BY <3>1, <3>3 DEF SavedStatus, EditedStatus, Row
        <4> QED
          BY <3>1, <3>3, <4>1 DEF Live
      <3> QED
        BY <1>3, <3>1, <3>2, <3>3
    <2>3. CASE DeleteRow(q)
      <3>1. \A r \in Rule : row'[r] = row[r] \/ row'[r] = GoneRow
        BY <2>3 DEF DeleteRow, SaveCopy, TypeInv, TypeOK
      <3>2. UNCHANGED promoted /\ overtaken \subseteq overtaken'
        BY <2>3 DEF DeleteRow, SaveCopy
      <3> QED
        BY <1>4, <3>1, <3>2
    <2>4. CASE DeleteMark(q)
      <3> DEFINE n == req[q].rule
                 copy == req[q].copy[n]
      <3>1. UNCHANGED promoted
        BY <2>4 DEF DeleteMark
      <3>2. CASE Exists(n)
        <4>1. /\ n \in Rule
              /\ row' = [row EXCEPT ![n] = row'[n]]
              /\ row'[n].status = SavedStatus(q, n, "Deleted")
              /\ overtaken' = IF row[n] = copy THEN overtaken ELSE overtaken \cup {n}
          BY <2>4, <3>2, MarkWrites
        <4>2. ASSUME row[n] = copy PROVE n \notin Live'
          BY <4>1, <4>2 DEF Live, SavedStatus
        <4> QED
          BY <1>3, <3>1, <4>1, <4>2
      <3>3. CASE ~Exists(n)
        BY <1>2, <2>4, <3>1, <3>3 DEF DeleteMark
      <3> QED
        BY <3>2, <3>3
    <2> QED
      BY <1>2, <1>5, <2>1, <2>2, <2>3, <2>4
      DEF RuleStep, CreateRead, EditLoad, DeleteLoad, LoadRule, EditRefused, ConfigLoad,
          ConfigSave, history
  <1>6. ASSUME NEW q \in Request, ApplyStep(q) PROVE LiveWasApplied'
    <2>1. CASE Promote(q)
      <3>1. PICK n \in req[q].todo :
              /\ n \in Rule
              /\ row' = [row EXCEPT ![n] = row'[n]] /\ row'[n].content = row[n].content
              /\ promoted' = [promoted EXCEPT ![n] = row[n].content]
              /\ overtaken \subseteq overtaken'
        BY <2>1, PromoteWrites
      <3>2. row'[n].content = promoted'[n]
        BY <3>1 DEF TypeInv, TypeOK
      <3>3. \A r \in Rule \ {n} : row'[r] = row[r] /\ promoted'[r] = promoted[r]
        BY <3>1 DEF TypeInv, TypeOK
      <3> QED
        BY <1>1, <3>1, <3>2, <3>3 DEF LiveWasApplied, Live
    <2>2. CASE Purge(q)
      BY <1>4, <2>2 DEF Purge
    <2> QED
      BY <1>2, <1>6, <2>1, <2>2
      DEF ApplyStep, ApplyRequest, FindDrafts, FindPending, PromoteFails, history
  <1>7. ASSUME NEW q \in Request, SwitchStep(q) PROVE LiveWasApplied'
    <2>1. CASE Wipe(q)
      BY <1>4, <2>1 DEF Wipe
    <2> QED
      BY <1>2, <1>7, <2>1 DEF SwitchStep, SwitchRead, SaveMode, history
  <1> QED
    BY <1>2, <1>5, <1>6, <1>7 DEF Next, Crash, vars, history

\* LiveWasApplied: a rule that decides who may read says what the last apply
\* promoted, unless a request saved it from a copy that was no longer current.
THEOREM LiveRulesWereApplied == Spec => []LiveWasApplied
  BY TypeInvariant, AppliedInit, AppliedNext, InitTypeInv, PTL DEF Spec

-----------------------------------------------------------------------------
(* The switch to enhanced mode                                             *)

\* A draft was staged as one, and a wipe of the legacy rules leaves none but
\* the latecomers, from the wipe on and not only once the mode has changed.
LegacyInv ==
    /\ \A r \in Rule : row[r].draft => row[r].born = "draft"
    /\ Wiping \/ cfg.mode = "enhanced" =>
         \A r \in Rule \ late : row[r].born # "legacy"

LEMMA LegacyInit == Init => LegacyInv
  <1> SUFFICES ASSUME Init PROVE LegacyInv
    OBVIOUS
  <1>1. \A q \in Request : req[q].pc = "idle"
    BY DEF Init, Idle
  <1>2. \A r \in Rule : ~row[r].draft /\ (cfg.mode = "enhanced" => row[r].born = "enhanced")
    <2> TAKE r \in Rule
    <2>1. CASE row[r] = NoRow
      BY <2>1, AbsentRows
    <2>2. CASE row[r] # NoRow
      BY <2>2 DEF Init
    <2> QED
      BY <2>1, <2>2
  <1> QED
    BY <1>1, <1>2 DEF LegacyInv, Wiping

\* Nothing but the save of the mode changes the mode.
LEMMA ModeChanges ==
    ASSUME TypeInv, [Next]_vars, cfg'.mode # cfg.mode
    PROVE  \E q \in Request : SaveMode(q)
  <1>1. ASSUME NEW q \in Request, ConfigSave(q) PROVE cfg'.mode = cfg.mode
    BY <1>1 DEF ConfigSave, TypeInv, TypeOK, Config
  <1> QED
    BY <1>1
    DEF Next, RuleStep, ApplyStep, SwitchStep, CreateRead, CreateInsert, EditLoad, DeleteLoad,
        LoadRule, EditSave, EditRefused, DeleteRow, DeleteMark, ConfigLoad, ApplyRequest,
        FindDrafts, FindPending, Promote, PromoteFails, Purge, SwitchRead, Wipe, Crash, vars

\* Where a rule change, or the end of a request, leaves the requests.
LEMMA EndLeaves ==
    ASSUME TypeInv, NEW q \in Request, End(q), NEW p \in Request
    PROVE  req'[p] = req[p] \/ req'[p].pc = "done"
  <1>1. Ended("done").pc = "done"
    BY DEF Ended, Idle
  <1> QED
    BY <1>1 DEF End, TypeInv, TypeOK

LEMMA RuleStepLeaves ==
    ASSUME TypeInv, NEW q \in Request, RuleStep(q), NEW p \in Request
    PROVE  req'[p] = req[p] \/ req'[p].pc \in {"insert", "edit", "delete", "config", "done"}
  <1>1. CASE CreateRead(q) \/ ConfigLoad(q)
    <2>1. PICK pc \in {"insert", "config"} : req' = [req EXCEPT ![q] = [Idle EXCEPT !.pc = pc, !.cfg = cfg]]
      BY <1>1 DEF CreateRead, ConfigLoad
    <2>2. [Idle EXCEPT !.pc = pc, !.cfg = cfg].pc = pc
      BY DEF Idle
    <2> QED
      BY <2>1, <2>2 DEF TypeInv, TypeOK
  <1>2. CASE EditLoad(q) \/ DeleteLoad(q)
    <2>1. PICK pc \in {"edit", "delete"}, r \in Rule :
            req' = [req EXCEPT ![q] = [Idle EXCEPT !.pc = pc, !.rule = r,
                                                   !.copy = [NoRows EXCEPT ![r] = row[r]]]]
      BY <1>2 DEF EditLoad, DeleteLoad, LoadRule
    <2>2. [Idle EXCEPT !.pc = pc, !.rule = r, !.copy = [NoRows EXCEPT ![r] = row[r]]].pc = pc
      BY DEF Idle
    <2> QED
      BY <2>1, <2>2 DEF TypeInv, TypeOK
  <1> QED
    BY <1>1, <1>2, EndLeaves
    DEF RuleStep, CreateInsert, EditSave, EditRefused, DeleteRow, DeleteMark, ConfigSave

LEMMA PurgeLeaves ==
    ASSUME TypeInv, NEW q \in Request, Purge(q), NEW p \in Request
    PROVE  IF p = q THEN req'[p].pc = "applied" ELSE req'[p] = req[p]
  <1>1. Ended("applied").pc = "applied"
    BY DEF Ended, Idle
  <1> QED
    BY <1>1 DEF Purge, TypeInv, TypeOK

\* Nothing but a wipe opens the interval between the wipe and the new mode, or
\* takes a rule back from the latecomers.
LEMMA WipingStarts ==
    ASSUME TypeInv, [Next]_vars, \A q \in Request : ~Wipe(q)
    PROVE  late \subseteq late' /\ (Wiping' => Wiping)
  <1>1. late \subseteq late'
    <2>1. ASSUME NEW q \in Request, CreateInsert(q) PROVE late \subseteq late'
      BY <2>1, CreateWrites
    <2> QED
      BY <2>1
      DEF Next, RuleStep, ApplyStep, SwitchStep, CreateRead, EditLoad, DeleteLoad,
          LoadRule, EditSave, EditRefused, DeleteRow, DeleteMark, ConfigLoad, ConfigSave, ApplyRequest,
          FindDrafts, FindPending, Promote, PromoteFails, Purge, SwitchRead, SaveMode, Crash, vars,
          history
  <1>2. ASSUME NEW p \in Request, req'[p].pc = "flip" PROVE req[p].pc = "flip"
    <2>2. ASSUME NEW q \in Request, End(q) PROVE req[p].pc = "flip"
      BY <1>2, <2>2, EndLeaves
    <2>3. ASSUME NEW q \in Request, NEW pc \in {"drafts", "wipe"}, Go(q, pc) PROVE req[p].pc = "flip"
      BY <1>2, <2>3 DEF Go, TypeInv, TypeOK, RequestState
    <2>5. ASSUME NEW q \in Request, RuleStep(q) PROVE req[p].pc = "flip"
      BY <1>2, <2>5, RuleStepLeaves
    <2>6. ASSUME NEW q \in Request, ApplyStep(q) PROVE req[p].pc = "flip"
      <3>1. CASE Promote(q)
        <4>1. req'[p].pc = req[p].pc
          BY <3>1 DEF Promote, TypeInv, TypeOK, RequestState
        <4> QED
          BY <1>2, <4>1
      <3>2. CASE Purge(q)
        BY <1>2, <3>2, PurgeLeaves
      <3>3. CASE FindDrafts(q) \/ FindPending(q)
        <4>1. PICK pc \in {"draft", "promote"}, rules \in SUBSET Rule : LoadAll(q, pc, rules)
          BY <3>3 DEF FindDrafts, FindPending
        <4>2. req'[p] = req[p] \/ req'[p].pc = pc
          BY <4>1 DEF LoadAll, TypeInv, TypeOK, RequestState
        <4> QED
          BY <1>2, <4>2
      <3> QED
        BY <2>2, <2>3, <2>6, <3>1, <3>2, <3>3 DEF ApplyStep, ApplyRequest, PromoteFails
    <2>7. ASSUME NEW q \in Request, SwitchStep(q) PROVE req[p].pc = "flip"
      BY <2>2, <2>3, <2>7 DEF SwitchStep, SwitchRead, SaveMode
    <2>8. CASE Crash
      BY <1>2, <2>8 DEF Crash, Ended, Idle
    <2> QED
      BY <1>2, <2>5, <2>6, <2>7, <2>8 DEF Next, vars
  <1> QED
    BY <1>1, <1>2 DEF Wiping

LEMMA LegacyNext == TypeInv /\ LegacyInv /\ [Next]_vars => LegacyInv'
  <1> SUFFICES ASSUME TypeInv, LegacyInv, [Next]_vars PROVE LegacyInv'
    OBVIOUS
  <1>1. ASSUME NEW r \in Rule, row'[r].draft PROVE row'[r].born = "draft"
    BY <1>1, NextRows, AbsentRows DEF RowStep, Goes, Comes, Changes, LegacyInv
  <1>2. ASSUME Wiping' \/ cfg'.mode = "enhanced", NEW r \in Rule, r \notin late'
        PROVE  row'[r].born # "legacy"
    <2>1. ASSUME NEW q \in Request, Wipe(q) PROVE row'[r].born # "legacy"
      <3> DEFINE wiped == {n \in Rule : Exists(n) /\ ~row[n].draft}
      <3>1. row'[r] = IF r \in wiped THEN GoneRow ELSE row[r]
        BY <2>1 DEF Wipe
      <3>2. CASE r \in wiped
        BY <3>1, <3>2, AbsentRows
      <3>3. CASE r \notin wiped
        BY <3>1, <3>3, AbsentRows DEF LegacyInv, Exists
      <3> QED
        BY <3>2, <3>3
    <2>2. CASE \A q \in Request : ~Wipe(q)
      <3>1. late \subseteq late' /\ (Wiping' => Wiping)
        BY <2>2, WipingStarts
      <3>2. Wiping \/ cfg.mode = "enhanced"
        <4>1. CASE cfg'.mode # cfg.mode
          BY <4>1, ModeChanges DEF SaveMode, Wiping
        <4> QED
          BY <1>2, <3>1, <4>1
      <3>3. row[r].born # "legacy"
        BY <1>2, <3>1, <3>2 DEF LegacyInv
      <3> QED
        BY <1>2, <3>2, <3>3, NextRows, AbsentRows DEF RowStep, Goes, Comes, Changes
    <2> QED
      BY <2>1, <2>2
  <1> QED
    BY <1>1, <1>2 DEF LegacyInv

LEMMA LegacyInvariant == Spec => []LegacyInv
  BY TypeInvariant, LegacyInit, LegacyNext, PTL DEF Spec

\* LegacyRulesGone: once the hub is in enhanced mode no legacy rule is left but
\* those inserted after the wipe by requests that had read the old mode.
THEOREM LegacyRulesAreGone == Spec => []LegacyRulesGone
  <1>1. LegacyInv => LegacyRulesGone
    BY DEF LegacyInv, LegacyRulesGone
  <1> QED
    BY <1>1, LegacyInvariant, PTL

\* While the hub is in legacy mode and no apply has come before the switch, what
\* was staged is still staged, and no apply has drafts to promote.
StagedInv ==
    ~hurried /\ cfg.mode = "legacy" =>
        /\ \A r \in Rule : row[r].born = "draft" => row[r].draft
        /\ \A q \in Request : req[q].pc = "draft" => req[q].todo = {}

LEMMA StagedInit == Init => StagedInv
  <1> SUFFICES ASSUME Init PROVE StagedInv
    OBVIOUS
  <1>1. \A q \in Request : req[q].pc = "idle"
    BY DEF Init, Idle
  <1>2. \A r \in Rule : row[r].born # "draft"
    <2> TAKE r \in Rule
    <2>1. CASE row[r] = NoRow
      BY <2>1, AbsentRows
    <2>2. CASE row[r] # NoRow
      <3>1. row[r].born = cfg.mode /\ cfg.mode # "draft"
        BY <2>2 DEF Init, Config
      <3> QED
        BY <3>1
    <2> QED
      BY <2>1, <2>2
  <1> QED
    BY <1>1, <1>2 DEF StagedInv

LEMMA HurryStays == [Next]_vars /\ hurried => hurried'
  BY DEF Next, RuleStep, ApplyStep, SwitchStep, CreateRead, CreateInsert, EditLoad, DeleteLoad,
         LoadRule, EditSave, EditRefused, DeleteRow, DeleteMark, ConfigLoad, ConfigSave, ApplyRequest,
         FindDrafts, FindPending, Promote, PromoteFails, Purge, SwitchRead, Wipe, SaveMode, Crash,
         vars, history

\* How a request comes to promote drafts: the query, or the promotion before.
LEMMA DraftsLoaded ==
    ASSUME TypeInv, [Next]_vars, NEW p \in Request, req'[p].pc = "draft"
    PROVE  \/ req'[p] = req[p]
           \/ FindDrafts(p)
           \/ req[p].pc = "draft" /\ req[p].todo # {}
  <1>2. ASSUME NEW q \in Request, End(q) PROVE req'[p] = req[p]
    BY <1>2, EndLeaves
  <1>3. ASSUME NEW q \in Request, NEW pc \in {"drafts", "wipe", "flip"}, Go(q, pc)
        PROVE  req'[p] = req[p]
    BY <1>3 DEF Go, TypeInv, TypeOK, RequestState
  <1>4. ASSUME NEW q \in Request, RuleStep(q) PROVE req'[p] = req[p]
    BY <1>4, RuleStepLeaves
  <1>5. ASSUME NEW q \in Request, ApplyStep(q)
        PROVE  \/ req'[p] = req[p]
               \/ FindDrafts(p)
               \/ req[p].pc = "draft" /\ req[p].todo # {}
    <2>1. CASE FindDrafts(q)
      <3>1. q = p \/ req'[p] = req[p]
        BY <2>1 DEF FindDrafts, LoadAll, TypeInv, TypeOK
      <3> QED
        BY <2>1, <3>1
    <2>2. CASE FindPending(q)
      BY <2>2 DEF FindPending, LoadAll, TypeInv, TypeOK, RequestState
    <2>3. CASE Promote(q)
      <3>1. req[q].todo # {} /\ req'[q].pc = req[q].pc /\ (q = p \/ req'[p] = req[p])
        BY <2>3 DEF Promote, TypeInv, TypeOK, RequestState
      <3> QED
        BY <3>1
    <2>4. CASE Purge(q)
      BY <2>4, PurgeLeaves
    <2> QED
      BY <1>2, <1>3, <1>5, <2>1, <2>2, <2>3, <2>4 DEF ApplyStep, ApplyRequest, PromoteFails
  <1>6. ASSUME NEW q \in Request, SwitchStep(q) PROVE req'[p] = req[p]
    BY <1>2, <1>3, <1>6 DEF SwitchStep, SwitchRead, Wipe, SaveMode
  <1>7. CASE Crash
    BY <1>7 DEF Crash, Ended, Idle
  <1> QED
    BY <1>4, <1>5, <1>6, <1>7 DEF Next, vars

LEMMA StagedNext == TypeInv /\ StagedInv /\ [Next]_vars => StagedInv'
  <1> SUFFICES ASSUME TypeInv, StagedInv, [Next]_vars, ~hurried', cfg'.mode = "legacy"
               PROVE  /\ \A r \in Rule : row'[r].born = "draft" => row'[r].draft
                      /\ \A q \in Request : req'[q].pc = "draft" => req'[q].todo = {}
    BY DEF StagedInv
  <1>1. ~hurried
    BY HurryStays
  <1>2. cfg.mode = "legacy"
    <2>1. ASSUME NEW q \in Request, SaveMode(q) PROVE FALSE
      BY <2>1 DEF SaveMode, TypeInv, TypeOK, Config
    <2> QED
      BY <2>1, ModeChanges
  <1>3. /\ \A r \in Rule : row[r].born = "draft" => row[r].draft
        /\ \A q \in Request : req[q].pc = "draft" => req[q].todo = {}
    BY <1>1, <1>2 DEF StagedInv
  <1>4. ASSUME NEW r \in Rule, row'[r].born = "draft" PROVE row'[r].draft
    BY <1>3, <1>4, NextRows, AbsentRows DEF RowStep, Goes, Comes, Changes
  <1>5. ASSUME NEW p \in Request, req'[p].pc = "draft" PROVE req'[p].todo = {}
    <2>1. CASE req'[p] = req[p]
      BY <1>3, <1>5, <2>1
    <2>2. CASE FindDrafts(p)
      <3>1. {r \in Rule : row[r].draft} = {}
        BY <1>2, <2>2 DEF FindDrafts
      <3> QED
        BY <2>2, <3>1 DEF FindDrafts, LoadAll, TypeInv, TypeOK, RequestState
    <2> QED
      BY <1>3, <1>5, <2>1, <2>2, DraftsLoaded
  <1> QED
    BY <1>4, <1>5

\* StagedSetKept: the switch wipes no rule that was staged for it, unless drafts
\* were promoted before it or two switches overlap.
THEOREM StagedRulesSurvive == Spec => StagedSetKept
  <1>1. ASSUME TypeInv, StagedInv, ~hurried', NEW q \in Request, NEW r \in Rule,
               Wipe(q), row[r].born = "draft"
        PROVE  row'[r] = row[r]
    <2>1. ~hurried /\ cfg.mode = "legacy"
      BY <1>1 DEF Wipe, TypeInv, TypeOK, Config
    <2>2. row[r].draft
      BY <1>1, <2>1 DEF StagedInv
    <2> QED
      BY <1>1, <2>2 DEF Wipe
  <1>2. TypeInv /\ StagedInv =>
          [~hurried' => \A q \in Request, r \in Rule :
             Wipe(q) /\ row[r].born = "draft" => row'[r] = row[r]]_vars
    BY <1>1
  <1> QED
    BY <1>2, TypeInvariant, StagedInit, StagedNext, PTL DEF Spec, StagedSetKept

-----------------------------------------------------------------------------
(* What an apply leaves                                                    *)

\* Of the rules that no one else wrote since the apply of q began: the drafts
\* are among those it promotes first, then there are none and it promotes all
\* that is pending, and at its end all that is left is live.
AppliedFor(q) ==
    \A r \in Rule \ touched[q] :
        /\ req[q].pc = "draft" /\ row[r].draft => r \in req[q].todo
        /\ req[q].pc = "promote" => ~row[r].draft /\ (Pending(r) => r \in req[q].todo)
        /\ req[q].pc = "applied" /\ Exists(r) => r \in Live

AppliedInv == \A q \in Request : AppliedFor(q)

\* The step of another request leaves q alone and tells its apply what it wrote.
LEMMA OthersTouch ==
    ASSUME TypeInv, NEW p \in Request, NEW q \in Request, p # q,
           RuleStep(p) \/ ApplyStep(p) \/ SwitchStep(p)
    PROVE  /\ req'[q] = req[q]
           /\ touched[q] \subseteq touched'[q]
           /\ \A r \in Rule : row'[r] = row[r] \/ r \in touched'[q]
  <1>1. req'[q] = req[q]
    BY DEF TypeInv, TypeOK, RuleStep, ApplyStep, SwitchStep, CreateRead, CreateInsert, EditLoad,
           DeleteLoad, LoadRule, EditSave, EditRefused, DeleteRow, DeleteMark, ConfigLoad,
           ConfigSave, ApplyRequest, FindDrafts, FindPending, Promote, PromoteFails, Purge,
           SwitchRead, Wipe, SaveMode, End, Go, LoadAll
  <1> SUFFICES touched[q] \subseteq touched'[q]
                 /\ \A r \in Rule : row'[r] = row[r] \/ r \in touched'[q]
    BY <1>1
  <1>2. ASSUME NEW rules, Touch(p, rules), \A r \in Rule : row'[r] = row[r] \/ r \in rules
        PROVE  touched[q] \subseteq touched'[q]
                 /\ \A r \in Rule : row'[r] = row[r] \/ r \in touched'[q]
    BY <1>2 DEF Touch
  <1>3. ASSUME NEW n \in Rule, NEW new, SaveCopy(p, n, new)
        PROVE  touched[q] \subseteq touched'[q]
                 /\ \A r \in Rule : row'[r] = row[r] \/ r \in touched'[q]
    <2>1. Touch(p, {n}) /\ \A r \in Rule : row'[r] = row[r] \/ r \in {n}
      BY <1>3 DEF SaveCopy, TypeInv, TypeOK
    <2> QED
      BY <1>2, <2>1
  <1>4. ASSUME UNCHANGED <<row, touched>>
        PROVE  touched[q] \subseteq touched'[q]
                 /\ \A r \in Rule : row'[r] = row[r] \/ r \in touched'[q]
    BY <1>4
  <1>5. CASE RuleStep(p)
    <2>1. CASE CreateInsert(p)
      <3>1. PICK n \in Rule : row' = [row EXCEPT ![n] = row'[n]] /\ Touch(p, {n})
        BY <2>1, CreateWrites
      <3>2. \A r \in Rule : row'[r] = row[r] \/ r \in {n}
        BY <3>1, OneRow
      <3> QED
        BY <1>2, <3>1, <3>2
    <2>2. CASE EditSave(p)
      <3>1. req[p].rule \in Rule
        BY <2>2 DEF EditSave, TypeInv, RequestShape
      <3> QED
        BY <1>3, <2>2, <3>1 DEF EditSave
    <2>3. CASE DeleteRow(p)
      <3>1. req[p].rule \in Rule
        BY <2>3 DEF DeleteRow, TypeInv, RequestShape
      <3> QED
        BY <1>3, <2>3, <3>1 DEF DeleteRow
    <2>4. CASE DeleteMark(p)
      <3>1. req[p].rule \in Rule
        BY <2>4 DEF DeleteMark, TypeInv, RequestShape
      <3> QED
        BY <1>3, <1>4, <2>4, <3>1 DEF DeleteMark
    <2> QED
      BY <1>4, <1>5, <2>1, <2>2, <2>3, <2>4
      DEF RuleStep, CreateRead, EditLoad, DeleteLoad, LoadRule, EditRefused, ConfigLoad,
          ConfigSave, history
  <1>6. CASE ApplyStep(p)
    <2>1. CASE Promote(p)
      <3>1. PICK n \in req[p].todo : n \in Rule /\ row' = [row EXCEPT ![n] = row'[n]] /\ Touch(p, {n})
        BY <2>1, PromoteWrites
      <3>2. \A r \in Rule : row'[r] = row[r] \/ r \in {n}
        BY <3>1, OneRow
      <3> QED
        BY <1>2, <3>1, <3>2
    <2>2. CASE Purge(p)
      BY <1>2, <2>2 DEF Purge
    <2>3. CASE ApplyRequest(p)
      <3>1. row' = row /\ touched'[q] = touched[q]
        BY <2>3 DEF ApplyRequest, TypeInv, TypeOK
      <3> QED
        BY <3>1
    <2> QED
      BY <1>4, <1>6, <2>1, <2>2, <2>3 DEF ApplyStep, FindDrafts, FindPending, PromoteFails, history
  <1>7. CASE SwitchStep(p)
    <2>1. CASE SaveMode(p)
      <3>1. row' = row /\ touched'[q] = touched[q]
        BY <2>1 DEF SaveMode, TypeInv, TypeOK
      <3> QED
        BY <3>1
    <2>2. CASE Wipe(p)
      BY <1>2, <2>2 DEF Wipe
    <2> QED
      BY <1>4, <1>7, <2>1, <2>2 DEF SwitchStep, SwitchRead, history
  <1> QED
    BY <1>5, <1>6, <1>7

LEMMA AppliedUntouched ==
    ASSUME NEW q \in Request, AppliedFor(q), req'[q] = req[q], touched[q] \subseteq touched'[q],
           \A r \in Rule : row'[r] = row[r] \/ r \in touched'[q]
    PROVE  AppliedFor(q)'
  BY DEF AppliedFor, Pending, Exists, Live

\* A request that is not in an apply has nothing to answer for.
LEMMA NotApplying ==
    ASSUME NEW q \in Request, req'[q].pc \notin {"draft", "promote", "applied"}
    PROVE  AppliedFor(q)'
  BY DEF AppliedFor

\* The steps of the apply itself.
LEMMA OwnApply ==
    ASSUME TypeInv, NEW q \in Request, AppliedFor(q), ApplyStep(q) PROVE AppliedFor(q)'
  <1>1. CASE ApplyRequest(q)
    <2>1. req'[q].pc = "drafts"
      BY <1>1 DEF ApplyRequest, Go, TypeInv, TypeOK, RequestState
    <2> QED
      BY <2>1, NotApplying
  <1>2. CASE PromoteFails(q)
    <2>1. req'[q].pc = "done"
      BY <1>2 DEF PromoteFails, End, Ended, Idle, TypeInv, TypeOK
    <2> QED
      BY <2>1, NotApplying
  <1>3. CASE FindDrafts(q)
    <2>1. req'[q].pc = "draft" /\ req'[q].todo = {r \in Rule : row[r].draft} /\ row' = row
      BY <1>3 DEF FindDrafts, LoadAll, TypeInv, TypeOK, RequestState
    <2> QED
      BY <2>1 DEF AppliedFor
  <1>4. CASE FindPending(q)
    <2>1. req'[q].pc = "promote" /\ req'[q].todo = {r \in Rule : Pending(r)}
      BY <1>4 DEF FindPending, LoadAll, TypeInv, TypeOK, RequestState
    <2>2. \A r \in Rule \ touched[q] : ~row[r].draft
      BY <1>4 DEF FindPending, AppliedFor
    <2>3. row' = row /\ touched' = touched
      BY <1>4 DEF FindPending, history
    <2> QED
      BY <2>1, <2>2, <2>3 DEF AppliedFor, Pending
  <1>5. CASE Promote(q)
    <2>1. PICK n \in req[q].todo :
            /\ n \in Rule /\ row' = [row EXCEPT ![n] = row'[n]]
            /\ row'[n].status = "Active"
            /\ row'[n].draft <=> (row[n].draft /\ req[q].pc = "promote")
            /\ Touch(q, {n})
            /\ req' = [req EXCEPT ![q].todo = @ \ {n}]
      BY <1>5, PromoteWrites
    <2>2. req'[q].pc = req[q].pc /\ req'[q].todo = req[q].todo \ {n} /\ touched'[q] = touched[q]
      BY <2>1 DEF Touch, TypeInv, TypeOK, RequestState
    <2>3. req[q].pc \in {"draft", "promote"}
      BY <1>5 DEF Promote
    <2>4. ASSUME NEW r \in Rule, r \notin touched[q]
          PROVE  /\ req[q].pc = "draft" /\ row'[r].draft => r \in req'[q].todo
                 /\ req[q].pc = "promote" =>
                      ~row'[r].draft /\ (Pending(r)' => r \in req'[q].todo)
      <3>1. CASE r = n
        BY <2>1, <2>3, <2>4, <3>1 DEF AppliedFor, Pending
      <3>2. CASE r # n
        BY <2>1, <2>2, <2>4, <3>2, OneRow DEF AppliedFor, Pending
      <3> QED
        BY <3>1, <3>2
    <2> QED
      BY <2>2, <2>3, <2>4 DEF AppliedFor
  <1>6. CASE Purge(q)
    <2> DEFINE dead == {r \in Rule : row[r].status = "Deleted"}
    <2>1. /\ req[q].pc = "promote" /\ req[q].todo = {}
          /\ row' = [r \in Rule |-> IF r \in dead THEN GoneRow ELSE row[r]]
      BY <1>6 DEF Purge
    <2>2. req'[q].pc = "applied" /\ touched'[q] = touched[q]
      BY <1>6, PurgeLeaves DEF Purge, Touch, TypeInv, TypeOK
    <2>3. ASSUME NEW r \in Rule, r \notin touched[q], Exists(r)' PROVE r \in Live'
      <3>1. r \notin dead /\ row'[r] = row[r]
        BY <2>1, <2>3 DEF Exists
      <3>2. row[r] \in Row
        BY <2>3, <3>1, ExistsIsRow DEF TypeInv, Exists
      <3>3. ~row[r].draft /\ row[r].status \notin {"New", "Modified"}
        BY <2>1, <2>3 DEF AppliedFor, Pending
      <3> QED
        BY <3>1, <3>2, <3>3 DEF Live, Row
    <2> QED
      BY <2>2, <2>3 DEF AppliedFor
  <1> QED
    BY <1>1, <1>2, <1>3, <1>4, <1>5, <1>6 DEF ApplyStep

LEMMA AppliedInvNext == TypeInv /\ AppliedInv /\ [Next]_vars => AppliedInv'
  <1> SUFFICES ASSUME TypeInv, AppliedInv, [Next]_vars, NEW q \in Request PROVE AppliedFor(q)'
    BY DEF AppliedInv
  <1>1. AppliedFor(q)
    BY DEF AppliedInv
  <1>2. CASE UNCHANGED vars
    BY <1>1, <1>2, AppliedUntouched DEF vars, history
  <1>3. ASSUME NEW p \in Request, p # q, RuleStep(p) \/ ApplyStep(p) \/ SwitchStep(p)
        PROVE  AppliedFor(q)'
    BY <1>1, <1>3, OthersTouch, AppliedUntouched
  <1>4. CASE RuleStep(q)
    <2>1. req'[q].pc \in {"insert", "edit", "delete", "config", "done"}
            \/ (req'[q] = req[q] /\ req[q].pc \in {"idle", "insert", "edit", "delete", "config"})
      BY <1>4, RuleStepLeaves
      DEF RuleStep, CreateRead, CreateInsert, EditLoad, DeleteLoad, LoadRule, EditSave,
          EditRefused, DeleteRow, DeleteMark, ConfigLoad, ConfigSave
    <2> QED
      BY <2>1, NotApplying
  <1>5. CASE SwitchStep(q)
    <2>1. req'[q].pc \in {"done", "wipe", "flip", "drafts"}
            \/ (req'[q] = req[q] /\ req[q].pc = "idle")
      BY <1>5, EndLeaves
      DEF SwitchStep, SwitchRead, Wipe, SaveMode, Go, TypeInv, TypeOK, RequestState
    <2> QED
      BY <2>1, NotApplying
  <1>6. CASE Crash
    <2>1. req'[q] = req[q] \/ req'[q].pc = "done"
      BY <1>6 DEF Crash, Ended, Idle
    <2>2. UNCHANGED <<row, touched>>
      BY <1>6 DEF Crash, history
    <2> QED
      BY <1>1, <2>1, <2>2, NotApplying, AppliedUntouched
  <1> QED
    BY <1>1, <1>2, <1>3, <1>4, <1>5, <1>6, OwnApply DEF Next

LEMMA AppliedInvInit == Init => AppliedInv
  <1> SUFFICES ASSUME Init, NEW q \in Request PROVE AppliedFor(q)
    BY DEF AppliedInv
  <1>1. req[q].pc = "idle"
    BY DEF Init, Idle
  <1> QED
    BY <1>1 DEF AppliedFor

\* AppliedNothingLeft: an apply that ended well left no rule pending, deleted or
\* a draft, but those that another request wrote since the apply began.
THEOREM ApplyIsComplete == Spec => []AppliedNothingLeft
  <1>1. AppliedInv => AppliedNothingLeft
    BY DEF AppliedInv, AppliedFor, AppliedNothingLeft
  <1>2. Spec => []AppliedInv
    BY TypeInvariant, AppliedInvInit, AppliedInvNext, PTL DEF Spec
  <1> QED
    BY <1>1, <1>2, PTL

-----------------------------------------------------------------------------
(* What a topic inherits                                                   *)

Above(x) == IF x = None THEN None ELSE Parent[x]

\* g lists t and what is above it, n steps up.
Climbs(g, t, n) == g = [k \in 0..n |-> IF k = 0 THEN t ELSE Above(g[k - 1])]

LEMMA HasLeast ==
    ASSUME NEW I, I \subseteq Nat, I # {}
    PROVE  \E n \in I : \A m \in I : n <= m
  <1>1. \E n \in I : \A m \in I : ~ (<<m, n>> \in OpToRel(<, Nat))
    BY WFMin, NatLessThanWellFounded, Zenon
  <1>2. PICK n \in I : \A m \in I : ~ (m < n)
    BY <1>1, Zenon DEF OpToRel
  <1> QED
    BY <1>2

\* One can always climb: there is no least height that cannot be reached.
LEMMA CanClimb ==
    ASSUME NEW t \in Topic, NEW n \in Nat
    PROVE  \E g : Climbs(g, t, n)
  <1> DEFINE I == {m \in Nat : ~ \E g : Climbs(g, t, m)}
  <1>1. ASSUME NEW m \in I, \A j \in I : m <= j PROVE FALSE
    <2>1. CASE m = 0
      <3> DEFINE g == [k \in 0..0 |-> t]
      <3>1. g = [k \in 0..0 |-> IF k = 0 THEN t ELSE Above(g[k - 1])]
        OBVIOUS
      <3> QED
        BY <2>1, <3>1 DEF Climbs
    <2>2. CASE m # 0
      <3>1. m - 1 \in Nat /\ m - 1 \notin I
        BY <1>1, <2>2
      <3>2. PICK g : Climbs(g, t, m - 1)
        BY <3>1
      <3>3. g = [k \in 0..(m - 1) |-> IF k = 0 THEN t ELSE Above(g[k - 1])]
        BY <3>2 DEF Climbs
      <3> DEFINE h == [k \in 0..m |-> IF k = m THEN Above(g[m - 1]) ELSE g[k]]
      <3>4. \A k \in 0..m : h[k] = IF k = 0 THEN t ELSE Above(h[k - 1])
        <4>1. \A k \in 0..(m - 1) : g[k] = IF k = 0 THEN t ELSE Above(g[k - 1])
          BY <3>3
        <4>2. \A k \in 0..(m - 1) : h[k] = g[k]
          BY <1>1
        <4>3. h[m] = Above(g[m - 1])
          BY <1>1
        <4> HIDE DEF h
        <4> QED
          BY <1>1, <2>2, <4>1, <4>2, <4>3
      <3>5. h = [k \in 0..m |-> IF k = 0 THEN t ELSE Above(h[k - 1])]
        <4>1. h = [k \in 0..m |-> h[k]]
          OBVIOUS
        <4> HIDE DEF h
        <4> QED
          BY <3>4, <4>1
      <3> QED
        BY <3>5 DEF Climbs
    <2> QED
      BY <2>1, <2>2
  <1>2. I = {}
    BY <1>1, HasLeast
  <1> QED
    BY <1>2

\* What the recursive definition of Ancestors stands for.
LEMMA AncestorsClimb ==
    ASSUME NEW t \in Topic
    PROVE  /\ DOMAIN Ancestors(t) = 0..(MaxDepth - 1)
           /\ Ancestors(t)[0] = t
           /\ \A k \in 1..(MaxDepth - 1) : Ancestors(t)[k] = Above(Ancestors(t)[k - 1])
           /\ \A k \in 0..(MaxDepth - 1) : Ancestors(t)[k] \in Topic \cup {None}
  <1> DEFINE g == Ancestors(t)
             n == MaxDepth - 1
  <1>1. n \in Nat
    BY AccessAssumption
  <1>2. g = CHOOSE up : Climbs(up, t, n)
    BY DEF Ancestors, Climbs, Above
  <1> HIDE DEF g
  <1>3. Climbs(g, t, n)
    BY <1>1, <1>2, CanClimb
  <1>4. g = [k \in 0..n |-> IF k = 0 THEN t ELSE Above(g[k - 1])]
    BY <1>3 DEF Climbs
  <1>5. DOMAIN g = 0..n /\ g[0] = t /\ \A k \in 1..n : g[k] = Above(g[k - 1])
    BY <1>1, <1>4
  <1> DEFINE I == {k \in 0..n : g[k] \notin Topic \cup {None}}
  <1>6. ASSUME NEW k \in I, \A j \in I : k <= j PROVE FALSE
    <2>1. k # 0
      BY <1>5, <1>6
    <2>2. k - 1 \in 0..n /\ k - 1 \notin I
      BY <1>1, <1>6, <2>1
    <2>3. g[k - 1] \in Topic \cup {None} /\ g[k] = Above(g[k - 1])
      BY <1>1, <1>5, <2>1, <2>2
    <2> QED
      BY <2>3, AccessAssumption DEF Above
  <1>7. I = {}
    <2>1. I \subseteq Nat
      BY <1>1
    <2> QED
      BY <1>6, <2>1, HasLeast
  <1> QED
    BY <1>5, <1>7 DEF g

\* The topics above the parent are those above the topic, one nearer.
LEMMA OneNearer ==
    ASSUME NEW t \in Topic, Parent[t] # None
    PROVE  /\ Parent[t] \in Topic
           /\ \A k \in 1..(MaxDepth - 1) : Ancestors(t)[k] = Ancestors(Parent[t])[k - 1]
  <1> DEFINE up == Ancestors(t)
             over == Ancestors(Parent[t])
             n == MaxDepth - 1
  <1>1. Parent[t] \in Topic /\ t # None /\ n \in Nat
    BY AccessAssumption
  <1>2. /\ up[0] = t /\ \A k \in 1..n : up[k] = Above(up[k - 1])
        /\ over[0] = Parent[t] /\ \A k \in 1..n : over[k] = Above(over[k - 1])
    BY <1>1, AncestorsClimb
  <1> HIDE DEF up, over
  <1> DEFINE I == {k \in 1..n : up[k] # over[k - 1]}
  <1>3. ASSUME NEW k \in I, \A j \in I : k <= j PROVE FALSE
    <2>1. CASE k = 1
      BY <1>1, <1>2, <1>3, <2>1 DEF Above
    <2>2. CASE k # 1
      <3>1. k - 1 \in 1..n /\ k - 1 \notin I /\ k \in 1..n
        BY <1>1, <1>3, <2>2
      <3>2. up[k - 1] = over[(k - 1) - 1]
        BY <3>1
      <3> QED
        BY <1>1, <1>2, <1>3, <3>1, <3>2
    <2> QED
      BY <2>1, <2>2
  <1>4. I = {}
    <2>1. I \subseteq Nat
      BY <1>1
    <2> QED
      BY <1>3, <2>1, HasLeast
  <1> QED
    BY <1>1, <1>4 DEF up, over

\* Above the root there is nothing.
LEMMA NothingAbove ==
    ASSUME NEW t \in Topic, NEW k \in 0..(MaxDepth - 1), Ancestors(t)[k] = None
    PROVE  \A j \in k..(MaxDepth - 1) : Ancestors(t)[j] = None
  <1> DEFINE up == Ancestors(t)
             n == MaxDepth - 1
             I == {j \in k..n : up[j] # None}
  <1>1. n \in Nat /\ \A j \in 1..n : up[j] = Above(up[j - 1])
    BY AncestorsClimb, AccessAssumption
  <1> HIDE DEF up
  <1>2. ASSUME NEW j \in I, \A i \in I : j <= i PROVE FALSE
    <2>1. j # k
      BY <1>2 DEF up
    <2>2. j - 1 \in k..n /\ j - 1 \notin I /\ j \in 1..n
      BY <1>1, <1>2, <2>1
    <2> QED
      BY <1>1, <1>2, <2>2 DEF Above
  <1>3. I = {}
    <2>1. I \subseteq Nat
      BY <1>1
    <2> QED
      BY <1>2, <2>1, HasLeast
  <1> QED
    BY <1>3 DEF up

\* Where a topic and those above it have rules.
Ruled(t) == {k \in 0..(MaxDepth - 1) : Ancestors(t)[k] # None /\ Matching(TopicRules, Ancestors(t)[k]) # {}}

LEMMA NearestByRuled ==
    ASSUME NEW t \in Topic, NEW u
    PROVE  NearestTopicDecides(u, t) <=>
               \/ Ruled(t) = {}
               \/ \E k \in Ruled(t) : /\ \A j \in Ruled(t) : k <= j
                                      /\ Grants(Matching(TopicRules, Ancestors(t)[k]), u)
  BY AncestorsClimb, Zenon DEF NearestTopicDecides, Ruled

\* A topic without rules has them one place further than its parent, if the climb
\* reaches the root.
LEMMA RuledOneNearer ==
    ASSUME NEW t \in Topic, Parent[t] # None, Rooted(t), Matching(TopicRules, t) = {}
    PROVE  \A k \in Nat : k \in Ruled(Parent[t]) <=> k + 1 \in Ruled(t)
  <1> DEFINE n == MaxDepth - 1
  <1>1. n \in Nat /\ Parent[t] \in Topic
    BY OneNearer, AccessAssumption
  <1>2. \A k \in Nat : k + 1 \in 1..n => Ancestors(t)[k + 1] = Ancestors(Parent[t])[k]
    <2>1. ASSUME NEW k \in Nat, k + 1 \in 1..n PROVE Ancestors(t)[k + 1] = Ancestors(Parent[t])[(k + 1) - 1]
      BY <2>1, OneNearer
    <2> QED
      BY <2>1
  <1>3. Ancestors(Parent[t])[n] = None
    <2>1. PICK k \in 0..n : Ancestors(t)[k] # None /\ Parent[Ancestors(t)[k]] = None
      BY AncestorsClimb DEF Rooted
    <2>2. k \in 1..n
      BY <1>1, <2>1, AncestorsClimb
    <2>3. Ancestors(t)[k] = Ancestors(Parent[t])[k - 1]
      BY <2>2, OneNearer
    <2>4. Ancestors(Parent[t])[k] = None
      BY <1>1, <2>1, <2>2, <2>3, AncestorsClimb DEF Above
    <2> QED
      BY <1>1, <2>1, <2>4, NothingAbove
  <1> QED
    BY <1>1, <1>2, <1>3 DEF Ruled

\* Children topics inherit the rules from their parent unless they have their own,
\* for a tree of any shape and any height that the evaluator climbs to the root.
THEOREM ChildrenFollowParents == Spec => []ChildrenInherit
  <1>1. ASSUME NEW t \in Topic, Parent[t] # None, Rooted(t), Matching(TopicRules, t) = {}, NEW u \in User
        PROVE  NearestTopicDecides(u, t) <=> NearestTopicDecides(u, Parent[t])
    <2> DEFINE A == Ruled(t)
               B == Ruled(Parent[t])
               G(k) == Grants(Matching(TopicRules, Ancestors(t)[k]), u)
               H(k) == Grants(Matching(TopicRules, Ancestors(Parent[t])[k]), u)
    <2>1. Parent[t] \in Topic /\ A \subseteq Nat \ {0} /\ B \subseteq Nat
      BY <1>1, OneNearer, AncestorsClimb DEF Ruled
    <2>2. \A k \in Nat : k \in B <=> k + 1 \in A
      BY <1>1, RuledOneNearer
    <2>3. \A k \in B : H(k) <=> G(k + 1)
      <3>1. ASSUME NEW k \in B PROVE Ancestors(t)[k + 1] = Ancestors(Parent[t])[k]
        <4>1. k + 1 \in 1..(MaxDepth - 1) /\ (k + 1) - 1 = k
          BY <2>1, <2>2, <3>1 DEF Ruled
        <4> QED
          BY <1>1, <4>1, OneNearer
      <3> QED
        BY <3>1
    <2>4. NearestTopicDecides(u, t) <=> A = {} \/ \E k \in A : (\A j \in A : k <= j) /\ G(k)
      BY NearestByRuled
    <2>5. NearestTopicDecides(u, Parent[t]) <=> B = {} \/ \E k \in B : (\A j \in B : k <= j) /\ H(k)
      BY <2>1, NearestByRuled
    <2> HIDE DEF A, B, G, H
    <2>6. A = {} <=> B = {}
      <3>1. \A k \in A : k - 1 \in Nat /\ k = (k - 1) + 1
        BY <2>1
      <3> QED
        BY <2>1, <2>2, <3>1
    <2>7. ASSUME NEW k \in B, \A j \in B : k <= j, H(k)
          PROVE  \E i \in A : (\A j \in A : i <= j) /\ G(i)
      <3>1. k + 1 \in A /\ G(k + 1)
        BY <2>1, <2>2, <2>3, <2>7
      <3>2. ASSUME NEW j \in A PROVE k + 1 <= j
        <4>1. j - 1 \in Nat /\ (j - 1) + 1 = j
          BY <2>1, <3>2
        <4>2. k <= j - 1
          BY <2>2, <2>7, <3>2, <4>1
        <4> QED
          BY <2>1, <3>2, <4>2
      <3> QED
        BY <3>1, <3>2
    <2>8. ASSUME NEW k \in A, \A j \in A : k <= j, G(k)
          PROVE  \E i \in B : (\A j \in B : i <= j) /\ H(i)
      <3>1. k - 1 \in Nat /\ (k - 1) + 1 = k
        BY <2>1
      <3>2. k - 1 \in B /\ H(k - 1)
        BY <2>2, <2>3, <2>8, <3>1
      <3>3. ASSUME NEW j \in B PROVE k - 1 <= j
        <4>1. j \in Nat /\ k <= j + 1
          BY <2>1, <2>2, <2>8, <3>3
        <4> QED
          BY <3>1, <4>1
      <3> QED
        BY <3>2, <3>3
    <2> QED
      BY <2>4, <2>5, <2>6, <2>7, <2>8
  <1>2. ChildrenInherit
    BY <1>1 DEF ChildrenInherit, CanAccessTopic
  <1> QED
    BY <1>2, PTL
=============================================================================
