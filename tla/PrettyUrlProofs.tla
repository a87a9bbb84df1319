--------------------------- MODULE PrettyUrlProofs ---------------------------
(***************************************************************************)
(* Proofs about PrettyUrls: type correctness, what an activate or a save     *)
(* puts into force, and what a clear pendingReprocess flag says of the URLs. *)
(* The templates of a section are shown first to have an order, by counting  *)
(* for each row those that come before it.                                   *)
(*                                                                         *)
(* Then the pure parts: a URL reads like its template (UrlEngine), and the    *)
(* topics of a document are in order and have URLs of their own (UrlNames).  *)
(***************************************************************************)
EXTENDS PrettyUrls, Urls, FiniteSetTheorems, WellFoundedInduction, TLAPS

-----------------------------------------------------------------------------
(* The order of the templates                                              *)

\* Rows as loadActiveSet reads them: with their ids, which are distinct.
Listable(S) ==
    /\ IsFiniteSet(S)
    /\ \A t \in S : t.id \in Nat /\ t.of \in Row
    /\ \A t, u \in S : t.id = u.id => t = u

LEMMA BeforeOrders ==
    ASSUME NEW S, Listable(S), NEW t \in S, NEW u \in S, NEW v \in S
    PROVE  /\ ~Before(t, t)
           /\ Before(t, u) /\ Before(u, v) => Before(t, v)
           /\ t # u => Before(t, u) \/ Before(u, t)
  <1>1. \A x \in {t, u, v} : x.id \in Nat /\ x.of.prio \in Nat
    BY PrettyUrlAssumption DEF Listable, Row
  <1>2. t # u => t.id # u.id
    BY DEF Listable
  <1> QED
    BY <1>1, <1>2 DEF Before

\* The number of rows up to t.
Rank(S, t) == Cardinality({u \in S : Before(u, t)}) + 1

LEMMA RanksRise ==
    ASSUME NEW S, Listable(S), NEW t \in S, NEW u \in S
    PROVE  /\ Rank(S, t) \in 1..Cardinality(S)
           /\ Before(t, u) => Rank(S, t) < Rank(S, u)
  <1> DEFINE below(v) == {w \in S : Before(w, v)}
  <1>1. IsFiniteSet(S) /\ Cardinality(S) \in Nat
    BY FS_CardinalityType DEF Listable
  <1>2. /\ IsFiniteSet(S \ {t}) /\ Cardinality(S \ {t}) = Cardinality(S) - 1
    BY <1>1, FS_RemoveElement
  <1>3. below(t) \in SUBSET (S \ {t})
    BY BeforeOrders
  <1>4. IsFiniteSet(below(t)) /\ Cardinality(below(t)) <= Cardinality(S) - 1
    BY <1>2, <1>3, FS_Subset
  <1>5. IsFiniteSet(below(u))
    BY <1>1, FS_Subset
  <1>6. Cardinality(below(t)) \in Nat /\ Cardinality(below(u)) \in Nat
    BY <1>4, <1>5, FS_CardinalityType
  <1>7. Rank(S, t) \in 1..Cardinality(S)
    BY <1>1, <1>4, <1>6 DEF Rank
  <1>8. ASSUME Before(t, u) PROVE Rank(S, t) < Rank(S, u)
    <2>1. below(t) \in SUBSET below(u)
      BY <1>8, BeforeOrders
    <2>2. t \in below(u) /\ t \notin below(t)
      BY <1>8, BeforeOrders
    <2>3. /\ Cardinality(below(t)) <= Cardinality(below(u))
          /\ Cardinality(below(u)) = Cardinality(below(t)) => below(u) = below(t)
      BY <1>5, <2>1, FS_Subset
    <2>4. Cardinality(below(t)) < Cardinality(below(u))
      BY <1>6, <2>2, <2>3
    <2> QED
      BY <1>6, <2>4 DEF Rank
  <1> QED
    BY <1>7, <1>8

\* The rows can be put in order, by their ranks.
LEMMA Sortable ==
    ASSUME NEW S, Listable(S)
    PROVE  \E s \in SetToSeqs(S) : \A j, k \in DOMAIN s : j < k => Before(s[j], s[k])
  <1> DEFINE n == Cardinality(S)
             f == [t \in S |-> Rank(S, t)]
             s == [k \in 1..n |-> CHOOSE t \in S : f[t] = k]
  <1>1. IsFiniteSet(S) /\ n \in Nat
    BY FS_CardinalityType DEF Listable
  <1>2. f \in [S -> 1..n]
    BY RanksRise
  <1>3. \A t, u \in S : Before(t, u) => f[t] < f[u]
    BY RanksRise
  <1>4. \A t \in S : f[t] \in 1..n
    BY <1>2
  <1>5. \A t, u \in S : t # u => f[t] # f[u]
    <2> SUFFICES ASSUME NEW t \in S, NEW u \in S, t # u PROVE f[t] # f[u]
      OBVIOUS
    <2>1. Before(t, u) \/ Before(u, t)
      BY BeforeOrders
    <2> QED
      BY <1>1, <1>3, <1>4, <2>1
  <1>6. f \in Injection(S, 1..n)
    BY <1>2, <1>5 DEF Injection, IsInjective
  <1>7. IsFiniteSet(1..n) /\ Cardinality(1..n) = n
    BY <1>1, FS_Interval
  <1>8. f \in Surjection(S, 1..n)
    BY <1>6, <1>7, FS_Injection
  <1>9. \A k \in 1..n : \E t \in S : f[t] = k
    BY <1>8 DEF Surjection
  <1> HIDE DEF f
  <1>10. \A k \in 1..n : s[k] \in S /\ f[s[k]] = k
    BY <1>9
  <1>11. s \in [1..n -> S] /\ DOMAIN s = 1..n
    BY <1>10
  <1> HIDE DEF s
  <1>12. s \in SetToSeqs(S)
    BY <1>10, <1>11 DEF SetToSeqs
  <1>13. ASSUME NEW j \in 1..n, NEW k \in 1..n, j < k PROVE Before(s[j], s[k])
    <2>1. s[j] # s[k] /\ s[j] \in S /\ s[k] \in S
      BY <1>10, <1>13
    <2>2. ~Before(s[k], s[j])
      BY <1>1, <1>3, <1>10, <1>13
    <2> QED
      BY <2>1, <2>2, BeforeOrders
  <1> QED
    BY <1>11, <1>12, <1>13

LEMMA SortedType ==
    ASSUME NEW S, Listable(S)
    PROVE  Sorted(S) \in Seq(S)
  <1>1. Sorted(S) \in SetToSeqs(S)
    BY Sortable DEF Sorted
  <1>2. Cardinality(S) \in Nat
    BY FS_CardinalityType DEF Listable
  <1> QED
    BY <1>1, <1>2 DEF SetToSeqs
-----------------------------------------------------------------------------
(* The types of what is loaded and rendered                                *)

Settings == [style : BOOLEAN, pending : BOOLEAN]
RowsTyped == row \in [Id -> {None} \cup Row]

LEMMA NotNone ==
    /\ \A b \in Body : b # None
    /\ \A w \in Row : w # None
    /\ \A c \in Call : c # None
    /\ \A u \in DocUrl : u # None
    /\ \A u \in TopicUrl : u # None
  <1>1. /\ None \notin Body /\ None \notin Row /\ None \notin Call
        /\ None \notin DocUrl /\ None \notin TopicUrl
    BY PrettyUrlAssumption
  <1> QED
    BY <1>1

LEMMA IdsFinite == IsFiniteSet(Id) /\ Id \subseteq Nat
  BY PrettyUrlAssumption, FS_Interval DEF Id

LEMMA ActiveListable ==
    ASSUME RowsTyped, NEW scope
    PROVE  Listable({[id |-> i, of |-> row[i]] : i \in Section("active", scope)})
  <1> DEFINE I == Section("active", scope)
             f == [i \in I |-> [id |-> i, of |-> row[i]]]
             S == {[id |-> i, of |-> row[i]] : i \in I}
  <1>1. I \subseteq Id /\ \A i \in I : row[i] \in Row
    BY DEF Section, InState, Exists, RowsTyped
  <1> HIDE DEF I
  <1>2. IsFiniteSet(I)
    BY <1>1, IdsFinite, FS_Subset
  <1>3. f \in [I -> S] /\ \A t \in S : \E i \in I : f[i] = t
    OBVIOUS
  <1>4. f \in Surjection(I, S)
    BY <1>3 DEF Surjection
  <1>5. IsFiniteSet(S)
    BY <1>2, <1>4, FS_Surjection
  <1> QED
    <2>1. \A t \in S : \E i \in I : t.id = i /\ t.of = row[i]
      OBVIOUS
    <2>3. \A t \in S : t.id \in Nat /\ t.of \in Row
      BY <1>1, <2>1, IdsFinite
    <2>2. \A t, u \in S : t.id = u.id => t = u
      OBVIOUS
    <2> QED
      BY <1>5, <2>2, <2>3 DEF Listable, I

LEMMA LiveType ==
    ASSUME RowsTyped
    PROVE  Live("document") \in Seq(DocBody) /\ Live("topic") \in Seq(TopicBody)
  <1>1. ASSUME NEW scope \in Scope, NEW B, \A b \in Body : ScopeOf(b) = scope => b \in B
        PROVE  Live(scope) \in Seq(B)
    <2> DEFINE S == {[id |-> i, of |-> row[i]] : i \in Section("active", scope)}
               order == Sorted(S)
    <2>1. \A t \in S : t.of.body \in B
      <3>1. ASSUME NEW i \in Section("active", scope) PROVE row[i].body \in B
        <4>1. row[i] \in Row /\ ScopeOf(row[i].body) = scope
          BY <3>1 DEF Section, InState, Exists, RowsTyped
        <4> QED
          BY <1>1, <4>1 DEF Row
      <3> QED
        BY <3>1
    <2>2. order \in Seq(S)
      BY ActiveListable, SortedType
    <2>3. Live(scope) = [k \in DOMAIN order |-> order[k].of.body]
      BY DEF Live
    <2> HIDE DEF order, S
    <2> QED
      BY <2>1, <2>2, <2>3
  <1>2. \A b \in Body : ScopeOf(b) = "document" => b \in DocBody
    BY DEF ScopeOf
  <1>3. \A b \in Body : ScopeOf(b) = "topic" => b \in TopicBody
    BY DEF ScopeOf, Body
  <1> QED
    BY <1>1, <1>2, <1>3 DEF Scope

LEMMA ActiveSetType ==
    ASSUME RowsTyped, cfg \in Settings
    PROVE  ActiveSet \in Set
  BY LiveType DEF ActiveSet, Set, Settings

\* A nonempty set of positions has a first one.
LEMMA HasFirst ==
    ASSUME NEW I, I \subseteq Nat, I # {}
    PROVE  Min(I) \in I
  <1>1. \E x \in I : \A y \in I : ~ (<<y, x>> \in OpToRel(<, Nat))
    BY WFMin, NatLessThanWellFounded, Zenon
  <1>2. PICK x \in I : \A y \in I : ~ (y < x)
    BY <1>1, Zenon DEF OpToRel
  <1>3. \A y \in I : x <= y
    BY <1>2
  <1> QED
    BY <1>3 DEF Min

LEMMA PickedType ==
    ASSUME NEW B, NEW bodies \in Seq(B), NEW url
    PROVE  Picked(bodies, url) = None \/ Picked(bodies, url) \in B
  <1> DEFINE I == {i \in 1..Len(bodies) : bodies[i] \in Fits /\ (bodies[i] \in Nested => url # None)}
  <1>1. Picked(bodies, url) = IF (IF I # {} THEN Min(I) ELSE 0) = 0 THEN None
                              ELSE bodies[IF I # {} THEN Min(I) ELSE 0]
    BY DEF Picked, SelectInSeq
  <1>2. I # {} => Min(I) \in I
    <2>1. I \subseteq Nat
      OBVIOUS
    <2> HIDE DEF I
    <2> QED
      BY <2>1, HasFirst
  <1>3. I \subseteq 1..Len(bodies) /\ \A i \in 1..Len(bodies) : bodies[i] \in B
    OBVIOUS
  <1> HIDE DEF I
  <1> DEFINE k == IF I # {} THEN Min(I) ELSE 0
  <1>4. k # 0 => k \in 1..Len(bodies)
    BY <1>2, <1>3
  <1>5. Picked(bodies, url) = IF k = 0 THEN None ELSE bodies[k]
    BY <1>1
  <1> HIDE DEF k
  <1> QED
    BY <1>3, <1>4, <1>5

LEMMA DocumentUrlType ==
    ASSUME NEW set \in Set
    PROVE  DocumentUrl(set) \in {None} \cup DocUrl
  BY PickedType DEF DocumentUrl, Set, DocUrl

LEMMA TopicUrlType ==
    ASSUME NEW set \in Set, NEW url \in {None} \cup DocUrl
    PROVE  TopicUrlUnder(set, url) \in {None} \cup TopicUrl
  BY PickedType DEF TopicUrlUnder, Set, TopicUrl

-----------------------------------------------------------------------------
(* Type correctness: the inductive invariant                               *)

Place == {"patch", "mark", "config", "actives", "copy", "flip", "insert", "settings", "settled",
          "drop", "find", "spawn"}
Kind == {"edit", "config", "reset", "activate", "save", "reprocess"}
Replacing == {"activate", "save"}

\* Where a request of each kind can be, and what it then has.
CallShape(c) ==
    /\ c.op = "edit" => c.pc \in {"patch", "mark", "drop"}
    /\ c.op = "config" => c.pc \in {"config", "drop"}
    /\ c.op = "reset" => /\ c.pc \in {"actives", "insert", "drop"}
                         /\ \A w \in c.goal : w.state = "draft"
    /\ c.op = "activate" => c.pc \in {"flip", "settings", "settled", "drop", "find", "spawn"}
    /\ c.op = "save" => c.pc \in {"insert", "settings", "settled", "drop", "find", "spawn"}
    /\ c.op = "reprocess" => c.pc \in {"find", "spawn"}
    /\ c.pc = "patch" => c.loaded \in Row /\ c.new \in Row
    /\ c.pc \in {"config", "settled"} => c.loaded \in Settings
    /\ c.pc = "insert" => IsFiniteSet(c.goal)

ReqTyped ==
    /\ req \in [Request -> {None} \cup Call]
    /\ \A r \in Request : req[r] # None => CallShape(req[r])

\* Ids are given out in order.
RowsKept == RowsTyped /\ born \in 0..MaxRows /\ \A i \in Id : i > born => row[i] = None

RunTyped ==
    /\ run \in [Runner -> Run]
    /\ \A x \in Runner : run[x].pc # "load" => run[x].left = {}
    /\ reply \in [Worker -> {"none", "job", "clear", "drop"}]
    /\ \A w \in Worker : reply[w] # "none" => run[w].pc \in {"idle", "job", "clear"}
    /\ job \in [Worker -> {"none", "running", "done", "failed"}]

Misc ==
    /\ cfg \in Settings
    /\ cached = None \/ cached \in Set
    /\ doc \in Url
    /\ missed \in BOOLEAN

Counted == calls \in 0..MaxCalls /\ events \in 0..MaxEvents

TypeInv == RowsKept /\ ReqTyped /\ RunTyped /\ Misc /\ Counted

LEMMA TypeInvIsTypeOK == TypeInv => TypeOK
  BY DEF TypeInv, RowsKept, RowsTyped, ReqTyped, RunTyped, Misc, Counted, TypeOK, Settings

LEMMA InitTypeInv == Init => TypeInv
  <1> SUFFICES ASSUME Init PROVE TypeInv
    OBVIOUS
  <1> USE DEF Init
  <1>1. RowsKept
    BY PrettyUrlAssumption DEF RowsKept, RowsTyped
  <1>2. ReqTyped
    BY DEF ReqTyped
  <1>3. NoSet \in Set
    BY DEF NoSet, Set
  <1>4. NoRun \in Run /\ NoRun.pc = "idle" /\ NoRun.left = {}
    BY <1>3 DEF NoRun, Run
  <1>5. RunTyped
    BY <1>4 DEF RunTyped
  <1>6. Misc
    BY DEF Misc, Settings, Url
  <1>7. Counted
    BY PrettyUrlAssumption DEF Counted
  <1> QED
    BY <1>1, <1>2, <1>5, <1>6, <1>7 DEF TypeInv

LEMMA CountedKept ==
    ASSUME TypeInv
    PROVE  /\ Fault => Counted'
           /\ UNCHANGED bounds => Counted'
           /\ \A r : Begin(r) => Counted' /\ req[r] = None
  BY PrettyUrlAssumption DEF TypeInv, Counted, Fault, Begin, bounds

-----------------------------------------------------------------------------
(* What a step of one request does to the requests                         *)

\* The others do not notice it, or they learn that they are not alone.
Others(r) == \A q \in Request \ {r} : req'[q] = req[q]
Nudged(q) ==
    /\ req'[q] = None <=> req[q] = None
    /\ req[q] # None => /\ req'[q].pc = req[q].pc /\ req'[q].op = req[q].op
                        /\ req[q].op \in Replacing => ~req'[q].alone
OthersNudged(r) == \A q \in Request \ {r} : Nudged(q)

LEMMA StartType ==
    ASSUME NEW pc \in Place, NEW op \in Kind
    PROVE  /\ Start(pc, op) \in Call
           /\ Start(pc, op) = [pc |-> pc, op |-> op, id |-> 1, loaded |-> None, new |-> None, style |-> FALSE,
                               goal |-> {}, alone |-> TRUE]
  <1>1. 1 \in Id
    BY PrettyUrlAssumption DEF Id
  <1> QED
    BY <1>1 DEF Start, Call, Place, Kind

LEMMA Known ==
    ASSUME TypeInv, NEW r \in Request, req[r] # None
    PROVE  /\ req[r] \in Call /\ CallShape(req[r])
           /\ req[r].pc \in Place /\ req[r].op \in Kind /\ req[r].id \in Id
           /\ req[r].goal \in SUBSET Row /\ req[r].style \in BOOLEAN /\ req[r].alone \in BOOLEAN
           /\ req[r].loaded \in {None} \cup Row \cup Settings
           /\ req[r].new \in {None} \cup Row
  BY DEF TypeInv, ReqTyped, Call, Place, Kind, Settings

LEMMA Puts ==
    ASSUME TypeInv, NEW r \in Request, NEW c \in Call, CallShape(c), req' = [req EXCEPT ![r] = c]
    PROVE  ReqTyped' /\ req'[r] = c /\ Others(r)
  BY DEF TypeInv, ReqTyped, Others

LEMMA Returns ==
    ASSUME TypeInv, NEW r \in Request, Return(r)
    PROVE  ReqTyped' /\ req'[r] = None /\ Others(r)
  BY DEF TypeInv, ReqTyped, Others, Return

LEMMA Goes ==
    ASSUME TypeInv, NEW r \in Request, req[r] # None, NEW pc \in Place, Goto(r, pc),
           CallShape([req[r] EXCEPT !.pc = pc])
    PROVE  ReqTyped' /\ req'[r] = [req[r] EXCEPT !.pc = pc] /\ Others(r)
  <1>1. [req[r] EXCEPT !.pc = pc] \in Call
    BY Known DEF Call, Place
  <1>2. req' = [req EXCEPT ![r] = [req[r] EXCEPT !.pc = pc]]
    BY DEF Goto
  <1> QED
    BY <1>1, <1>2, Puts

LEMMA Touches ==
    ASSUME TypeInv, NEW r \in Request, NEW c \in Call, CallShape(c), Touch(r, c)
    PROVE  ReqTyped' /\ req'[r] = c /\ OthersNudged(r)
  <1> DEFINE kept(q) == IF req[q] # None /\ req[q].op \in {"activate", "save"}
                        THEN [req[q] EXCEPT !.alone = FALSE] ELSE req[q]
  <1>1. req' = [q \in Request |-> IF q = r THEN c ELSE kept(q)]
    BY DEF Touch
  <1>2. ASSUME NEW q \in Request
        PROVE  /\ kept(q) \in {None} \cup Call
               /\ kept(q) # None => CallShape(kept(q))
               /\ kept(q) = None <=> req[q] = None
               /\ req[q] # None => /\ kept(q).pc = req[q].pc /\ kept(q).op = req[q].op
                                   /\ req[q].op \in Replacing => ~kept(q).alone
    <2>1. CASE req[q] = None
      BY <2>1
    <2>2. CASE req[q] # None
      <3> DEFINE d == [req[q] EXCEPT !.alone = FALSE]
      <3>1. req[q] \in Call /\ CallShape(req[q])
        BY <2>2, Known
      <3>2. /\ d \in Call /\ d.pc = req[q].pc /\ d.op = req[q].op /\ d.loaded = req[q].loaded
            /\ d.new = req[q].new /\ d.goal = req[q].goal /\ d.alone = FALSE
        BY <3>1 DEF Call
      <3>3. d # None
        BY <3>2, NotNone
      <3>4. kept(q) = d \/ (kept(q) = req[q] /\ req[q].op \notin Replacing)
        BY <2>2 DEF Replacing
      <3> HIDE DEF d, kept
      <3>5. CallShape(d)
        BY <3>1, <3>2 DEF CallShape
      <3> QED
        BY <2>2, <3>1, <3>2, <3>3, <3>4, <3>5
    <2> QED
      BY <2>1, <2>2
  <1> HIDE DEF kept
  <1>3. req' \in [Request -> {None} \cup Call]
    BY <1>1, <1>2
  <1>4. /\ req'[r] = c
        /\ \A q \in Request \ {r} : req'[q] = kept(q)
    BY <1>1
  <1>5. ReqTyped'
    BY <1>2, <1>3, <1>4 DEF ReqTyped
  <1>6. OthersNudged(r)
    BY <1>2, <1>4 DEF OthersNudged, Nudged
  <1> QED
    BY <1>4, <1>5, <1>6

-----------------------------------------------------------------------------
(* Each step of a request keeps the types                                  *)

\* The runs go on; those that the active set has changed under are stale.
Aged ==
    \A x \in Runner :
        /\ run'[x].pc = run[x].pc /\ run'[x].left = run[x].left
        /\ run'[x].set = run[x].set /\ run'[x].found = run[x].found
        /\ run[x].stale => run'[x].stale
        /\ Running(x) /\ ~run'[x].stale => ActiveSet' = ActiveSet

LEMMA Overtaken ==
    ASSUME TypeInv, Overtake, UNCHANGED <<job, reply>>
    PROVE  RunTyped' /\ Aged
  <1>1. \A x \in Runner : run[x] \in Run
    BY DEF TypeInv, RunTyped
  <1> DEFINE d(x) == [run[x] EXCEPT !.stale = TRUE]
  <1>2. \A x \in Runner : /\ d(x) \in Run /\ d(x).pc = run[x].pc /\ d(x).left = run[x].left
                          /\ d(x).set = run[x].set /\ d(x).found = run[x].found /\ d(x).stale = TRUE
    BY <1>1 DEF Run
  <1>3. run' = [x \in Runner |-> IF Running(x) /\ ActiveSet' # ActiveSet THEN d(x) ELSE run[x]]
    BY DEF Overtake
  <1> HIDE DEF d
  <1>4. \A x \in Runner : run'[x] = IF Running(x) /\ ActiveSet' # ActiveSet THEN d(x) ELSE run[x]
    BY <1>3
  <1>5. run' \in [Runner -> Run]
    BY <1>1, <1>2, <1>3
  <1>6. Aged
    BY <1>1, <1>2, <1>4 DEF Aged
  <1>7. \A x \in Runner : run'[x].pc = run[x].pc /\ run'[x].left = run[x].left
    BY <1>6 DEF Aged
  <1>8. Worker \subseteq Runner
    BY DEF Runner
  <1> QED
    BY <1>5, <1>6, <1>7, <1>8 DEF RunTyped, TypeInv

LEMMA SharedKept ==
    ASSUME TypeInv, Changed \/ Untouched
    PROVE  RunTyped' /\ Misc'
  <1>1. CASE Changed
    BY <1>1, Overtaken DEF Changed, Apart, TypeInv, Misc
  <1>2. CASE Untouched
    BY <1>2 DEF Untouched, Apart, TypeInv, Misc, RunTyped
  <1> QED
    BY <1>1, <1>2

LEMMA CreateTyped ==
    ASSUME TypeInv, NEW r \in Request, Create(r)
    PROVE  TypeInv' /\ req'[r] = Start("mark", "edit") /\ OthersNudged(r)
  <1>1. PICK w \in Row : row' = [row EXCEPT ![born + 1] = w]
    <2>1. PICK s \in State, b \in Body :
             LET last == Cardinality(Section(s, ScopeOf(b)))
             IN  last \in Prio /\ row' = [row EXCEPT ![born + 1] = [state |-> s, body |-> b, prio |-> last]]
      BY Zenon DEF Create
    <2> QED
      BY <2>1 DEF Row
  <1>2. born' = born + 1 /\ born + 1 <= MaxRows /\ Begin(r) /\ Touch(r, Start("mark", "edit")) /\ Changed
    BY DEF Create, Fresh
  <1>3. RowsKept'
    BY <1>1, <1>2, PrettyUrlAssumption DEF TypeInv, RowsKept, RowsTyped, Id
  <1>4. CallShape(Start("mark", "edit")) /\ Start("mark", "edit") \in Call
    BY StartType DEF CallShape, Place, Kind
  <1>5. ReqTyped' /\ req'[r] = Start("mark", "edit") /\ OthersNudged(r)
    BY <1>2, <1>4, Touches
  <1>6. Counted'
    BY <1>2, CountedKept
  <1> QED
    BY <1>2, <1>3, <1>5, <1>6, SharedKept DEF TypeInv

LEMMA PatchFindTyped ==
    ASSUME TypeInv, NEW r \in Request, PatchFind(r)
    PROVE  /\ TypeInv' /\ Others(r)
           /\ req[r] = None /\ req'[r] \in Call /\ req'[r].pc = "patch" /\ req'[r].op = "edit"
  <1>1. PICK i \in Id, new \in Row :
           /\ Exists(i)
           /\ req' = [req EXCEPT ![r] = [Start("patch", "edit") EXCEPT !.id = i, !.loaded = row[i], !.new = new]]
    BY Zenon DEF PatchFind
  <1> DEFINE c == [Start("patch", "edit") EXCEPT !.id = i, !.loaded = row[i], !.new = new]
  <1>2. row[i] \in Row
    BY <1>1 DEF TypeInv, RowsKept, RowsTyped, Exists
  <1>3. /\ c \in Call /\ c.pc = "patch" /\ c.op = "edit" /\ c.loaded \in Row /\ c.new \in Row
    <2> DEFINE s == Start("patch", "edit")
    <2>1. s \in Call /\ s.pc = "patch" /\ s.op = "edit"
      BY StartType DEF Place, Kind
    <2> HIDE DEF s
    <2>2. c = [s EXCEPT !.id = i, !.loaded = row[i], !.new = new]
      BY DEF s
    <2> HIDE DEF c
    <2> QED
      BY <1>2, <2>1, <2>2 DEF Call
  <1>4. req' = [req EXCEPT ![r] = c]
    BY <1>1
  <1> HIDE DEF c
  <1>5. CallShape(c)
    BY <1>3 DEF CallShape
  <1>6. ReqTyped' /\ req'[r] = c /\ Others(r)
    BY <1>3, <1>4, <1>5, Puts
  <1>7. Begin(r) /\ UNCHANGED <<row, born>> /\ Untouched
    BY DEF PatchFind
  <1>8. RowsKept' /\ Counted' /\ req[r] = None
    BY <1>7, CountedKept DEF TypeInv, RowsKept, RowsTyped
  <1> QED
    BY <1>3, <1>6, <1>7, <1>8, SharedKept DEF TypeInv

LEMMA PatchedType ==
    ASSUME NEW old \in Row, NEW c \in Call, c.loaded \in Row, c.new \in Row
    PROVE  Patched(old, c) \in Row
  <1>1. DOMAIN old = {"state", "body", "prio"}
    BY DEF Row
  <1>2. Patched(old, c) = [f \in {"state", "body", "prio"} |-> IF c.new[f] # c.loaded[f] THEN c.new[f] ELSE old[f]]
    BY <1>1 DEF Patched
  <1> QED
    BY <1>2 DEF Row

LEMMA PatchSaveTyped ==
    ASSUME TypeInv, NEW r \in Request, PatchSave(r)
    PROVE  /\ TypeInv'
           /\ \/ UNCHANGED row /\ Others(r) /\ req'[r] = None
              \/ req'[r] = Start("mark", "edit") /\ OthersNudged(r)
  <1>1. req[r] # None /\ req[r].pc = "patch"
    BY DEF PatchSave, At
  <1> DEFINE c == req[r]
  <1>2. c \in Call /\ CallShape(c) /\ c.loaded \in Row /\ c.new \in Row /\ c.id \in Id
    BY <1>1, Known DEF CallShape
  <1>3. UNCHANGED <<born, bounds>> /\ Changed
    BY DEF PatchSave
  <1>4. Counted'
    BY <1>3, CountedKept
  <1>5. CASE Exists(c.id)
    <2>1. row' = [row EXCEPT ![c.id] = Patched(row[c.id], c)] /\ Touch(r, Start("mark", "edit"))
      BY <1>5 DEF PatchSave
    <2>2. row[c.id] \in Row /\ c.id <= born
      BY <1>2, <1>5, PrettyUrlAssumption DEF TypeInv, RowsKept, RowsTyped, Exists, Id
    <2>3. Patched(row[c.id], c) \in Row
      BY <1>2, <2>2, PatchedType
    <2>4. RowsKept'
      BY <1>2, <1>3, <2>1, <2>2, <2>3 DEF TypeInv, RowsKept, RowsTyped, Id
    <2>5. CallShape(Start("mark", "edit")) /\ Start("mark", "edit") \in Call
      BY StartType DEF CallShape, Place, Kind
    <2>6. ReqTyped' /\ req'[r] = Start("mark", "edit") /\ OthersNudged(r)
      BY <2>1, <2>5, Touches
    <2> QED
      BY <1>3, <1>4, <2>4, <2>6, SharedKept DEF TypeInv
  <1>6. CASE ~Exists(c.id)
    <2>1. Return(r) /\ UNCHANGED row
      BY <1>6 DEF PatchSave
    <2>2. RowsKept'
      BY <1>3, <2>1 DEF TypeInv, RowsKept, RowsTyped
    <2> QED
      BY <1>3, <1>4, <2>1, <2>2, Returns, SharedKept DEF TypeInv
  <1> QED
    BY <1>5, <1>6

\* Steps that begin with a write to rows: the new rows are old ones or fewer.
LEMMA RewriteTyped ==
    ASSUME TypeInv, NEW r \in Request, Begin(r), UNCHANGED born, Changed,
           NEW c \in Call, CallShape(c), Touch(r, c),
           row' \in [Id -> {None} \cup Row], \A i \in Id : row[i] = None => row'[i] = None
    PROVE  TypeInv' /\ req'[r] = c /\ OthersNudged(r) /\ req[r] = None
  <1>1. RowsKept'
    BY DEF TypeInv, RowsKept, RowsTyped
  <1>2. ReqTyped' /\ req'[r] = c /\ OthersNudged(r)
    BY Touches
  <1> QED
    BY <1>1, <1>2, CountedKept, SharedKept DEF TypeInv

LEMMA Starts ==
    /\ Start("mark", "edit") \in Call /\ CallShape(Start("mark", "edit"))
    /\ Start("actives", "reset") \in Call /\ CallShape(Start("actives", "reset"))
    /\ Start("drop", "reset") \in Call /\ CallShape(Start("drop", "reset"))
    /\ Start("find", "reprocess") \in Call /\ CallShape(Start("find", "reprocess"))
  BY StartType DEF CallShape, Place, Kind

LEMMA DeleteTyped ==
    ASSUME TypeInv, NEW r \in Request, Delete(r)
    PROVE  TypeInv' /\ req'[r] = Start("mark", "edit") /\ OthersNudged(r) /\ req[r] = None
  <1>1. /\ row' \in [Id -> {None} \cup Row] /\ \A i \in Id : row[i] = None => row'[i] = None
    BY DEF Delete, TypeInv, RowsKept, RowsTyped
  <1>2. Begin(r) /\ UNCHANGED born /\ Changed /\ Touch(r, Start("mark", "edit"))
    BY DEF Delete
  <1> QED
    BY <1>1, <1>2, Starts, RewriteTyped

LEMMA ReorderTyped ==
    ASSUME TypeInv, NEW r \in Request, Reorder(r)
    PROVE  TypeInv' /\ req'[r] = Start("mark", "edit") /\ OthersNudged(r) /\ req[r] = None
  <1>1. PICK s \in State, scope \in Scope :
          LET ids == Section(s, scope)
          IN  \E p \in [ids -> {n \in Prio : n < Cardinality(ids)}] :
                 row' = [i \in Id |-> IF i \in ids THEN [row[i] EXCEPT !.prio = p[i]] ELSE row[i]]
    BY Zenon DEF Reorder
  <1> DEFINE ids == Section(s, scope)
  <1>2. \A i \in ids : i \in Id /\ row[i] # None /\ row[i] \in Row
    BY DEF Section, InState, Exists, TypeInv, RowsKept, RowsTyped
  <1>3. row \in [Id -> {None} \cup Row]
    BY DEF TypeInv, RowsKept, RowsTyped
  <1> HIDE DEF ids
  <1>4. PICK p \in [ids -> {n \in Prio : n < Cardinality(ids)}] :
          row' = [i \in Id |-> IF i \in ids THEN [row[i] EXCEPT !.prio = p[i]] ELSE row[i]]
    BY <1>1 DEF ids
  <1>5. \A i \in ids : [row[i] EXCEPT !.prio = p[i]] \in Row
    BY <1>2 DEF Row
  <1>6. /\ row' \in [Id -> {None} \cup Row] /\ \A i \in Id : row[i] = None => row'[i] = None
    BY <1>2, <1>3, <1>4, <1>5
  <1>7. Begin(r) /\ UNCHANGED born /\ Changed /\ Touch(r, Start("mark", "edit"))
    BY DEF Reorder
  <1> QED
    BY <1>6, <1>7, Starts, RewriteTyped

LEMMA ResetDeleteTyped ==
    ASSUME TypeInv, NEW r \in Request, ResetDelete(r)
    PROVE  TypeInv' /\ req'[r] = Start("actives", "reset") /\ OthersNudged(r) /\ req[r] = None
  <1>1. /\ row' \in [Id -> {None} \cup Row] /\ \A i \in Id : row[i] = None => row'[i] = None
    BY DEF ResetDelete, TypeInv, RowsKept, RowsTyped
  <1>2. Begin(r) /\ UNCHANGED born /\ Changed /\ Touch(r, Start("actives", "reset"))
    BY DEF ResetDelete
  <1> QED
    BY <1>1, <1>2, Starts, RewriteTyped

\* Rows in a state, moved to another one.
LEMMA MovedType ==
    ASSUME TypeInv, NEW s, NEW t \in State
    PROVE  /\ \A i \in InState(s) : [row[i] EXCEPT !.state = t] \in Row /\ [row[i] EXCEPT !.state = t].state = t
           /\ {[row[i] EXCEPT !.state = t] : i \in InState(s)} \in SUBSET Row
           /\ IsFiniteSet({[row[i] EXCEPT !.state = t] : i \in InState(s)})
  <1> DEFINE I == InState(s)
             f == [i \in I |-> [row[i] EXCEPT !.state = t]]
             S == {[row[i] EXCEPT !.state = t] : i \in I}
  <1>1. I \subseteq Id /\ \A i \in I : row[i] \in Row
    BY DEF InState, Exists, TypeInv, RowsKept, RowsTyped
  <1> HIDE DEF I
  <1>2. \A i \in I : [row[i] EXCEPT !.state = t] \in Row /\ [row[i] EXCEPT !.state = t].state = t
    BY <1>1 DEF Row
  <1>3. IsFiniteSet(I)
    BY <1>1, IdsFinite, FS_Subset
  <1>4. f \in [I -> S] /\ \A w \in S : \E i \in I : f[i] = w
    OBVIOUS
  <1>5. f \in Surjection(I, S)
    BY <1>4 DEF Surjection
  <1>6. IsFiniteSet(S)
    BY <1>3, <1>5, FS_Surjection
  <1> QED
    BY <1>2, <1>6 DEF I

LEMMA ActivateDeleteTyped ==
    ASSUME TypeInv, NEW r \in Request, ActivateDelete(r)
    PROVE  /\ TypeInv' /\ OthersNudged(r) /\ req[r] = None
           /\ req'[r] \in Call /\ req'[r].pc = "flip" /\ req'[r].op = "activate"
           /\ req'[r].goal = Promoted
  <1> DEFINE s == Start("flip", "activate")
             c == [s EXCEPT !.goal = Promoted]
  <1>1. s \in Call /\ s.pc = "flip" /\ s.op = "activate"
    BY StartType DEF Place, Kind
  <1>2. Promoted \in SUBSET Row
    BY MovedType DEF Promoted, State
  <1>3. Begin(r) /\ UNCHANGED born /\ Changed /\ Touch(r, c)
    BY DEF ActivateDelete
  <1> HIDE DEF s
  <1>4. c \in Call /\ c.pc = "flip" /\ c.op = "activate" /\ c.goal = Promoted
    BY <1>1, <1>2 DEF Call
  <1> HIDE DEF c
  <1>5. CallShape(c)
    BY <1>4 DEF CallShape
  <1>6. /\ row' \in [Id -> {None} \cup Row] /\ \A i \in Id : row[i] = None => row'[i] = None
    BY DEF ActivateDelete, ClearActive, TypeInv, RowsKept, RowsTyped
  <1> QED
    BY <1>3, <1>4, <1>5, <1>6, RewriteTyped

LEMMA SaveDeleteTyped ==
    ASSUME TypeInv, NEW r \in Request, SaveDelete(r)
    PROVE  /\ TypeInv' /\ OthersNudged(r) /\ req[r] = None
           /\ req'[r] \in Call /\ req'[r].pc = "insert" /\ req'[r].op = "save"
           /\ req'[r].goal \in Payload
  <1>1. PICK goal \in Payload, y \in BOOLEAN : Touch(r, [Start("insert", "save") EXCEPT !.goal = goal, !.style = y])
    BY Zenon DEF SaveDelete
  <1> DEFINE s == Start("insert", "save")
             c == [s EXCEPT !.goal = goal, !.style = y]
  <1>2. s \in Call /\ s.pc = "insert" /\ s.op = "save"
    BY StartType DEF Place, Kind
  <1>3. goal \in SUBSET Row /\ IsFiniteSet(goal)
    BY DEF Payload, Row, State
  <1>4. Touch(r, c)
    BY <1>1
  <1> HIDE DEF s
  <1>5. c \in Call /\ c.pc = "insert" /\ c.op = "save" /\ c.goal = goal
    BY <1>2, <1>3 DEF Call
  <1> HIDE DEF c
  <1>6. CallShape(c)
    BY <1>3, <1>5 DEF CallShape
  <1>7. Begin(r) /\ UNCHANGED born /\ Changed /\ row' = [i \in Id |-> None]
    BY DEF SaveDelete
  <1>8. /\ row' \in [Id -> {None} \cup Row] /\ \A i \in Id : row[i] = None => row'[i] = None
    BY <1>7
  <1> QED
    BY <1>4, <1>5, <1>6, <1>7, <1>8, RewriteTyped

LEMMA ActivateFlipTyped ==
    ASSUME TypeInv, NEW r \in Request, ActivateFlip(r)
    PROVE  /\ TypeInv' /\ OthersNudged(r) /\ req[r] # None /\ req[r].pc = "flip" /\ req[r].op = "activate"
           /\ req'[r] \in Call /\ req'[r].pc = "settings" /\ req'[r].op = "activate"
           /\ req'[r].goal = req[r].goal /\ req'[r].alone = req[r].alone
  <1> DEFINE c == [req[r] EXCEPT !.pc = "settings"]
  <1>1. req[r] # None /\ req[r].pc = "flip"
    BY DEF ActivateFlip, At
  <1>2. req[r] \in Call /\ CallShape(req[r]) /\ req[r].op = "activate"
    BY <1>1, Known DEF CallShape, Kind
  <1>3. c \in Call /\ c.pc = "settings" /\ c.op = "activate" /\ c.goal = req[r].goal /\ c.alone = req[r].alone
    BY <1>2 DEF Call
  <1>4. Touch(r, c) /\ UNCHANGED <<born, bounds>> /\ Changed
    BY DEF ActivateFlip
  <1> HIDE DEF c
  <1>5. CallShape(c)
    BY <1>3 DEF CallShape
  <1>6. ReqTyped' /\ req'[r] = c /\ OthersNudged(r)
    BY <1>3, <1>4, <1>5, Touches
  <1>7. \A i \in InState("draft") : [row[i] EXCEPT !.state = "active"] \in Row /\ row[i] # None
    BY MovedType DEF State, InState, Exists
  <1>8. row' = [i \in Id |-> IF i \in InState("draft") THEN [row[i] EXCEPT !.state = "active"] ELSE row[i]]
    BY DEF ActivateFlip
  <1>9. RowsKept'
    BY <1>4, <1>7, <1>8 DEF TypeInv, RowsKept, RowsTyped
  <1> QED
    BY <1>1, <1>2, <1>3, <1>4, <1>6, <1>9, CountedKept, SharedKept DEF TypeInv

\* A set as a sequence without repetition.
LEMMA Enumerated ==
    ASSUME NEW S, IsFiniteSet(S)
    PROVE  /\ SetToSeq(S) \in Seq(S) /\ Len(SetToSeq(S)) = Cardinality(S)
           /\ DOMAIN SetToSeq(S) = 1..Cardinality(S)
           /\ \A x \in S : \E k \in 1..Cardinality(S) : SetToSeq(S)[k] = x
  <1> DEFINE n == Cardinality(S)
             s == SetToSeq(S)
  <1>1. n \in Nat /\ ExistsBijection(1..n, S)
    BY FS_CardinalityType
  <1>2. \E f \in [1..n -> S] : IsInjective(f)
    BY <1>1 DEF ExistsBijection, Bijection, Injection, IsInjective
  <1>3. s \in [1..n -> S] /\ IsInjective(s)
    BY <1>2 DEF SetToSeq
  <1> HIDE DEF s
  <1>4. s \in Injection(1..n, S)
    BY <1>3 DEF Injection, IsInjective
  <1>5. IsFiniteSet(1..n) /\ Cardinality(1..n) = n
    BY <1>1, FS_Interval
  <1>6. s \in Surjection(1..n, S)
    BY <1>4, <1>5, FS_Injection
  <1>7. \A x \in S : \E k \in 1..n : s[k] = x
    BY <1>6 DEF Surjection
  <1>8. s \in Seq(S) /\ Len(s) = n /\ DOMAIN s = 1..n
    BY <1>1, <1>3
  <1> QED
    BY <1>7, <1>8 DEF s

\* What an insert adds: the goal, under new ids.
Added(goal, ids) ==
    /\ \A i \in ids : i > born /\ row'[i] \in goal
    /\ \A w \in goal : \E i \in ids : row'[i] = w
    /\ \A i \in Id \ ids : row'[i] = row[i]

LEMMA InsertTyped ==
    ASSUME TypeInv, NEW r \in Request, Insert(r)
    PROVE  /\ TypeInv' /\ OthersNudged(r)
           /\ req[r] # None /\ req[r].pc = "insert" /\ req[r].op \in {"reset", "save"}
           /\ \E ids \in SUBSET Id : Added(req[r].goal, ids)
           /\ req[r].op = "reset" => req'[r] = Start("drop", "reset")
           /\ req[r].op = "save" =>
                /\ req'[r] \in Call /\ req'[r].pc = "settings" /\ req'[r].op = "save"
                /\ req'[r].goal = req[r].goal /\ req'[r].alone = req[r].alone
  <1> DEFINE goal == req[r].goal
             new == SetToSeq(goal)
             n == Cardinality(goal)
             d == [req[r] EXCEPT !.pc = "settings"]
             c == IF req[r].op = "reset" THEN Start("drop", "reset") ELSE d
             ids == {i \in Id : i - born \in 1..n}
  <1>1. req[r] # None /\ req[r].pc = "insert"
    BY DEF Insert, At
  <1>2. /\ req[r] \in Call /\ CallShape(req[r]) /\ req[r].op \in {"reset", "save"}
        /\ IsFiniteSet(goal) /\ goal \in SUBSET Row
    BY <1>1, Known DEF CallShape, Kind
  <1>3. n \in Nat
    BY <1>2, FS_CardinalityType
  <1>4. /\ Fresh(Len(new)) /\ born' = born + Len(new) /\ Touch(r, c) /\ UNCHANGED bounds /\ Changed
        /\ row' = [i \in Id |-> IF i - born \in DOMAIN new THEN new[i - born] ELSE row[i]]
    BY DEF Insert
  <1>5. /\ new \in Seq(goal) /\ Len(new) = n /\ DOMAIN new = 1..n
        /\ \A x \in goal : \E k \in 1..n : new[k] = x
    BY <1>2, Enumerated
  <1>6. d \in Call /\ d.pc = "settings" /\ d.op = req[r].op /\ d.goal = req[r].goal /\ d.alone = req[r].alone
    BY <1>2 DEF Call
  <1> HIDE DEF d, new
  <1>7. c \in Call /\ CallShape(c)
    BY <1>2, <1>6, Starts DEF CallShape
  <1>8. ReqTyped' /\ req'[r] = c /\ OthersNudged(r)
    <2> HIDE DEF c
    <2> QED
      BY <1>4, <1>7, Touches
  <1>9. row' = [i \in Id |-> IF i - born \in 1..n THEN new[i - born] ELSE row[i]]
    BY <1>4, <1>5
  <1>10. \A k \in 1..n : new[k] \in goal
    BY <1>5
  <1> HIDE DEF n
  <1>11. born \in Nat /\ born + n <= MaxRows /\ born' = born + n /\ MaxRows \in Nat
    BY <1>4, <1>5, PrettyUrlAssumption DEF Fresh, TypeInv, RowsKept
  <1>12. RowsKept'
    <2>1. row' \in [Id -> {None} \cup Row]
      BY <1>2, <1>9, <1>10 DEF TypeInv, RowsKept, RowsTyped
    <2>2. \A i \in Id : i > born + n => row'[i] = None
      BY <1>3, <1>9, <1>11 DEF TypeInv, RowsKept, RowsTyped, Id
    <2> QED
      BY <1>3, <1>11, <2>1, <2>2 DEF RowsKept, RowsTyped
  <1>13. Added(goal, ids)
    <2>1. \A i \in ids : i > born /\ row'[i] \in goal
      BY <1>3, <1>9, <1>10, <1>11 DEF Id
    <2>2. ASSUME NEW w \in goal PROVE \E i \in ids : row'[i] = w
      <3>1. PICK k \in 1..n : new[k] = w
        BY <1>5
      <3>2. born + k \in Id /\ (born + k) - born = k
        BY <1>3, <1>11 DEF Id
      <3>3. born + k \in ids /\ row'[born + k] = w
        BY <1>9, <3>1, <3>2
      <3> QED
        BY <3>3
    <2>3. \A i \in Id \ ids : row'[i] = row[i]
      BY <1>9
    <2> QED
      BY <2>1, <2>2, <2>3 DEF Added
  <1> QED
    BY <1>1, <1>2, <1>4, <1>6, <1>8, <1>12, <1>13, CountedKept, SharedKept DEF TypeInv

LEMMA ReadOnlyTyped ==
    ASSUME TypeInv, UNCHANGED <<row, born>>, Untouched, ReqTyped', Counted'
    PROVE  TypeInv'
  BY SharedKept DEF TypeInv, RowsKept, RowsTyped

LEMMA ConfigFindTyped ==
    ASSUME TypeInv, NEW r \in Request, ConfigFind(r)
    PROVE  /\ TypeInv' /\ Others(r) /\ req[r] = None
           /\ req'[r] \in Call /\ req'[r].pc = "config" /\ req'[r].op = "config"
  <1>1. PICK y \in BOOLEAN :
          req' = [req EXCEPT ![r] = [Start("config", "config") EXCEPT !.loaded = cfg, !.style = y]]
    BY Zenon DEF ConfigFind
  <1> DEFINE s == Start("config", "config")
             c == [s EXCEPT !.loaded = cfg, !.style = y]
  <1>2. s \in Call /\ s.pc = "config" /\ s.op = "config"
    BY StartType DEF Place, Kind
  <1>3. req' = [req EXCEPT ![r] = c]
    BY <1>1
  <1> HIDE DEF s
  <1>4. c \in Call /\ c.pc = "config" /\ c.op = "config" /\ c.loaded \in Settings
    BY <1>2 DEF Call, TypeInv, Misc, Settings
  <1> HIDE DEF c
  <1>5. CallShape(c)
    BY <1>4 DEF CallShape
  <1>6. ReqTyped' /\ req'[r] = c /\ Others(r)
    BY <1>3, <1>4, <1>5, Puts
  <1>7. Begin(r) /\ UNCHANGED <<row, born>> /\ Untouched
    BY DEF ConfigFind
  <1> QED
    BY <1>4, <1>6, <1>7, CountedKept, ReadOnlyTyped

LEMMA ReprocessTyped ==
    ASSUME TypeInv, NEW r \in Request, Reprocess(r)
    PROVE  TypeInv' /\ Others(r) /\ req[r] = None /\ req'[r] = Start("find", "reprocess")
  <1>1. /\ Begin(r) /\ UNCHANGED <<row, born>> /\ Untouched
        /\ req' = [req EXCEPT ![r] = Start("find", "reprocess")]
    BY DEF Reprocess
  <1>2. ReqTyped' /\ req'[r] = Start("find", "reprocess") /\ Others(r)
    BY <1>1, Starts, Puts
  <1> QED
    BY <1>1, <1>2, CountedKept, ReadOnlyTyped

LEMMA ResetFindTyped ==
    ASSUME TypeInv, NEW r \in Request, ResetFind(r)
    PROVE  /\ TypeInv' /\ Others(r) /\ req[r] # None /\ req[r].op = "reset"
           /\ req'[r] \in Call /\ req'[r].pc = "insert" /\ req'[r].op = "reset"
  <1> DEFINE drafts == {[row[i] EXCEPT !.state = "draft"] : i \in InState("active")}
             c == [req[r] EXCEPT !.pc = "insert", !.goal = drafts]
  <1>1. req[r] # None /\ req[r].pc = "actives"
    BY DEF ResetFind, At
  <1>2. req[r] \in Call /\ CallShape(req[r]) /\ req[r].op = "reset"
    BY <1>1, Known DEF CallShape, Kind
  <1>3. drafts \in SUBSET Row /\ IsFiniteSet(drafts) /\ \A w \in drafts : w.state = "draft"
    BY MovedType DEF State
  <1>4. UNCHANGED <<row, born, bounds>> /\ Untouched
    BY DEF ResetFind
  <1>5. req' = [req EXCEPT ![r].pc = "insert", ![r].goal = drafts]
    BY DEF ResetFind
  <1> HIDE DEF drafts
  <1>6. req' = [req EXCEPT ![r] = c]
    BY <1>5 DEF TypeInv, ReqTyped
  <1>7. c \in Call /\ c.pc = "insert" /\ c.op = "reset" /\ c.goal = drafts
    BY <1>2, <1>3 DEF Call
  <1> HIDE DEF c
  <1>8. CallShape(c)
    BY <1>3, <1>7 DEF CallShape
  <1>9. ReqTyped' /\ req'[r] = c /\ Others(r)
    BY <1>6, <1>7, <1>8, Puts
  <1> QED
    BY <1>1, <1>2, <1>4, <1>7, <1>9, CountedKept, ReadOnlyTyped

LEMMA FindSettingsTyped ==
    ASSUME TypeInv, NEW r \in Request, FindSettings(r)
    PROVE  /\ TypeInv' /\ Others(r) /\ req[r] # None /\ req[r].pc = "settings" /\ req[r].op \in Replacing
           /\ req'[r] \in Call /\ req'[r].pc = "settled" /\ req'[r].op = req[r].op
           /\ req'[r].goal = req[r].goal /\ req'[r].alone = req[r].alone
  <1> DEFINE y == IF req[r].op = "activate" THEN cfg.style ELSE req[r].style
             c == [req[r] EXCEPT !.pc = "settled", !.loaded = cfg, !.style = y]
  <1>1. req[r] # None /\ req[r].pc = "settings"
    BY DEF FindSettings, At
  <1>2. req[r] \in Call /\ CallShape(req[r]) /\ req[r].op \in Replacing
    BY <1>1, Known DEF CallShape, Kind, Replacing
  <1>3. y \in BOOLEAN /\ cfg \in Settings
    BY <1>2 DEF TypeInv, Misc, Settings, Call
  <1>4. UNCHANGED <<row, born, bounds>> /\ Untouched
    BY DEF FindSettings
  <1>5. req' = [req EXCEPT ![r].pc = "settled", ![r].loaded = cfg,
                           ![r].style = IF req[r].op = "activate" THEN cfg.style ELSE @]
    BY DEF FindSettings
  <1>6. req' = [req EXCEPT ![r] = c]
    BY <1>5 DEF TypeInv, ReqTyped
  <1> HIDE DEF y
  <1>7. /\ c \in Call /\ c.pc = "settled" /\ c.op = req[r].op /\ c.goal = req[r].goal
        /\ c.alone = req[r].alone /\ c.loaded \in Settings
    BY <1>2, <1>3 DEF Call, Settings
  <1> HIDE DEF c
  <1>8. CallShape(c)
    BY <1>2, <1>7 DEF CallShape, Replacing
  <1>9. ReqTyped' /\ req'[r] = c /\ Others(r)
    BY <1>6, <1>7, <1>8, Puts
  <1> QED
    BY <1>1, <1>2, <1>4, <1>7, <1>9, CountedKept, ReadOnlyTyped

\* The request goes on as it was, at another place.
Onward(r, pc) ==
    /\ req[r] # None /\ req'[r] \in Call /\ req'[r].pc = pc /\ req'[r].op = req[r].op
    /\ req'[r].goal = req[r].goal /\ req'[r].alone = req[r].alone

LEMMA GoesOn ==
    ASSUME TypeInv, NEW r \in Request, req[r] # None, NEW pc \in Place \ {"patch", "config", "settled", "insert"},
           Goto(r, pc),
           req[r].op = "edit" => pc \in {"mark", "drop"},
           req[r].op = "config" => pc = "drop",
           req[r].op = "reset" => pc \in {"actives", "drop"},
           req[r].op = "activate" => pc \in {"flip", "settings", "drop", "find", "spawn"},
           req[r].op = "save" => pc \in {"settings", "drop", "find", "spawn"},
           req[r].op = "reprocess" => pc \in {"find", "spawn"}
    PROVE  ReqTyped' /\ Onward(r, pc) /\ Others(r)
  <1> DEFINE c == [req[r] EXCEPT !.pc = pc]
  <1>1. req[r] \in Call /\ CallShape(req[r]) /\ pc \in Place
    BY Known
  <1>2. c \in Call /\ c.pc = pc /\ c.op = req[r].op /\ c.goal = req[r].goal /\ c.alone = req[r].alone
    BY <1>1 DEF Call, Place
  <1>3. req' = [req EXCEPT ![r] = c]
    BY DEF Goto
  <1> HIDE DEF c
  <1>4. CallShape(c)
    BY <1>1, <1>2 DEF CallShape
  <1> QED
    BY <1>2, <1>3, <1>4, Puts DEF Onward

LEMMA FindJobTyped ==
    ASSUME TypeInv, NEW r \in Request, FindJob(r)
    PROVE  TypeInv' /\ Others(r) /\ (req'[r] = None \/ Onward(r, "spawn")) /\ At(r, "find")
  <1>1. req[r] # None /\ req[r].pc = "find" /\ At(r, "find")
    BY DEF FindJob, At
  <1>2. UNCHANGED <<row, born, bounds>> /\ Untouched /\ (Return(r) \/ Goto(r, "spawn"))
    BY DEF FindJob
  <1>3. CallShape(req[r])
    BY <1>1, Known
  <1>4. Return(r) => ReqTyped' /\ req'[r] = None /\ Others(r)
    BY Returns
  <1>5. Goto(r, "spawn") => ReqTyped' /\ Onward(r, "spawn") /\ Others(r)
    BY <1>1, <1>3, GoesOn DEF CallShape, Place
  <1> QED
    BY <1>1, <1>2, <1>4, <1>5, CountedKept, ReadOnlyTyped

LEMMA MarkTyped ==
    ASSUME TypeInv, NEW r \in Request, Mark(r)
    PROVE  /\ TypeInv' /\ Others(r) /\ Onward(r, "drop") /\ req[r].op = "edit"
           /\ cfg'.pending = TRUE /\ cfg'.style = cfg.style
  <1>1. req[r] # None /\ req[r].pc = "mark" /\ Goto(r, "drop")
    BY DEF Mark, At
  <1>2. req[r].op = "edit"
    BY <1>1, Known DEF CallShape, Kind
  <1>3. ReqTyped' /\ Onward(r, "drop") /\ Others(r)
    BY <1>1, <1>2, GoesOn DEF Place
  <1>4. cfg' = [cfg EXCEPT !.pending = TRUE] /\ cfg \in Settings
    BY DEF Mark, TypeInv, Misc
  <1>5. cfg' \in Settings /\ cfg'.pending = TRUE /\ cfg'.style = cfg.style
    BY <1>4 DEF Settings
  <1>6. UNCHANGED <<row, born, cached, run, job, reply, doc, bounds, missed>>
    BY DEF Mark
  <1>7. RowsKept' /\ RunTyped' /\ Misc' /\ Counted'
    BY <1>5, <1>6, CountedKept DEF TypeInv, RowsKept, RowsTyped, RunTyped, Misc
  <1> QED
    BY <1>2, <1>3, <1>5, <1>7 DEF TypeInv

LEMMA DropTyped ==
    ASSUME TypeInv, NEW r \in Request, Drop(r)
    PROVE  TypeInv' /\ Others(r) /\ (req'[r] = None \/ (Onward(r, "find") /\ At(r, "drop"))) /\ At(r, "drop")
  <1>1. req[r] # None /\ req[r].pc = "drop" /\ At(r, "drop")
    BY DEF Drop, At
  <1>2. Return(r) \/ (req[r].op \in {"activate", "save"} /\ Goto(r, "find"))
    BY DEF Drop
  <1>3. Return(r) => ReqTyped' /\ req'[r] = None /\ Others(r)
    BY Returns
  <1>4. req[r].op \in {"activate", "save"} /\ Goto(r, "find") => ReqTyped' /\ Onward(r, "find") /\ Others(r)
    BY <1>1, GoesOn DEF Place
  <1>5. UNCHANGED <<row, born, cfg, run, job, reply, doc, bounds, missed>> /\ cached' = None
    BY DEF Drop, Invalidate
  <1>6. RowsKept' /\ RunTyped' /\ Misc' /\ Counted'
    BY <1>5, CountedKept DEF TypeInv, RowsKept, RowsTyped, RunTyped, Misc
  <1> QED
    BY <1>1, <1>2, <1>3, <1>4, <1>6 DEF TypeInv

LEMMA SaveSettingsTyped ==
    ASSUME TypeInv, NEW r \in Request, SaveSettings(r)
    PROVE  /\ TypeInv' /\ Others(r) /\ Onward(r, "drop") /\ Aged
           /\ cfg'.pending \/ missed'
  <1> DEFINE c == [req[r] EXCEPT !.pc = "drop", !.loaded = None, !.style = FALSE]
  <1>1. req[r] # None /\ req[r].pc \in {"config", "settled"}
    BY DEF SaveSettings
  <1>2. req[r] \in Call /\ CallShape(req[r]) /\ req[r].op \in {"config", "activate", "save"}
        /\ req[r].loaded \in Settings /\ req[r].style \in BOOLEAN
    BY <1>1, Known DEF CallShape, Kind
  <1>3. c \in Call /\ c.pc = "drop" /\ c.op = req[r].op /\ c.goal = req[r].goal /\ c.alone = req[r].alone
    BY <1>2 DEF Call
  <1>4. req' = [req EXCEPT ![r] = c]
    BY DEF SaveSettings
  <1> HIDE DEF c
  <1>5. CallShape(c)
    BY <1>2, <1>3 DEF CallShape
  <1>6. ReqTyped' /\ req'[r] = c /\ Others(r)
    BY <1>3, <1>4, <1>5, Puts
  <1>7. cfg \in Settings /\ missed \in BOOLEAN
    BY DEF TypeInv, Misc
  <1>8. /\ cfg' = Settled(req[r])
        /\ missed' = (missed \/ (req[r].loaded.pending /\ ~cfg.pending))
        /\ UNCHANGED <<row, born, cached, job, reply, doc, bounds>> /\ Overtake
    BY DEF SaveSettings
  <1>9. cfg' \in Settings /\ missed' \in BOOLEAN
    BY <1>2, <1>7, <1>8 DEF Settled, Settings
  <1>10. cfg'.pending \/ missed'
    <2>1. cfg'.pending = (cfg.pending \/ ~req[r].loaded.pending)
      BY <1>8 DEF Settled
    <2> QED
      BY <1>8, <2>1
  <1>11. RunTyped' /\ Aged
    BY <1>8, Overtaken
  <1>12. RowsKept' /\ Misc' /\ Counted'
    BY <1>8, <1>9, CountedKept DEF TypeInv, RowsKept, RowsTyped, Misc
  <1> QED
    BY <1>1, <1>3, <1>6, <1>10, <1>11, <1>12 DEF TypeInv, Onward

\* A runner that starts has everything to load.
Loading == [NoRun EXCEPT !.pc = "load", !.left = Scope \cup {"style"}]

LEMMA RunsType ==
    /\ NoRun \in Run /\ NoRun.pc = "idle" /\ NoRun.left = {} /\ NoRun.stale = FALSE
    /\ Loading \in Run /\ Loading.pc = "load" /\ Loading.left = Scope \cup {"style"} /\ Loading.stale = FALSE
  <1>1. NoSet \in Set
    BY DEF NoSet, Set
  <1>2. NoRun \in Run /\ NoRun.pc = "idle" /\ NoRun.left = {} /\ NoRun.stale = FALSE
    BY <1>1 DEF NoRun, Run
  <1> QED
    BY <1>2 DEF Loading, Run

LEMMA SpawnTyped ==
    ASSUME TypeInv, NEW r \in Request, Spawn(r)
    PROVE  /\ TypeInv' /\ Others(r) /\ req'[r] = None /\ At(r, "spawn")
           /\ \E w \in Worker : /\ run[w].pc = "idle" /\ reply[w] = "none"
                                /\ run' = [run EXCEPT ![w] = Loading]
  <1>1. PICK w \in Worker : /\ run[w].pc = "idle" /\ reply[w] = "none"
                            /\ job' = [job EXCEPT ![w] = "running"]
                            /\ run' = [run EXCEPT ![w] = [NoRun EXCEPT !.pc = "load", !.left = Scope \cup {"style"}]]
    BY Zenon DEF Spawn
  <1>2. run' = [run EXCEPT ![w] = Loading]
    BY <1>1 DEF Loading
  <1>3. At(r, "spawn") /\ Return(r) /\ UNCHANGED <<row, born, cfg, cached, reply, doc, bounds, missed>>
    BY DEF Spawn
  <1>4. RunTyped'
    BY <1>1, <1>2, <1>3, RunsType DEF TypeInv, RunTyped, Runner
  <1>5. RowsKept' /\ Misc' /\ Counted'
    BY <1>3, CountedKept DEF TypeInv, RowsKept, RowsTyped, Misc
  <1>6. ReqTyped' /\ req'[r] = None /\ Others(r)
    BY <1>3, Returns
  <1> QED
    BY <1>1, <1>2, <1>3, <1>4, <1>5, <1>6 DEF TypeInv

LEMMA FailTyped ==
    ASSUME TypeInv, NEW r \in Request, Fail(r)
    PROVE  TypeInv' /\ Others(r) /\ req'[r] = None
  <1>1. /\ Fault /\ Return(r) /\ missed' = (missed \/ Unmarked(r))
        /\ UNCHANGED <<row, born, cfg, cached, run, job, reply, doc>>
    BY DEF Fail
  <1>2. missed' \in BOOLEAN
    BY <1>1 DEF TypeInv, Misc
  <1>3. RowsKept' /\ RunTyped' /\ Misc' /\ Counted'
    BY <1>1, <1>2, CountedKept DEF TypeInv, RowsKept, RowsTyped, RunTyped, Misc
  <1>4. ReqTyped' /\ req'[r] = None /\ Others(r)
    BY <1>1, Returns
  <1> QED
    BY <1>3, <1>4 DEF TypeInv

-----------------------------------------------------------------------------
(* Each step of a runner keeps the types                                   *)

OtherRuns(x) == \A y \in Runner \ {x} : run'[y] = run[y]

LEMMA RunnersOnly ==
    ASSUME TypeInv, UNCHANGED <<row, born, req>>, RunTyped', Misc', Fault \/ UNCHANGED bounds
    PROVE  TypeInv'
  BY CountedKept DEF TypeInv, RowsKept, RowsTyped, ReqTyped

LEMMA PutsRun ==
    ASSUME TypeInv, NEW x \in Runner, NEW c \in Run, run' = [run EXCEPT ![x] = c],
           c.pc # "load" => c.left = {},
           reply' \in [Worker -> {"none", "job", "clear", "drop"}],
           \A w \in Worker : reply'[w] # "none" => IF w = x THEN c.pc \in {"idle", "job", "clear"}
                                                            ELSE reply[w] # "none",
           job' \in [Worker -> {"none", "running", "done", "failed"}]
    PROVE  RunTyped' /\ run'[x] = c /\ OtherRuns(x)
  <1>1. Worker \subseteq Runner
    BY DEF Runner
  <1>2. run'[x] = c /\ OtherRuns(x) /\ run' \in [Runner -> Run]
    BY DEF TypeInv, RunTyped, OtherRuns
  <1> QED
    BY <1>1, <1>2 DEF TypeInv, RunTyped, OtherRuns

LEMMA RunKnown ==
    ASSUME TypeInv, NEW x \in Runner
    PROVE  /\ run[x] \in Run /\ run[x].set \in Set /\ run[x].found \in {None} \cup DocUrl
           /\ run[x].left \in SUBSET (Scope \cup {"style"}) /\ run[x].stale \in BOOLEAN
           /\ run[x].pc \in {"idle", "load", "find", "save", "bulk", "job", "clear"}
           /\ run[x].pc # "load" => run[x].left = {}
           /\ cfg \in Settings /\ missed \in BOOLEAN /\ doc \in Url
           /\ reply \in [Worker -> {"none", "job", "clear", "drop"}]
           /\ job \in [Worker -> {"none", "running", "done", "failed"}]
  BY DEF TypeInv, RunTyped, Misc, Run

LEMMA PutsRunOnly ==
    ASSUME TypeInv, NEW x \in Runner, NEW c \in Run, run' = [run EXCEPT ![x] = c],
           c.pc # "load" => c.left = {}, UNCHANGED reply, UNCHANGED job,
           run[x].pc \in {"load", "find", "save", "bulk"}
    PROVE  RunTyped' /\ run'[x] = c /\ OtherRuns(x)
  <1>1. \A w \in Worker : reply'[w] # "none" => w # x /\ reply[w] # "none"
    BY DEF TypeInv, RunTyped
  <1>2. \A w \in Worker : reply'[w] # "none" => IF w = x THEN c.pc \in {"idle", "job", "clear"}
                                                ELSE reply[w] # "none"
    BY <1>1
  <1>3. /\ reply' \in [Worker -> {"none", "job", "clear", "drop"}]
        /\ job' \in [Worker -> {"none", "running", "done", "failed"}]
    BY RunKnown
  <1> QED
    BY <1>2, <1>3, PutsRun

LEMMA IngestStartTyped ==
    ASSUME TypeInv, NEW i \in Ingest, IngestStart(i)
    PROVE  /\ TypeInv' /\ OtherRuns(i) /\ run[i].pc = "idle"
           /\ \/ run'[i] = Loading
              \/ /\ run'[i].pc = "find" /\ run'[i].left = {}
                 /\ ~run'[i].stale => run'[i].set = ActiveSet
  <1> DEFINE d == [NoRun EXCEPT !.pc = "find", !.set = cached, !.stale = cached # ActiveSet]
             c == IF cached # None THEN d ELSE Loading
  <1>1. /\ run[i].pc = "idle" /\ Fault /\ UNCHANGED <<row, born, cfg, cached, job, reply, doc, req, missed>>
        /\ run' = [run EXCEPT ![i] = c]
    BY DEF IngestStart, Loading
  <1>2. cached # None => /\ d \in Run /\ d.pc = "find" /\ d.left = {} /\ d.set = cached
                         /\ d.stale = (cached # ActiveSet)
    BY RunsType DEF TypeInv, Misc, Run
  <1> HIDE DEF d
  <1>3. c \in Run /\ (c.pc # "load" => c.left = {})
    BY <1>2, RunsType
  <1> HIDE DEF c
  <1>4. i \in Runner /\ i \notin Worker
    BY PrettyUrlAssumption DEF Runner
  <1>5. RunTyped' /\ run'[i] = c /\ OtherRuns(i)
    BY <1>1, <1>3, <1>4, PutsRun, RunKnown
  <1>6. Misc'
    BY <1>1 DEF TypeInv, Misc
  <1>7. c = Loading \/ (c.pc = "find" /\ c.left = {} /\ (~c.stale => c.set = ActiveSet))
    BY <1>2 DEF c
  <1> QED
    BY <1>1, <1>5, <1>6, <1>7, RunnersOnly

LEMMA ReadPartTyped ==
    ASSUME TypeInv, NEW x \in Runner, ReadPart(x)
    PROVE  /\ TypeInv' /\ OtherRuns(x) /\ run[x].pc = "load"
           /\ run'[x].pc = "load" /\ run'[x].stale = run[x].stale /\ run'[x].found = run[x].found
           /\ \E p \in run[x].left : /\ run'[x].left = run[x].left \ {p}
                                     /\ run'[x].set[p] = ActiveSet[p]
                                     /\ \A q \in (Scope \cup {"style"}) \ {p} : run'[x].set[q] = run[x].set[q]
  <1>1. PICK p \in run[x].left : run' = [run EXCEPT ![x].left = @ \ {p}, ![x].set[p] = ActiveSet[p]]
    BY Zenon DEF ReadPart
  <1>2. run[x].pc = "load" /\ UNCHANGED <<row, born, cfg, cached, job, reply, doc, req, bounds, missed>>
    BY DEF ReadPart
  <1> DEFINE set == [run[x].set EXCEPT ![p] = ActiveSet[p]]
             c == [run[x] EXCEPT !.left = run[x].left \ {p}, !.set = set]
  <1>3. run[x] \in Run /\ run[x].set \in Set /\ p \in Scope \cup {"style"}
    BY <1>1, RunKnown
  <1>4. ActiveSet \in Set
    BY ActiveSetType DEF TypeInv, RowsKept, Misc
  <1>5. set \in Set /\ set[p] = ActiveSet[p] /\ \A q \in (Scope \cup {"style"}) \ {p} : set[q] = run[x].set[q]
    BY <1>3, <1>4 DEF Set, Scope
  <1>6. run' = [run EXCEPT ![x] = c]
    BY <1>1, <1>3 DEF TypeInv, RunTyped, Run
  <1> HIDE DEF set
  <1>7. /\ c \in Run /\ c.pc = "load" /\ c.stale = run[x].stale /\ c.found = run[x].found
        /\ c.left = run[x].left \ {p} /\ c.set = set
    BY <1>2, <1>3, <1>5 DEF Run
  <1> HIDE DEF c
  <1>10. RunTyped' /\ run'[x] = c /\ OtherRuns(x)
    BY <1>2, <1>6, <1>7, PutsRunOnly
  <1>11. Misc'
    BY <1>2 DEF TypeInv, Misc
  <1>12. TypeInv'
    BY <1>2, <1>10, <1>11, RunnersOnly
  <1> QED
    BY <1>2, <1>5, <1>7, <1>10, <1>12

\* The runner goes on with what it has.
GoesRun(x, pc) ==
    /\ run'[x].pc = pc /\ run'[x].left = {} /\ run'[x].set = run[x].set
    /\ run'[x].stale = run[x].stale /\ OtherRuns(x)

LEMMA LoadedTyped ==
    ASSUME TypeInv, NEW x \in Runner, Loaded(x)
    PROVE  TypeInv' /\ GoesRun(x, "find") /\ run[x].pc = "load" /\ run[x].left = {}
  <1> DEFINE c == [run[x] EXCEPT !.pc = "find"]
  <1>1. /\ run[x].pc = "load" /\ run[x].left = {} /\ run' = [run EXCEPT ![x].pc = "find"]
        /\ UNCHANGED <<row, born, cfg, job, reply, doc, req, bounds, missed>>
        /\ cached' = run[x].set \/ cached' = cached
    BY DEF Loaded
  <1>2. run' = [run EXCEPT ![x] = c]
    BY <1>1
  <1>3. c \in Run /\ c.pc = "find" /\ c.left = {} /\ c.set = run[x].set /\ c.stale = run[x].stale
    BY <1>1, RunKnown DEF Run
  <1> HIDE DEF c
  <1>5. RunTyped' /\ run'[x] = c /\ OtherRuns(x)
    BY <1>1, <1>2, <1>3, PutsRunOnly
  <1>6. Misc'
    BY <1>1, RunKnown DEF TypeInv, Misc
  <1> QED
    BY <1>1, <1>3, <1>5, <1>6, RunnersOnly DEF GoesRun

LEMMA FindDocumentTyped ==
    ASSUME TypeInv, NEW x \in Runner, FindDocument(x)
    PROVE  TypeInv' /\ GoesRun(x, "save") /\ run[x].pc = "find" /\ run'[x].found = doc.document
  <1> DEFINE c == [run[x] EXCEPT !.pc = "save", !.found = doc.document]
  <1>1. /\ run[x].pc = "find" /\ run' = [run EXCEPT ![x].pc = "save", ![x].found = doc.document]
        /\ UNCHANGED <<row, born, cfg, cached, job, reply, doc, req, bounds, missed>>
    BY DEF FindDocument
  <1>2. run' = [run EXCEPT ![x] = c]
    BY <1>1 DEF TypeInv, RunTyped
  <1>3. doc.document \in {None} \cup DocUrl
    BY RunKnown DEF Url
  <1>4. /\ c \in Run /\ c.pc = "save" /\ c.left = {} /\ c.set = run[x].set /\ c.stale = run[x].stale
        /\ c.found = doc.document
    BY <1>1, <1>3, RunKnown DEF Run
  <1> HIDE DEF c
  <1>6. RunTyped' /\ run'[x] = c /\ OtherRuns(x)
    BY <1>1, <1>2, <1>4, PutsRunOnly
  <1>7. Misc'
    BY <1>1 DEF TypeInv, Misc
  <1> QED
    BY <1>1, <1>4, <1>6, <1>7, RunnersOnly DEF GoesRun

LEMMA SaveDocumentTyped ==
    ASSUME TypeInv, NEW x \in Runner, SaveDocument(x)
    PROVE  /\ TypeInv' /\ GoesRun(x, "bulk") /\ run[x].pc = "save" /\ run'[x].found = run[x].found
           /\ doc'.topic = doc.topic
           /\ doc'.document = IF DocumentUrl(run[x].set) # run[x].found THEN DocumentUrl(run[x].set)
                              ELSE doc.document
  <1> DEFINE url == DocumentUrl(run[x].set)
             c == [run[x] EXCEPT !.pc = "bulk"]
  <1>1. /\ run[x].pc = "save" /\ run' = [run EXCEPT ![x].pc = "bulk"]
        /\ doc' = [doc EXCEPT !.document = IF url # run[x].found THEN url ELSE @]
        /\ missed' = (missed \/ Leaves(x))
        /\ UNCHANGED <<row, born, cfg, cached, job, reply, req, bounds>>
    BY DEF SaveDocument
  <1>2. run' = [run EXCEPT ![x] = c]
    BY <1>1
  <1>3. /\ c \in Run /\ c.pc = "bulk" /\ c.left = {} /\ c.set = run[x].set /\ c.stale = run[x].stale
        /\ c.found = run[x].found
    BY <1>1, RunKnown DEF Run
  <1>4. url \in {None} \cup DocUrl
    BY RunKnown, DocumentUrlType
  <1> HIDE DEF c, url
  <1>6. RunTyped' /\ run'[x] = c /\ OtherRuns(x)
    BY <1>1, <1>2, <1>3, PutsRunOnly
  <1>7. /\ doc' \in Url /\ doc'.topic = doc.topic
        /\ doc'.document = IF url # run[x].found THEN url ELSE doc.document
    BY <1>1, <1>4, RunKnown DEF Url
  <1>8. Misc'
    BY <1>1, <1>7, RunKnown DEF TypeInv, Misc
  <1> QED
    BY <1>1, <1>3, <1>6, <1>7, <1>8, RunnersOnly DEF GoesRun, url

\* A runner is done with the document: a worker goes on, an ingest ends.
Done(x) ==
    /\ run[x].pc \in {"find", "save", "bulk"} /\ OtherRuns(x)
    /\ \A w \in Worker \ {x} : reply'[w] = reply[w]
    /\ x \in Worker => run'[x].pc = "job" /\ run'[x].stale = run[x].stale /\ reply'[x] = "job"
    /\ run'[x].pc = "job" => x \in Worker /\ run'[x].set = run[x].set
    /\ run'[x].left = {} /\ run'[x].pc \in {"idle", "job"}

LEMMA DoneTyped ==
    ASSUME TypeInv, NEW x \in Runner, run[x].pc \in {"find", "save", "bulk"},
           run' = [run EXCEPT ![x] = After(x)], Answer(x), UNCHANGED job
    PROVE  RunTyped' /\ Done(x)
  <1> DEFINE d == [run[x] EXCEPT !.pc = "job", !.found = None]
             c == IF x \in Worker THEN d ELSE NoRun
  <1>1. /\ d \in Run /\ d.pc = "job" /\ d.left = {} /\ d.set = run[x].set /\ d.stale = run[x].stale
    BY RunKnown DEF Run
  <1>2. run' = [run EXCEPT ![x] = c]
    BY DEF After
  <1> HIDE DEF d
  <1>3. /\ c \in Run /\ c.left = {} /\ c.pc \in {"idle", "job"}
        /\ x \in Worker => c = d
        /\ x \notin Worker => c = NoRun
    BY <1>1, RunsType
  <1> HIDE DEF c
  <1>4. reply' = [w \in Worker |-> IF w = x THEN "job" ELSE reply[w]]
    BY DEF Answer
  <1>5. /\ reply' \in [Worker -> {"none", "job", "clear", "drop"}]
        /\ job' \in [Worker -> {"none", "running", "done", "failed"}]
        /\ \A w \in Worker \ {x} : reply'[w] = reply[w]
        /\ x \in Worker => reply'[x] = "job"
    BY <1>4, RunKnown
  <1>6. \A w \in Worker : reply'[w] # "none" => IF w = x THEN c.pc \in {"idle", "job", "clear"}
                                                ELSE reply[w] # "none"
    BY <1>3, <1>5
  <1>7. RunTyped' /\ run'[x] = c /\ OtherRuns(x)
    BY <1>2, <1>3, <1>5, <1>6, PutsRun
  <1> QED
    BY <1>1, <1>3, <1>5, <1>7, RunsType DEF Done

LEMMA WriteTopicsTyped ==
    ASSUME TypeInv, NEW x \in Runner, WriteTopics(x)
    PROVE  /\ TypeInv' /\ Done(x) /\ run[x].pc = "bulk"
           /\ doc'.document = doc.document /\ doc'.topic = TopicUrlUnder(run[x].set, run[x].found)
  <1> DEFINE url == TopicUrlUnder(run[x].set, run[x].found)
  <1>1. /\ run[x].pc = "bulk" /\ run' = [run EXCEPT ![x] = After(x)] /\ Answer(x)
        /\ doc' = [doc EXCEPT !.topic = url]
        /\ missed' = (missed \/ Leaves(x))
        /\ UNCHANGED <<row, born, cfg, cached, job, req, bounds>>
    BY DEF WriteTopics
  <1>2. url \in {None} \cup TopicUrl
    BY RunKnown, TopicUrlType
  <1> HIDE DEF url
  <1>3. doc' \in Url /\ doc'.document = doc.document /\ doc'.topic = url
    BY <1>1, <1>2, RunKnown DEF Url
  <1>4. Misc'
    BY <1>1, <1>3, RunKnown DEF TypeInv, Misc
  <1>5. RunTyped' /\ Done(x)
    BY <1>1, DoneTyped
  <1> QED
    BY <1>1, <1>3, <1>4, <1>5, RunnersOnly DEF url

LEMMA DocumentFailsTyped ==
    ASSUME TypeInv, NEW x \in Runner, DocumentFails(x)
    PROVE  TypeInv' /\ Done(x) /\ missed' = TRUE
  <1>1. /\ run[x].pc \in {"find", "save", "bulk"} /\ run' = [run EXCEPT ![x] = After(x)] /\ Answer(x)
        /\ Fault /\ missed' = TRUE
        /\ UNCHANGED <<row, born, cfg, cached, job, doc, req>>
    BY DEF DocumentFails
  <1>2. Misc'
    BY <1>1 DEF TypeInv, Misc
  <1>3. RunTyped' /\ Done(x)
    BY <1>1, DoneTyped
  <1> QED
    BY <1>1, <1>2, <1>3, RunnersOnly

OtherReplies(w) == \A v \in Worker \ {w} : reply'[v] = reply[v]

LEMMA WorkerJobTyped ==
    ASSUME TypeInv, NEW w \in Worker, WorkerJob(w)
    PROVE  TypeInv' /\ GoesRun(w, "clear") /\ run[w].pc = "job"
  <1> DEFINE c == [run[w] EXCEPT !.pc = "clear"]
  <1>1. /\ run[w].pc = "job" /\ job' = [job EXCEPT ![w] = "done"] /\ run' = [run EXCEPT ![w].pc = "clear"]
        /\ UNCHANGED <<row, born, cfg, cached, reply, doc, req, bounds, missed>>
    BY DEF WorkerJob
  <1>2. w \in Runner /\ run' = [run EXCEPT ![w] = c]
    BY <1>1 DEF Runner
  <1>3. c \in Run /\ c.pc = "clear" /\ c.left = {} /\ c.set = run[w].set /\ c.stale = run[w].stale
    BY <1>1, <1>2, RunKnown DEF Run
  <1> HIDE DEF c
  <1>4. /\ reply' \in [Worker -> {"none", "job", "clear", "drop"}]
        /\ job' \in [Worker -> {"none", "running", "done", "failed"}]
    BY <1>1, <1>2, RunKnown
  <1>5. RunTyped' /\ run'[w] = c /\ OtherRuns(w)
    BY <1>1, <1>2, <1>3, <1>4, PutsRun
  <1>6. Misc'
    BY <1>1 DEF TypeInv, Misc
  <1> QED
    BY <1>1, <1>3, <1>5, <1>6, RunnersOnly DEF GoesRun

LEMMA ClearType ==
    ASSUME TypeInv, cfg' = [cfg EXCEPT !.pending = FALSE]
    PROVE  cfg' \in Settings /\ cfg'.pending = FALSE /\ cfg'.style = cfg.style
  BY DEF TypeInv, Misc, Settings

LEMMA WorkerClearTyped ==
    ASSUME TypeInv, NEW w \in Worker, WorkerClear(w)
    PROVE  /\ TypeInv' /\ OtherRuns(w) /\ run[w].pc = "clear" /\ run'[w].pc = "idle"
           /\ reply[w] # "none" => run'[w].stale = run[w].stale
           /\ cfg'.pending = FALSE /\ cfg'.style = cfg.style
  <1> DEFINE d == [run[w] EXCEPT !.pc = "idle"]
             c == IF reply[w] = "none" THEN NoRun ELSE d
  <1>1. /\ run[w].pc = "clear" /\ cfg' = [cfg EXCEPT !.pending = FALSE]
        /\ missed' = (missed \/ run[w].stale)
        /\ run' = [run EXCEPT ![w] = c]
        /\ UNCHANGED <<row, born, cached, job, reply, doc, req, bounds>>
    BY DEF WorkerClear
  <1>2. w \in Runner
    BY DEF Runner
  <1>3. d \in Run /\ d.pc = "idle" /\ d.left = {} /\ d.stale = run[w].stale
    BY <1>1, <1>2, RunKnown DEF Run
  <1> HIDE DEF d
  <1>4. c \in Run /\ c.pc = "idle" /\ c.left = {} /\ (reply[w] # "none" => c.stale = run[w].stale)
    BY <1>3, RunsType
  <1> HIDE DEF c
  <1>5. /\ reply' \in [Worker -> {"none", "job", "clear", "drop"}]
        /\ job' \in [Worker -> {"none", "running", "done", "failed"}]
    BY <1>1, <1>2, RunKnown
  <1>6. RunTyped' /\ run'[w] = c /\ OtherRuns(w)
    BY <1>1, <1>2, <1>4, <1>5, PutsRun
  <1>7. Misc'
    BY <1>1, <1>2, ClearType, RunKnown DEF TypeInv, Misc
  <1> QED
    BY <1>1, <1>4, <1>6, <1>7, ClearType, RunnersOnly

LEMMA ServerJobTyped ==
    ASSUME TypeInv, NEW w \in Worker, ServerJob(w)
    PROVE  TypeInv' /\ reply[w] = "job" /\ reply'[w] = "clear" /\ OtherReplies(w)
  <1>1. /\ reply[w] = "job" /\ job' = [job EXCEPT ![w] = "done"] /\ reply' = [reply EXCEPT ![w] = "clear"]
        /\ UNCHANGED <<row, born, cfg, cached, run, doc, req, bounds, missed>>
    BY DEF ServerJob
  <1>2. RunTyped' /\ Misc'
    BY <1>1 DEF TypeInv, RunTyped, Misc
  <1> QED
    BY <1>1, <1>2, RunnersOnly DEF OtherReplies, TypeInv, RunTyped

LEMMA ServerClearTyped ==
    ASSUME TypeInv, NEW w \in Worker, ServerClear(w)
    PROVE  /\ TypeInv' /\ reply[w] = "clear" /\ reply'[w] = "drop" /\ OtherReplies(w)
           /\ cfg'.pending = FALSE /\ cfg'.style = cfg.style
  <1>1. /\ reply[w] = "clear" /\ cfg' = [cfg EXCEPT !.pending = FALSE]
        /\ missed' = (missed \/ run[w].stale)
        /\ reply' = [reply EXCEPT ![w] = "drop"]
        /\ UNCHANGED <<row, born, cached, run, job, doc, req, bounds>>
    BY DEF ServerClear
  <1>2. w \in Runner
    BY DEF Runner
  <1>3. RunTyped'
    BY <1>1 DEF TypeInv, RunTyped
  <1>4. Misc'
    BY <1>1, <1>2, ClearType, RunKnown DEF TypeInv, Misc
  <1> QED
    BY <1>1, <1>3, <1>4, ClearType, RunnersOnly DEF OtherReplies, TypeInv, RunTyped

LEMMA ServerDropTyped ==
    ASSUME TypeInv, NEW w \in Worker, ServerDrop(w)
    PROVE  /\ TypeInv' /\ reply[w] = "drop" /\ reply'[w] = "none" /\ OtherReplies(w) /\ OtherRuns(w)
           /\ run'[w].pc = run[w].pc /\ (run[w].pc # "idle" => run'[w] = run[w])
  <1> DEFINE c == IF run[w].pc = "idle" THEN NoRun ELSE run[w]
  <1>1. /\ reply[w] = "drop" /\ cached' = None /\ reply' = [reply EXCEPT ![w] = "none"]
        /\ run' = [run EXCEPT ![w] = c]
        /\ UNCHANGED <<row, born, cfg, job, doc, req, bounds, missed>>
    BY DEF ServerDrop, Invalidate
  <1>2. w \in Runner
    BY DEF Runner
  <1>3. /\ c \in Run /\ (c.pc # "load" => c.left = {}) /\ c.pc = run[w].pc
        /\ run[w].pc # "idle" => c = run[w]
    BY <1>2, RunKnown, RunsType
  <1> HIDE DEF c
  <1>4. /\ reply' \in [Worker -> {"none", "job", "clear", "drop"}]
        /\ job' \in [Worker -> {"none", "running", "done", "failed"}]
        /\ reply'[w] = "none" /\ \A v \in Worker \ {w} : reply'[v] = reply[v]
    BY <1>1, <1>2, RunKnown
  <1>5. \A v \in Worker : reply'[v] # "none" => IF v = w THEN c.pc \in {"idle", "job", "clear"}
                                                ELSE reply[v] # "none"
    BY <1>4
  <1>6. RunTyped' /\ run'[w] = c /\ OtherRuns(w)
    BY <1>1, <1>2, <1>3, <1>4, <1>5, PutsRun
  <1>7. Misc'
    BY <1>1 DEF TypeInv, Misc
  <1> QED
    BY <1>1, <1>3, <1>4, <1>6, <1>7, RunnersOnly DEF OtherReplies

LEMMA WorkerFailsTyped ==
    ASSUME TypeInv, NEW w \in Worker, WorkerFails(w)
    PROVE  TypeInv' /\ OtherRuns(w) /\ run[w].pc = "load" /\ run'[w] = NoRun
  <1>1. /\ run[w].pc = "load" /\ Fault /\ run' = [run EXCEPT ![w] = NoRun]
        /\ job' = [job EXCEPT ![w] = "failed"]
        /\ UNCHANGED <<row, born, cfg, cached, reply, doc, req, missed>>
    BY DEF WorkerFails
  <1>2. w \in Runner
    BY DEF Runner
  <1>3. /\ reply' \in [Worker -> {"none", "job", "clear", "drop"}]
        /\ job' \in [Worker -> {"none", "running", "done", "failed"}]
    BY <1>1, <1>2, RunKnown
  <1>4. RunTyped' /\ run'[w] = NoRun /\ OtherRuns(w)
    BY <1>1, <1>2, <1>3, RunsType, PutsRun
  <1>5. Misc'
    BY <1>1 DEF TypeInv, Misc
  <1> QED
    BY <1>1, <1>4, <1>5, RunnersOnly

LEMMA ExpireTyped ==
    ASSUME TypeInv, Expire
    PROVE  TypeInv'
  <1>1. cached' = None /\ UNCHANGED <<row, born, cfg, run, job, reply, doc, req, bounds, missed>>
    BY DEF Expire
  <1>2. RunTyped' /\ Misc'
    BY <1>1 DEF TypeInv, RunTyped, Misc
  <1> QED
    BY <1>1, <1>2, RunnersOnly

LEMMA CrashTyped ==
    ASSUME TypeInv, Crash
    PROVE  TypeInv'
  <1>1. /\ Fault /\ req' = [r \in Request |-> None] /\ run' = [x \in Runner |-> NoRun]
        /\ reply' = [w \in Worker |-> "none"] /\ cached' = None
        /\ missed' = (missed \/ \E r \in Request : Unmarked(r))
        /\ UNCHANGED <<row, born, cfg, job, doc>>
    BY DEF Crash
  <1>2. RunTyped'
    BY <1>1, RunsType DEF TypeInv, RunTyped
  <1>3. ReqTyped' /\ RowsKept'
    BY <1>1 DEF TypeInv, ReqTyped, RowsKept, RowsTyped
  <1>4. missed' \in BOOLEAN
    BY <1>1 DEF TypeInv, Misc
  <1>5. Misc' /\ Counted'
    BY <1>1, <1>4, CountedKept DEF TypeInv, Misc
  <1> QED
    BY <1>2, <1>3, <1>5 DEF TypeInv

-----------------------------------------------------------------------------
(* Type correctness                                                        *)

LEMMA UnchangedTyped ==
    ASSUME TypeInv, UNCHANGED vars
    PROVE  TypeInv'
  BY DEF TypeInv, RowsKept, RowsTyped, ReqTyped, RunTyped, Misc, Counted, vars, bounds

RequestStep(r) ==
    \/ Create(r) \/ PatchFind(r) \/ PatchSave(r) \/ Delete(r) \/ Reorder(r)
    \/ Mark(r) \/ Drop(r) \/ ConfigFind(r) \/ SaveSettings(r)
    \/ ResetDelete(r) \/ ResetFind(r) \/ Insert(r)
    \/ ActivateDelete(r) \/ ActivateFlip(r) \/ SaveDelete(r) \/ FindSettings(r)
    \/ Reprocess(r) \/ FindJob(r) \/ Spawn(r) \/ Fail(r)

RunStep(x) ==
    \/ ReadPart(x) \/ Loaded(x) \/ FindDocument(x) \/ SaveDocument(x) \/ WriteTopics(x)
    \/ DocumentFails(x)

WorkerStep(w) ==
    \/ WorkerJob(w) \/ WorkerClear(w) \/ WorkerFails(w)
    \/ ServerJob(w) \/ ServerClear(w) \/ ServerDrop(w)

LEMMA NextSteps ==
    Next <=> \/ \E r \in Request : RequestStep(r)
             \/ \E i \in Ingest : IngestStart(i)
             \/ \E x \in Runner : RunStep(x)
             \/ \E w \in Worker : WorkerStep(w)
             \/ Expire \/ Crash
  BY Zenon DEF Next, RequestStep, RunStep, WorkerStep

LEMMA RequestTyped ==
    ASSUME TypeInv, NEW r \in Request, RequestStep(r)
    PROVE  TypeInv'
  BY CreateTyped, PatchFindTyped, PatchSaveTyped, DeleteTyped, ReorderTyped, MarkTyped, DropTyped,
     ConfigFindTyped, SaveSettingsTyped, ResetDeleteTyped, ResetFindTyped, InsertTyped,
     ActivateDeleteTyped, ActivateFlipTyped, SaveDeleteTyped, FindSettingsTyped, ReprocessTyped,
     FindJobTyped, SpawnTyped, FailTyped, Zenon DEF RequestStep

LEMMA NextTyped == TypeInv /\ [Next]_vars => TypeInv'
  <1> SUFFICES ASSUME TypeInv, [Next]_vars PROVE TypeInv'
    OBVIOUS
  <1>1. ASSUME NEW x \in Runner, RunStep(x) PROVE TypeInv'
    BY <1>1, ReadPartTyped, LoadedTyped, FindDocumentTyped, SaveDocumentTyped, WriteTopicsTyped,
       DocumentFailsTyped, Zenon DEF RunStep
  <1>2. ASSUME NEW w \in Worker, WorkerStep(w) PROVE TypeInv'
    BY <1>2, WorkerJobTyped, WorkerClearTyped, WorkerFailsTyped, ServerJobTyped, ServerClearTyped,
       ServerDropTyped, Zenon DEF WorkerStep
  <1> QED
    BY <1>1, <1>2, RequestTyped, IngestStartTyped, ExpireTyped, CrashTyped, UnchangedTyped, NextSteps, Zenon

\* Every field of a row, a request, a runner and a URL keeps its type, whatever
\* calls overlap and fail.
THEOREM TypeCorrect == Spec => []TypeOK
  <1>1. Spec => []TypeInv
    BY InitTypeInv, NextTyped, PTL DEF Spec
  <1> QED
    BY <1>1, TypeInvIsTypeOK, PTL

-----------------------------------------------------------------------------
(* What a replacement of the templates puts into force                     *)

ActiveRows == {row[i] : i \in InState("active")}

\* A request that is alone finds the rows as its own last step has left them.
Undisturbed(r) ==
    req[r] # None /\ req[r].op \in Replacing /\ req[r].alone =>
        /\ req[r].pc = "flip" => InState("active") = {} /\ Promoted = req[r].goal
        /\ req[r].pc = "insert" => (\A i \in Id : row[i] = None) /\ req[r].goal \in Payload
        /\ req[r].pc \notin {"flip", "insert"} => ActiveRows = req[r].goal

ReplaceInv == \A r \in Request : Undisturbed(r)

LEMMA OthersUndisturbed ==
    ASSUME TypeInv, ReplaceInv, NEW r \in Request, Undisturbed(r)',
           \/ Others(r) /\ UNCHANGED row
           \/ OthersNudged(r)
    PROVE  ReplaceInv'
  <1> SUFFICES ASSUME NEW q \in Request \ {r} PROVE Undisturbed(q)'
    BY DEF ReplaceInv
  <1>1. CASE Others(r) /\ UNCHANGED row
    <2>1. req'[q] = req[q] /\ row' = row
      BY <1>1 DEF Others
    <2> QED
      BY <2>1 DEF ReplaceInv, Undisturbed, InState, Exists, Promoted, ActiveRows
  <1>2. CASE OthersNudged(r)
    BY <1>2 DEF OthersNudged, Nudged, Undisturbed
  <1> QED
    BY <1>1, <1>2

\* Requests that do not replace, or are over, have nothing to keep.
LEMMA NotReplacing ==
    ASSUME NEW r \in Request, req'[r] = None \/ req'[r].op \notin Replacing
    PROVE  Undisturbed(r)'
  BY DEF Undisturbed

LEMMA StartOps ==
    /\ Start("mark", "edit").op \notin Replacing /\ Start("actives", "reset").op \notin Replacing
    /\ Start("drop", "reset").op \notin Replacing /\ Start("find", "reprocess").op \notin Replacing
  BY DEF Start, Replacing

\* Steps that do not change rows pass on what was true before.
LEMMA PassesOn ==
    ASSUME ReplaceInv, NEW r \in Request, NEW pc, Onward(r, pc), UNCHANGED row,
           pc \notin {"flip", "insert"}, req[r].op \in Replacing => req[r].pc \notin {"flip", "insert"}
    PROVE  Undisturbed(r)'
  <1>1. row' = row
    OBVIOUS
  <1> QED
    BY <1>1 DEF ReplaceInv, Onward, Undisturbed, InState, Exists, Promoted, ActiveRows

LEMMA ActivateDeleteKeeps ==
    ASSUME TypeInv, NEW r \in Request, ActivateDelete(r)
    PROVE  Undisturbed(r)'
  <1>1. req'[r].pc = "flip" /\ req'[r].goal = Promoted
    BY ActivateDeleteTyped
  <1>2. row' = [i \in Id |-> IF i \in InState("active") THEN None ELSE row[i]]
    BY DEF ActivateDelete, ClearActive
  <1>3. \A i \in Id : row'[i] = IF i \in InState("active") THEN None ELSE row[i]
    BY <1>2
  <1>4. InState("active")' = {}
    BY <1>3 DEF InState, Exists
  <1>5. \A i \in Id : i \in InState("draft")' <=> i \in InState("draft")
    BY <1>3 DEF InState, Exists
  <1>6. InState("draft")' = InState("draft") /\ InState("draft") \subseteq Id
    BY <1>5 DEF InState
  <1>7. \A i \in InState("draft") : row'[i] = row[i]
    BY <1>3 DEF InState
  <1>8. Promoted' = Promoted
    BY <1>6, <1>7 DEF Promoted
  <1> QED
    BY <1>1, <1>4, <1>8 DEF Undisturbed

LEMMA ActivateFlipKeeps ==
    ASSUME TypeInv, ReplaceInv, NEW r \in Request, ActivateFlip(r)
    PROVE  Undisturbed(r)'
  <1>1. /\ req[r] # None /\ req[r].pc = "flip" /\ req[r].op = "activate"
        /\ req'[r].pc = "settings" /\ req'[r].op = "activate"
        /\ req'[r].goal = req[r].goal /\ req'[r].alone = req[r].alone
    BY ActivateFlipTyped
  <1>2. row' = [i \in Id |-> IF i \in InState("draft") THEN [row[i] EXCEPT !.state = "active"] ELSE row[i]]
    BY DEF ActivateFlip
  <1>3. \A i \in InState("draft") : [row[i] EXCEPT !.state = "active"] \in Row
                                    /\ [row[i] EXCEPT !.state = "active"].state = "active"
    BY MovedType DEF State
  <1> DEFINE to(i) == [row[i] EXCEPT !.state = "active"]
  <1>4. InState("draft") \subseteq Id /\ InState("active") \subseteq Id
    BY DEF InState
  <1>5. \A i \in Id : row'[i] = IF i \in InState("draft") THEN to(i) ELSE row[i]
    BY <1>2
  <1>6. \A i \in InState("draft") : to(i) # None /\ to(i).state = "active"
    BY <1>3, NotNone
  <1> HIDE DEF to
  <1>7. SUFFICES ASSUME req[r].alone PROVE ActiveRows' = req[r].goal
    BY <1>1 DEF Undisturbed
  <1>8. InState("active") = {} /\ req[r].goal = Promoted
    BY <1>1, <1>7 DEF ReplaceInv, Undisturbed, Replacing
  <1>9. \A i \in Id : row[i] # None /\ row[i].state = "active" => i \in InState("active")
    BY DEF InState, Exists
  <1>10. \A i \in Id : i \in InState("active")' <=> row'[i] # None /\ row'[i].state = "active"
    BY DEF InState, Exists
  <1>11. \A i \in Id : i \in InState("active")' <=> i \in InState("draft")
    BY <1>5, <1>6, <1>8, <1>9, <1>10
  <1>12. InState("active")' = InState("draft")
    BY <1>4, <1>11 DEF InState
  <1>13. ActiveRows' = {to(i) : i \in InState("draft")}
    BY <1>4, <1>5, <1>12 DEF ActiveRows
  <1> QED
    BY <1>8, <1>13 DEF Promoted, to

LEMMA SaveDeleteKeeps ==
    ASSUME TypeInv, NEW r \in Request, SaveDelete(r)
    PROVE  Undisturbed(r)'
  <1>1. req'[r].pc = "insert" /\ req'[r].goal \in Payload
    BY SaveDeleteTyped
  <1>2. \A i \in Id : row'[i] = None
    BY DEF SaveDelete
  <1> QED
    BY <1>1, <1>2 DEF Undisturbed, Payload, Listed

LEMMA InsertKeeps ==
    ASSUME TypeInv, ReplaceInv, NEW r \in Request, Insert(r)
    PROVE  Undisturbed(r)'
  <1>1. CASE req[r].op = "reset"
    BY <1>1, InsertTyped, StartOps, NotReplacing
  <1>2. CASE req[r].op = "save"
    <2> DEFINE goal == req[r].goal
    <2>1. /\ req[r] # None /\ req[r].pc = "insert"
          /\ req'[r].pc = "settings" /\ req'[r].goal = goal /\ req'[r].alone = req[r].alone
      BY <1>2, InsertTyped
    <2>2. PICK ids \in SUBSET Id : Added(goal, ids)
      BY InsertTyped
    <2>3. SUFFICES ASSUME req[r].alone PROVE ActiveRows' = goal
      BY <2>1 DEF Undisturbed
    <2>4. (\A i \in Id : row[i] = None) /\ goal \in Payload
      BY <1>2, <2>1, <2>3 DEF ReplaceInv, Undisturbed, Replacing
    <2>5. \A w \in goal : w \in Row /\ w # None /\ w.state = "active"
      BY <2>4, NotNone DEF Payload, Row, State
    <2> HIDE DEF goal
    <2>6. \A i \in Id : i \in InState("active")' <=> row'[i] # None /\ row'[i].state = "active"
      BY DEF InState, Exists
    <2>7. \A i \in Id : i \in InState("active")' <=> i \in ids
      BY <2>2, <2>4, <2>5, <2>6 DEF Added
    <2>8. InState("active")' = ids
      BY <2>7 DEF InState
    <2>9. ActiveRows' = {row'[i] : i \in ids}
      BY <2>8 DEF ActiveRows
    <2> QED
      BY <2>2, <2>9 DEF Added
  <1> QED
    BY <1>1, <1>2, InsertTyped

LEMMA RequestKeepsReplace ==
    ASSUME TypeInv, ReplaceInv, NEW r \in Request, RequestStep(r)
    PROVE  ReplaceInv'
  <1>1. CASE Create(r) \/ Delete(r) \/ Reorder(r) \/ ResetDelete(r)
    BY <1>1, CreateTyped, DeleteTyped, ReorderTyped, ResetDeleteTyped, StartOps, NotReplacing,
       OthersUndisturbed
  <1>2. CASE PatchSave(r)
    BY <1>2, PatchSaveTyped, StartOps, NotReplacing, OthersUndisturbed
  <1>3. CASE PatchFind(r) \/ ConfigFind(r) \/ ResetFind(r) \/ Reprocess(r)
    <2>1. UNCHANGED row
      BY <1>3 DEF PatchFind, ConfigFind, ResetFind, Reprocess
    <2>2. Others(r) /\ req'[r].op \notin Replacing
      BY <1>3, PatchFindTyped, ConfigFindTyped, ResetFindTyped, ReprocessTyped, StartOps DEF Replacing
    <2> QED
      BY <2>1, <2>2, NotReplacing, OthersUndisturbed
  <1>4. CASE Mark(r)
    <2>1. UNCHANGED row
      BY <1>4 DEF Mark
    <2>2. Others(r) /\ req'[r].op \notin Replacing
      BY <1>4, MarkTyped DEF Onward, Replacing
    <2> QED
      BY <2>1, <2>2, NotReplacing, OthersUndisturbed
  <1>5. CASE Spawn(r) \/ Fail(r)
    <2>1. UNCHANGED row
      BY <1>5 DEF Spawn, Fail
    <2> QED
      BY <1>5, <2>1, SpawnTyped, FailTyped, NotReplacing, OthersUndisturbed
  <1>6. CASE Drop(r)
    <2>1. UNCHANGED row
      BY <1>6 DEF Drop
    <2>2. Others(r) /\ (req'[r] = None \/ Onward(r, "find")) /\ req[r].pc = "drop"
      BY <1>6, DropTyped DEF At
    <2>3. Undisturbed(r)'
      BY <2>1, <2>2, NotReplacing, PassesOn
    <2> QED
      BY <2>1, <2>2, <2>3, OthersUndisturbed
  <1>7. CASE FindJob(r)
    <2>1. UNCHANGED row
      BY <1>7 DEF FindJob
    <2>2. Others(r) /\ (req'[r] = None \/ Onward(r, "spawn")) /\ req[r].pc = "find"
      BY <1>7, FindJobTyped DEF At
    <2>3. Undisturbed(r)'
      BY <2>1, <2>2, NotReplacing, PassesOn
    <2> QED
      BY <2>1, <2>2, <2>3, OthersUndisturbed
  <1>8. CASE SaveSettings(r)
    <2>1. UNCHANGED row /\ req[r].pc \notin {"flip", "insert"}
      BY <1>8 DEF SaveSettings
    <2>2. Others(r) /\ Onward(r, "drop")
      BY <1>8, SaveSettingsTyped
    <2>3. Undisturbed(r)'
      BY <2>1, <2>2, PassesOn
    <2> QED
      BY <2>1, <2>2, <2>3, OthersUndisturbed
  <1>9. CASE FindSettings(r)
    <2>1. UNCHANGED row
      BY <1>9 DEF FindSettings
    <2>2. Others(r) /\ Onward(r, "settled") /\ req[r].pc = "settings"
      BY <1>9, FindSettingsTyped DEF Onward
    <2>3. Undisturbed(r)'
      BY <2>1, <2>2, PassesOn
    <2> QED
      BY <2>1, <2>2, <2>3, OthersUndisturbed
  <1>10. CASE ActivateDelete(r) \/ ActivateFlip(r) \/ SaveDelete(r) \/ Insert(r)
    BY <1>10, ActivateDeleteKeeps, ActivateFlipKeeps, SaveDeleteKeeps, InsertKeeps,
       ActivateDeleteTyped, ActivateFlipTyped, SaveDeleteTyped, InsertTyped, OthersUndisturbed
  <1> QED
    BY <1>1, <1>2, <1>3, <1>4, <1>5, <1>6, <1>7, <1>8, <1>9, <1>10, Zenon DEF RequestStep

LEMMA NextKeepsReplace == TypeInv /\ ReplaceInv /\ [Next]_vars => ReplaceInv'
  <1> SUFFICES ASSUME TypeInv, ReplaceInv, [Next]_vars PROVE ReplaceInv'
    OBVIOUS
  <1>1. ASSUME UNCHANGED <<row, req>> PROVE ReplaceInv'
    BY <1>1 DEF ReplaceInv, Undisturbed, InState, Exists, Promoted, ActiveRows
  <1>2. ASSUME NEW i \in Ingest, IngestStart(i) PROVE ReplaceInv'
    BY <1>1, <1>2 DEF IngestStart
  <1>3. ASSUME NEW x \in Runner, RunStep(x) PROVE ReplaceInv'
    BY <1>1, <1>3 DEF RunStep, ReadPart, Loaded, FindDocument, SaveDocument, WriteTopics, DocumentFails
  <1>4. ASSUME NEW w \in Worker, WorkerStep(w) PROVE ReplaceInv'
    BY <1>1, <1>4 DEF WorkerStep, WorkerJob, WorkerClear, WorkerFails, ServerJob, ServerClear, ServerDrop
  <1>5. CASE Expire
    BY <1>1, <1>5 DEF Expire
  <1>6. CASE Crash
    BY <1>6 DEF Crash, ReplaceInv, Undisturbed
  <1>7. CASE UNCHANGED vars
    BY <1>1, <1>7 DEF vars
  <1> QED
    BY <1>2, <1>3, <1>4, <1>5, <1>6, <1>7, RequestKeepsReplace, NextSteps, Zenon

\* An activate or a save that nobody interfered with has put into force just what
\* it was asked to, for any number of templates and of requests beside it.
THEOREM ReplacedAsAsked == Spec => []ActivatedIsLive
  <1>1. Init => ReplaceInv
    BY DEF Init, ReplaceInv, Undisturbed
  <1>2. Spec => [](TypeInv /\ ReplaceInv)
    BY <1>1, InitTypeInv, NextTyped, NextKeepsReplace, PTL DEF Spec
  <1>3. ReplaceInv => ActivatedIsLive
    BY DEF ReplaceInv, Undisturbed, ActivatedIsLive, ActiveRows, At, Replacing
  <1> QED
    BY <1>2, <1>3, PTL

-----------------------------------------------------------------------------
(* The active set                                                          *)

Listing(scope) == {[id |-> i, of |-> row[i]] : i \in Section("active", scope)}
Bodies(S) == LET order == Sorted(S) IN [k \in DOMAIN order |-> order[k].of.body]

LEMMA LiveIsBodies ==
    /\ \A scope : Live(scope) = Bodies(Listing(scope))
    /\ \A scope : Live(scope)' = Bodies(Listing(scope)')
  BY Zenon DEF Live, Bodies, Listing

\* It depends on the active rows and the style only.
LEMMA SameActiveSet ==
    ASSUME InState("active")' = InState("active"), \A i \in InState("active") : row'[i] = row[i],
           cfg'.style = cfg.style
    PROVE  ActiveSet' = ActiveSet
  <1>1. ASSUME NEW scope PROVE Listing(scope)' = Listing(scope)
    <2>1. Section("active", scope)' = Section("active", scope)
      BY DEF Section
    <2>2. \A i \in Section("active", scope) : row'[i] = row[i]
      BY DEF Section
    <2> QED
      BY <2>1, <2>2 DEF Listing
  <1>2. Live("document")' = Live("document") /\ Live("topic")' = Live("topic")
    BY <1>1, LiveIsBodies
  <1> QED
    BY <1>2 DEF ActiveSet

LEMMA SameRows ==
    ASSUME row' = row, cfg'.style = cfg.style
    PROVE  ActiveSet' = ActiveSet
  <1>1. InState("active")' = InState("active")
    BY DEF InState, Exists
  <1> QED
    BY <1>1, SameActiveSet

\* Drafts come and go without a trace in it.
LEMMA DraftsApart ==
    ASSUME cfg'.style = cfg.style, NEW I \in SUBSET Id,
           \A i \in I : (row[i] = None \/ row[i].state = "draft") /\ (row'[i] = None \/ row'[i].state = "draft"),
           \A i \in Id \ I : row'[i] = row[i]
    PROVE  ActiveSet' = ActiveSet
  <1>1. \A i \in Id : i \in InState("active")' <=> i \in InState("active")
    BY DEF InState, Exists
  <1>2. InState("active")' = InState("active")
    BY <1>1 DEF InState
  <1>3. \A i \in InState("active") : row'[i] = row[i]
    BY DEF InState, Exists
  <1> QED
    BY <1>2, <1>3, SameActiveSet

LEMMA ResetKeepsActive ==
    ASSUME TypeInv, NEW r \in Request
    PROVE  /\ ResetDelete(r) => ActiveSet' = ActiveSet
           /\ Insert(r) /\ req[r].op = "reset" => ActiveSet' = ActiveSet
  <1>1. ASSUME ResetDelete(r) PROVE ActiveSet' = ActiveSet
    <2> DEFINE I == InState("draft")
    <2>1. \A i \in Id : row'[i] = IF i \in I THEN None ELSE row[i]
      BY <1>1 DEF ResetDelete
    <2>2. I \in SUBSET Id /\ \A i \in I : row[i].state = "draft"
      BY DEF InState
    <2>3. cfg'.style = cfg.style
      BY <1>1 DEF ResetDelete, Changed, Apart
    <2> HIDE DEF I
    <2> QED
      BY <2>1, <2>2, <2>3, DraftsApart
  <1>2. ASSUME Insert(r), req[r].op = "reset" PROVE ActiveSet' = ActiveSet
    <2>1. PICK ids \in SUBSET Id : Added(req[r].goal, ids)
      BY <1>2, InsertTyped
    <2>2. req[r] # None
      BY <1>2, InsertTyped
    <2>3. \A w \in req[r].goal : w.state = "draft"
      BY <1>2, <2>2, Known DEF CallShape
    <2>4. \A i \in ids : row[i] = None
      BY <2>1 DEF Added, TypeInv, RowsKept
    <2>5. \A i \in ids : row'[i].state = "draft"
      BY <2>1, <2>3 DEF Added
    <2>6. \A i \in Id \ ids : row'[i] = row[i]
      BY <2>1 DEF Added
    <2>7. cfg'.style = cfg.style
      BY <1>2 DEF Insert, Changed, Apart
    <2> QED
      BY <2>4, <2>5, <2>6, <2>7, DraftsApart
  <1> QED
    BY <1>1, <1>2

-----------------------------------------------------------------------------
(* URLs and the pending flag: the inductive invariant                      *)

DocRight == doc.document = DocumentUrl(ActiveSet)
AllRight == DocRight /\ (Nested = {} => doc.topic = TopicUrlUnder(ActiveSet, None))

\* What a runner has loaded is the active set, unless that has changed since.
Current(x) ==
    run[x].pc # "idle" /\ ~run[x].stale =>
        \A p \in (Scope \cup {"style"}) \ run[x].left : run[x].set[p] = ActiveSet[p]

\* A worker that is past a write has left the URL right.
Written(w) ==
    ~missed /\ ~run[w].stale =>
        /\ run[w].pc = "save" => run[w].found = doc.document \/ DocRight
        /\ run[w].pc = "bulk" => DocRight
        /\ run[w].pc \in {"job", "clear"} \/ reply[w] # "none" => AllRight

\* Wrong URLs are flagged, or a request is about to flag them.
Owes == \E r \in Request : Unmarked(r)
Flagged == missed \/ cfg.pending \/ Owes \/ AllRight

RenderInv == (\A x \in Runner : Current(x)) /\ (\A w \in Worker : Written(w)) /\ Flagged

LEMMA Flat ==
    ASSUME Nested = {}
    PROVE  \A set, url : TopicUrlUnder(set, url) = TopicUrlUnder(set, None)
  <1> SUFFICES ASSUME NEW set, NEW url PROVE TopicUrlUnder(set, url) = TopicUrlUnder(set, None)
    OBVIOUS
  <1> DEFINE I(u) == {i \in 1..Len(set.topic) :
                        set.topic[i] \in Fits /\ (set.topic[i] \in Nested => u # None)}
             k(u) == IF I(u) # {} THEN Min(I(u)) ELSE 0
  <1>1. \A u : Picked(set.topic, u) = IF k(u) = 0 THEN None ELSE set.topic[k(u)]
    BY DEF Picked, SelectInSeq
  <1>2. I(url) = I(None)
    OBVIOUS
  <1> HIDE DEF I
  <1>3. k(url) = k(None)
    BY <1>2
  <1> HIDE DEF k
  <1>4. Picked(set.topic, url) = Picked(set.topic, None)
    BY <1>1, <1>3
  <1>5. Picked(set.topic, None) \notin Nested
    OBVIOUS
  <1> QED
    BY <1>4, <1>5 DEF TopicUrlUnder

\* A runner that is past loading has the whole set.
LEMMA HasSet ==
    ASSUME TypeInv, NEW x \in Runner, Current(x), ~run[x].stale, run[x].pc \notin {"idle", "load"}
    PROVE  run[x].set = ActiveSet
  <1>1. run[x].left = {} /\ run[x].set \in Set /\ ActiveSet \in Set
    BY RunKnown, ActiveSetType DEF TypeInv, RowsKept
  <1>2. \A p \in Scope \cup {"style"} : run[x].set[p] = ActiveSet[p]
    BY <1>1 DEF Current
  <1> QED
    BY <1>1, <1>2 DEF Set, Scope

-----------------------------------------------------------------------------
(* Steps of requests keep it                                               *)

LEMMA AgedKeeps ==
    ASSUME TypeInv, RenderInv, Aged, UNCHANGED <<doc, reply>>, missed => missed'
    PROVE  (\A x \in Runner : Current(x)') /\ (\A w \in Worker : Written(w)')
  <1>1. ASSUME NEW x \in Runner PROVE Current(x)'
    <2>1. SUFFICES ASSUME run'[x].pc # "idle", ~run'[x].stale,
                          NEW p \in (Scope \cup {"style"}) \ run'[x].left
                   PROVE  run'[x].set[p] = ActiveSet'[p]
      BY DEF Current
    <2>2. /\ run'[x].pc = run[x].pc /\ run'[x].left = run[x].left /\ run'[x].set = run[x].set
          /\ ~run[x].stale /\ Running(x)
      BY <2>1 DEF Aged, Running
    <2>3. ActiveSet' = ActiveSet
      BY <2>1, <2>2 DEF Aged
    <2> QED
      BY <2>1, <2>2, <2>3 DEF RenderInv, Current
  <1>2. ASSUME NEW w \in Worker PROVE Written(w)'
    <2> DEFINE at == run[w].pc \in {"save", "bulk", "job", "clear"} \/ reply[w] # "none"
    <2>1. w \in Runner
      BY DEF Runner
    <2>2. CASE ~missed' /\ ~run'[w].stale /\ at
      <3>1. /\ run'[w].pc = run[w].pc /\ run'[w].found = run[w].found /\ ~run[w].stale /\ ~missed
            /\ reply' = reply /\ doc' = doc
        BY <2>1, <2>2 DEF Aged
      <3>2. Running(w)
        BY <2>2 DEF Running
      <3>3. ActiveSet' = ActiveSet
        BY <2>1, <2>2, <3>2 DEF Aged
      <3>4. DocRight' = DocRight /\ AllRight' = AllRight
        BY <3>1, <3>3 DEF DocRight, AllRight
      <3> QED
        BY <3>1, <3>4 DEF RenderInv, Written
    <2>3. CASE missed' \/ run'[w].stale \/ ~at
      BY <2>1, <2>3 DEF Written, Aged
    <2> QED
      BY <2>2, <2>3
  <1> QED
    BY <1>1, <1>2

LEMMA StillAged ==
    ASSUME UNCHANGED run, ActiveSet' = ActiveSet
    PROVE  Aged
  BY DEF Aged

LEMMA ChangedAged ==
    ASSUME TypeInv, Changed
    PROVE  Aged /\ UNCHANGED <<cfg, reply, doc, missed>>
  BY Overtaken DEF Changed, Apart

LEMMA UntouchedAged ==
    ASSUME TypeInv, Untouched, UNCHANGED row
    PROVE  Aged /\ ActiveSet' = ActiveSet /\ UNCHANGED <<cfg, reply, doc, missed>>
  BY SameRows, StillAged DEF Untouched, Apart

\* The flag, when the set and the URLs stay.
LEMMA FlagKept ==
    ASSUME RenderInv, NEW r \in Request, Others(r) \/ OthersNudged(r), ActiveSet' = ActiveSet,
           UNCHANGED doc, missed => missed', cfg.pending => cfg'.pending,
           Unmarked(r) => Unmarked(r)' \/ missed' \/ cfg'.pending
    PROVE  Flagged'
  <1>1. CASE missed \/ cfg.pending
    BY <1>1 DEF Flagged
  <1>2. CASE Owes
    <2>1. PICK q \in Request : Unmarked(q)
      BY <1>2 DEF Owes
    <2>2. CASE q = r
      BY <2>1, <2>2 DEF Flagged, Owes
    <2>3. CASE q # r
      <3>1. Unmarked(q)'
        BY <2>1, <2>3 DEF Others, OthersNudged, Nudged, Unmarked, At
      <3> QED
        BY <3>1 DEF Flagged, Owes
    <2> QED
      BY <2>2, <2>3
  <1>3. CASE AllRight
    <2>1. AllRight'
      BY <1>3 DEF AllRight, DocRight
    <2> QED
      BY <2>1 DEF Flagged
  <1> QED
    BY <1>1, <1>2, <1>3 DEF RenderInv, Flagged

LEMMA StartsUnmarked ==
    /\ \A r \in Request : req'[r] = Start("mark", "edit") => Unmarked(r)'
    /\ \A r \in Request : req[r] = None => ~Unmarked(r)
  <1>1. Start("mark", "edit") # None /\ Start("mark", "edit").pc = "mark"
    BY Starts, NotNone, StartType DEF Place, Kind
  <1> QED
    BY <1>1 DEF Unmarked, At

LEMMA RowStepsKeepFlag ==
    ASSUME TypeInv, RenderInv, NEW r \in Request,
           \/ Create(r) \/ PatchSave(r) \/ Delete(r) \/ Reorder(r) \/ ResetDelete(r)
           \/ ActivateDelete(r) \/ ActivateFlip(r) \/ SaveDelete(r) \/ Insert(r)
    PROVE  RenderInv'
  <1>0. Changed
    BY DEF Create, PatchSave, Delete, Reorder, ResetDelete, ActivateDelete, ActivateFlip, SaveDelete, Insert
  <1>1. Aged /\ UNCHANGED <<cfg, reply, doc, missed>>
    BY <1>0, ChangedAged
  <1>2. (\A x \in Runner : Current(x)') /\ (\A w \in Worker : Written(w)')
    BY <1>1, AgedKeeps
  <1> SUFFICES Flagged'
    BY <1>2 DEF RenderInv
  <1>3. ASSUME Unmarked(r)' PROVE Flagged'
    BY <1>3 DEF Flagged, Owes
  <1>4. CASE Create(r) \/ Delete(r) \/ Reorder(r)
    BY <1>3, <1>4, CreateTyped, DeleteTyped, ReorderTyped, StartsUnmarked
  <1>5. CASE PatchSave(r)
    <2>1. CASE req'[r] = Start("mark", "edit")
      BY <1>3, <2>1, StartsUnmarked
    <2>2. CASE UNCHANGED row /\ Others(r) /\ req'[r] = None
      <3>1. ActiveSet' = ActiveSet
        BY <1>1, <2>2, SameRows
      <3>2. ~Unmarked(r)
        BY <1>5 DEF PatchSave, At, Unmarked
      <3> QED
        BY <1>1, <2>2, <3>1, <3>2, FlagKept
    <2> QED
      BY <1>5, <2>1, <2>2, PatchSaveTyped
  <1>6. CASE ResetDelete(r)
    <2>1. ActiveSet' = ActiveSet /\ OthersNudged(r) /\ ~Unmarked(r)
      BY <1>6, ResetKeepsActive, ResetDeleteTyped, StartsUnmarked
    <2> QED
      BY <1>1, <2>1, FlagKept
  <1>7. CASE ActivateDelete(r) \/ ActivateFlip(r) \/ SaveDelete(r)
    <2>1. /\ req'[r] \in Call
          /\ req'[r].pc \in {"flip", "settings"} \/ (req'[r].pc = "insert" /\ req'[r].op = "save")
      BY <1>7, ActivateDeleteTyped, ActivateFlipTyped, SaveDeleteTyped
    <2>2. Unmarked(r)'
      BY <2>1, NotNone DEF Unmarked, At
    <2> QED
      BY <1>3, <2>2
  <1>8. CASE Insert(r)
    <2>1. CASE req[r].op = "reset"
      <3>1. ActiveSet' = ActiveSet /\ OthersNudged(r) /\ ~Unmarked(r)
        BY <1>8, <2>1, ResetKeepsActive, InsertTyped DEF Unmarked, At
      <3> QED
        BY <1>1, <3>1, FlagKept
    <2>2. CASE req[r].op = "save"
      <3>1. req'[r] \in Call /\ req'[r].pc = "settings"
        BY <1>8, <2>2, InsertTyped
      <3>2. Unmarked(r)'
        BY <3>1, NotNone DEF Unmarked
      <3> QED
        BY <1>3, <3>2
    <2> QED
      BY <1>8, <2>1, <2>2, InsertTyped
  <1> QED
    BY <1>4, <1>5, <1>6, <1>7, <1>8

LEMMA ReadStepsKeepFlag ==
    ASSUME TypeInv, RenderInv, NEW r \in Request,
           PatchFind(r) \/ ConfigFind(r) \/ ResetFind(r) \/ FindSettings(r) \/ Reprocess(r) \/ FindJob(r)
    PROVE  RenderInv'
  <1>1. Untouched /\ UNCHANGED row
    BY DEF PatchFind, ConfigFind, ResetFind, FindSettings, Reprocess, FindJob
  <1>2. Aged /\ ActiveSet' = ActiveSet /\ UNCHANGED <<cfg, reply, doc, missed>>
    BY <1>1, UntouchedAged
  <1>3. (\A x \in Runner : Current(x)') /\ (\A w \in Worker : Written(w)')
    BY <1>2, AgedKeeps
  <1>4. Others(r)
    BY PatchFindTyped, ConfigFindTyped, ResetFindTyped, FindSettingsTyped, ReprocessTyped, FindJobTyped
  <1>5. Unmarked(r) => Unmarked(r)'
    <2>1. CASE PatchFind(r) \/ ConfigFind(r) \/ Reprocess(r)
      BY <2>1, PatchFindTyped, ConfigFindTyped, ReprocessTyped, StartsUnmarked
    <2>2. CASE ResetFind(r) \/ FindJob(r)
      BY <2>2 DEF ResetFind, FindJob, Unmarked, At
    <2>3. CASE FindSettings(r)
      BY <2>3, FindSettingsTyped, NotNone DEF Unmarked
    <2> QED
      BY <2>1, <2>2, <2>3
  <1>6. Flagged'
    BY <1>2, <1>4, <1>5, FlagKept
  <1> QED
    BY <1>3, <1>6 DEF RenderInv

LEMMA OtherStepsKeepFlag ==
    ASSUME TypeInv, RenderInv, NEW r \in Request,
           Mark(r) \/ Drop(r) \/ SaveSettings(r) \/ Spawn(r) \/ Fail(r)
    PROVE  RenderInv'
  <1>1. CASE Mark(r)
    <2>1. UNCHANGED <<row, run, doc, reply, missed>> /\ cfg'.pending /\ cfg'.style = cfg.style
      BY <1>1, MarkTyped DEF Mark
    <2>2. Aged
      BY <2>1, SameRows, StillAged
    <2> QED
      BY <2>1, <2>2, AgedKeeps DEF RenderInv, Flagged
  <1>2. CASE Drop(r)
    <2>1. UNCHANGED <<row, run, doc, reply, missed, cfg>> /\ Others(r) /\ ~Unmarked(r)
      BY <1>2, DropTyped DEF Drop, Unmarked, At
    <2>2. Aged /\ ActiveSet' = ActiveSet
      BY <2>1, SameRows, StillAged
    <2>3. Flagged'
      BY <2>1, <2>2, FlagKept
    <2> QED
      BY <2>1, <2>2, <2>3, AgedKeeps DEF RenderInv
  <1>3. CASE SaveSettings(r)
    <2>1. UNCHANGED <<doc, reply>> /\ Aged /\ (cfg'.pending \/ missed') /\ (missed => missed')
      BY <1>3, SaveSettingsTyped DEF SaveSettings
    <2> QED
      BY <2>1, AgedKeeps DEF RenderInv, Flagged
  <1>4. CASE Fail(r)
    <2>1. /\ UNCHANGED <<row, run, doc, reply, cfg>> /\ Others(r)
          /\ missed' = (missed \/ Unmarked(r))
      BY <1>4, FailTyped DEF Fail
    <2>2. Aged /\ ActiveSet' = ActiveSet
      BY <2>1, SameRows, StillAged
    <2>3. Flagged'
      BY <2>1, <2>2, FlagKept
    <2> QED
      BY <2>1, <2>2, <2>3, AgedKeeps DEF RenderInv
  <1>5. CASE Spawn(r)
    <2>1. /\ UNCHANGED <<row, doc, reply, missed, cfg>> /\ Others(r) /\ ~Unmarked(r)
      BY <1>5, SpawnTyped DEF Spawn, Unmarked, At
    <2>2. PICK w \in Worker : run[w].pc = "idle" /\ reply[w] = "none" /\ run' = [run EXCEPT ![w] = Loading]
      BY <1>5, SpawnTyped
    <2>3. ActiveSet' = ActiveSet
      BY <2>1, SameRows
    <2>4. Flagged'
      BY <2>1, <2>3, FlagKept
    <2>5. Worker \subseteq Runner
      BY DEF Runner
    <2>6. run'[w] = Loading /\ \A x \in Runner \ {w} : run'[x] = run[x]
      BY <2>2, <2>5 DEF TypeInv, RunTyped
    <2>7. ASSUME NEW x \in Runner PROVE Current(x)'
      BY <2>3, <2>6, RunsType DEF Current, RenderInv
    <2>8. DocRight' = DocRight /\ AllRight' = AllRight
      BY <2>1, <2>3 DEF DocRight, AllRight
    <2>9. Written(w)'
      BY <2>1, <2>2, <2>6, RunsType DEF Written
    <2>10. ASSUME NEW v \in Worker \ {w} PROVE Written(v)'
      BY <2>1, <2>5, <2>6, <2>8 DEF Written, RenderInv
    <2> QED
      BY <2>4, <2>7, <2>9, <2>10 DEF RenderInv
  <1> QED
    BY <1>1, <1>2, <1>3, <1>4, <1>5

-----------------------------------------------------------------------------
(* Steps of runners keep it                                                *)

\* A write that takes nothing away from what is right.
UrlsKept ==
    /\ DocRight => DocRight'
    /\ AllRight => AllRight'
    /\ doc'.document = doc.document \/ DocRight'

LEMMA SameUrls ==
    ASSUME UNCHANGED doc, ActiveSet' = ActiveSet
    PROVE  UrlsKept /\ DocRight' = DocRight /\ AllRight' = AllRight
  BY DEF UrlsKept, DocRight, AllRight

\* It is enough to look at the runner itself, and at the URLs if it writes them.
LEMMA RunnerKeeps ==
    ASSUME TypeInv, RenderInv, NEW x \in Runner, OtherRuns(x),
           \A w \in Worker \ {x} : reply'[w] = reply[w],
           UNCHANGED <<row, req>>, cfg'.style = cfg.style, missed => missed',
           cfg'.pending = cfg.pending \/ missed' \/ AllRight',
           Current(x)', x \in Worker => Written(x)',
           missed' \/ (cfg.pending /\ \A w \in Worker : ~Running(w)) \/ UrlsKept
    PROVE  RenderInv'
  <1>1. ActiveSet' = ActiveSet
    BY SameRows
  <1>2. ASSUME NEW y \in Runner PROVE Current(y)'
    <2>1. CASE y # x
      BY <1>1, <2>1 DEF RenderInv, Current, OtherRuns
    <2> QED
      BY <2>1
  <1>3. ASSUME NEW w \in Worker PROVE Written(w)'
    <2>1. CASE w # x
      <3>1. w \in Runner /\ run'[w] = run[w] /\ reply'[w] = reply[w]
        BY <2>1 DEF OtherRuns, Runner
      <3>2. CASE missed'
        BY <3>2 DEF Written
      <3>3. CASE \A v \in Worker : ~Running(v)
        <4>1. run'[w].pc = "idle" /\ reply'[w] = "none"
          BY <3>1, <3>3 DEF Running
        <4> QED
          BY <4>1 DEF Written
      <3>4. CASE UrlsKept
        BY <3>1, <3>4 DEF RenderInv, Written, UrlsKept
      <3> QED
        BY <3>2, <3>3, <3>4
    <2> QED
      BY <2>1
  <1>4. Flagged'
    <2>1. Owes' = Owes
      BY DEF Owes, Unmarked, At
    <2> QED
      BY <2>1 DEF RenderInv, Flagged, UrlsKept
  <1> QED
    BY <1>2, <1>3, <1>4 DEF RenderInv

LEMMA IngestStartKeeps ==
    ASSUME TypeInv, RenderInv, NEW i \in Ingest, IngestStart(i)
    PROVE  RenderInv'
  <1>1. UNCHANGED <<row, cfg, reply, doc, req, missed>>
    BY DEF IngestStart
  <1>2. ActiveSet' = ActiveSet
    BY <1>1, SameRows
  <1>3. i \in Runner /\ i \notin Worker
    BY PrettyUrlAssumption DEF Runner
  <1>4. Current(i)'
    BY <1>2, IngestStartTyped, RunsType DEF Current
  <1> QED
    BY <1>1, <1>2, <1>3, <1>4, IngestStartTyped, SameUrls, RunnerKeeps

LEMMA ReadPartKeeps ==
    ASSUME TypeInv, RenderInv, NEW x \in Runner, ReadPart(x)
    PROVE  RenderInv'
  <1>1. UNCHANGED <<row, cfg, reply, doc, req, missed>>
    BY DEF ReadPart
  <1>2. ActiveSet' = ActiveSet
    BY <1>1, SameRows
  <1>3. Current(x)'
    <2>1. /\ run[x].pc = "load" /\ run'[x].stale = run[x].stale
          /\ \E p \in run[x].left : /\ run'[x].left = run[x].left \ {p}
                                    /\ run'[x].set[p] = ActiveSet[p]
                                    /\ \A q \in (Scope \cup {"style"}) \ {p} : run'[x].set[q] = run[x].set[q]
      BY ReadPartTyped
    <2>2. ~run[x].stale => \A q \in (Scope \cup {"style"}) \ run[x].left : run[x].set[q] = ActiveSet[q]
      BY <2>1 DEF RenderInv, Current
    <2> QED
      BY <1>2, <2>1, <2>2 DEF Current
  <1>4. x \in Worker => Written(x)'
    <2>1. x \in Worker => reply[x] = "none"
      BY ReadPartTyped DEF TypeInv, RunTyped
    <2> QED
      BY <1>1, <2>1, ReadPartTyped DEF Written
  <1> QED
    BY <1>1, <1>2, <1>3, <1>4, ReadPartTyped, SameUrls, RunnerKeeps

\* A runner that goes on with what it has, has what is current.
LEMMA GoingCurrent ==
    ASSUME TypeInv, RenderInv, NEW x \in Runner, NEW pc, GoesRun(x, pc), run[x].pc # "idle", run[x].left = {},
           ActiveSet' = ActiveSet
    PROVE  Current(x)'
  BY DEF RenderInv, Current, GoesRun

LEMMA NoReplyYet ==
    ASSUME TypeInv, NEW w \in Worker, run[w].pc \in {"load", "find", "save", "bulk"}
    PROVE  reply[w] = "none"
  BY RunKnown DEF TypeInv, RunTyped

LEMMA LoadedKeeps ==
    ASSUME TypeInv, RenderInv, NEW x \in Runner, Loaded(x)
    PROVE  RenderInv'
  <1>1. UNCHANGED <<row, cfg, reply, doc, req, missed>>
    BY DEF Loaded
  <1>2. ActiveSet' = ActiveSet
    BY <1>1, SameRows
  <1>3. GoesRun(x, "find") /\ run[x].pc = "load" /\ run[x].left = {}
    BY LoadedTyped
  <1>4. Current(x)'
    BY <1>2, <1>3, GoingCurrent
  <1>5. x \in Worker => Written(x)'
    BY <1>1, <1>3, NoReplyYet DEF Written, GoesRun
  <1> QED
    BY <1>1, <1>2, <1>3, <1>4, <1>5, SameUrls, RunnerKeeps DEF GoesRun

LEMMA FindDocumentKeeps ==
    ASSUME TypeInv, RenderInv, NEW x \in Runner, FindDocument(x)
    PROVE  RenderInv'
  <1>1. UNCHANGED <<row, cfg, reply, doc, req, missed>>
    BY DEF FindDocument
  <1>2. ActiveSet' = ActiveSet
    BY <1>1, SameRows
  <1>3. GoesRun(x, "save") /\ run[x].pc = "find" /\ run'[x].found = doc.document /\ run[x].left = {}
    BY FindDocumentTyped, RunKnown
  <1>4. Current(x)'
    BY <1>2, <1>3, GoingCurrent
  <1>5. x \in Worker => Written(x)'
    BY <1>1, <1>3, NoReplyYet DEF Written, GoesRun
  <1> QED
    BY <1>1, <1>2, <1>3, <1>4, <1>5, SameUrls, RunnerKeeps DEF GoesRun

\* A stale set is written: nobody takes it for right.
LEMMA StaleWrite ==
    ASSUME TypeInv, NEW x \in Runner, run[x].pc # "idle", run[x].stale, missed' = (missed \/ Leaves(x)), ~missed'
    PROVE  x \notin Worker /\ cfg.pending /\ \A w \in Worker : ~Running(w)
  <1>1. ~Leaves(x)
    OBVIOUS
  <1>2. cfg.pending = TRUE /\ \A w \in Worker : ~Running(w)
    BY <1>1, RunKnown DEF Leaves, Settings
  <1> QED
    BY <1>2 DEF Running

LEMMA SaveDocumentKeeps ==
    ASSUME TypeInv, RenderInv, NEW x \in Runner, SaveDocument(x)
    PROVE  RenderInv'
  <1> DEFINE url == DocumentUrl(run[x].set)
  <1>1. UNCHANGED <<row, cfg, reply, req>> /\ missed' = (missed \/ Leaves(x))
    BY DEF SaveDocument
  <1>2. ActiveSet' = ActiveSet
    BY <1>1, SameRows
  <1>3. /\ GoesRun(x, "bulk") /\ run[x].pc = "save" /\ run[x].left = {}
        /\ doc'.topic = doc.topic
        /\ doc'.document = IF url # run[x].found THEN url ELSE doc.document
    BY SaveDocumentTyped, RunKnown
  <1>4. Current(x)'
    BY <1>2, <1>3, GoingCurrent
  <1>5. ASSUME ~run[x].stale
        PROVE  doc'.document = doc.document \/ DocRight'
    <2>1. run[x].set = ActiveSet
      BY <1>3, <1>5, HasSet DEF RenderInv
    <2> QED
      BY <1>2, <1>3, <2>1 DEF DocRight
  <1>6. ASSUME ~run[x].stale, ~missed, x \in Worker
        PROVE  DocRight'
    <2>1. url = DocumentUrl(ActiveSet)
      BY <1>3, <1>6, HasSet DEF RenderInv
    <2>2. run[x].found = doc.document \/ DocRight
      BY <1>3, <1>6 DEF RenderInv, Written
    <2> HIDE DEF url
    <2> QED
      BY <1>2, <1>3, <2>1, <2>2 DEF DocRight
  <1>7. x \in Worker => Written(x)'
    <2>1. x \in Worker => reply[x] = "none"
      BY <1>3, NoReplyYet
    <2> QED
      BY <1>1, <1>3, <1>6, <2>1 DEF Written, GoesRun
  <1>8. ASSUME ~run[x].stale PROVE UrlsKept
    <2>1. DocRight => DocRight'
      BY <1>2, <1>5, <1>8 DEF DocRight
    <2> QED
      BY <1>2, <1>3, <1>5, <1>8, <2>1 DEF UrlsKept, AllRight
  <1>9. missed' \/ (cfg.pending /\ \A w \in Worker : ~Running(w)) \/ UrlsKept
    BY <1>1, <1>3, <1>8, StaleWrite
  <1> QED
    BY <1>1, <1>3, <1>4, <1>7, <1>9, RunnerKeeps DEF GoesRun

LEMMA DoneCurrent ==
    ASSUME TypeInv, RenderInv, NEW x \in Runner, Done(x), ActiveSet' = ActiveSet
    PROVE  Current(x)'
  <1> SUFFICES ASSUME run'[x].pc # "idle", ~run'[x].stale
               PROVE  \A p \in (Scope \cup {"style"}) \ run'[x].left : run'[x].set[p] = ActiveSet[p]
    BY DEF Current
  <1>1. x \in Worker /\ run'[x].set = run[x].set /\ ~run[x].stale
    BY DEF Done
  <1>2. run[x].set = ActiveSet
    BY <1>1, HasSet DEF Done, RenderInv
  <1> QED
    BY <1>1, <1>2

LEMMA WriteTopicsKeeps ==
    ASSUME TypeInv, RenderInv, NEW x \in Runner, WriteTopics(x)
    PROVE  RenderInv'
  <1>1. UNCHANGED <<row, cfg, req>> /\ missed' = (missed \/ Leaves(x))
    BY DEF WriteTopics
  <1>2. ActiveSet' = ActiveSet
    BY <1>1, SameRows
  <1>3. /\ Done(x) /\ run[x].pc = "bulk"
        /\ doc'.document = doc.document /\ doc'.topic = TopicUrlUnder(run[x].set, run[x].found)
    BY WriteTopicsTyped
  <1>4. Current(x)'
    BY <1>2, <1>3, DoneCurrent
  <1>5. DocRight' = DocRight
    BY <1>2, <1>3 DEF DocRight
  <1>6. ASSUME ~run[x].stale, DocRight PROVE AllRight'
    <2>1. run[x].set = ActiveSet
      BY <1>3, <1>6, HasSet DEF RenderInv
    <2>2. Nested = {} => doc'.topic = TopicUrlUnder(ActiveSet, None)
      BY <1>3, <2>1, Flat
    <2> QED
      BY <1>2, <1>5, <1>6, <2>2 DEF AllRight
  <1>7. x \in Worker => Written(x)'
    <2>1. ASSUME x \in Worker, ~missed, ~run[x].stale PROVE AllRight'
      <3>1. DocRight
        BY <1>3, <2>1 DEF RenderInv, Written
      <3> QED
        BY <1>6, <2>1, <3>1
    <2>2. ~missed' => ~missed
      BY <1>1
    <2>3. x \in Worker => run'[x].pc = "job" /\ run'[x].stale = run[x].stale
      BY <1>3 DEF Done
    <2> QED
      BY <2>1, <2>2, <2>3 DEF Written
  <1>8. ASSUME ~run[x].stale PROVE UrlsKept
    BY <1>3, <1>5, <1>6, <1>8 DEF UrlsKept, AllRight
  <1>9. missed' \/ (cfg.pending /\ \A w \in Worker : ~Running(w)) \/ UrlsKept
    BY <1>1, <1>3, <1>8, StaleWrite
  <1> QED
    BY <1>1, <1>3, <1>4, <1>7, <1>9, RunnerKeeps DEF Done

LEMMA DocumentFailsKeeps ==
    ASSUME TypeInv, RenderInv, NEW x \in Runner, DocumentFails(x)
    PROVE  RenderInv'
  <1>1. UNCHANGED <<row, cfg, req>>
    BY DEF DocumentFails
  <1>2. ActiveSet' = ActiveSet
    BY <1>1, SameRows
  <1>3. Done(x) /\ missed' = TRUE
    BY DocumentFailsTyped
  <1> QED
    BY <1>1, <1>2, <1>3, DoneCurrent, RunnerKeeps DEF Done, Written

LEMMA WorkerJobKeeps ==
    ASSUME TypeInv, RenderInv, NEW w \in Worker, WorkerJob(w)
    PROVE  RenderInv'
  <1>1. UNCHANGED <<row, cfg, reply, doc, req, missed>> /\ w \in Runner
    BY DEF WorkerJob, Runner
  <1>2. ActiveSet' = ActiveSet
    BY <1>1, SameRows
  <1>3. GoesRun(w, "clear") /\ run[w].pc = "job" /\ run[w].left = {}
    BY <1>1, WorkerJobTyped, RunKnown
  <1>4. Current(w)'
    BY <1>1, <1>2, <1>3, GoingCurrent
  <1>5. Written(w)'
    <2>1. AllRight' = AllRight
      BY <1>1, <1>2, SameUrls
    <2> QED
      BY <1>1, <1>3, <2>1 DEF RenderInv, Written, GoesRun
  <1> QED
    BY <1>1, <1>2, <1>3, <1>4, <1>5, SameUrls, RunnerKeeps DEF GoesRun

\* A worker that clears the flag has left every URL right, or it is missed.
LEMMA RightWhenCleared ==
    ASSUME RenderInv, NEW w \in Worker, run[w].pc = "clear" \/ reply[w] = "clear",
           missed' = (missed \/ run[w].stale), UNCHANGED doc, ActiveSet' = ActiveSet
    PROVE  (missed => missed') /\ (missed' \/ AllRight')
  <1>1. AllRight' = AllRight
    BY SameUrls
  <1> QED
    BY <1>1 DEF RenderInv, Written

LEMMA WorkerClearKeeps ==
    ASSUME TypeInv, RenderInv, NEW w \in Worker, WorkerClear(w)
    PROVE  RenderInv'
  <1>1. /\ UNCHANGED <<row, reply, doc, req>> /\ missed' = (missed \/ run[w].stale)
        /\ w \in Runner /\ cfg'.style = cfg.style
    BY WorkerClearTyped DEF WorkerClear, Runner
  <1>2. ActiveSet' = ActiveSet
    BY <1>1, SameRows
  <1>3. OtherRuns(w) /\ run[w].pc = "clear" /\ run'[w].pc = "idle"
    BY WorkerClearTyped
  <1>4. (missed => missed') /\ (missed' \/ AllRight')
    BY <1>1, <1>2, <1>3, RightWhenCleared
  <1>5. Current(w)' /\ Written(w)'
    BY <1>3, <1>4 DEF Current, Written
  <1> QED
    BY <1>1, <1>2, <1>3, <1>4, <1>5, SameUrls, RunnerKeeps

LEMMA ServerClearKeeps ==
    ASSUME TypeInv, RenderInv, NEW w \in Worker, ServerClear(w)
    PROVE  RenderInv'
  <1>1. /\ UNCHANGED <<row, run, doc, req>> /\ missed' = (missed \/ run[w].stale)
        /\ w \in Runner /\ cfg'.style = cfg.style /\ OtherRuns(w)
    BY ServerClearTyped DEF ServerClear, Runner, OtherRuns
  <1>2. ActiveSet' = ActiveSet
    BY <1>1, SameRows
  <1>3. reply[w] = "clear" /\ OtherReplies(w)
    BY ServerClearTyped
  <1>4. (missed => missed') /\ (missed' \/ AllRight')
    BY <1>1, <1>2, <1>3, RightWhenCleared
  <1>5. Current(w)'
    BY <1>1, <1>2 DEF RenderInv, Current
  <1>6. Written(w)'
    <2>1. run[w].pc \in {"idle", "job", "clear"}
      BY <1>3 DEF TypeInv, RunTyped
    <2> QED
      BY <1>1, <1>4, <2>1 DEF Written
  <1> QED
    BY <1>1, <1>2, <1>3, <1>4, <1>5, <1>6, SameUrls, RunnerKeeps DEF OtherReplies

LEMMA ServerJobKeeps ==
    ASSUME TypeInv, RenderInv, NEW w \in Worker, ServerJob(w)
    PROVE  RenderInv'
  <1>1. UNCHANGED <<row, cfg, run, doc, req, missed>> /\ w \in Runner /\ OtherRuns(w)
    BY DEF ServerJob, Runner, OtherRuns
  <1>2. ActiveSet' = ActiveSet
    BY <1>1, SameRows
  <1>3. reply[w] = "job" /\ OtherReplies(w)
    BY ServerJobTyped
  <1>4. Current(w)'
    BY <1>1, <1>2 DEF RenderInv, Current
  <1>5. Written(w)'
    <2>1. run[w].pc \in {"idle", "job", "clear"} /\ AllRight' = AllRight
      BY <1>1, <1>2, <1>3, SameUrls DEF TypeInv, RunTyped
    <2> QED
      BY <1>1, <1>3, <2>1 DEF RenderInv, Written
  <1> QED
    BY <1>1, <1>2, <1>3, <1>4, <1>5, SameUrls, RunnerKeeps DEF OtherReplies

LEMMA ServerDropKeeps ==
    ASSUME TypeInv, RenderInv, NEW w \in Worker, ServerDrop(w)
    PROVE  RenderInv'
  <1>1. UNCHANGED <<row, cfg, doc, req, missed>> /\ w \in Runner
    BY DEF ServerDrop, Runner
  <1>2. ActiveSet' = ActiveSet
    BY <1>1, SameRows
  <1>3. /\ reply'[w] = "none" /\ OtherReplies(w) /\ OtherRuns(w)
        /\ run'[w].pc = run[w].pc /\ (run[w].pc # "idle" => run'[w] = run[w])
    BY ServerDropTyped
  <1>4. Current(w)'
    BY <1>1, <1>2, <1>3 DEF RenderInv, Current
  <1>5. Written(w)'
    <2>1. DocRight' = DocRight /\ AllRight' = AllRight
      BY <1>1, <1>2, SameUrls
    <2> QED
      BY <1>1, <1>3, <2>1 DEF RenderInv, Written
  <1> QED
    BY <1>1, <1>2, <1>3, <1>4, <1>5, SameUrls, RunnerKeeps DEF OtherReplies

LEMMA WorkerFailsKeeps ==
    ASSUME TypeInv, RenderInv, NEW w \in Worker, WorkerFails(w)
    PROVE  RenderInv'
  <1>1. UNCHANGED <<row, cfg, reply, doc, req, missed>> /\ w \in Runner
    BY DEF WorkerFails, Runner
  <1>2. ActiveSet' = ActiveSet
    BY <1>1, SameRows
  <1>3. OtherRuns(w) /\ run'[w].pc = "idle" /\ reply'[w] = "none"
    BY <1>1, WorkerFailsTyped, NoReplyYet, RunsType
  <1>4. Current(w)' /\ Written(w)'
    BY <1>3 DEF Current, Written
  <1> QED
    BY <1>1, <1>2, <1>3, <1>4, SameUrls, RunnerKeeps

LEMMA SameKeeps ==
    ASSUME RenderInv, UNCHANGED <<row, cfg, run, reply, doc, req, missed>>
    PROVE  RenderInv'
  <1>1. ActiveSet' = ActiveSet
    BY SameRows
  <1>2. DocRight' = DocRight /\ AllRight' = AllRight
    BY <1>1, SameUrls
  <1>3. (\A x \in Runner : Current(x)') /\ (\A w \in Worker : Written(w)')
    BY <1>1, <1>2 DEF RenderInv, Current, Written
  <1>4. Flagged'
    <2>1. Owes' = Owes
      BY DEF Owes, Unmarked, At
    <2> QED
      BY <1>2, <2>1 DEF RenderInv, Flagged
  <1> QED
    BY <1>3, <1>4 DEF RenderInv

LEMMA CrashKeeps ==
    ASSUME TypeInv, RenderInv, Crash
    PROVE  RenderInv'
  <1>1. /\ UNCHANGED <<row, cfg, doc>> /\ missed' = (missed \/ Owes)
        /\ \A x \in Runner : run'[x] = NoRun
        /\ \A w \in Worker : reply'[w] = "none"
    BY DEF Crash, Owes
  <1>2. ActiveSet' = ActiveSet
    BY <1>1, SameRows
  <1>3. (\A x \in Runner : Current(x)') /\ (\A w \in Worker : Written(w)')
    BY <1>1, RunsType DEF Current, Written, Runner
  <1>4. Flagged'
    <2>1. AllRight' = AllRight
      BY <1>1, <1>2, SameUrls
    <2> QED
      BY <1>1, <2>1 DEF RenderInv, Flagged
  <1> QED
    BY <1>3, <1>4 DEF RenderInv

-----------------------------------------------------------------------------
(* The flag tells of the URLs                                              *)

LEMMA InitRenderInv == Init => RenderInv
  <1> SUFFICES ASSUME Init PROVE RenderInv
    OBVIOUS
  <1>1. \A scope : Listing(scope) = {}
    BY DEF Init, Listing, Section, InState, Exists
  <1>2. ASSUME NEW scope PROVE Live(scope) = << >>
    <2> DEFINE order == Sorted({})
    <2>1. order \in Seq({})
      <3>1. RowsTyped
        BY DEF Init, RowsTyped
      <3> QED
        BY <1>1, <3>1, ActiveListable, SortedType DEF Listing
    <2>2. Live(scope) = [k \in DOMAIN order |-> order[k].of.body]
      BY <1>1, LiveIsBodies DEF Bodies
    <2> HIDE DEF order
    <2>3. order = << >>
      BY <2>1
    <2> QED
      BY <2>2, <2>3
  <1>3. \A url : Picked(<< >>, url) = None
    BY DEF Picked, SelectInSeq
  <1>4. AllRight
    BY <1>2, <1>3 DEF AllRight, DocRight, DocumentUrl, TopicUrlUnder, ActiveSet, Init
  <1>5. \A x \in Runner : Current(x)
    BY RunsType DEF Init, Current
  <1>6. \A w \in Worker : Written(w)
    BY <1>4 DEF Init, Written, AllRight
  <1> QED
    BY <1>4, <1>5, <1>6 DEF RenderInv, Flagged

LEMMA RequestKeepsRender ==
    ASSUME TypeInv, RenderInv, NEW r \in Request, RequestStep(r)
    PROVE  RenderInv'
  BY RowStepsKeepFlag, ReadStepsKeepFlag, OtherStepsKeepFlag, Zenon DEF RequestStep

LEMMA NextKeepsRender == TypeInv /\ RenderInv /\ [Next]_vars => RenderInv'
  <1> SUFFICES ASSUME TypeInv, RenderInv, [Next]_vars PROVE RenderInv'
    OBVIOUS
  <1>1. ASSUME NEW x \in Runner, RunStep(x) PROVE RenderInv'
    BY <1>1, ReadPartKeeps, LoadedKeeps, FindDocumentKeeps, SaveDocumentKeeps, WriteTopicsKeeps,
       DocumentFailsKeeps, Zenon DEF RunStep
  <1>2. ASSUME NEW w \in Worker, WorkerStep(w) PROVE RenderInv'
    BY <1>2, WorkerJobKeeps, WorkerClearKeeps, WorkerFailsKeeps, ServerJobKeeps, ServerClearKeeps,
       ServerDropKeeps, Zenon DEF WorkerStep
  <1>3. CASE Expire
    BY <1>3, SameKeeps DEF Expire
  <1>4. CASE UNCHANGED vars
    BY <1>4, SameKeeps DEF vars
  <1> QED
    BY <1>1, <1>2, <1>3, <1>4, RequestKeepsRender, IngestStartKeeps, CrashKeeps, NextSteps, Zenon

LEMMA RenderInvHolds == Spec => [](TypeInv /\ RenderInv)
  BY InitTypeInv, InitRenderInv, NextTyped, NextKeepsRender, PTL DEF Spec

\* With nothing under way and pendingReprocess out, the URL of the document is that
\* of the active templates, unless a change overtook a run or a render.
THEOREM DocumentUrlFollows ==
    Spec => [](Quiet /\ ~cfg.pending /\ ~missed => doc.document = DocumentUrl(ActiveSet))
  <1>1. RenderInv => (Quiet /\ ~cfg.pending /\ ~missed => doc.document = DocumentUrl(ActiveSet))
    BY DEF RenderInv, Flagged, Quiet, Owes, Unmarked, At, AllRight, DocRight
  <1> QED
    BY <1>1, RenderInvHolds, PTL

\* And so are those of its topics, when no template of a topic contains the URL of
\* the document: a topic is rendered before that URL is replaced, so one that
\* contains it is a run behind.
THEOREM FlagTellsOfUrls ==
    ASSUME Nested = {}
    PROVE  Spec => []PendingIsHonest
  <1>1. TypeInv /\ RenderInv => PendingIsHonest
    <2> SUFFICES ASSUME TypeInv, RenderInv, Quiet, ~cfg.pending, ~missed PROVE Follows(ActiveSet)
      BY DEF PendingIsHonest
    <2>1. AllRight
      BY DEF RenderInv, Flagged, Quiet, Owes, Unmarked, At
    <2>2. doc.document = DocumentUrl(ActiveSet) /\ doc.topic = TopicUrlUnder(ActiveSet, DocumentUrl(ActiveSet))
      BY <2>1, Flat DEF AllRight, DocRight
    <2>3. doc \in Url
      BY DEF TypeInv, Misc
    <2> QED
      BY <2>2, <2>3 DEF Follows, Url
  <1> QED
    BY <1>1, RenderInvHolds, PTL

-----------------------------------------------------------------------------
(* Numbers                                                                 *)

LEMMA HasLeast ==
    ASSUME NEW I, I \subseteq Nat, I # {}
    PROVE  \E n \in I : \A m \in I : n <= m
  <1>1. \E n \in I : \A m \in I : ~ (<<m, n>> \in OpToRel(<, Nat))
    BY WFMin, NatLessThanWellFounded, Zenon
  <1>2. PICK n \in I : \A m \in I : ~ (m < n)
    BY <1>1, Zenon DEF OpToRel
  <1> QED
    BY <1>2

-----------------------------------------------------------------------------
(* FlattenSeq                                                              *)

\* g lists what the first sequences of ss are together, n times one more.
Flattens(g, ss, n) == g = [i \in 1..n |-> IF i = 1 THEN ss[i] ELSE g[i - 1] \o ss[i]]

LEMMA FlattensAt ==
    ASSUME NEW ss, NEW n, NEW g, Flattens(g, ss, n), NEW i \in 1..n
    PROVE  g[i] = IF i = 1 THEN ss[i] ELSE g[i - 1] \o ss[i]
  BY DEF Flattens

LEMMA CanFlatten ==
    ASSUME NEW ss, NEW n \in Nat
    PROVE  \E g : Flattens(g, ss, n)
  <1> DEFINE I == {m \in Nat : ~ \E g : Flattens(g, ss, m)}
  <1>1. ASSUME NEW m \in I, \A j \in I : m <= j PROVE FALSE
    <2>1. CASE m = 0
      <3>1. Flattens([i \in 1..0 |-> 0], ss, 0)
        BY DEF Flattens
      <3> QED
        BY <2>1, <3>1
    <2>2. CASE m # 0
      <3>1. m - 1 \in Nat /\ m - 1 \notin I
        BY <1>1, <2>2
      <3>2. PICK g : Flattens(g, ss, m - 1)
        BY <3>1
      <3> DEFINE h == [i \in 1..m |-> IF i = m THEN IF i = 1 THEN ss[i] ELSE g[i - 1] \o ss[i]
                                      ELSE g[i]]
      <3>3. \A i \in 1..(m - 1) : g[i] = IF i = 1 THEN ss[i] ELSE g[i - 1] \o ss[i]
        BY <3>2 DEF Flattens
      <3>4. \A i \in 1..m : i # 1 => i - 1 \in 1..(m - 1)
        OBVIOUS
      <3>5. \A i \in 1..m : i # 1 => h[i - 1] = g[i - 1]
        BY <3>4
      <3>6. \A i \in 1..m : h[i] = IF i = 1 THEN ss[i] ELSE h[i - 1] \o ss[i]
        BY <3>3, <3>5
      <3>7. h = [i \in 1..m |-> IF i = 1 THEN ss[i] ELSE h[i - 1] \o ss[i]]
        BY <3>6
      <3> QED
        BY <3>7 DEF Flattens
    <2> QED
      BY <2>1, <2>2
  <1>2. I = {}
    <2>1. I \subseteq Nat
      OBVIOUS
    <2> HIDE DEF I
    <2> QED
      BY <1>1, <2>1, HasLeast
  <1> QED
    BY <1>2

LEMMA FlattensAlike ==
    ASSUME NEW ss, NEW tt, NEW g, NEW h, NEW m \in Nat, NEW n \in Nat,
           Flattens(g, ss, m), Flattens(h, tt, n), m <= n, \A i \in 1..m : ss[i] = tt[i]
    PROVE  \A k \in 1..m : g[k] = h[k]
  <1> DEFINE I == {k \in 1..m : g[k] # h[k]}
  <1>1. ASSUME NEW k \in I, \A j \in I : k <= j PROVE FALSE
    <2>0. k \in 1..m /\ k \in 1..n
      OBVIOUS
    <2>1. g[k] = IF k = 1 THEN ss[k] ELSE g[k - 1] \o ss[k]
      BY <2>0, FlattensAt
    <2>2. h[k] = IF k = 1 THEN tt[k] ELSE h[k - 1] \o tt[k]
      BY <2>0, FlattensAt
    <2>3. k # 1 => g[k - 1] = h[k - 1]
      BY <1>1
    <2> QED
      BY <2>1, <2>2, <2>3
  <1>2. I = {}
    <2>1. I \subseteq Nat
      OBVIOUS
    <2> HIDE DEF I
    <2> QED
      BY <1>1, <2>1, HasLeast
  <1> QED
    BY <1>2

\* FlattenSeq is the last of that list.
LEMMA FlattenIs ==
    ASSUME NEW S, NEW ss \in Seq(S), Len(ss) # 0, NEW g, Flattens(g, ss, Len(ss))
    PROVE  FlattenSeq(ss) = g[Len(ss)]
  <1> DEFINE f == CHOOSE h : Flattens(h, ss, Len(ss))
  <1>1. FlattenSeq(ss) = f[Len(ss)]
    BY DEF FlattenSeq, Flattens
  <1>2. Flattens(f, ss, Len(ss))
    BY CanFlatten
  <1>3. Len(ss) \in Nat /\ Len(ss) \in 1..Len(ss)
    OBVIOUS
  <1> HIDE DEF f
  <1> QED
    BY <1>1, <1>2, <1>3, FlattensAlike

LEMMA FlattenEmpty == FlattenSeq(<<>>) = <<>>
  BY DEF FlattenSeq

\* One more sequence comes to the end.
LEMMA FlattenLast ==
    ASSUME NEW S, NEW ss \in Seq(Seq(S)), NEW x \in Seq(S)
    PROVE  FlattenSeq(Append(ss, x)) = FlattenSeq(ss) \o x
  <1> DEFINE T == Seq(S)
             n == Len(ss)
             tt == Append(ss, x)
  <1>0. ss \in Seq(T) /\ x \in T /\ <<>> \o x = x
    OBVIOUS
  <1> HIDE DEF T
  <1>1. n \in Nat /\ tt \in Seq(T) /\ Len(tt) = n + 1 /\ tt[n + 1] = x
        /\ \A i \in 1..n : tt[i] = ss[i]
    BY <1>0
  <1>n. Len(ss) = n /\ n + 1 \in Nat /\ n + 1 # 0 /\ n <= n + 1 /\ n + 1 \in 1..(n + 1)
        /\ n + 1 - 1 = n /\ (n # 0 => n \in 1..n)
    BY <1>1
  <1>5. CASE n = 0
    <2>1. ss = <<>>
      BY <1>0, <1>5
    <2> HIDE DEF tt
    <2>2. Len(tt) = 1 /\ tt[1] = x /\ 1 \in 1..1
      BY <1>1, <1>5
    <2>3. PICK h : Flattens(h, tt, 1)
      BY CanFlatten
    <2>4. FlattenSeq(tt) = h[1]
      BY <1>1, <2>2, <2>3, FlattenIs
    <2>5. h[1] = x
      BY <2>2, <2>3, FlattensAt
    <2>6. FlattenSeq(ss) \o x = x
      BY <1>0, <2>1, FlattenEmpty
    <2> QED
      BY <2>4, <2>5, <2>6 DEF tt
  <1>6. CASE n # 0
    <2> HIDE DEF tt, n
    <2>1. PICK g : Flattens(g, ss, n)
      BY <1>1, CanFlatten
    <2>2. PICK h : Flattens(h, tt, n + 1)
      BY <1>n, CanFlatten
    <2>3. FlattenSeq(ss) = g[n]
      BY <1>0, <1>6, <1>n, <2>1, FlattenIs
    <2>4. FlattenSeq(tt) = h[n + 1]
      BY <1>1, <1>n, <2>2, FlattenIs
    <2>a. \A i \in 1..n : ss[i] = tt[i]
      BY <1>1
    <2>b. \A k \in 1..n : g[k] = h[k]
      <3>1. n \in Nat /\ n + 1 \in Nat /\ n <= n + 1
        BY <1>1, <1>n
      <3> QED
        BY <2>1, <2>2, <2>a, <3>1, FlattensAlike, SMT
    <2>5. g[n] = h[n]
      BY <1>6, <1>n, <2>b
    <2>6. h[n + 1] = IF n + 1 = 1 THEN tt[n + 1] ELSE h[n + 1 - 1] \o tt[n + 1]
      BY <1>n, <2>2, FlattensAt
    <2>7. h[n + 1] = h[n] \o x
      <3>1. n + 1 # 1 /\ n + 1 - 1 = n
        BY <1>6, <1>n
      <3>2. tt[n + 1] = x
        BY <1>1
      <3> QED
        BY <2>6, <3>1, <3>2
    <2>8. tt = Append(ss, x)
      BY DEF tt
    <2> QED
      BY <2>3, <2>4, <2>5, <2>7, <2>8
  <1> QED
    BY <1>5, <1>6

\* Induction: a set that holds the empty sequence and is closed under Append holds
\* every sequence.
LEMMA EverySequence ==
    ASSUME NEW T, NEW P, P \subseteq Seq(T), <<>> \in P,
           \A s \in P, x \in T : Append(s, x) \in P
    PROVE  \A s \in Seq(T) : s \in P
  <1> DEFINE I == {n \in Nat : \E s \in Seq(T) : Len(s) = n /\ s \notin P}
  <1>1. ASSUME NEW n \in I, \A j \in I : n <= j PROVE FALSE
    <2>1. PICK s \in Seq(T) : Len(s) = n /\ s \notin P
      OBVIOUS
    <2>2. n # 0
      BY <2>1
    <2> DEFINE f == [i \in 1..(n - 1) |-> s[i]]
    <2>3. f \in Seq(T) /\ Len(f) = n - 1 /\ n - 1 \in Nat
      BY <2>1, <2>2
    <2>4. s[n] \in T /\ s = Append(f, s[n])
      BY <2>1, <2>2, <2>3
    <2> HIDE DEF f
    <2>5. f \in P
      <3>1. n - 1 \notin I
        BY <1>1, <2>3
      <3> QED
        BY <2>3, <3>1
    <2> QED
      BY <2>1, <2>4, <2>5
  <1>2. I = {}
    <2>1. I \subseteq Nat
      OBVIOUS
    <2> HIDE DEF I
    <2> QED
      BY <1>1, <2>1, HasLeast
  <1>3. \A s \in Seq(T) : Len(s) \in Nat
    OBVIOUS
  <1> QED
    BY <1>2, <1>3

LEMMA FlattenType ==
    ASSUME NEW S
    PROVE  \A ss \in Seq(Seq(S)) : FlattenSeq(ss) \in Seq(S)
  <1> DEFINE T == Seq(S)
             P == {ss \in Seq(T) : FlattenSeq(ss) \in T}
  <1>1. <<>> \in P
    <2>1. <<>> \in T /\ <<>> \in Seq(T)
      OBVIOUS
    <2> HIDE DEF T
    <2> QED
      BY <2>1, FlattenEmpty
  <1>2. ASSUME NEW ss \in P, NEW x \in T PROVE Append(ss, x) \in P
    <2>1. FlattenSeq(Append(ss, x)) = FlattenSeq(ss) \o x
      BY FlattenLast
    <2>2. FlattenSeq(ss) \o x \in T
      OBVIOUS
    <2> HIDE DEF T
    <2>3. Append(ss, x) \in Seq(T)
      OBVIOUS
    <2> QED
      BY <2>1, <2>2, <2>3
  <1>3. P \subseteq Seq(T)
    OBVIOUS
  <1>4. \A s \in Seq(T) : s \in P
    <2> HIDE DEF P, T
    <2> QED
      BY <1>1, <1>2, <1>3, EverySequence
  <1> QED
    BY <1>4

LEMMA FlattenOne ==
    ASSUME NEW S, NEW x \in Seq(S)
    PROVE  FlattenSeq(<<x>>) = x
  <1>1. <<>> \in Seq(Seq(S)) /\ Append(<<>>, x) = <<x>> /\ <<>> \o x = x
    OBVIOUS
  <1> QED
    BY <1>1, FlattenLast, FlattenEmpty

LEMMA FlattenConcat ==
    ASSUME NEW S, NEW ss \in Seq(Seq(S))
    PROVE  \A tt \in Seq(Seq(S)) : FlattenSeq(ss \o tt) = FlattenSeq(ss) \o FlattenSeq(tt)
  <1> DEFINE T == Seq(S)
             P == {tt \in Seq(T) : FlattenSeq(ss \o tt) = FlattenSeq(ss) \o FlattenSeq(tt)}
  <1>1. <<>> \in P
    <2>1. FlattenSeq(ss) \in Seq(S)
      BY FlattenType
    <2>2. ss \o <<>> = ss /\ FlattenSeq(ss) \o <<>> = FlattenSeq(ss) /\ <<>> \in Seq(T)
      BY <2>1
    <2> QED
      BY <2>2, FlattenEmpty
  <1>2. ASSUME NEW tt \in P, NEW x \in T PROVE Append(tt, x) \in P
    <2>1. tt \in Seq(T) /\ ss \in Seq(T)
      OBVIOUS
    <2>2. ss \o tt \in Seq(T) /\ Append(tt, x) \in Seq(T) /\ ss \o Append(tt, x) = Append(ss \o tt, x)
      <3> HIDE DEF T, P
      <3> QED
        BY <2>1
    <2>3. FlattenSeq(ss \o Append(tt, x)) = FlattenSeq(ss \o tt) \o x
      BY <2>2, FlattenLast
    <2>4. FlattenSeq(Append(tt, x)) = FlattenSeq(tt) \o x
      BY <2>1, FlattenLast
    <2>5. FlattenSeq(ss \o tt) = FlattenSeq(ss) \o FlattenSeq(tt)
      OBVIOUS
    <2>6. FlattenSeq(ss) \in Seq(S) /\ FlattenSeq(tt) \in Seq(S) /\ x \in Seq(S)
      BY <2>1, FlattenType
    <2>7. (FlattenSeq(ss) \o FlattenSeq(tt)) \o x = FlattenSeq(ss) \o (FlattenSeq(tt) \o x)
      BY <2>6
    <2> QED
      BY <2>2, <2>3, <2>4, <2>5, <2>7
  <1>3. P \subseteq Seq(T)
    OBVIOUS
  <1>4. \A s \in Seq(T) : s \in P
    <2> HIDE DEF P, T
    <2> QED
      BY <1>1, <1>2, <1>3, EverySequence
  <1> QED
    BY <1>4

LEMMA FlattenNothing ==
    ASSUME NEW S
    PROVE  \A ss \in Seq(Seq(S)) : (\A i \in 1..Len(ss) : ss[i] = <<>>) => FlattenSeq(ss) = <<>>
  <1> DEFINE T == Seq(S)
             P == {ss \in Seq(T) : (\A i \in 1..Len(ss) : ss[i] = <<>>) => FlattenSeq(ss) = <<>>}
  <1>1. <<>> \in P
    BY FlattenEmpty
  <1>2. ASSUME NEW ss \in P, NEW x \in T PROVE Append(ss, x) \in P
    <2>1. FlattenSeq(Append(ss, x)) = FlattenSeq(ss) \o x
      BY FlattenLast
    <2>2. /\ Append(ss, x) \in Seq(T) /\ Len(ss) \in Nat /\ Len(Append(ss, x)) = Len(ss) + 1
          /\ Append(ss, x)[Len(ss) + 1] = x /\ \A i \in 1..Len(ss) : Append(ss, x)[i] = ss[i]
      <3>1. ss \in Seq(T)
        OBVIOUS
      <3> HIDE DEF T, P
      <3> QED
        BY <3>1
    <2>3. ASSUME \A i \in 1..(Len(ss) + 1) : Append(ss, x)[i] = <<>>
          PROVE  FlattenSeq(ss) = <<>> /\ x = <<>>
      BY <2>2, <2>3
    <2>4. <<>> \o <<>> = <<>>
      OBVIOUS
    <2> QED
      BY <2>1, <2>2, <2>3, <2>4
  <1>3. P \subseteq Seq(T)
    OBVIOUS
  <1>4. \A s \in Seq(T) : s \in P
    <2> HIDE DEF P, T
    <2> QED
      BY <1>1, <1>2, <1>3, EverySequence
  <1> QED
    BY <1>4

\* The blocks may be put together one by one first.
LEMMA FlattenTwice ==
    ASSUME NEW S
    PROVE  \A sss \in Seq(Seq(Seq(S))) :
              FlattenSeq(FlattenSeq(sss)) = FlattenSeq([i \in DOMAIN sss |-> FlattenSeq(sss[i])])
  <1> DEFINE T == Seq(Seq(S))
             Each(sss) == [i \in DOMAIN sss |-> FlattenSeq(sss[i])]
             P == {sss \in Seq(T) : FlattenSeq(FlattenSeq(sss)) = FlattenSeq(Each(sss))}
  <1>1. <<>> \in P
    <2>1. Each(<<>>) = <<>>
      OBVIOUS
    <2> QED
      BY <2>1, FlattenEmpty
  <1>2. ASSUME NEW sss \in P, NEW x \in T PROVE Append(sss, x) \in P
    <2>1. sss \in Seq(T)
      OBVIOUS
    <2>2. /\ Append(sss, x) \in Seq(T) /\ Len(sss) \in Nat
          /\ DOMAIN sss = 1..Len(sss) /\ DOMAIN Append(sss, x) = 1..(Len(sss) + 1)
          /\ Append(sss, x)[Len(sss) + 1] = x /\ \A i \in 1..Len(sss) : Append(sss, x)[i] = sss[i]
          /\ \A i \in 1..Len(sss) : sss[i] \in T
      <3> HIDE DEF T, P, Each
      <3> QED
        BY <2>1
    <2>3. FlattenSeq(sss) \in T /\ FlattenSeq(x) \in Seq(S)
      BY <2>1, FlattenType
    <2>4. Each(sss) \in Seq(Seq(S))
      <3>1. \A i \in 1..Len(sss) : FlattenSeq(sss[i]) \in Seq(S)
        BY <2>2, FlattenType
      <3> HIDE DEF T, P
      <3> QED
        BY <2>2, <3>1
    <2>5. Each(Append(sss, x)) = Append(Each(sss), FlattenSeq(x))
      <3> HIDE DEF T, P
      <3>1. Len(Each(sss)) = Len(sss)
        BY <2>2
      <3> QED
        BY <2>2, <2>4, <3>1
    <2>6. FlattenSeq(Each(Append(sss, x))) = FlattenSeq(Each(sss)) \o FlattenSeq(x)
      BY <2>3, <2>4, <2>5, FlattenLast
    <2>7. FlattenSeq(Append(sss, x)) = FlattenSeq(sss) \o x
      BY <2>1, FlattenLast
    <2>8. FlattenSeq(FlattenSeq(sss) \o x) = FlattenSeq(FlattenSeq(sss)) \o FlattenSeq(x)
      BY <2>3, FlattenConcat
    <2>9. FlattenSeq(FlattenSeq(sss)) = FlattenSeq(Each(sss))
      OBVIOUS
    <2> HIDE DEF T, Each
    <2> QED
      BY <2>2, <2>6, <2>7, <2>8, <2>9
  <1>3. P \subseteq Seq(T)
    OBVIOUS
  <1>4. \A s \in Seq(T) : s \in P
    <2> HIDE DEF P, T
    <2> QED
      BY <1>1, <1>2, <1>3, EverySequence
  <1> QED
    BY <1>4

-----------------------------------------------------------------------------
(* A URL and its template                                                  *)

\* An active template: its tokens are texts and keys.
ActiveTemplate ==
    [template : Template,
     requirements : UNION {[ks -> Engine!Requirement] : ks \in SUBSET Guarded}]

\* The URL of the document: of two segments, or none.
OwnUrl == {<<s, t>> : s, t \in Segment} \cup {Unset}

EngineInv ==
    /\ subject \in Engine!Source
    /\ ofDocument \in [Engine!Key -> Engine!Text \cup OwnUrl]
    /\ ofTopic \in [Engine!Key -> Engine!Text]
    /\ \A k \in Bare \cup {Engine!Title} : ofDocument[k] \in Engine!Text
    /\ \A k \in Engine!Path : ofDocument[k] \in OwnUrl /\ ofTopic[k] = Unset
    /\ templates \in Seq(ActiveTemplate)

LEMMA PathsApart == (Bare \cup {Engine!Title}) \cap Engine!Path = {}
  BY UrlAssumption DEF Engine!Given, Engine!Title, Engine!Path, Engine!OwnPath, Engine!DocPath

LEMMA EngineInit == Engine!Init => EngineInv
  <1> SUFFICES ASSUME Engine!Init PROVE EngineInv
    OBVIOUS
  <1>1. templates \in Seq(ActiveTemplate)
    BY DEF Engine!Init
  <1>2. \A k \in Engine!Key : ofDocument[k] = Unset /\ ofTopic[k] = Unset
    BY DEF Engine!Init, Engine!Value0
  <1>3. Bare \cup {Engine!Title} \subseteq Engine!Key /\ Engine!Path \subseteq Engine!Key
    BY DEF Engine!Key
  <1>4. ofDocument \in [Engine!Key -> {Unset}] /\ ofTopic \in [Engine!Key -> {Unset}]
    BY DEF Engine!Init, Engine!Value0
  <1> QED
    BY <1>1, <1>2, <1>3, <1>4 DEF EngineInv, Engine!Init, OwnUrl, Engine!Text

LEMMA EngineNext == EngineInv /\ [Engine!Next]_(Engine!vars) => EngineInv'
  <1> SUFFICES ASSUME EngineInv, [Engine!Next]_(Engine!vars) PROVE EngineInv'
    OBVIOUS
  <1>a. Bare \cup {Engine!Title} \subseteq Engine!Key /\ Engine!Path \subseteq Engine!Key
    BY DEF Engine!Key
  <1>1. CASE Engine!EditDocument
    <2>1. UNCHANGED <<subject, ofTopic, templates>>
      BY <1>1 DEF Engine!EditDocument
    <2>2. ASSUME NEW k \in Bare \cup {Engine!Title}, NEW v \in Engine!Text,
                 ofDocument' = [ofDocument EXCEPT ![k] = v]
          PROVE  EngineInv'
      <3>1. \A q \in Engine!Key : ofDocument'[q] = IF q = k THEN v ELSE ofDocument[q]
        BY <2>2 DEF EngineInv
      <3>2. ofDocument' \in [Engine!Key -> Engine!Text \cup OwnUrl]
        BY <2>2 DEF EngineInv
      <3> QED
        BY <1>a, <2>1, <3>1, <3>2, PathsApart DEF EngineInv
    <2>3. ASSUME NEW p \in OwnUrl,
                 ofDocument' = [k \in Engine!Key |-> IF k \in Engine!Path THEN p ELSE ofDocument[k]]
          PROVE  EngineInv'
      <3>1. \A q \in Engine!Key : ofDocument'[q] = IF q \in Engine!Path THEN p ELSE ofDocument[q]
        BY <2>3
      <3>2. ofDocument' \in [Engine!Key -> Engine!Text \cup OwnUrl]
        BY <2>3 DEF EngineInv
      <3> QED
        BY <1>a, <2>1, <3>1, <3>2, PathsApart DEF EngineInv
    <2> QED
      BY <1>1, <2>2, <2>3 DEF Engine!EditDocument, OwnUrl
  <1>2. CASE Engine!EditTopic
    <2>1. UNCHANGED <<subject, ofDocument, templates>>
      BY <1>2 DEF Engine!EditTopic
    <2>2. PICK k \in Bare \cup {Engine!Title}, v \in Engine!Text :
             ofTopic' = [ofTopic EXCEPT ![k] = v]
      BY <1>2 DEF Engine!EditTopic
    <2>3. \A q \in Engine!Key : ofTopic'[q] = IF q = k THEN v ELSE ofTopic[q]
      BY <2>2 DEF EngineInv
    <2>4. ofTopic' \in [Engine!Key -> Engine!Text]
      BY <2>2 DEF EngineInv
    <2> QED
      BY <1>a, <2>1, <2>3, <2>4, PathsApart DEF EngineInv
  <1>3. CASE Engine!ActivateRow
    <2>1. UNCHANGED <<subject, ofDocument, ofTopic>>
      BY <1>3 DEF Engine!ActivateRow
    <2>2. PICK t \in Template, ks \in SUBSET Guarded : \E r \in [ks -> Engine!Requirement] :
             templates' = Append(templates, [template |-> t, requirements |-> r])
      BY <1>3 DEF Engine!ActivateRow
    <2>3. PICK r \in [ks -> Engine!Requirement] :
             templates' = Append(templates, [template |-> t, requirements |-> r])
      BY <2>2
    <2>4. [template |-> t, requirements |-> r] \in ActiveTemplate
      BY DEF ActiveTemplate
    <2>5. templates' \in Seq(ActiveTemplate)
      BY <2>3, <2>4 DEF EngineInv
    <2> QED
      BY <2>1, <2>5 DEF EngineInv
  <1>4. CASE Engine!ClearRows
    <2>1. UNCHANGED <<subject, ofDocument, ofTopic>> /\ templates' = <<>>
      BY <1>4 DEF Engine!ClearRows
    <2> QED
      BY <2>1 DEF EngineInv
  <1>5. CASE UNCHANGED Engine!vars
    BY <1>5 DEF EngineInv, Engine!vars
  <1> QED
    BY <1>1, <1>2, <1>3, <1>4, <1>5 DEF Engine!Next

\* Whatever edits come, the engine reads texts by key, the URL of a document has two
\* segments or is missing, and a topic is loaded without one of its own
\* (renderForDocument, renderForTopic).
THEOREM EngineTyped == Engine!Spec => []EngineInv
  BY EngineInit, EngineNext, PTL DEF Engine!Spec

\* What stands at a place of an active template.
LEMMA TokensKnown ==
    ASSUME NEW entry \in ActiveTemplate
    PROVE  /\ entry.template \in Seq(Seq(Literal \cup Engine!Key))
           /\ DOMAIN entry.template = 1..Len(entry.template)
           /\ \A n \in DOMAIN entry.template :
                 /\ entry.template[n] \in Seq(Literal \cup Engine!Key)
                 /\ DOMAIN entry.template[n] = 1..Len(entry.template[n])
                 /\ \A m \in DOMAIN entry.template[n] :
                       entry.template[n][m] \in Literal \cup Engine!Key
  <1>1. entry.template \in Seq(Seq(Literal \cup Engine!Key))
    BY UrlAssumption DEF Engine!Given, ActiveTemplate
  <1>2. ASSUME NEW n \in DOMAIN entry.template
        PROVE  entry.template[n] \in Seq(Literal \cup Engine!Key)
    BY <1>1, <1>2
  <1> QED
    BY <1>1, <1>2

LEMMA RowsKnown ==
    ASSUME EngineInv
    PROVE  DOMAIN templates = 1..Len(templates) /\ \A n \in DOMAIN templates : templates[n] \in ActiveTemplate
  BY DEF EngineInv

\* The values that a topic with a title reads, whatever becomes of its document's.
OnlyTheDocument ==
    /\ subject = "topic" /\ ofTopic' = ofTopic /\ templates' = templates
    /\ ofTopic[Engine!Title] # Unset
    /\ \A n \in DOMAIN templates : DOMAIN templates[n].requirements = {}
    /\ \A k \in Engine!Path : ofDocument'[k] = ofDocument[k]

LEMMA SameReadings ==
    ASSUME OnlyTheDocument, subject' = subject, NEW n \in DOMAIN templates, NEW k \in Engine!Key
    PROVE  Engine!Read(templates[n], k)' = Engine!Read(templates[n], k)
  <1> DEFINE entry == templates[n]
  <1>1. templates' = templates /\ DOMAIN entry.requirements = {}
    BY DEF OnlyTheDocument
  <1>2. CASE k \in Bare
    BY <1>1, <1>2 DEF OnlyTheDocument, Engine!Read, Engine!SourceOf, Engine!Value, Engine!OfTopic
  <1>3. CASE k \in Engine!Path
    BY <1>1, <1>3 DEF OnlyTheDocument, Engine!Read, Engine!SourceOf, Engine!Value, Engine!OfTopic,
                      Engine!OrElse
  <1>4. CASE k = Engine!Title
    BY <1>1, <1>4 DEF OnlyTheDocument, Engine!Read, Engine!SourceOf, Engine!Value, Engine!OfTopic,
                      Engine!OrElse, Engine!Title, Engine!DocPath
  <1> QED
    BY <1>2, <1>3, <1>4 DEF Engine!Key

\* Equal readings make equal URLs.
LEMMA SameRendering ==
    ASSUME EngineInv, templates' = templates, NEW n \in DOMAIN templates,
           \A k \in Engine!Key : Engine!Read(templates[n], k)' = Engine!Read(templates[n], k)
    PROVE  /\ Engine!Missing(templates[n])' = Engine!Missing(templates[n])
           /\ Engine!Rendered(templates[n])' = Engine!Rendered(templates[n])
  <1> DEFINE entry == templates[n]
             read(k) == Engine!Read(entry, k)
  <1>1. entry' = entry
    OBVIOUS
  <1>2. Engine!Missing(entry)' = Engine!Missing(entry)
    <2>1. Engine!Variables(entry)' = Engine!Variables(entry) /\ Engine!Variables(entry) \subseteq Engine!Key
      BY <1>1 DEF Engine!Variables
    <2>2. \A k \in Engine!Key : Engine!Required(entry, k)' = Engine!Required(entry, k)
      BY <1>1 DEF Engine!Required
    <2> QED
      BY <2>1, <2>2 DEF Engine!Missing
  <1>3. entry \in ActiveTemplate
    BY RowsKnown
  <1>4. ASSUME NEW t \in Literal \cup Engine!Key
        PROVE  /\ Engine!Fragments(entry, t)' = Engine!Fragments(entry, t)
               /\ Engine!Segments(entry, t)' = Engine!Segments(entry, t)
    <2>1. CASE t \in Literal
      <3>1. t \notin Engine!Path
        BY <2>1, UrlAssumption DEF Engine!Given, Engine!Key
      <3> QED
        BY <1>1, <2>1, <3>1 DEF Engine!Fragments, Engine!Segments
    <2>2. CASE t \in Engine!Key
      BY <1>1, <2>2 DEF Engine!Fragments, Engine!Segments
    <2> QED
      BY <2>1, <2>2
  <1>5. ASSUME NEW s \in DOMAIN entry.template, NEW m \in DOMAIN entry.template[s]
        PROVE  /\ Engine!Fragments(entry, entry.template[s][m])' = Engine!Fragments(entry, entry.template[s][m])
               /\ Engine!Segments(entry, entry.template[s][m])' = Engine!Segments(entry, entry.template[s][m])
    BY <1>1, <1>3, <1>4, TokensKnown
  <1>6. Engine!Rendered(entry)' = Engine!Rendered(entry)
    BY <1>1, <1>5 DEF Engine!Rendered
  <1> QED
    BY <1>2, <1>6

LEMMA SubjectKept == [Engine!Next]_(Engine!vars) => subject' = subject
  BY DEF Engine!Next, Engine!EditDocument, Engine!EditTopic, Engine!ActivateRow, Engine!ClearRows,
         Engine!vars

LEMMA SameUrl ==
    ASSUME EngineInv, templates' = templates,
           \A n \in DOMAIN templates : /\ Engine!Missing(templates[n])' = Engine!Missing(templates[n])
                                       /\ Engine!Rendered(templates[n])' = Engine!Rendered(templates[n])
    PROVE  Engine!Url' = Engine!Url
  <1> DEFINE Whole == {n \in 1..Len(templates) : Engine!Missing(templates[n]) = {}}
  <1>1. Engine!Pick = IF Whole # {} THEN Min(Whole) ELSE 0
    BY DEF Engine!Pick, Engine!SelectInSeq, Engine!Min, Min
  <1>2. Engine!Pick' = IF Whole' # {} THEN Min(Whole') ELSE 0
    BY DEF Engine!Pick, Engine!SelectInSeq, Engine!Min, Min
  <1>3. Whole' = Whole
    BY RowsKnown
  <1>4. Engine!Pick' = Engine!Pick
    BY <1>1, <1>2, <1>3
  <1>5. Whole \subseteq DOMAIN templates
    BY RowsKnown
  <1>6. Engine!Pick # 0 => Engine!Pick \in DOMAIN templates
    <2>1. Whole # {} => Min(Whole) \in Whole
      <3> SUFFICES ASSUME Whole # {} PROVE Min(Whole) \in Whole
        OBVIOUS
      <3>1. Whole \subseteq Nat
        BY RowsKnown
      <3>2. PICK x \in Whole : \A y \in Whole : x <= y
        BY <3>1, HasLeast
      <3> QED
        BY <3>1, <3>2 DEF Min
    <2> QED
      BY <1>1, <1>5, <2>1
  <1> QED
    BY <1>4, <1>6 DEF Engine!Url

LEMMA TopicEdits == EngineInv /\ [Engine!Next]_(Engine!vars) /\ OnlyTheDocument => Engine!Url' = Engine!Url
  <1> SUFFICES ASSUME EngineInv, [Engine!Next]_(Engine!vars), OnlyTheDocument
               PROVE  Engine!Url' = Engine!Url
    OBVIOUS
  <1>1. subject' = subject
    BY SubjectKept
  <1>2. \A n \in DOMAIN templates : \A k \in Engine!Key :
           Engine!Read(templates[n], k)' = Engine!Read(templates[n], k)
    BY <1>1, SameReadings
  <1>3. templates' = templates
    BY DEF OnlyTheDocument
  <1>4. \A n \in DOMAIN templates : /\ Engine!Missing(templates[n])' = Engine!Missing(templates[n])
                                    /\ Engine!Rendered(templates[n])' = Engine!Rendered(templates[n])
    BY <1>2, <1>3, SameRendering
  <1> QED
    BY <1>3, <1>4, SameUrl

\* A topic with a title keeps its URL whatever happens to the title and the metadata of
\* its document, for any templates without requirements (resolveVariable).
THEOREM TopicUrlIsItsOwn == Engine!Spec => TopicKeepsItsOwn
  <1>1. EngineInv /\ [Engine!Next]_(Engine!vars)
        => [OnlyTheDocument => Engine!Url' = Engine!Url]_(Engine!vars)
    BY TopicEdits
  <1> QED
    BY <1>1, EngineTyped, PTL
       DEF OnlyTheDocument, TopicKeepsItsOwn, Engine!TopicKeepsItsOwn, Engine!Spec

\* Texts, values and segments, of which paths are made.
Letter == Literal \cup Engine!Text \cup Segment

LEMMA SameFlatten == \A ss : Engine!FlattenSeq(ss) = FlattenSeq(ss)
  BY DEF Engine!FlattenSeq, FlattenSeq

LEMMA ReadTyped ==
    ASSUME EngineInv, NEW entry \in ActiveTemplate
    PROVE  /\ \A k \in Bare \cup {Engine!Title} : Engine!Read(entry, k) \in Engine!Text
           /\ \A k \in Engine!Path : Engine!Read(entry, k) \in OwnUrl
  <1>1. \A k \in Engine!Key : /\ Engine!OfTopic(k) \in {ofTopic[k], Unset}
                              /\ \A source : Engine!Value(k, source) \in {Engine!OfTopic(k), ofDocument[k]}
    BY DEF Engine!OfTopic, Engine!Value, Engine!OrElse
  <1>2. \A k \in Engine!Key : Engine!Read(entry, k) \in {ofTopic[k], Unset, ofDocument[k]}
    BY <1>1 DEF Engine!Read
  <1>3. Bare \cup {Engine!Title} \subseteq Engine!Key /\ Engine!Path \subseteq Engine!Key
    BY DEF Engine!Key
  <1> QED
    BY <1>2, <1>3 DEF EngineInv, Engine!Text, OwnUrl

LEMMA TokenTyped ==
    ASSUME EngineInv, NEW entry \in ActiveTemplate, NEW t \in Literal \cup Engine!Key
    PROVE  /\ Engine!Fragments(entry, t) \in Seq(Letter)
           /\ Engine!Segments(entry, t) \in Seq(Seq(Letter))
           /\ t \in Engine!Path => Engine!Fragments(entry, t) = <<>>
           /\ t \notin Engine!Path => Engine!Segments(entry, t) = <<>>
  <1>1. t \in Engine!Path => t \notin Literal
    BY UrlAssumption DEF Engine!Given, Engine!Key
  <1>2. \A x \in Letter : Engine!Slug(x) \in Seq(Letter)
    BY DEF Engine!Slug
  <1>3. t \notin Engine!Path => t \in Literal \/ Engine!Read(entry, t) \in Engine!Text
    BY ReadTyped DEF Engine!Key
  <1>4. Engine!Fragments(entry, t) \in Seq(Letter)
    BY <1>2, <1>3 DEF Engine!Fragments, Letter
  <1>5. Engine!Segments(entry, t) \in Seq(Seq(Letter))
    <2>1. CASE t \in Engine!Path /\ Engine!Read(entry, t) # Unset
      <3>1. PICK a \in Segment, b \in Segment : Engine!Read(entry, t) = <<a, b>>
        BY <2>1, ReadTyped DEF OwnUrl
      <3>2. Engine!Segments(entry, t) = [n \in 1..2 |-> <<Engine!Read(entry, t)[n]>>]
        BY <2>1, <3>1 DEF Engine!Segments
      <3>3. \A n \in 1..2 : <<Engine!Read(entry, t)[n]>> \in Seq(Letter)
        BY <3>1 DEF Letter
      <3> QED
        BY <3>2, <3>3
    <2>2. CASE ~ (t \in Engine!Path /\ Engine!Read(entry, t) # Unset)
      BY <2>2 DEF Engine!Segments
    <2> QED
      BY <2>1, <2>2
  <1> QED
    BY <1>1, <1>4, <1>5 DEF Engine!Fragments, Engine!Segments

\* A path that has a segment to itself leaves the rest of the template as it is.
LEMMA SegmentReads ==
    ASSUME EngineInv, NEW entry \in ActiveTemplate, NEW tokens \in Seq(Literal \cup Engine!Key),
           \A m \in DOMAIN tokens : tokens[m] \in Engine!Path => Len(tokens) = 1
    PROVE  LET above == FlattenSeq([m \in DOMAIN tokens |-> Engine!Segments(entry, tokens[m])])
               own == FlattenSeq([m \in DOMAIN tokens |-> Engine!Fragments(entry, tokens[m])])
               block == above \o Engine!NonEmpty(own)
               reading == FlattenSeq([m \in DOMAIN tokens |->
                   Engine!Fragments(entry, tokens[m]) \o FlattenSeq(Engine!Segments(entry, tokens[m]))])
           IN  block \in Seq(Seq(Letter)) /\ FlattenSeq(block) = reading /\ reading \in Seq(Letter)
  <1> DEFINE n == Len(tokens)
             segs == [m \in 1..n |-> Engine!Segments(entry, tokens[m])]
             frags == [m \in 1..n |-> Engine!Fragments(entry, tokens[m])]
             both == [m \in 1..n |->
                   Engine!Fragments(entry, tokens[m]) \o FlattenSeq(Engine!Segments(entry, tokens[m]))]
             block == FlattenSeq(segs) \o Engine!NonEmpty(FlattenSeq(frags))
             W == Seq(Letter)
  <1>1. DOMAIN tokens = 1..n /\ n \in Nat /\ \A m \in 1..n : tokens[m] \in Literal \cup Engine!Key
    OBVIOUS
  <1>2. \A m \in 1..n : /\ Engine!Fragments(entry, tokens[m]) \in W
                        /\ Engine!Segments(entry, tokens[m]) \in Seq(W)
                        /\ tokens[m] \in Engine!Path => Engine!Fragments(entry, tokens[m]) = <<>>
                        /\ tokens[m] \notin Engine!Path => Engine!Segments(entry, tokens[m]) = <<>>
    BY <1>1, TokenTyped
  <1>3. \A m \in 1..n : FlattenSeq(Engine!Segments(entry, tokens[m])) \in W
    BY <1>2, FlattenType
  <1>4. \A m \in 1..n : Engine!Fragments(entry, tokens[m])
                        \o FlattenSeq(Engine!Segments(entry, tokens[m])) \in W
    BY <1>2, <1>3
  <1>5. segs \in Seq(Seq(W)) /\ frags \in Seq(W) /\ both \in Seq(W)
    <2> HIDE DEF n, W
    <2> QED
      BY <1>1, <1>2, <1>4
  <1>6. FlattenSeq(segs) \in Seq(W) /\ FlattenSeq(frags) \in W /\ FlattenSeq(both) \in W
    BY <1>5, FlattenType
  <1>7. \A s \in W : Engine!NonEmpty(s) \in Seq(W) /\ FlattenSeq(Engine!NonEmpty(s)) = s
    <2>1. \A s \in W : FlattenSeq(<<s>>) = s
      BY FlattenOne
    <2> HIDE DEF W
    <2>2. \A s \in W : <<s>> \in Seq(W) /\ <<>> \in Seq(W)
      OBVIOUS
    <2>3. \A s \in W : Engine!NonEmpty(s) = IF s = <<>> THEN <<>> ELSE <<s>>
      BY DEF Engine!NonEmpty
    <2> QED
      BY <2>1, <2>2, <2>3, FlattenEmpty
  <1>8. block \in Seq(W)
    <2> HIDE DEF W, segs, frags
    <2> QED
      BY <1>6, <1>7
  <1>9. FlattenSeq(block) = FlattenSeq(FlattenSeq(segs)) \o FlattenSeq(frags)
    <2> DEFINE a == FlattenSeq(segs)
               b == Engine!NonEmpty(FlattenSeq(frags))
    <2>1. a \in Seq(W) /\ b \in Seq(W) /\ FlattenSeq(b) = FlattenSeq(frags)
      BY <1>6, <1>7
    <2> HIDE DEF a, b
    <2>2. FlattenSeq(a \o b) = FlattenSeq(a) \o FlattenSeq(b)
      BY <2>1, FlattenConcat
    <2> QED
      BY <2>1, <2>2 DEF a, b
  <1>10. FlattenSeq(block) = FlattenSeq(both)
    <2>1. CASE \E m \in 1..n : tokens[m] \in Engine!Path
      <3>1. n = 1 /\ tokens[1] \in Engine!Path
        BY <1>1, <2>1
      <3>2. segs = <<Engine!Segments(entry, tokens[1])>> /\ frags = <<Engine!Fragments(entry, tokens[1])>>
            /\ both = <<Engine!Fragments(entry, tokens[1]) \o FlattenSeq(Engine!Segments(entry, tokens[1]))>>
        BY <3>1
      <3>3. Engine!Fragments(entry, tokens[1]) = <<>> /\ 1 \in 1..n
        BY <1>2, <3>1
      <3>4. FlattenSeq(segs) = Engine!Segments(entry, tokens[1])
        BY <1>2, <3>2, <3>3, FlattenOne
      <3>5. FlattenSeq(frags) = <<>>
        BY <1>2, <3>2, <3>3, FlattenOne
      <3>6. FlattenSeq(both) = <<>> \o FlattenSeq(Engine!Segments(entry, tokens[1]))
        BY <1>4, <3>2, <3>3, FlattenOne
      <3>7. \A s \in W : <<>> \o s = s /\ s \o <<>> = s
        OBVIOUS
      <3> HIDE DEF segs, frags, both, block, W
      <3> QED
        BY <1>3, <1>9, <3>3, <3>4, <3>5, <3>6, <3>7
    <2>2. CASE ~ \E m \in 1..n : tokens[m] \in Engine!Path
      <3>1. \A m \in 1..n : Engine!Segments(entry, tokens[m]) = <<>>
        BY <1>2, <2>2
      <3>2. FlattenSeq(segs) = <<>>
        <4>1. Len(segs) = n /\ \A m \in 1..n : segs[m] = <<>>
          BY <1>1, <3>1
        <4> HIDE DEF segs
        <4> QED
          BY <1>5, <4>1, FlattenNothing
      <3>3. \A s \in W : <<>> \o s = s /\ s \o <<>> = s
        OBVIOUS
      <3>4. \A m \in 1..n : Engine!Fragments(entry, tokens[m])
                            \o FlattenSeq(Engine!Segments(entry, tokens[m])) = Engine!Fragments(entry, tokens[m])
        BY <1>2, <3>1, <3>3, FlattenEmpty
      <3>5. both = frags
        BY <3>4
      <3> HIDE DEF segs, frags, both, block, W
      <3> QED
        BY <1>6, <1>9, <3>2, <3>3, <3>5, FlattenEmpty
    <2> QED
      BY <2>1, <2>2
  <1> QED
    BY <1>1, <1>6, <1>8, <1>10

LEMMA TemplateReads == EngineInv => Engine!ReadsLikeTemplate
  <1> SUFFICES ASSUME EngineInv, NEW n \in DOMAIN templates,
                      \A s \in DOMAIN templates[n].template :
                        \A m \in DOMAIN templates[n].template[s] :
                          templates[n].template[s][m] \in Engine!Path => Len(templates[n].template[s]) = 1
               PROVE  Engine!FlattenSeq(Engine!Rendered(templates[n])) = Engine!Reading(templates[n])
    BY DEF Engine!ReadsLikeTemplate
  <1> DEFINE entry == templates[n]
             tt == entry.template
             Block(s) == FlattenSeq([m \in DOMAIN tt[s] |-> Engine!Segments(entry, tt[s][m])])
                         \o Engine!NonEmpty(FlattenSeq([m \in DOMAIN tt[s] |-> Engine!Fragments(entry, tt[s][m])]))
             Part(s) == FlattenSeq([m \in DOMAIN tt[s] |->
                           Engine!Fragments(entry, tt[s][m]) \o FlattenSeq(Engine!Segments(entry, tt[s][m]))])
             blocks == [s \in DOMAIN tt |-> Block(s)]
             parts == [s \in DOMAIN tt |-> Part(s)]
             W == Seq(Letter)
  <1>1. entry \in ActiveTemplate
    BY RowsKnown
  <1>2. DOMAIN tt = 1..Len(tt) /\ Len(tt) \in Nat
        /\ \A s \in DOMAIN tt : tt[s] \in Seq(Literal \cup Engine!Key)
    BY <1>1, TokensKnown
  <1>3. \A s \in DOMAIN tt : Block(s) \in Seq(W) /\ FlattenSeq(Block(s)) = Part(s) /\ Part(s) \in W
    BY <1>1, <1>2, SegmentReads
  <1>4. Engine!Rendered(entry) = FlattenSeq(blocks)
    BY SameFlatten DEF Engine!Rendered
  <1>5. Engine!Reading(entry) = FlattenSeq(parts)
    BY SameFlatten DEF Engine!Reading
  <1> HIDE DEF Block, Part, entry, tt
  <1>6. blocks \in Seq(Seq(W)) /\ DOMAIN blocks = DOMAIN tt /\ \A s \in DOMAIN tt : blocks[s] = Block(s)
    <2> HIDE DEF W
    <2> QED
      BY <1>2, <1>3
  <1>7. FlattenSeq(FlattenSeq(blocks)) = FlattenSeq([s \in DOMAIN blocks |-> FlattenSeq(blocks[s])])
    <2> HIDE DEF blocks
    <2> QED
      BY <1>6, FlattenTwice
  <1>8. [s \in DOMAIN blocks |-> FlattenSeq(blocks[s])] = parts
    BY <1>3, <1>6
  <1> QED
    BY <1>4, <1>5, <1>7, <1>8, SameFlatten DEF entry

\* The URL of a document or a topic reads like the template it is made from, for all
\* templates, values and requirements (tryRender).
THEOREM UrlReadsLikeItsTemplate == Engine!Spec => []ReadsLikeTemplate
  <1>1. EngineInv => ReadsLikeTemplate
    BY TemplateReads DEF ReadsLikeTemplate
  <1> QED
    BY <1>1, EngineTyped, PTL

-----------------------------------------------------------------------------
(* Sorting                                                                 *)

\* R orders the finite set K.
StrictOrder(K, R) ==
    /\ IsFiniteSet(K)
    /\ \A x \in K : <<x, x>> \notin R
    /\ \A x, y, z \in K : <<x, y>> \in R /\ <<y, z>> \in R => <<x, z>> \in R
    /\ \A x, y \in K : x # y => <<x, y>> \in R \/ <<y, x>> \in R

\* How many come before x, and the elements by that number.
Earlier(K, R, x) == Cardinality({y \in K : <<y, x>> \in R})
InOrder(K, R) == [n \in 1..Cardinality(K) |-> CHOOSE x \in K : Earlier(K, R, x) = n - 1]

LEMMA EarlierRises ==
    ASSUME NEW K, NEW R, StrictOrder(K, R), NEW x \in K, NEW y \in K
    PROVE  /\ Earlier(K, R, x) + 1 \in 1..Cardinality(K)
           /\ Earlier(K, R, x) \in Nat
           /\ <<x, y>> \in R => Earlier(K, R, x) < Earlier(K, R, y)
  <1> DEFINE below(v) == {w \in K : <<w, v>> \in R}
  <1>1. IsFiniteSet(K) /\ Cardinality(K) \in Nat
    BY FS_CardinalityType DEF StrictOrder
  <1>2. IsFiniteSet(K \ {x}) /\ Cardinality(K \ {x}) = Cardinality(K) - 1
    BY <1>1, FS_RemoveElement
  <1>3. below(x) \in SUBSET (K \ {x})
    BY DEF StrictOrder
  <1>4. IsFiniteSet(below(x)) /\ Cardinality(below(x)) <= Cardinality(K) - 1
    BY <1>2, <1>3, FS_Subset
  <1>5. IsFiniteSet(below(y))
    BY <1>1, FS_Subset
  <1>6. Cardinality(below(x)) \in Nat /\ Cardinality(below(y)) \in Nat
    BY <1>4, <1>5, FS_CardinalityType
  <1>7. ASSUME <<x, y>> \in R PROVE Cardinality(below(x)) < Cardinality(below(y))
    <2>1. below(x) \in SUBSET below(y)
      BY <1>7 DEF StrictOrder
    <2>2. x \in below(y) /\ x \notin below(x)
      BY <1>7 DEF StrictOrder
    <2>3. /\ Cardinality(below(x)) <= Cardinality(below(y))
          /\ Cardinality(below(y)) = Cardinality(below(x)) => below(y) = below(x)
      BY <1>5, <2>1, FS_Subset
    <2> QED
      BY <1>6, <2>2, <2>3
  <1>8. Earlier(K, R, x) = Cardinality(below(x)) /\ Earlier(K, R, y) = Cardinality(below(y))
    BY DEF Earlier
  <1> HIDE DEF below
  <1> QED
    BY <1>1, <1>4, <1>6, <1>7, <1>8

LEMMA InOrderIs ==
    ASSUME NEW K, NEW R, StrictOrder(K, R)
    PROVE  /\ Cardinality(K) \in Nat
           /\ DOMAIN InOrder(K, R) = 1..Cardinality(K)
           /\ \A n \in 1..Cardinality(K) : InOrder(K, R)[n] \in K
           /\ Range(InOrder(K, R)) = K
           /\ \A m, n \in 1..Cardinality(K) :
                 m < n => <<InOrder(K, R)[m], InOrder(K, R)[n]>> \in R
  <1> DEFINE c == Cardinality(K)
             f == [x \in K |-> Earlier(K, R, x) + 1]
             s == [n \in 1..c |-> CHOOSE x \in K : f[x] = n]
  <1>1. IsFiniteSet(K) /\ c \in Nat
    BY FS_CardinalityType DEF StrictOrder
  <1>a. \A x \in K : Earlier(K, R, x) \in Nat /\ Earlier(K, R, x) + 1 \in 1..c
    BY EarlierRises
  <1>b. \A x, y \in K : <<x, y>> \in R => Earlier(K, R, x) < Earlier(K, R, y)
    BY EarlierRises
  <1>2. \A x \in K : f[x] \in 1..c
    BY <1>a
  <1>3. \A x, y \in K : <<x, y>> \in R => f[x] < f[y]
    BY <1>a, <1>b
  <1>4. f \in [K -> 1..c]
    BY <1>2
  <1>5. \A x, y \in K : x # y => f[x] # f[y]
    <2> SUFFICES ASSUME NEW x \in K, NEW y \in K, x # y PROVE f[x] # f[y]
      OBVIOUS
    <2>1. <<x, y>> \in R \/ <<y, x>> \in R
      BY DEF StrictOrder
    <2>2. f[x] \in Nat /\ f[y] \in Nat
      BY <1>1, <1>2
    <2> HIDE DEF f
    <2> QED
      BY <1>3, <2>1, <2>2
  <1>6. f \in Injection(K, 1..c)
    BY <1>4, <1>5 DEF Injection, IsInjective
  <1>7. IsFiniteSet(1..c) /\ Cardinality(1..c) = c
    BY <1>1, FS_Interval
  <1>8. f \in Surjection(K, 1..c)
    BY <1>6, <1>7, FS_Injection
  <1>9. \A n \in 1..c : \E x \in K : f[x] = n
    BY <1>8 DEF Surjection
  <1>10. InOrder(K, R) = s
    <2>1. \A n \in 1..c : \A x \in K : f[x] = n <=> Earlier(K, R, x) = n - 1
      BY <1>1, <1>a
    <2> HIDE DEF f
    <2>2. \A n \in 1..c : (CHOOSE x \in K : f[x] = n) = (CHOOSE x \in K : Earlier(K, R, x) = n - 1)
      BY <2>1
    <2> QED
      BY <2>2 DEF InOrder
  <1> HIDE DEF f
  <1>11. \A n \in 1..c : s[n] \in K /\ f[s[n]] = n
    BY <1>9
  <1>12. DOMAIN s = 1..c
    OBVIOUS
  <1> HIDE DEF s
  <1>13. \A x \in K : f[x] \in 1..c /\ s[f[x]] = x
    BY <1>2, <1>5, <1>11
  <1>14. Range(s) = K
    BY <1>11, <1>12, <1>13 DEF Range
  <1>15. ASSUME NEW m \in 1..c, NEW n \in 1..c, m < n PROVE <<s[m], s[n]>> \in R
    <2>1. s[m] \in K /\ s[n] \in K /\ f[s[m]] = m /\ f[s[n]] = n
      BY <1>11
    <2>2. s[m] # s[n]
      BY <1>15, <2>1
    <2>3. <<s[n], s[m]>> \notin R
      BY <1>1, <1>3, <1>15, <2>1
    <2> QED
      BY <2>1, <2>2, <2>3 DEF StrictOrder
  <1> QED
    BY <1>1, <1>10, <1>11, <1>12, <1>14, <1>15

\* A sequence whose elements stand as R says, and sequences that follow each other so.
Rising(s, R) == \A i, j \in 1..Len(s) : i < j => <<s[i], s[j]>> \in R
InTurn(ss, R) ==
    \A b, c \in 1..Len(ss) :
        b < c => \A x \in Range(ss[b]), y \in Range(ss[c]) : <<x, y>> \in R

LEMMA ConcatRange ==
    ASSUME NEW S, NEW s \in Seq(S), NEW t \in Seq(S)
    PROVE  Range(s \o t) = Range(s) \cup Range(t)
  <1>1. /\ DOMAIN (s \o t) = 1..(Len(s) + Len(t)) /\ DOMAIN s = 1..Len(s) /\ DOMAIN t = 1..Len(t)
        /\ Len(s) \in Nat /\ Len(t) \in Nat
    OBVIOUS
  <1>2. /\ \A i \in 1..Len(s) : (s \o t)[i] = s[i] /\ i \in 1..(Len(s) + Len(t))
        /\ \A i \in 1..Len(t) : (s \o t)[Len(s) + i] = t[i] /\ Len(s) + i \in 1..(Len(s) + Len(t))
    BY <1>1
  <1>3. \A i \in 1..(Len(s) + Len(t)) :
           i \in 1..Len(s) \/ \E j \in 1..Len(t) : i = Len(s) + j
    <2> SUFFICES ASSUME NEW i \in 1..(Len(s) + Len(t)), i \notin 1..Len(s)
                 PROVE  \E j \in 1..Len(t) : i = Len(s) + j
      OBVIOUS
    <2>1. i - Len(s) \in 1..Len(t) /\ i = Len(s) + (i - Len(s))
      BY <1>1
    <2> QED
      BY <2>1
  <1> DEFINE u == s \o t
  <1> HIDE DEF u
  <1>4. Range(u) \subseteq Range(s) \cup Range(t)
    BY <1>1, <1>2, <1>3 DEF Range, u
  <1>5. Range(s) \subseteq Range(u) /\ Range(t) \subseteq Range(u)
    BY <1>1, <1>2 DEF Range, u
  <1> QED
    BY <1>4, <1>5 DEF u

LEMMA ConcatRising ==
    ASSUME NEW S, NEW R, NEW s \in Seq(S), NEW t \in Seq(S), Rising(s, R), Rising(t, R),
           \A x \in Range(s), y \in Range(t) : <<x, y>> \in R
    PROVE  Rising(s \o t, R)
  <1> SUFFICES ASSUME NEW i \in 1..Len(s \o t), NEW j \in 1..Len(s \o t), i < j
               PROVE  <<(s \o t)[i], (s \o t)[j]>> \in R
    BY DEF Rising
  <1>1. /\ Len(s \o t) = Len(s) + Len(t) /\ DOMAIN s = 1..Len(s) /\ DOMAIN t = 1..Len(t)
        /\ Len(s) \in Nat /\ Len(t) \in Nat
    OBVIOUS
  <1>2. \A k \in 1..(Len(s) + Len(t)) :
           \/ k \in 1..Len(s) /\ (s \o t)[k] = s[k]
           \/ k > Len(s) /\ k - Len(s) \in 1..Len(t) /\ (s \o t)[k] = t[k - Len(s)]
    BY <1>1
  <1>3. CASE j \in 1..Len(s)
    <2>1. i \in 1..Len(s) /\ (s \o t)[i] = s[i] /\ (s \o t)[j] = s[j]
      BY <1>1, <1>2, <1>3
    <2> QED
      BY <1>3, <2>1 DEF Rising
  <1>4. CASE i > Len(s)
    <2>1. /\ i - Len(s) \in 1..Len(t) /\ (s \o t)[i] = t[i - Len(s)]
          /\ j - Len(s) \in 1..Len(t) /\ (s \o t)[j] = t[j - Len(s)] /\ i - Len(s) < j - Len(s)
      BY <1>1, <1>2, <1>4
    <2> QED
      BY <2>1 DEF Rising
  <1>5. CASE i \in 1..Len(s) /\ j > Len(s)
    <2>1. (s \o t)[i] = s[i] /\ j - Len(s) \in 1..Len(t) /\ (s \o t)[j] = t[j - Len(s)]
      BY <1>1, <1>2, <1>5
    <2>2. s[i] \in Range(s) /\ t[j - Len(s)] \in Range(t)
      BY <1>1, <1>5, <2>1 DEF Range
    <2> QED
      BY <2>1, <2>2
  <1>6. j \in 1..Len(s) \/ i > Len(s) \/ (i \in 1..Len(s) /\ j > Len(s))
    <2>1. i \in 1..(Len(s) + Len(t)) /\ j \in 1..(Len(s) + Len(t))
      BY <1>1
    <2> QED
      BY <1>1, <2>1
  <1> QED
    BY <1>3, <1>4, <1>5, <1>6

\* Blocks that rise and follow each other rise as a whole.
LEMMA FlattenRises ==
    ASSUME NEW S, NEW R
    PROVE  \A ss \in Seq(Seq(S)) :
              /\ Range(FlattenSeq(ss)) = UNION {Range(ss[b]) : b \in 1..Len(ss)}
              /\ InTurn(ss, R) /\ (\A b \in 1..Len(ss) : Rising(ss[b], R)) => Rising(FlattenSeq(ss), R)
  <1> DEFINE T == Seq(S)
             All(ss) == UNION {Range(ss[b]) : b \in 1..Len(ss)}
             Up(ss) == InTurn(ss, R) /\ (\A b \in 1..Len(ss) : Rising(ss[b], R))
             P == {ss \in Seq(T) : /\ Range(FlattenSeq(ss)) = All(ss)
                                   /\ Up(ss) => Rising(FlattenSeq(ss), R)}
  <1>1. <<>> \in P
    <2>1. Range(<<>>) = {} /\ Rising(<<>>, R) /\ All(<<>>) = {}
      BY DEF Range, Rising
    <2> QED
      BY <2>1, FlattenEmpty
  <1>2. ASSUME NEW ss \in P, NEW x \in T PROVE Append(ss, x) \in P
    <2> DEFINE tt == Append(ss, x)
    <2>1. ss \in Seq(T) /\ Range(FlattenSeq(ss)) = All(ss) /\ (Up(ss) => Rising(FlattenSeq(ss), R))
      OBVIOUS
    <2>2. /\ tt \in Seq(T) /\ Len(ss) \in Nat /\ Len(tt) = Len(ss) + 1
          /\ tt[Len(ss) + 1] = x /\ \A b \in 1..Len(ss) : tt[b] = ss[b]
      <3> HIDE DEF T, P, All, Up
      <3> QED
        BY <2>1
    <2>3. FlattenSeq(tt) = FlattenSeq(ss) \o x
      BY <2>1, FlattenLast
    <2>4. FlattenSeq(ss) \in Seq(S) /\ x \in Seq(S)
      BY <2>1, FlattenType
    <2>5. All(tt) = All(ss) \cup Range(x)
      <3>1. 1..Len(tt) = 1..Len(ss) \cup {Len(ss) + 1}
        BY <2>2
      <3> HIDE DEF tt, P, Up, T
      <3> QED
        BY <2>2, <3>1
    <2>6. Range(FlattenSeq(tt)) = All(tt)
      <3>1. Range(FlattenSeq(ss) \o x) = Range(FlattenSeq(ss)) \cup Range(x)
        BY <2>4, ConcatRange
      <3> HIDE DEF tt, All, P, Up
      <3> QED
        BY <2>1, <2>3, <2>5, <3>1
    <2>7. ASSUME Up(tt) PROVE Rising(FlattenSeq(tt), R)
      <3> HIDE DEF tt, P, T
      <3>1. /\ \A b \in 1..Len(ss) : b \in 1..Len(tt) /\ b < Len(ss) + 1
            /\ Len(ss) + 1 \in 1..Len(tt)
        BY <2>2
      <3>2. InTurn(ss, R)
        BY <2>2, <2>7, <3>1 DEF InTurn
      <3>3. \A b \in 1..Len(ss) : Rising(ss[b], R)
        BY <2>2, <2>7, <3>1
      <3>4. Rising(x, R)
        BY <2>2, <2>7, <3>1
      <3>5. \A b \in 1..Len(ss) : \A y \in Range(ss[b]), z \in Range(x) : <<y, z>> \in R
        BY <2>2, <2>7, <3>1 DEF InTurn
      <3>6. \A y \in Range(FlattenSeq(ss)), z \in Range(x) : <<y, z>> \in R
        BY <2>1, <3>5
      <3>7. Rising(FlattenSeq(ss), R)
        BY <2>1, <3>2, <3>3
      <3> QED
        BY <2>3, <2>4, <3>4, <3>6, <3>7, ConcatRising
    <2> HIDE DEF tt, T, All, Up
    <2>8. tt \in P
      BY <2>2, <2>6, <2>7
    <2> QED
      BY <2>8 DEF tt
  <1>3. P \subseteq Seq(T)
    OBVIOUS
  <1>4. \A s \in Seq(T) : s \in P
    <2> HIDE DEF P, T
    <2> QED
      BY <1>1, <1>2, <1>3, EverySequence
  <1> QED
    BY <1>4

-----------------------------------------------------------------------------
(* Siblings                                                                *)

\* The topics of the document: no id comes twice.
Family ==
    /\ members \in Seq(Names!Entry)
    /\ \A i, j \in 1..Len(members) : members[i].id = members[j].id => i = j

LEMMA SameNames ==
    \A S : /\ Names!Cardinality(S) = Cardinality(S) /\ Names!FlattenSeq(S) = FlattenSeq(S)
           /\ Names!Range(S) = Range(S)
  BY DEF Names!Cardinality, Cardinality, Names!FlattenSeq, FlattenSeq, Names!Range, Range

LEMMA MemberKnown ==
    ASSUME Family
    PROVE  /\ DOMAIN members = 1..Len(members) /\ Len(members) \in Nat
           /\ \A i \in 1..Len(members) :
                 /\ members[i].id \in Member /\ members[i].parent \in Member \cup {Stranger, Unset}
                 /\ members[i].order \in Nat /\ members[i].title \in Nat
                 /\ members[i].url \in Raw \cup {Unset}
           /\ Unset \notin Member
  <1>1. \A i \in 1..Len(members) : members[i] \in Names!Entry
    BY DEF Family
  <1>2. \A i \in 1..Len(members) :
           /\ members[i].id \in Member /\ members[i].parent \in Member \cup {Stranger, Unset}
           /\ members[i].order \in Position /\ members[i].title \in Heading
           /\ members[i].url \in Raw \cup {Unset}
    BY <1>1 DEF Names!Entry
  <1>3. Position \subseteq Nat /\ Heading \subseteq Nat /\ Unset \notin Member
    BY UrlAssumption DEF Names!Given
  <1>4. DOMAIN members = 1..Len(members) /\ Len(members) \in Nat
    BY DEF Family
  <1> QED
    BY <1>2, <1>3, <1>4

\* i comes before j among siblings, and among those that no root leads to.
Elder(i, j) ==
    \/ Names!ByOrder(members[i], members[j])
    \/ ~Names!ByOrder(members[j], members[i]) /\ i < j
TitledBefore(i, j) ==
    \/ Names!ByTitle(members[i], members[j])
    \/ ~Names!ByTitle(members[j], members[i]) /\ i < j

Elders(K) == {e \in K \X K : Elder(e[1], e[2])}
Titled(K) == {e \in K \X K : TitledBefore(e[1], e[2])}

LEMMA PairsAre ==
    ASSUME NEW K
    PROVE  /\ \A i, j \in K : <<i, j>> \in Elders(K) <=> Elder(i, j)
           /\ \A i, j \in K : <<i, j>> \in Titled(K) <=> TitledBefore(i, j)
  BY DEF Elders, Titled

LEMMA Siblings ==
    ASSUME Family, NEW K, K \subseteq 1..Len(members)
    PROVE  StrictOrder(K, Elders(K)) /\ StrictOrder(K, Titled(K))
  <1>1. IsFiniteSet(K)
    <2>1. IsFiniteSet(1..Len(members))
      BY MemberKnown, FS_Interval
    <2> QED
      BY <2>1, FS_Subset
  <1>2. \A i \in K : i \in Nat /\ members[i].order \in Nat /\ members[i].title \in Nat
    BY MemberKnown
  <1>3. \A i \in K : ~Elder(i, i) /\ ~TitledBefore(i, i)
    BY <1>2 DEF Elder, TitledBefore, Names!ByOrder, Names!ByTitle
  <1>4. \A i, j \in K : i # j => Elder(i, j) \/ Elder(j, i)
    BY <1>2 DEF Elder, Names!ByOrder, Names!ByTitle
  <1>5. \A i, j \in K : i # j => TitledBefore(i, j) \/ TitledBefore(j, i)
    BY <1>2 DEF TitledBefore, Names!ByTitle
  <1>6. \A i, j, k \in K : Elder(i, j) /\ Elder(j, k) => Elder(i, k)
    BY <1>2 DEF Elder, Names!ByOrder, Names!ByTitle
  <1>7. \A i, j, k \in K : TitledBefore(i, j) /\ TitledBefore(j, k) => TitledBefore(i, k)
    BY <1>2 DEF TitledBefore, Names!ByTitle
  <1>8. StrictOrder(K, Elders(K))
    BY <1>1, <1>3, <1>4, <1>6, PairsAre DEF StrictOrder
  <1>9. StrictOrder(K, Titled(K))
    BY <1>1, <1>3, <1>5, <1>7, PairsAre DEF StrictOrder
  <1> QED
    BY <1>8, <1>9

LEMMA SortedIs ==
    ASSUME NEW K
    PROVE  /\ Names!Sorted(members, K, Names!ByOrder) = InOrder(K, Elders(K))
           /\ Names!Sorted(members, K, Names!ByTitle) = InOrder(K, Titled(K))
  <1>1. \A k \in K : {j \in K : <<j, k>> \in Elders(K)} = {j \in K : Elder(j, k)}
    BY PairsAre
  <1>2. \A k \in K : {j \in K : <<j, k>> \in Titled(K)} = {j \in K : TitledBefore(j, k)}
    BY PairsAre
  <1>3. \A n \in 1..Cardinality(K) :
           InOrder(K, Elders(K))[n] = CHOOSE k \in K : Cardinality({j \in K : Elder(j, k)}) = n - 1
    BY <1>1 DEF InOrder, Earlier
  <1>4. \A n \in 1..Cardinality(K) :
           InOrder(K, Titled(K))[n] = CHOOSE k \in K : Cardinality({j \in K : TitledBefore(j, k)}) = n - 1
    BY <1>2 DEF InOrder, Earlier
  <1>5. \A n \in 1..Cardinality(K) :
           Names!Sorted(members, K, Names!ByOrder)[n]
           = CHOOSE k \in K : Cardinality({j \in K : Elder(j, k)}) = n - 1
    BY SameNames DEF Names!Sorted, Elder
  <1>6. \A n \in 1..Cardinality(K) :
           Names!Sorted(members, K, Names!ByTitle)[n]
           = CHOOSE k \in K : Cardinality({j \in K : TitledBefore(j, k)}) = n - 1
    BY SameNames DEF Names!Sorted, TitledBefore
  <1> DEFINE f == Names!Sorted(members, K, Names!ByOrder)
             g == Names!Sorted(members, K, Names!ByTitle)
             c == 1..Cardinality(K)
  <1>7. f = [n \in c |-> f[n]] /\ g = [n \in c |-> g[n]]
    <2>1. c = 1..Names!Cardinality(K)
      BY SameNames
    <2>2. f = [n \in 1..Names!Cardinality(K) |-> f[n]]
      BY DEF Names!Sorted
    <2>3. g = [n \in 1..Names!Cardinality(K) |-> g[n]]
      BY DEF Names!Sorted
    <2> HIDE DEF f, g, c
    <2> QED
      BY <2>1, <2>2, <2>3
  <1>8. InOrder(K, Elders(K)) = [n \in c |-> InOrder(K, Elders(K))[n]]
        /\ InOrder(K, Titled(K)) = [n \in c |-> InOrder(K, Titled(K))[n]]
    BY DEF InOrder
  <1>9. \A n \in c : f[n] = InOrder(K, Elders(K))[n] /\ g[n] = InOrder(K, Titled(K))[n]
    BY <1>3, <1>4, <1>5, <1>6
  <1> HIDE DEF f, g, c
  <1>10. f = InOrder(K, Elders(K)) /\ g = InOrder(K, Titled(K))
    BY <1>7, <1>8, <1>9
  <1> QED
    BY <1>10 DEF f, g

\* The children of t, each once, the elder ones first.
LEMMA ChildrenAre ==
    ASSUME Family, NEW t
    PROVE  LET K == {k \in 1..Len(members) : members[k].parent = t}
               c == Names!Children(members, t)
           IN  /\ c \in Seq(1..Len(members)) /\ Range(c) = K
               /\ DOMAIN c = 1..Len(c) /\ Len(c) \in Nat
               /\ \A m, n \in 1..Len(c) : m < n => Elder(c[m], c[n]) /\ c[m] # c[n]
  <1> DEFINE K == {k \in 1..Len(members) : members[k].parent = t}
             c == Names!Children(members, t)
  <1>1. c = InOrder(K, Elders(K))
    BY SortedIs, MemberKnown DEF Names!Children
  <1>2. StrictOrder(K, Elders(K))
    BY Siblings
  <1> HIDE DEF c
  <1>3. K \subseteq 1..Len(members)
    OBVIOUS
  <1> HIDE DEF K
  <1>4. /\ Cardinality(K) \in Nat /\ DOMAIN c = 1..Cardinality(K) /\ Range(c) = K
        /\ \A n \in 1..Cardinality(K) : c[n] \in K
        /\ \A m, n \in 1..Cardinality(K) : m < n => <<c[m], c[n]>> \in Elders(K)
    BY <1>1, <1>2, InOrderIs
  <1>5. c = [n \in 1..Cardinality(K) |-> c[n]]
    BY <1>1 DEF InOrder
  <1>6. c \in Seq(1..Len(members)) /\ Len(c) = Cardinality(K)
    <2>1. \A n \in 1..Cardinality(K) : c[n] \in 1..Len(members)
      BY <1>3, <1>4
    <2>2. c \in [1..Cardinality(K) -> 1..Len(members)]
      BY <1>5, <2>1
    <2> QED
      BY <1>4, <2>2
  <1>7. \A m, n \in 1..Cardinality(K) : m < n => Elder(c[m], c[n]) /\ c[m] # c[n]
    BY <1>2, <1>4, PairsAre DEF StrictOrder
  <1> QED
    BY <1>4, <1>6, <1>7 DEF K, c

-----------------------------------------------------------------------------
(* Ways down the tree                                                      *)

Kin == 1..Len(members)
Way(p, k) == p \in Seq(Kin) /\ Len(p) # 0 /\ Names!Leads(p, k)

\* Where children of t hang: below the end of a way, or at the top.
Base(r, t) ==
    \/ r = <<>> /\ t = Unset
    \/ \E j \in Kin : Way(r, j) /\ t = members[j].id

LEMMA WayIs ==
    ASSUME Family, NEW p, NEW k, Way(p, k)
    PROVE  /\ p \in Seq(Kin) /\ Len(p) \in Nat /\ Len(p) >= 1 /\ DOMAIN p = 1..Len(p)
           /\ \A n \in 1..Len(p) : p[n] \in Kin
           /\ members[p[1]].parent = Unset /\ p[Len(p)] = k /\ k \in Kin
           /\ \A n \in 2..Len(p) : members[p[n]].parent = members[p[n - 1]].id
  <1>1. p \in Seq(Kin) /\ Len(p) # 0
    BY DEF Way
  <1>2. Len(p) \in Nat /\ Len(p) >= 1 /\ DOMAIN p = 1..Len(p) /\ \A n \in 1..Len(p) : p[n] \in Kin
    BY <1>1
  <1> QED
    BY <1>1, <1>2 DEF Way, Names!Leads

LEMMA WayOn ==
    ASSUME Family, NEW r \in Seq(Kin), NEW t, Base(r, t), NEW k \in Kin, members[k].parent = t
    PROVE  Way(Append(r, k), k)
  <1> DEFINE p == Append(r, k)
  <1>1. /\ p \in Seq(Kin) /\ Len(r) \in Nat /\ Len(p) = Len(r) + 1 /\ p[Len(r) + 1] = k
        /\ \A n \in 1..Len(r) : p[n] = r[n]
    OBVIOUS
  <1>2. CASE r = <<>> /\ t = Unset
    <2>1. Len(p) = 1 /\ p[1] = k
      BY <1>2
    <2> HIDE DEF p
    <2> QED
      BY <1>1, <2>1, <1>2 DEF Way, Names!Leads, p
  <1>3. ASSUME NEW j \in Kin, Way(r, j), t = members[j].id PROVE Way(p, k)
    <2>1. /\ Len(r) >= 1 /\ members[r[1]].parent = Unset /\ r[Len(r)] = j
          /\ \A n \in 2..Len(r) : members[r[n]].parent = members[r[n - 1]].id
      BY <1>3, WayIs
    <2> HIDE DEF p
    <2>2. members[p[1]].parent = Unset /\ p[Len(p)] = k /\ Len(p) # 0
      BY <1>1, <2>1
    <2>3. ASSUME NEW n \in 2..Len(p) PROVE members[p[n]].parent = members[p[n - 1]].id
      <3>1. CASE n = Len(p)
        <4>1. p[n] = k /\ p[n - 1] = j
          BY <1>1, <2>1, <3>1
        <4> QED
          BY <1>3, <4>1
      <3>2. CASE n # Len(p)
        <4>1. n \in 2..Len(r) /\ n \in 1..Len(r) /\ n - 1 \in 1..Len(r)
          BY <1>1, <3>2
        <4> QED
          BY <1>1, <2>1, <4>1
      <3> QED
        BY <3>1, <3>2
    <2> QED
      BY <1>1, <2>2, <2>3 DEF Way, Names!Leads
  <1> HIDE DEF p
  <1>4. Way(p, k)
    BY <1>2, <1>3 DEF Base, p
  <1> QED
    BY <1>4 DEF p

\* A way without its end is a way to the parent.
LEMMA WayBack ==
    ASSUME Family, NEW p, NEW k, Way(p, k), Len(p) # 1
    PROVE  \E q \in Seq(Kin), j \in Kin :
              /\ Way(q, j) /\ members[k].parent = members[j].id
              /\ p = Append(q, k) /\ Len(q) = Len(p) - 1
  <1> DEFINE n == Len(p)
             q == [i \in 1..(n - 1) |-> p[i]]
             j == p[n - 1]
  <1>1. /\ p \in Seq(Kin) /\ n \in Nat /\ n >= 1 /\ DOMAIN p = 1..n
        /\ \A i \in 1..n : p[i] \in Kin
        /\ members[p[1]].parent = Unset /\ p[n] = k
        /\ \A i \in 2..n : members[p[i]].parent = members[p[i - 1]].id
    BY WayIs
  <1>2. n - 1 \in Nat /\ n - 1 >= 1 /\ n \in 2..n /\ n - 1 \in 1..n
    BY <1>1
  <1>3. q \in Seq(Kin) /\ Len(q) = n - 1 /\ \A i \in 1..(n - 1) : q[i] = p[i]
    BY <1>1, <1>2
  <1>4. p = Append(q, k)
    BY <1>1, <1>2, <1>3
  <1> HIDE DEF q, n
  <1>5. \A i \in 2..(n - 1) : i \in 2..n /\ i \in 1..(n - 1) /\ i - 1 \in 1..(n - 1)
    BY <1>1, <1>2
  <1>6. q[1] = p[1] /\ q[n - 1] = j
    BY <1>2, <1>3
  <1>7. \A i \in 2..(n - 1) : members[q[i]].parent = members[q[i - 1]].id
    BY <1>1, <1>3, <1>5
  <1>8. Way(q, j)
    BY <1>1, <1>2, <1>3, <1>6, <1>7 DEF Way, Names!Leads
  <1>9. members[k].parent = members[j].id /\ j \in Kin
    BY <1>1, <1>2
  <1> QED
    BY <1>3, <1>4, <1>8, <1>9 DEF n

\* A topic has one parent, so there is one way to it.
LEMMA OneWay ==
    ASSUME Family, NEW p, NEW q, NEW k, Way(p, k), Way(q, k)
    PROVE  p = q
  <1> DEFINE Two(a, b, i) == Way(a, i) /\ Way(b, i) /\ a # b
             I == {n \in Nat : \E a, b \in Seq(Kin), i \in Kin : Two(a, b, i) /\ Len(a) = n}
  <1>1. ASSUME NEW n \in I, \A m \in I : n <= m PROVE FALSE
    <2>1. PICK a \in Seq(Kin), b \in Seq(Kin), i \in Kin : Two(a, b, i) /\ Len(a) = n
      OBVIOUS
    <2>2. /\ Len(a) \in Nat /\ Len(a) >= 1 /\ members[a[1]].parent = Unset /\ a[Len(a)] = i
          /\ Len(b) \in Nat /\ Len(b) >= 1 /\ members[b[1]].parent = Unset /\ b[Len(b)] = i
      BY <2>1, WayIs
    <2>3. \A j \in Kin : members[j].id # Unset
      BY MemberKnown DEF Kin
    <2>4. CASE Len(a) = 1
      <3>1. members[i].parent = Unset
        BY <2>2, <2>4
      <3>2. Len(b) = 1
        BY <2>1, <2>3, <3>1, WayBack
      <3>3. a = <<i>> /\ b = <<i>>
        BY <2>1, <2>2, <2>4, <3>2
      <3> QED
        BY <2>1, <3>3
    <2>5. CASE Len(a) # 1
      <3>1. PICK c \in Seq(Kin), j \in Kin : /\ Way(c, j) /\ members[i].parent = members[j].id
                                             /\ a = Append(c, i) /\ Len(c) = Len(a) - 1
        BY <2>1, <2>5, WayBack
      <3>2. Len(b) # 1
        BY <2>2, <2>3, <3>1
      <3>3. PICK d \in Seq(Kin), h \in Kin : /\ Way(d, h) /\ members[i].parent = members[h].id
                                             /\ b = Append(d, i) /\ Len(d) = Len(b) - 1
        BY <2>1, <3>2, WayBack
      <3>4. j = h
        BY <3>1, <3>3 DEF Family, Kin
      <3>5. c # d
        BY <2>1, <3>1, <3>3
      <3>6. Len(c) \in Nat /\ Len(c) < n
        BY <2>1, <2>2, <3>1
      <3>7. Len(c) \in I
        BY <3>1, <3>3, <3>4, <3>5, <3>6
      <3> QED
        BY <1>1, <2>1, <2>2, <3>6, <3>7
    <2> QED
      BY <2>4, <2>5
  <1>2. I = {}
    <2>1. I \subseteq Nat
      OBVIOUS
    <2> HIDE DEF I
    <2> QED
      BY <1>1, <2>1, HasLeast
  <1>3. p \in Seq(Kin) /\ q \in Seq(Kin) /\ Len(p) \in Nat /\ k \in Kin
    BY WayIs
  <1> QED
    BY <1>2, <1>3

\* The way p comes before the way q in the document.
InFront(p, q) ==
    \/ Len(p) < Len(q) /\ \A n \in 1..Len(p) : p[n] = q[n]
    \/ \E n \in 1..Len(p) :
          /\ n <= Len(q) /\ p[n] # q[n] /\ Elder(p[n], q[n])
          /\ \A m \in 1..(n - 1) : p[m] = q[m]

Ahead == {e \in Kin \X Kin :
    \E p, q \in Seq(Kin) : Way(p, e[1]) /\ Way(q, e[2]) /\ InFront(p, q)}

\* Topics beneath r, at most n levels down.
Beneath(r, n) == {k \in Kin : \E q \in Seq(Kin) : Len(q) \in 1..n /\ Way(r \o q, k)}

LEMMA ExtendedIsInFront ==
    ASSUME NEW r \in Seq(Kin), NEW q \in Seq(Kin), Len(q) # 0
    PROVE  InFront(r, r \o q)
  <1>1. Len(r \o q) = Len(r) + Len(q) /\ Len(r) \in Nat /\ Len(q) \in Nat
    OBVIOUS
  <1>2. \A n \in 1..Len(r) : (r \o q)[n] = r[n]
    OBVIOUS
  <1> QED
    BY <1>1, <1>2 DEF InFront

LEMMA ForkedIsInFront ==
    ASSUME NEW r \in Seq(Kin), NEW k \in Kin, NEW l \in Kin, k # l, Elder(k, l),
           NEW p \in Seq(Kin), NEW q \in Seq(Kin)
    PROVE  InFront(Append(r, k) \o p, Append(r, l) \o q)
  <1> DEFINE a == Append(r, k) \o p
             b == Append(r, l) \o q
             n == Len(r) + 1
  <1>1. Len(r) \in Nat /\ n \in Nat
    OBVIOUS
  <1>2. /\ Append(r, k) \in Seq(Kin) /\ Len(Append(r, k)) = n /\ Append(r, k)[n] = k
        /\ \A m \in 1..Len(r) : Append(r, k)[m] = r[m]
    OBVIOUS
  <1>3. /\ Append(r, l) \in Seq(Kin) /\ Len(Append(r, l)) = n /\ Append(r, l)[n] = l
        /\ \A m \in 1..Len(r) : Append(r, l)[m] = r[m]
    OBVIOUS
  <1>4. Len(a) = n + Len(p) /\ \A m \in 1..n : a[m] = Append(r, k)[m]
    BY <1>2
  <1>5. Len(b) = n + Len(q) /\ \A m \in 1..n : b[m] = Append(r, l)[m]
    BY <1>3
  <1>6. Len(p) \in Nat /\ Len(q) \in Nat
    OBVIOUS
  <1> HIDE DEF a, b
  <1>7. n \in 1..Len(a) /\ n <= Len(b) /\ n \in 1..n
    BY <1>1, <1>4, <1>5, <1>6
  <1>8. a[n] = k /\ b[n] = l
    BY <1>2, <1>3, <1>4, <1>5, <1>7
  <1>9. \A m \in 1..(n - 1) : a[m] = b[m]
    <2>1. \A m \in 1..(n - 1) : m \in 1..n /\ m \in 1..Len(r)
      BY <1>1
    <2> QED
      BY <1>2, <1>3, <1>4, <1>5, <2>1
  <1> HIDE DEF n
  <1>10. InFront(a, b)
    BY <1>7, <1>8, <1>9 DEF InFront
  <1> QED
    BY <1>10 DEF a, b

\* What visit returns for the children below r, if it is right.
Right(s, r, n) == s \in Seq(Kin) /\ Range(s) = Beneath(r, n) /\ Rising(s, Ahead)

\* A child and what is beneath it.
LEMMA BlockRight ==
    ASSUME Family, NEW n \in Nat, NEW r \in Seq(Kin), NEW k \in Kin, Way(Append(r, k), k),
           NEW s, Right(s, Append(r, k), n)
    PROVE  /\ <<k>> \o s \in Seq(Kin)
           /\ Range(<<k>> \o s) = {k} \cup Beneath(Append(r, k), n)
           /\ Rising(<<k>> \o s, Ahead)
           /\ \A x \in Range(<<k>> \o s) : \E q \in Seq(Kin) : Way(Append(r, k) \o q, x) /\ x \in Kin
  <1> DEFINE p == Append(r, k)
  <1>0. p \in Seq(Kin) /\ <<k>> \in Seq(Kin) /\ s \in Seq(Kin) /\ p \o <<>> = p /\ <<>> \in Seq(Kin)
    BY DEF Right
  <1>1. Range(<<k>>) = {k} /\ Rising(<<k>>, Ahead)
    BY DEF Range, Rising
  <1>2. Range(<<k>> \o s) = {k} \cup Beneath(p, n)
    <2>1. Range(s) = Beneath(p, n)
      BY DEF Right
    <2> HIDE DEF p
    <2>2. Range(<<k>> \o s) = Range(<<k>>) \cup Range(s)
      BY <1>0, ConcatRange
    <2> QED
      BY <1>1, <2>1, <2>2
  <1>3. ASSUME NEW x \in Beneath(p, n) PROVE <<k, x>> \in Ahead
    <2>1. PICK q \in Seq(Kin) : Len(q) \in 1..n /\ Way(p \o q, x)
      BY DEF Beneath
    <2>2. Len(q) # 0
      BY <2>1
    <2>4. x \in Kin
      BY DEF Beneath
    <2> HIDE DEF p
    <2>3. InFront(p, p \o q) /\ p \o q \in Seq(Kin)
      BY <1>0, <2>2, ExtendedIsInFront
    <2>5. Way(p, k) /\ Way(p \o q, x)
      BY <2>1 DEF p
    <2> QED
      BY <1>0, <2>3, <2>4, <2>5 DEF Ahead
  <1>4. Rising(<<k>> \o s, Ahead)
    <2>1. Rising(s, Ahead) /\ Range(s) = Beneath(p, n)
      BY DEF Right
    <2> HIDE DEF p
    <2> QED
      BY <1>0, <1>1, <1>3, <2>1, ConcatRising
  <1>5. ASSUME NEW x \in Range(<<k>> \o s)
        PROVE  \E q \in Seq(Kin) : Way(p \o q, x) /\ x \in Kin
    <2>1. x = k \/ x \in Beneath(p, n)
      BY <1>2
    <2> HIDE DEF p
    <2>2. Way(p \o <<>>, k)
      BY <1>0 DEF p
    <2> QED
      BY <1>0, <2>1, <2>2 DEF Beneath
  <1>6. <<k>> \o s \in Seq(Kin)
    BY <1>0
  <1> QED
    BY <1>2, <1>4, <1>5, <1>6

\* Where a way through r goes on, its next step is a child.
LEMMA NextIsChild ==
    ASSUME Family, NEW r \in Seq(Kin), NEW t, Base(r, t), NEW q \in Seq(Kin), Len(q) # 0,
           NEW k, Way(r \o q, k)
    PROVE  q[1] \in Kin /\ members[q[1]].parent = t
  <1> DEFINE p == r \o q
  <1>1. Len(r) \in Nat /\ Len(q) \in Nat /\ Len(q) >= 1
    OBVIOUS
  <1>2. /\ Len(p) = Len(r) + Len(q) /\ p[Len(r) + 1] = q[1]
        /\ \A i \in 1..Len(r) : p[i] = r[i]
    BY <1>1
  <1>3. q[1] \in Kin
    BY <1>1
  <1>4. /\ members[p[1]].parent = Unset
        /\ \A i \in 2..Len(p) : members[p[i]].parent = members[p[i - 1]].id
    BY WayIs
  <1> HIDE DEF p
  <1>5. CASE r = <<>> /\ t = Unset
    <2>1. Len(r) = 0
      BY <1>5
    <2> QED
      BY <1>2, <1>3, <1>4, <1>5, <2>1
  <1>6. ASSUME NEW j \in Kin, Way(r, j), t = members[j].id PROVE members[q[1]].parent = t
    <2>1. Len(r) >= 1 /\ r[Len(r)] = j
      BY <1>6, WayIs
    <2>2. Len(r) + 1 \in 2..Len(p) /\ Len(r) + 1 - 1 = Len(r) /\ Len(r) \in 1..Len(r)
      BY <1>1, <1>2, <2>1
    <2>3. members[p[Len(r) + 1]].parent = members[p[Len(r)]].id
      BY <1>4, <2>2
    <2> QED
      BY <1>2, <1>6, <2>1, <2>2, <2>3
  <1> QED
    BY <1>3, <1>5, <1>6 DEF Base

\* A child with what is beneath it, for all children: what is beneath their parent.
LEMMA BeneathIs ==
    ASSUME Family, NEW n \in Nat, NEW r \in Seq(Kin), NEW t, Base(r, t)
    PROVE  Beneath(r, n + 1) = UNION {{k} \cup Beneath(Append(r, k), n) :
                                          k \in {k \in Kin : members[k].parent = t}}
  <1> DEFINE K == {k \in Kin : members[k].parent = t}
             Below(k) == {k} \cup Beneath(Append(r, k), n)
  <1>1. ASSUME NEW k \in K, NEW x \in Below(k) PROVE x \in Beneath(r, n + 1)
    <2>1. CASE x = k
      <3>1. Way(Append(r, k), k)
        BY WayOn
      <3>2. r \o <<k>> = Append(r, k) /\ <<k>> \in Seq(Kin) /\ Len(<<k>>) \in 1..(n + 1)
        OBVIOUS
      <3>3. Way(r \o <<k>>, k)
        BY <3>1, <3>2
      <3> QED
        BY <2>1, <3>2, <3>3 DEF Beneath
    <2>2. ASSUME NEW q \in Seq(Kin), Len(q) \in 1..n, Way(Append(r, k) \o q, x), x \in Kin
          PROVE  x \in Beneath(r, n + 1)
      <3> DEFINE u == <<k>> \o q
      <3>1. u \in Seq(Kin) /\ Len(u) = 1 + Len(q)
        OBVIOUS
      <3>2. r \o u = Append(r, k) \o q
        OBVIOUS
      <3>3. Len(u) \in 1..(n + 1)
        BY <2>2, <3>1
      <3> HIDE DEF u
      <3>4. Way(r \o u, x)
        BY <2>2, <3>2
      <3> QED
        BY <2>2, <3>1, <3>3, <3>4 DEF Beneath
    <2> QED
      BY <2>1, <2>2 DEF Beneath
  <1>2. ASSUME NEW x \in Beneath(r, n + 1) PROVE \E k \in K : x \in Below(k)
    <2>1. PICK q \in Seq(Kin) : Len(q) \in 1..(n + 1) /\ Way(r \o q, x)
      BY DEF Beneath
    <2> DEFINE k == q[1]
               u == Tail(q)
    <2>2. Len(q) # 0 /\ q # <<>>
      BY <2>1
    <2>3. k \in K
      BY <2>1, <2>2, NextIsChild
    <2>4. u \in Seq(Kin) /\ Len(u) = Len(q) - 1 /\ q = <<k>> \o u
      BY <2>2
    <2>5. x \in Kin
      BY DEF Beneath
    <2>6. CASE Len(q) = 1
      <3>1. u = <<>> /\ q = <<k>>
        BY <2>4, <2>6
      <3>2. (r \o q)[Len(r \o q)] = k
        <4>1. k \in Kin
          BY <2>3
        <4> HIDE DEF k, u
        <4>2. (r \o <<k>>)[Len(r \o <<k>>)] = k
          BY <4>1
        <4> QED
          BY <3>1, <4>2
      <3>3. x = k
        BY <2>1, <3>2, WayIs
      <3> QED
        BY <2>3, <3>3
    <2>7. CASE Len(q) # 1
      <3>1. Len(u) \in 1..n
        BY <2>1, <2>2, <2>4, <2>7
      <3>2. r \o q = Append(r, k) \o u
        <4> HIDE DEF u, k
        <4>1. k \in Kin
          BY <2>3
        <4>2. r \o (<<k>> \o u) = Append(r, k) \o u
          BY <2>4, <4>1
        <4> QED
          BY <2>4, <4>2
      <3> HIDE DEF u, k
      <3>3. x \in Beneath(Append(r, k), n)
        BY <2>1, <2>4, <2>5, <3>1, <3>2 DEF Beneath
      <3> QED
        BY <2>3, <3>3
    <2> QED
      BY <2>6, <2>7
  <1> HIDE DEF K, Below
  <1>3. Beneath(r, n + 1) = UNION {Below(k) : k \in K}
    BY <1>1, <1>2
  <1> QED
    BY <1>3 DEF K, Below

\* Whatever order the topics came in, the call for t is right if those for its
\* children are.
LEMMA UnderRight ==
    ASSUME Family, NEW n \in Nat, NEW r \in Seq(Kin), NEW t, Base(r, t), NEW v,
           \A k \in Kin : Way(Append(r, k), k) => Right(v[members[k].id], Append(r, k), n)
    PROVE  Right(Names!Under(members, t, v), r, n + 1)
  <1> DEFINE K == {k \in Kin : members[k].parent = t}
             c == Names!Children(members, t)
             Block(k) == <<k>> \o v[members[k].id]
             bs == [m \in DOMAIN c |-> Block(c[m])]
  <1>1. /\ c \in Seq(Kin) /\ Range(c) = K /\ DOMAIN c = 1..Len(c) /\ Len(c) \in Nat
        /\ \A l, m \in 1..Len(c) : l < m => Elder(c[l], c[m]) /\ c[l] # c[m]
    BY ChildrenAre DEF Kin
  <1>2. Names!Under(members, t, v) = FlattenSeq(bs)
    BY SameNames DEF Names!Under
  <1>3. \A k \in K : k \in Kin /\ Way(Append(r, k), k)
    BY WayOn
  <1>4. \A k \in K : /\ Block(k) \in Seq(Kin)
                     /\ Range(Block(k)) = {k} \cup Beneath(Append(r, k), n)
                     /\ Rising(Block(k), Ahead)
                     /\ \A x \in Range(Block(k)) :
                           \E q \in Seq(Kin) : Way(Append(r, k) \o q, x) /\ x \in Kin
    BY <1>3, BlockRight
  <1>5. \A m \in 1..Len(c) : c[m] \in K
    BY <1>1 DEF Range
  <1> HIDE DEF c, Block
  <1>6. bs \in Seq(Seq(Kin)) /\ Len(bs) = Len(c) /\ \A m \in 1..Len(c) : bs[m] = Block(c[m])
    <2>1. \A m \in 1..Len(c) : Block(c[m]) \in Seq(Kin)
      BY <1>4, <1>5
    <2> DEFINE T == Seq(Kin)
    <2> HIDE DEF T
    <2>2. bs \in Seq(T) /\ Len(bs) = Len(c) /\ \A m \in 1..Len(c) : bs[m] = Block(c[m])
      BY <1>1, <2>1 DEF T
    <2> QED
      BY <2>2 DEF T
  <1> HIDE DEF bs
  <1>7. FlattenSeq(bs) \in Seq(Kin)
    BY <1>6, FlattenType
  <1>8. Range(FlattenSeq(bs)) = Beneath(r, n + 1)
    <2>1. Range(FlattenSeq(bs)) = UNION {Range(bs[m]) : m \in 1..Len(bs)}
      BY <1>6, FlattenRises
    <2>2. \A k \in K : \E m \in 1..Len(c) : c[m] = k
      BY <1>1 DEF Range
    <2>3. UNION {Range(bs[m]) : m \in 1..Len(bs)} = UNION {Range(Block(k)) : k \in K}
      <3> HIDE DEF K
      <3>1. \A m \in 1..Len(bs) : c[m] \in K /\ Range(bs[m]) = Range(Block(c[m]))
        BY <1>5, <1>6
      <3>2. \A k \in K : \E m \in 1..Len(bs) : Range(bs[m]) = Range(Block(k))
        BY <1>6, <2>2
      <3> QED
        BY <3>1, <3>2, Zenon
    <2>4. UNION {Range(Block(k)) : k \in K} = UNION {{k} \cup Beneath(Append(r, k), n) : k \in K}
      <3> HIDE DEF K
      <3> QED
        BY <1>4
    <2>5. Beneath(r, n + 1) = UNION {{k} \cup Beneath(Append(r, k), n) : k \in K}
      BY BeneathIs
    <2> HIDE DEF K
    <2> QED
      BY <2>1, <2>3, <2>4, <2>5
  <1>9. InTurn(bs, Ahead)
    <2> SUFFICES ASSUME NEW l \in 1..Len(bs), NEW m \in 1..Len(bs), l < m,
                        NEW x \in Range(bs[l]), NEW y \in Range(bs[m])
                 PROVE  <<x, y>> \in Ahead
      BY DEF InTurn
    <2>1. c[l] \in K /\ c[m] \in K /\ Elder(c[l], c[m]) /\ c[l] # c[m]
      BY <1>1, <1>5, <1>6
    <2>2. PICK p \in Seq(Kin) : Way(Append(r, c[l]) \o p, x) /\ x \in Kin
      BY <1>4, <1>6, <2>1
    <2>3. PICK q \in Seq(Kin) : Way(Append(r, c[m]) \o q, y) /\ y \in Kin
      BY <1>4, <1>6, <2>1
    <2>4. c[l] \in Kin /\ c[m] \in Kin
      BY <1>3, <2>1
    <2>5. InFront(Append(r, c[l]) \o p, Append(r, c[m]) \o q)
      BY <2>1, <2>4, ForkedIsInFront
    <2>6. Append(r, c[l]) \o p \in Seq(Kin) /\ Append(r, c[m]) \o q \in Seq(Kin)
      BY <2>4
    <2> QED
      BY <2>2, <2>3, <2>5, <2>6 DEF Ahead
  <1>10. \A m \in 1..Len(bs) : Rising(bs[m], Ahead)
    BY <1>4, <1>5, <1>6
  <1>11. Rising(FlattenSeq(bs), Ahead)
    BY <1>6, <1>9, <1>10, FlattenRises
  <1> QED
    BY <1>2, <1>7, <1>8, <1>11 DEF Right

\* v lists the calls, by how many levels they go down.
Calls(v, n) ==
    v = [i \in 0..n |-> [t \in Member \cup {Unset} |->
            IF i = 0 THEN <<>> ELSE Names!Under(members, t, v[i - 1])]]

LEMMA CanVisit ==
    ASSUME NEW n \in Nat
    PROVE  \E v : Calls(v, n)
  <1> DEFINE Level(v, i) == [t \in Member \cup {Unset} |->
                                IF i = 0 THEN <<>> ELSE Names!Under(members, t, v)]
             I == {m \in Nat : ~ \E v : Calls(v, m)}
  <1>1. ASSUME NEW m \in I, \A j \in I : m <= j PROVE FALSE
    <2>1. CASE m = 0
      <3> DEFINE v == [i \in 0..0 |-> Level(<<>>, 0)]
      <3>1. \A i \in 0..0 : v[i] = Level(v[i - 1], i)
        OBVIOUS
      <3>2. v = [i \in 0..0 |-> Level(v[i - 1], i)]
        OBVIOUS
      <3> HIDE DEF v
      <3>3. Calls(v, 0)
        BY <3>2 DEF Calls
      <3> QED
        BY <2>1, <3>3
    <2>2. CASE m # 0
      <3>1. m - 1 \in Nat /\ m - 1 \notin I
        BY <1>1, <2>2
      <3>2. PICK g : Calls(g, m - 1)
        BY <3>1
      <3> DEFINE v == [i \in 0..m |-> IF i = m THEN Level(g[i - 1], i) ELSE g[i]]
      <3>3. \A i \in 0..(m - 1) : g[i] = Level(g[i - 1], i)
        BY <3>2 DEF Calls
      <3> HIDE DEF Level
      <3>4. \A i \in 0..m : i # 0 => v[i - 1] = g[i - 1]
        <4>1. \A i \in 0..m : i # 0 => i - 1 \in 0..m /\ i - 1 # m
          OBVIOUS
        <4> QED
          BY <4>1
      <3>5. \A h : Level(h, 0) = Level(g[0 - 1], 0)
        BY DEF Level
      <3>6. \A i \in 0..m : v[i] = Level(v[i - 1], i)
        <4> SUFFICES ASSUME NEW i \in 0..m PROVE v[i] = Level(v[i - 1], i)
          OBVIOUS
        <4>1. CASE i = 0
          <5>1. v[0] = g[0] /\ g[0] = Level(g[0 - 1], 0)
            BY <2>2, <3>1, <3>3
          <5>2. Level(v[0 - 1], 0) = Level(g[0 - 1], 0)
            BY <3>5
          <5> QED
            BY <4>1, <5>1, <5>2
        <4>2. CASE i # 0
          <5>1. v[i - 1] = g[i - 1]
            BY <3>4, <4>2
          <5>2. v[i] = Level(g[i - 1], i)
            BY <3>3
          <5> QED
            BY <5>1, <5>2
        <4> QED
          BY <4>1, <4>2
      <3>7. v = [i \in 0..m |-> Level(v[i - 1], i)]
        BY <3>6
      <3> HIDE DEF v
      <3>8. Calls(v, m)
        BY <3>7 DEF Calls, Level
      <3> QED
        BY <3>8
    <2> QED
      BY <2>1, <2>2
  <1>2. I = {}
    <2>1. I \subseteq Nat
      OBVIOUS
    <2> HIDE DEF I
    <2> QED
      BY <1>1, <2>1, HasLeast
  <1> QED
    BY <1>2

LEMMA CallsAt ==
    ASSUME NEW v, NEW n \in Nat, Calls(v, n), NEW i \in 0..n, NEW t \in Member \cup {Unset}
    PROVE  v[i][t] = IF i = 0 THEN <<>> ELSE Names!Under(members, t, v[i - 1])
  <1>1. v[i] = [u \in Member \cup {Unset} |->
                   IF i = 0 THEN <<>> ELSE Names!Under(members, u, v[i - 1])]
    BY DEF Calls
  <1> QED
    BY <1>1

\* The visit from the top: every topic that a way leads to, in document order.
LEMMA VisitRight ==
    ASSUME Family
    PROVE  Right(Names!Visit(members, Unset), <<>>, Len(members))
  <1> DEFINE N == Len(members)
             v == CHOOSE w : Calls(w, N)
  <1>0. N \in Nat
    BY MemberKnown
  <1>1. Names!Visit(members, Unset) = v[N][Unset]
    BY DEF Names!Visit, Calls
  <1>2. Calls(v, N)
    BY <1>0, CanVisit
  <1> HIDE DEF v, N
  <1>3. ASSUME NEW i \in 0..N, NEW t \in Member \cup {Unset}
        PROVE  v[i][t] = IF i = 0 THEN <<>> ELSE Names!Under(members, t, v[i - 1])
    BY <1>0, <1>2, CallsAt
  <1>4. ASSUME NEW r, NEW t, Base(r, t) PROVE t \in Member \cup {Unset}
    BY <1>4, MemberKnown DEF Base, Kin
  <1> DEFINE Good(i) == \A r \in Seq(Kin), t \in Member \cup {Unset} :
                           Base(r, t) => Right(v[i][t], r, i)
             I == {i \in 0..N : ~Good(i)}
  <1>5. ASSUME NEW i \in I, \A j \in I : i <= j PROVE FALSE
    <2>1. PICK r \in Seq(Kin), t \in Member \cup {Unset} : Base(r, t) /\ ~Right(v[i][t], r, i)
      OBVIOUS
    <2>2. i \in 0..N
      OBVIOUS
    <2>3. CASE i = 0
      <3>1. v[i][t] = <<>>
        BY <1>3, <2>2, <2>3
      <3>2. Range(<<>>) = {} /\ Rising(<<>>, Ahead) /\ <<>> \in Seq(Kin)
        BY DEF Range, Rising
      <3>3. Beneath(r, 0) = {}
        BY DEF Beneath
      <3> QED
        BY <2>1, <2>3, <3>1, <3>2, <3>3 DEF Right
    <2>4. CASE i # 0
      <3>1. i - 1 \in 0..N /\ i - 1 \in Nat /\ i - 1 + 1 = i /\ i - 1 < i
        BY <1>0, <2>2, <2>4
      <3>2. Good(i - 1)
        BY <1>5, <2>2, <3>1
      <3>3. ASSUME NEW k \in Kin, Way(Append(r, k), k)
            PROVE  Right(v[i - 1][members[k].id], Append(r, k), i - 1)
        <4>1. Append(r, k) \in Seq(Kin) /\ members[k].id \in Member
          BY MemberKnown DEF Kin
        <4>2. Base(Append(r, k), members[k].id)
          BY <3>3 DEF Base
        <4> QED
          BY <3>2, <4>1, <4>2
      <3>4. Right(Names!Under(members, t, v[i - 1]), r, i - 1 + 1)
        BY <2>1, <3>1, <3>3, UnderRight
      <3>5. v[i][t] = Names!Under(members, t, v[i - 1])
        BY <1>3, <2>2, <2>4
      <3> QED
        BY <2>1, <3>1, <3>4, <3>5
    <2> QED
      BY <2>3, <2>4
  <1>6. I = {}
    <2>1. I \subseteq Nat
      BY <1>0
    <2> HIDE DEF I
    <2> QED
      BY <1>5, <2>1, HasLeast
  <1>7. Good(N)
    BY <1>0, <1>6
  <1>8. Base(<<>>, Unset) /\ <<>> \in Seq(Kin)
    BY DEF Base
  <1> QED
    BY <1>1, <1>7, <1>8 DEF N

-----------------------------------------------------------------------------
(* Document order                                                          *)

LEMMA LineIs ==
    ASSUME Family
    PROVE  \A p, k : p \in Names!Line /\ Names!Leads(p, k) <=> Way(p, k) /\ Len(p) <= Len(members)
  <1> SUFFICES ASSUME NEW p, NEW k
               PROVE  p \in Names!Line /\ Names!Leads(p, k) <=> Way(p, k) /\ Len(p) <= Len(members)
    OBVIOUS
  <1>1. DOMAIN members = Kin /\ Len(members) \in Nat
    BY MemberKnown DEF Kin
  <1>2. ASSUME p \in Names!Line PROVE p \in Seq(Kin) /\ Len(p) # 0 /\ Len(p) <= Len(members)
    <2>1. PICK n \in 1..Len(members) : p \in [1..n -> Kin]
      BY <1>1, <1>2 DEF Names!Line
    <2> QED
      BY <1>1, <2>1
  <1>3. ASSUME p \in Seq(Kin), Len(p) # 0, Len(p) <= Len(members) PROVE p \in Names!Line
    <2>1. p \in [1..Len(p) -> Kin] /\ Len(p) \in 1..Len(members)
      BY <1>1, <1>3
    <2> QED
      BY <1>1, <2>1 DEF Names!Line
  <1> QED
    BY <1>2, <1>3 DEF Way

LEMMA RootedIs ==
    ASSUME Family, NEW k
    PROVE  Names!Rooted(k) <=> k \in Beneath(<<>>, Len(members))
  <1>1. Names!Rooted(k) <=> \E p : Way(p, k) /\ Len(p) <= Len(members)
    BY LineIs DEF Names!Rooted
  <1>2. ASSUME NEW p, Way(p, k), Len(p) <= Len(members) PROVE k \in Beneath(<<>>, Len(members))
    <2>1. p \in Seq(Kin) /\ Len(p) \in 1..Len(members) /\ k \in Kin
      BY <1>2, WayIs, MemberKnown
    <2>2. <<>> \o p = p
      BY <2>1
    <2> QED
      BY <1>2, <2>1, <2>2 DEF Beneath
  <1>3. ASSUME k \in Beneath(<<>>, Len(members)) PROVE \E p : Way(p, k) /\ Len(p) <= Len(members)
    <2>1. PICK q \in Seq(Kin) : Len(q) \in 1..Len(members) /\ Way(<<>> \o q, k)
      BY <1>3 DEF Beneath
    <2>2. <<>> \o q = q /\ Len(q) <= Len(members)
      BY <2>1
    <2> QED
      BY <2>1, <2>2
  <1> QED
    BY <1>1, <1>2, <1>3

LEMMA PathIs ==
    ASSUME Family, NEW p, NEW k, Way(p, k), Len(p) <= Len(members)
    PROVE  Names!Path(k) = p
  <1>1. p \in Names!Line /\ Names!Leads(p, k)
    BY LineIs
  <1>2. \A q \in Names!Line : Names!Leads(q, k) => q = p
    BY LineIs, OneWay
  <1> QED
    BY <1>1, <1>2 DEF Names!Path

\* A topic is not ahead of itself.
LEMMA NotAheadOfItself ==
    ASSUME Family, NEW x
    PROVE  <<x, x>> \notin Ahead
  <1> SUFFICES ASSUME <<x, x>> \in Ahead PROVE FALSE
    OBVIOUS
  <1>1. PICK p \in Seq(Kin), q \in Seq(Kin) : Way(p, x) /\ Way(q, x) /\ InFront(p, q)
    BY DEF Ahead
  <1>2. p = q /\ Len(p) \in Nat
    BY <1>1, OneWay
  <1> QED
    BY <1>1, <1>2 DEF InFront

\* Those that are ahead precede, as DocumentOrder says it.
LEMMA AheadPrecedes ==
    ASSUME Family, NEW i, NEW j, <<i, j>> \in Ahead, Names!Rooted(i), Names!Rooted(j)
    PROVE  Names!Precedes(i, j)
  <1>1. PICK a : Way(a, i) /\ Len(a) <= Len(members)
    BY LineIs DEF Names!Rooted
  <1>2. PICK b : Way(b, j) /\ Len(b) <= Len(members)
    BY LineIs DEF Names!Rooted
  <1>3. Names!Path(i) = a /\ Names!Path(j) = b
    BY <1>1, <1>2, PathIs
  <1>4. InFront(a, b)
    <2>1. PICK p \in Seq(Kin), q \in Seq(Kin) : Way(p, i) /\ Way(q, j) /\ InFront(p, q)
      BY DEF Ahead
    <2> QED
      BY <1>1, <1>2, <2>1, OneWay
  <1>5. /\ DOMAIN a = 1..Len(a) /\ Len(a) \in Nat /\ DOMAIN b = 1..Len(b) /\ Len(b) \in Nat
    BY <1>1, <1>2, WayIs
  <1> DEFINE fork == {n \in DOMAIN a \cap DOMAIN b : a[n] # b[n]}
             n == CHOOSE n \in fork : \A m \in fork : n <= m
  <1>6. Names!Precedes(i, j) <=> IF fork = {} THEN Len(a) < Len(b) ELSE Elder(a[n], b[n])
    BY <1>3 DEF Names!Precedes, Elder
  <1>7. CASE Len(a) < Len(b) /\ \A m \in 1..Len(a) : a[m] = b[m]
    <2>1. fork = {}
      BY <1>5, <1>7
    <2> QED
      BY <1>6, <1>7, <2>1
  <1>8. ASSUME NEW m \in 1..Len(a), m <= Len(b), a[m] # b[m], Elder(a[m], b[m]),
               \A l \in 1..(m - 1) : a[l] = b[l]
        PROVE  Names!Precedes(i, j)
    <2>1. m \in fork
      BY <1>5, <1>8
    <2>2. \A l \in fork : m <= l /\ l \in Nat
      BY <1>5, <1>8
    <2>3. n \in fork /\ \A l \in fork : n <= l
      BY <2>1, <2>2
    <2>4. n = m
      BY <2>1, <2>2, <2>3
    <2> HIDE DEF n, fork
    <2> QED
      BY <1>6, <1>8, <2>1, <2>4
  <1> QED
    BY <1>4, <1>7, <1>8 DEF InFront

-----------------------------------------------------------------------------
(* The order of the topics                                                 *)

\* Without repetition, a sequence is as long as its set is large.
LEMMA LengthOfRange ==
    ASSUME NEW S, NEW s \in Seq(S), \A i, j \in 1..Len(s) : i < j => s[i] # s[j]
    PROVE  IsFiniteSet(Range(s)) /\ Cardinality(Range(s)) = Len(s)
  <1>1. Len(s) \in Nat /\ DOMAIN s = 1..Len(s)
    OBVIOUS
  <1>2. IsFiniteSet(1..Len(s)) /\ Cardinality(1..Len(s)) = Len(s)
    BY <1>1, FS_Interval
  <1>3. \A i, j \in 1..Len(s) : s[i] = s[j] => i = j
    BY <1>1
  <1>4. s \in [1..Len(s) -> Range(s)] /\ \A y \in Range(s) : \E i \in 1..Len(s) : s[i] = y
    <2>1. \A i \in 1..Len(s) : s[i] \in Range(s)
      BY <1>1 DEF Range
    <2>2. s = [i \in 1..Len(s) |-> s[i]]
      BY <1>1
    <2> QED
      BY <1>1, <2>1, <2>2 DEF Range
  <1>5. s \in Surjection(1..Len(s), Range(s))
    BY <1>4 DEF Surjection
  <1>6. s \in Injection(1..Len(s), Range(s))
    BY <1>3, <1>4 DEF Injection, IsInjective
  <1> QED
    BY <1>2, <1>5, <1>6, FS_Surjection

\* A way meets no topic twice: there are no more levels than topics, and Visit goes down
\* far enough.
LEMMA WayIsShort ==
    ASSUME Family, NEW p, NEW k, Way(p, k)
    PROVE  Len(p) <= Len(members)
  <1> DEFINE Part(n) == [i \in 1..n |-> p[i]]
  <1>1. /\ p \in Seq(Kin) /\ Len(p) \in Nat /\ \A n \in 1..Len(p) : p[n] \in Kin
        /\ members[p[1]].parent = Unset
        /\ \A n \in 2..Len(p) : members[p[n]].parent = members[p[n - 1]].id
    BY WayIs
  <1>2. ASSUME NEW n \in 1..Len(p) PROVE Way(Part(n), p[n]) /\ Len(Part(n)) = n
    <2> DEFINE q == Part(n)
    <2>1. q \in Seq(Kin) /\ Len(q) = n /\ \A i \in 1..n : q[i] = p[i]
      BY <1>1
    <2>2. \A i \in 2..n : i \in 2..Len(p) /\ i \in 1..n /\ i - 1 \in 1..n
      BY <1>1
    <2>3. n \in Nat /\ 1 \in 1..n /\ n \in 1..n
      BY <1>1
    <2> HIDE DEF q
    <2>4. \A i \in 2..n : members[q[i]].parent = members[q[i - 1]].id
      BY <1>1, <2>1, <2>2
    <2>5. Way(q, p[n])
      BY <1>1, <2>1, <2>3, <2>4 DEF Way, Names!Leads
    <2> QED
      BY <2>1, <2>5 DEF q
  <1> HIDE DEF Part
  <1>3. \A i, j \in 1..Len(p) : i < j => p[i] # p[j]
    <2> SUFFICES ASSUME NEW i \in 1..Len(p), NEW j \in 1..Len(p), i < j, p[i] = p[j] PROVE FALSE
      OBVIOUS
    <2>1. Way(Part(i), p[i]) /\ Way(Part(j), p[i]) /\ Len(Part(i)) = i /\ Len(Part(j)) = j
      BY <1>2
    <2>2. Part(i) = Part(j)
      BY <2>1, OneWay
    <2> QED
      BY <2>1, <2>2
  <1>4. Cardinality(Range(p)) = Len(p)
    BY <1>1, <1>3, LengthOfRange
  <1>5. Range(p) \in SUBSET Kin
    BY <1>1 DEF Range
  <1>6. IsFiniteSet(Kin) /\ Cardinality(Kin) = Len(members)
    <2>1. Len(members) \in Nat
      BY MemberKnown
    <2>2. IsFiniteSet(1..Len(members)) /\ Cardinality(1..Len(members)) = Len(members)
      BY <2>1, FS_Interval
    <2> QED
      BY <2>2 DEF Kin
  <1> QED
    BY <1>4, <1>5, <1>6, FS_Subset

LEMMA VisitIs ==
    ASSUME Family
    PROVE  LET s == Names!Visit(members, Unset)
           IN  /\ s \in Seq(Kin) /\ Rising(s, Ahead)
               /\ Range(s) = {k \in Kin : Names!Rooted(k)}
  <1>1. Right(Names!Visit(members, Unset), <<>>, Len(members))
    BY VisitRight
  <1>2. Beneath(<<>>, Len(members)) \subseteq Kin
    BY DEF Beneath
  <1>3. \A k \in Kin : Names!Rooted(k) <=> k \in Beneath(<<>>, Len(members))
    BY RootedIs
  <1> QED
    BY <1>1, <1>2, <1>3 DEF Right

\* The topics that no root leads to, by title.
LEMMA RestIs ==
    ASSUME Family, NEW K, K \subseteq Kin
    PROVE  LET s == Names!Sorted(members, K, Names!ByTitle)
           IN  s \in Seq(Kin) /\ Range(s) = K /\ \A i, j \in 1..Len(s) : i < j => s[i] # s[j]
  <1> DEFINE s == Names!Sorted(members, K, Names!ByTitle)
             c == Cardinality(K)
  <1>1. s = InOrder(K, Titled(K))
    BY SortedIs
  <1>2. StrictOrder(K, Titled(K))
    BY Siblings DEF Kin
  <1> HIDE DEF s
  <1>3. /\ c \in Nat /\ DOMAIN s = 1..c /\ Range(s) = K /\ \A n \in 1..c : s[n] \in K
        /\ \A m, n \in 1..c : m < n => <<s[m], s[n]>> \in Titled(K)
    BY <1>1, <1>2, InOrderIs
  <1>4. s = [n \in 1..c |-> s[n]]
    BY <1>1 DEF InOrder
  <1> HIDE DEF c
  <1>5. s \in Seq(Kin) /\ Len(s) = c
    <2>1. \A n \in 1..c : s[n] \in Kin
      BY <1>3
    <2>2. s \in [1..c -> Kin]
      BY <1>4, <2>1
    <2> QED
      BY <1>3, <2>2
  <1>6. \A m, n \in 1..c : m < n => s[m] # s[n]
    BY <1>2, <1>3 DEF StrictOrder
  <1> QED
    BY <1>3, <1>5, <1>6 DEF s

\* Every topic has one place; those that a root leads to come first, and in front
\* of whom they precede.
LEMMA OrderedIs ==
    ASSUME Family
    PROVE  LET s == Names!Ordered(members)
           IN  /\ s \in Seq(Kin) /\ Range(s) = Kin /\ Len(s) = Len(members)
               /\ \A i, j \in 1..Len(s) :
                     i < j /\ Names!Rooted(s[j]) => Names!Rooted(s[i]) /\ Names!Precedes(s[i], s[j])
  <1> DEFINE r == Names!Visit(members, Unset)
             K == Kin \ Range(r)
             t == Names!Sorted(members, K, Names!ByTitle)
             s == Names!Ordered(members)
  <1>1. r \in Seq(Kin) /\ Rising(r, Ahead) /\ Range(r) = {k \in Kin : Names!Rooted(k)}
    BY VisitIs
  <1>2. t \in Seq(Kin) /\ Range(t) = K /\ \A i, j \in 1..Len(t) : i < j => t[i] # t[j]
    BY RestIs
  <1>3. DOMAIN members = Kin
    BY MemberKnown DEF Kin
  <1>4. s = r \o t
    BY <1>3 DEF Names!Ordered, Range
  <1> HIDE DEF r, t, s
  <1>5. /\ Len(r) \in Nat /\ Len(t) \in Nat /\ DOMAIN r = 1..Len(r) /\ DOMAIN t = 1..Len(t)
        /\ s \in Seq(Kin) /\ Len(s) = Len(r) + Len(t)
    BY <1>1, <1>2, <1>4
  <1>6. /\ \A i \in 1..Len(r) : s[i] = r[i] /\ r[i] \in Range(r)
        /\ \A i \in 1..Len(s) : i \notin 1..Len(r) =>
              s[i] = t[i - Len(r)] /\ i - Len(r) \in 1..Len(t) /\ t[i - Len(r)] \in K
    <2>1. \A i \in 1..Len(r) : s[i] = r[i]
      BY <1>1, <1>2, <1>4
    <2>2. \A i \in 1..Len(t) : t[i] \in K
      BY <1>2, <1>5 DEF Range
    <2>3. \A i \in 1..Len(s) : i \notin 1..Len(r) => s[i] = t[i - Len(r)] /\ i - Len(r) \in 1..Len(t)
      BY <1>1, <1>2, <1>4, <1>5
    <2> QED
      BY <1>5, <2>1, <2>2, <2>3 DEF Range
  <1>7. Range(s) = Kin
    <2>1. Range(s) = Range(r) \cup Range(t)
      BY <1>1, <1>2, <1>4, ConcatRange
    <2> QED
      BY <1>1, <1>2, <2>1
  <1>8. ASSUME NEW i \in 1..Len(s), NEW j \in 1..Len(s), i < j, Names!Rooted(s[j])
        PROVE  Names!Rooted(s[i]) /\ Names!Precedes(s[i], s[j])
    <2>1. s[j] \in Range(r)
      <3>1. s[j] \in Kin
        BY <1>5
      <3> QED
        BY <1>1, <1>8, <3>1
    <2>2. j \in 1..Len(r) /\ i \in 1..Len(r)
      BY <1>5, <1>6, <1>8, <2>1
    <2>3. s[i] = r[i] /\ s[j] = r[j] /\ r[i] \in Range(r)
      BY <1>6, <2>2
    <2>4. <<s[i], s[j]>> \in Ahead
      BY <1>1, <1>8, <2>2, <2>3 DEF Rising
    <2>5. Names!Rooted(s[i])
      BY <1>1, <2>3
    <2> QED
      BY <1>8, <2>4, <2>5, AheadPrecedes
  <1>9. \A i, j \in 1..Len(s) : i < j => s[i] # s[j]
    <2> SUFFICES ASSUME NEW i \in 1..Len(s), NEW j \in 1..Len(s), i < j PROVE s[i] # s[j]
      OBVIOUS
    <2>1. CASE j \in 1..Len(r)
      <3>1. i \in 1..Len(r) /\ s[i] = r[i] /\ s[j] = r[j]
        BY <1>5, <1>6, <2>1
      <3>2. <<s[i], s[j]>> \in Ahead
        BY <1>1, <2>1, <3>1 DEF Rising
      <3> QED
        BY <3>2, NotAheadOfItself
    <2>2. CASE j \notin 1..Len(r) /\ i \in 1..Len(r)
      BY <1>6, <2>2
    <2>3. CASE j \notin 1..Len(r) /\ i \notin 1..Len(r)
      <3>1. /\ s[i] = t[i - Len(r)] /\ s[j] = t[j - Len(r)]
            /\ i - Len(r) \in 1..Len(t) /\ j - Len(r) \in 1..Len(t) /\ i - Len(r) < j - Len(r)
        BY <1>5, <1>6, <2>3
      <3> QED
        BY <1>2, <3>1
    <2> QED
      BY <2>1, <2>2, <2>3
  <1>10. Len(s) = Len(members)
    <2>1. Cardinality(Range(s)) = Len(s)
      BY <1>5, <1>9, LengthOfRange
    <2>2. Cardinality(Kin) = Len(members)
      <3>1. Len(members) \in Nat
        BY MemberKnown
      <3>2. Cardinality(1..Len(members)) = Len(members)
        BY <3>1, FS_Interval
      <3> QED
        BY <3>2 DEF Kin
    <2> QED
      BY <1>7, <2>1, <2>2
  <1> QED
    BY <1>5, <1>7, <1>8, <1>10 DEF s

-----------------------------------------------------------------------------
(* The machine of UrlNames                                                 *)

\* visited and names are those of the topics that have come in.
NamesInv ==
    /\ Family
    /\ visited = Names!Ordered(members)
    /\ names = Names!Named([k \in DOMAIN visited |-> members[visited[k]].url])

LEMMA NamesInit ==
    ASSUME Names!Init
    PROVE  NamesInv
  <1>1. members = <<>> /\ visited = <<>> /\ names = <<>>
    BY DEF Names!Init
  <1>2. Family
    BY <1>1 DEF Family
  <1>3. visited = Names!Ordered(members)
    <2>1. Names!Ordered(members) \in Seq(Kin) /\ Len(Names!Ordered(members)) = 0
      BY <1>1, <1>2, OrderedIs
    <2> QED
      BY <1>1, <2>1
  <1>4. names = Names!Named([k \in DOMAIN visited |-> members[visited[k]].url])
    <2>1. DOMAIN visited = {}
      BY <1>1
    <2>2. DOMAIN names = {}
      BY <1>1
    <2>3. names = [k \in {} |-> names[k]]
      BY <1>1
    <2> QED
      BY <2>1, <2>3 DEF Names!Named
  <1> QED
    BY <1>2, <1>3, <1>4 DEF NamesInv

LEMMA NamesNext ==
    ASSUME NamesInv, [Names!Next]_(Names!vars)
    PROVE  NamesInv'
  <1>1. ASSUME Names!Arrive PROVE NamesInv'
    <2>1. PICK e \in Names!Entry : e.id \notin Names!Ids /\ members' = Append(members, e)
      BY <1>1 DEF Names!Arrive
    <2>2. members \in Seq(Names!Entry) /\ DOMAIN members = 1..Len(members) /\ Len(members) \in Nat
      BY MemberKnown DEF NamesInv, Family
    <2>3. /\ members' \in Seq(Names!Entry) /\ Len(members') = Len(members) + 1
          /\ members'[Len(members) + 1] = e
          /\ \A i \in 1..Len(members) : members'[i] = members[i]
      BY <2>1, <2>2
    <2>4. \A i \in 1..Len(members) : members[i].id # e.id
      BY <2>1, <2>2 DEF Names!Ids
    <2>5. \A i, j \in 1..Len(members') : members'[i].id = members'[j].id => i = j
      <3>1. \A i \in 1..Len(members') : i \in 1..Len(members) \/ i = Len(members) + 1
        BY <2>2, <2>3
      <3>2. \A i, j \in 1..Len(members) : members[i].id = members[j].id => i = j
        BY DEF NamesInv, Family
      <3> QED
        BY <2>3, <2>4, <3>1, <3>2
    <2>6. Family'
      BY <2>3, <2>5 DEF Family
    <2>7. /\ visited' = Names!Ordered(members')
          /\ names' = Names!Named([k \in DOMAIN visited' |-> members'[visited'[k]].url])
      BY <1>1 DEF Names!Arrive
    <2> QED
      BY <2>6, <2>7 DEF NamesInv
  <1>2. CASE UNCHANGED Names!vars
    <2>1. members' = members /\ visited' = visited /\ names' = names
      BY <1>2 DEF Names!vars
    <2> QED
      BY <2>1 DEF NamesInv, Family
  <1> QED
    BY <1>1, <1>2 DEF Names!Next

\* Whatever topics an ingest brings and in whatever order, the order they are rendered
\* in and the URLs that are stored are those of the topics that are there
\* (regenerateForDocument).
THEOREM NamesCurrent == Names!Spec => []NamesInv
  <1>1. Names!Init => NamesInv
    BY NamesInit
  <1>2. NamesInv /\ [Names!Next]_(Names!vars) => NamesInv'
    BY NamesNext
  <1> QED
    BY <1>1, <1>2, PTL DEF Names!Spec

\* Every topic is rendered once, those of the tree in document order, in whatever order
\* the database returns them (orderTopicsHierarchically).
THEOREM TopicsInDocumentOrder == Names!Spec => []DocumentOrder
  <1>1. NamesInv => DocumentOrder
    <2> SUFFICES ASSUME NamesInv PROVE DocumentOrder
      OBVIOUS
    <2>1. Family /\ visited = Names!Ordered(members)
      BY DEF NamesInv
    <2>2. /\ visited \in Seq(Kin) /\ Range(visited) = Kin /\ Len(visited) = Len(members)
          /\ \A i, j \in 1..Len(visited) :
                i < j /\ Names!Rooted(visited[j]) =>
                    Names!Rooted(visited[i]) /\ Names!Precedes(visited[i], visited[j])
      BY <2>1, OrderedIs
    <2>3. DOMAIN members = Kin /\ DOMAIN visited = 1..Len(visited)
      BY <2>1, <2>2, MemberKnown DEF Kin
    <2>4. Names!Range(visited) = Range(visited)
      BY SameNames
    <2> QED
      BY <2>2, <2>3, <2>4 DEF DocumentOrder, Names!DocumentOrder
  <1> QED
    BY <1>1, NamesCurrent, PTL

\* However deep the tree, the visit reaches its end: a topic that a chain of parents of any
\* length joins to a root counts as rooted (visit in orderTopicsHierarchically).
THEOREM NoLevelIsCut ==
    Names!Spec => [](\A k : (\E p \in Seq(DOMAIN members) : Len(p) # 0 /\ Names!Leads(p, k))
                              => Names!Rooted(k))
  <1>1. ASSUME NamesInv, NEW k, NEW p \in Seq(DOMAIN members), Len(p) # 0, Names!Leads(p, k)
        PROVE  Names!Rooted(k)
    <2>1. Family
      BY <1>1 DEF NamesInv
    <2>2. Way(p, k)
      BY <1>1, <2>1, MemberKnown DEF Way, Kin
    <2>3. p \in Names!Line /\ Names!Leads(p, k)
      BY <2>1, <2>2, WayIsShort, LineIs
    <2> QED
      BY <2>3 DEF Names!Rooted
  <1>2. NamesInv => \A k : (\E p \in Seq(DOMAIN members) : Len(p) # 0 /\ Names!Leads(p, k))
                            => Names!Rooted(k)
    BY <1>1
  <1> QED
    BY <1>2, NamesCurrent, PTL

-----------------------------------------------------------------------------
(* Numbers at the end of a URL                                             *)

\* How often what stands at k has come up to there.
Times(raws, k) == Cardinality({j \in 1..k : raws[j] = raws[k]})

\* A repetition counts one more.
LEMMA TimesGrow ==
    ASSUME NEW raws, NEW i \in Nat \ {0}, NEW j \in Nat, i < j
    PROVE  /\ Times(raws, i) \in Nat /\ Times(raws, i) >= 1
           /\ raws[i] = raws[j] => Times(raws, i) < Times(raws, j)
  <1> DEFINE A == {n \in 1..i : raws[n] = raws[i]}
             B == {n \in 1..j : raws[n] = raws[j]}
  <1>1. IsFiniteSet(A) /\ IsFiniteSet(B)
    <2>1. IsFiniteSet(1..i) /\ IsFiniteSet(1..j)
      BY FS_Interval
    <2>2. A \in SUBSET (1..i) /\ B \in SUBSET (1..j)
      OBVIOUS
    <2> HIDE DEF A, B
    <2> QED
      BY <2>1, <2>2, FS_Subset
  <1>2. i \in A /\ j \in B /\ j \notin A
    OBVIOUS
  <1>3. raws[i] = raws[j] => A \in SUBSET B
    OBVIOUS
  <1>4. Times(raws, i) = Cardinality(A) /\ Times(raws, j) = Cardinality(B)
    BY DEF Times
  <1> HIDE DEF A, B
  <1>5. Cardinality(A) \in Nat /\ Cardinality(B) \in Nat /\ Cardinality(A) # 0
    BY <1>1, <1>2, FS_CardinalityType, FS_EmptySet
  <1>6. ASSUME raws[i] = raws[j] PROVE Cardinality(A) < Cardinality(B)
    <2>1. /\ Cardinality(A) <= Cardinality(B)
          /\ Cardinality(B) = Cardinality(A) => B = A
      BY <1>1, <1>3, <1>6, FS_Subset
    <2> QED
      BY <1>2, <1>5, <2>1
  <1> QED
    BY <1>4, <1>5, <1>6

LEMMA NumberAdded ==
    ASSUME NEW S, NEW s \in Seq(S), NEW x \in S
    PROVE  /\ Len(Append(s, x)) = Len(s) + 1 /\ Append(s, x)[Len(s) + 1] = x
           /\ \A i \in 1..Len(s) : Append(s, x)[i] = s[i]
  OBVIOUS

\* Where no URL was rendered with a number, equal ones are told apart by it.
LEMMA NamedApart ==
    ASSUME NEW raws, NEW n \in Nat,
           \A k \in 1..n : raws[k] # Unset => raws[k] \in Seq(Word \cup Nat) /\ Len(raws[k]) = 1,
           NEW i \in 1..n, NEW j \in 1..n, i < j,
           Names!Suffixed(raws, i) = Names!Suffixed(raws, j)
    PROVE  raws[i] = Unset \/ raws[j] = Unset
  <1> SUFFICES ASSUME raws[i] # Unset, raws[j] # Unset PROVE FALSE
    OBVIOUS
  <1>1. i \in Nat \ {0} /\ j \in Nat \ {0}
    OBVIOUS
  <1>2. /\ Times(raws, i) \in Nat /\ Times(raws, i) >= 1
        /\ raws[i] = raws[j] => Times(raws, i) < Times(raws, j)
    BY <1>1, TimesGrow
  <1>3. Times(raws, j) \in Nat /\ Times(raws, j) >= 1
    <2>1. j + 1 \in Nat /\ j < j + 1
      BY <1>1
    <2> QED
      BY <1>1, <2>1, TimesGrow
  <1>4. /\ raws[i] \in Seq(Word \cup Nat) /\ Len(raws[i]) = 1
        /\ raws[j] \in Seq(Word \cup Nat) /\ Len(raws[j]) = 1
    OBVIOUS
  <1>5. \A k \in {i, j} : Names!Suffixed(raws, k) =
           IF Times(raws, k) > 1 THEN Append(raws[k], Times(raws, k)) ELSE raws[k]
    BY SameNames DEF Names!Suffixed, Times
  <1> DEFINE a == raws[i]
             b == raws[j]
             c == Times(raws, i)
             d == Times(raws, j)
  <1>6. (IF c > 1 THEN Append(a, c) ELSE a) = (IF d > 1 THEN Append(b, d) ELSE b)
    BY <1>5
  <1> HIDE DEF a, b, c, d
  <1>7. /\ a \in Seq(Word \cup Nat) /\ Len(a) = 1 /\ b \in Seq(Word \cup Nat) /\ Len(b) = 1
        /\ c \in Nat /\ c >= 1 /\ d \in Nat /\ d >= 1 /\ (a = b => c < d)
    BY <1>2, <1>3, <1>4 DEF a, b, c, d
  <1> DEFINE T == Word \cup Nat
  <1>8. a \in Seq(T) /\ b \in Seq(T) /\ c \in T /\ d \in T
    BY <1>7
  <1> HIDE DEF T
  <1>9. /\ Len(Append(a, c)) = 2 /\ Append(a, c)[1] = a[1] /\ Append(a, c)[2] = c
        /\ Len(Append(b, d)) = 2 /\ Append(b, d)[1] = b[1] /\ Append(b, d)[2] = d
    <2>1. \A u \in Seq(T), e \in T :
             /\ Len(Append(u, e)) = Len(u) + 1 /\ Append(u, e)[Len(u) + 1] = e
             /\ \A k \in 1..Len(u) : Append(u, e)[k] = u[k]
      BY NumberAdded
    <2>2. \A u \in Seq(T), e \in T :
             Len(u) = 1 => Len(Append(u, e)) = 2 /\ Append(u, e)[1] = u[1] /\ Append(u, e)[2] = e
      <3> SUFFICES ASSUME NEW u \in Seq(T), NEW e \in T, Len(u) = 1
                   PROVE  Len(Append(u, e)) = 2 /\ Append(u, e)[1] = u[1] /\ Append(u, e)[2] = e
        OBVIOUS
      <3> DEFINE w == Append(u, e)
      <3>1. /\ Len(w) = Len(u) + 1 /\ w[Len(u) + 1] = e
            /\ \A k \in 1..Len(u) : w[k] = u[k]
        BY <2>1
      <3> HIDE DEF w
      <3>2. Len(w) = 2 /\ w[1] = u[1] /\ w[2] = e
        BY <3>1
      <3> QED
        BY <3>2 DEF w
    <2>3. Len(a) = 1 /\ Len(b) = 1
      BY <1>7
    <2> QED
      BY <1>8, <2>2, <2>3
  <1>10. a[1] = b[1] => a = b
    BY <1>7, <1>8
  <1>11. CASE c > 1 /\ d > 1
    BY <1>6, <1>7, <1>9, <1>10, <1>11
  <1>12. CASE ~(c > 1) /\ ~(d > 1)
    BY <1>6, <1>7, <1>12
  <1>13. CASE c > 1 /\ ~(d > 1)
    BY <1>6, <1>7, <1>9, <1>13
  <1>14. CASE ~(c > 1) /\ d > 1
    BY <1>6, <1>7, <1>9, <1>14
  <1> QED
    BY <1>11, <1>12, <1>13, <1>14

\* As long as no template makes a URL that ends in a number, no two topics of a
\* document are stored under one (deduplicateWithinDoc).
THEOREM TopicUrlsToldApart == Names!Spec => []DistinctUnlessNumbered
  <1>1. NamesInv => DistinctUnlessNumbered
    <2> SUFFICES ASSUME NamesInv,
                        \A k \in DOMAIN members : members[k].url # Unset => Len(members[k].url) = 1,
                        NEW i \in DOMAIN names, NEW j \in DOMAIN names, i # j, names[i] # Unset
                 PROVE  names[i] # names[j]
      BY DEF DistinctUnlessNumbered, Names!DistinctUnlessNumbered
    <2> DEFINE raws == [k \in DOMAIN visited |-> members[visited[k]].url]
               n == Len(visited)
    <2>1. Family /\ visited = Names!Ordered(members)
      BY DEF NamesInv
    <2>2. visited \in Seq(Kin) /\ DOMAIN visited = 1..n /\ n \in Nat /\ DOMAIN members = Kin
      BY <2>1, OrderedIs, MemberKnown DEF Kin
    <2>3. \A k \in 1..n : raws[k] = members[visited[k]].url /\ visited[k] \in Kin
      BY <2>2
    <2>4. DOMAIN raws = 1..n
      BY <2>2
    <2>5. \A k \in 1..n : raws[k] # Unset => raws[k] \in Seq(Word \cup Nat) /\ Len(raws[k]) = 1
      <3>1. Raw \subseteq Seq(Word \cup Nat)
        BY UrlAssumption DEF Names!Given
      <3>2. \A k \in Kin : members[k].url \in Raw \cup {Unset}
        BY <2>1, MemberKnown DEF Kin
      <3> HIDE DEF raws, n
      <3> QED
        BY <2>2, <2>3, <3>1, <3>2
    <2>6. names = Names!Named(raws)
      BY DEF NamesInv
    <2> HIDE DEF raws, n
    <2>7. DOMAIN names = 1..n /\ \A k \in 1..n : names[k] = Names!Suffixed(raws, k)
      BY <2>4, <2>6 DEF Names!Named
    <2>8. \A k \in 1..n : raws[k] = Unset => names[k] = Unset
      BY <2>7 DEF Names!Suffixed
    <2>9. \A k, l \in 1..n : k < l /\ names[k] = names[l] => names[k] = Unset
      <3> SUFFICES ASSUME NEW k \in 1..n, NEW l \in 1..n, k < l, names[k] = names[l]
                   PROVE  names[k] = Unset
        OBVIOUS
      <3>1. Names!Suffixed(raws, k) = Names!Suffixed(raws, l)
        BY <2>7
      <3>2. raws[k] = Unset \/ raws[l] = Unset
        BY <2>2, <2>5, <3>1, NamedApart
      <3> QED
        BY <2>8, <3>2
    <2>10. i \in Nat /\ j \in Nat /\ (i < j \/ j < i)
      BY <2>2, <2>7
    <2> QED
      BY <2>7, <2>9, <2>10
  <1> QED
    BY <1>1, NamesCurrent, PTL
=============================================================================
