------------------------------ MODULE TopicProofs ------------------------------
(***************************************************************************)
(* Proofs about TopicMerge.                                                *)
(*                                                                         *)
(* A topic never changes its document or its stable id, and an id is never *)
(* used again (Persists); a step of the merge of one document leaves the   *)
(* topics of the others alone (Alone).  What the proofs need besides is    *)
(* about one document at a time: what the merge has read is still so       *)
(* (OldOk), each topic was read or inserted by the merge under way         *)
(* (FreshOk), and a merge without errors has done what its candidates so   *)
(* far ask (DoneOk) and has swept (SweptOk).  A second invariant, TreeInv, is *)
(* about the tree and the links of its topics.                             *)
(***************************************************************************)
EXTENDS TopicMerge, FiniteSetTheorems, WellFoundedInduction, TLAPS

-----------------------------------------------------------------------------
(* The inductive invariant                                                 *)

\* The topics that the merge of d read are of d, as far as they are there.
OldOk(d) ==
    \A o \in run[d].old :
        /\ o.id < nextId
        /\ o.sid \in Sid
        /\ o.id \in DOMAIN topics => topics[o.id].doc = d /\ topics[o.id].sid = o.sid

\* What it wrote are topics of d that the zip has.
TouchedOk(d) ==
    \A t \in run[d].touched :
        /\ t < nextId
        /\ t \in DOMAIN topics => topics[t].doc = d /\ topics[t].sid \in SidsOf(run[d].zip)

Identified == \A t \in DOMAIN topics : topics[t].sid \in Sid

TypeInv == TypeOK /\ Identified /\ \A d \in Doc : OldOk(d) /\ TouchedOk(d)

\* Candidates that the merge of d is done with.
Seen(d) == {run[d].zip.cands[j].sid : j \in {j \in DOMAIN run[d].zip.cands : j < run[d].todo}}
Working == {"apply", "parents", "children", "sweep"}
Over == {"finish", "links", "urls"}

TodoOk(d) ==
    /\ run[d].pc = "read" => run[d].todo = 1
    /\ run[d].pc = "apply" => 1 <= run[d].todo
    /\ run[d].pc \in {"parents", "children", "sweep"} => run[d].todo > Len(run[d].zip.cands)

OneOk(d) == \A t, u \in TopicsOf(d) : topics[t].sid = topics[u].sid => t = u

\* A topic of d is one that was read or one of a candidate.
FreshOk(d) ==
    run[d].pc \in Working =>
        \A t \in TopicsOf(d) : (\E o \in run[d].old : o.id = t) \/ topics[t].sid \in Seen(d)

\* What was read is there, with its text if no candidate has changed it.
KeptOk(d) ==
    run[d].pc \in Working /\ ~run[d].spoiled =>
        \A o \in run[d].old :
            o.id \in DOMAIN topics /\ (o.sid \notin Seen(d) => topics[o.id].text = o.text)

Matched(d, c) == \E t \in TopicsOf(d) : topics[t].sid = c.sid /\ topics[t].text = c.text

\* A merge without errors has done what its candidates ask, and swept.
DoneOk(d) ==
    run[d].pc \in Working \cup Over /\ run[d].ok /\ ~run[d].spoiled =>
        \A j \in DOMAIN run[d].zip.cands :
            run[d].pc \in Over \/ j < run[d].todo => Matched(d, run[d].zip.cands[j])
SweptOk(d) ==
    run[d].pc \in Over /\ run[d].ok /\ ~run[d].spoiled =>
        \A t \in TopicsOf(d) : topics[t].sid \in SidsOf(run[d].zip)

MergeInv(d) == TodoOk(d) /\ OneOk(d) /\ FreshOk(d) /\ KeptOk(d) /\ DoneOk(d) /\ SweptOk(d)

-----------------------------------------------------------------------------
(* What a step does to the topics                                          *)

\* No topic changes its document or stable id, no id is used again.
Persists ==
    /\ nextId <= nextId'
    /\ \A t \in DOMAIN topics' : t < nextId =>
          /\ t \in DOMAIN topics
          /\ topics'[t].doc = topics[t].doc /\ topics'[t].sid = topics[t].sid

\* No topic of d comes, goes or changes its stable id or text.
Alone(d) ==
    /\ TopicsOf(d)' = TopicsOf(d)
    /\ \A t \in TopicsOf(d) : topics'[t].sid = topics[t].sid /\ topics'[t].text = topics[t].text

\* A step of the merge of d that writes no text and inserts or removes no topic.
SameTexts ==
    /\ DOMAIN topics' = DOMAIN topics
    /\ \A t \in DOMAIN topics : /\ topics'[t].doc = topics[t].doc
                                /\ topics'[t].sid = topics[t].sid
                                /\ topics'[t].text = topics[t].text

\* The topics in ids go, the others do not change.
Removes(ids) ==
    /\ DOMAIN topics' = DOMAIN topics \ ids
    /\ \A t \in DOMAIN topics' : topics'[t] = topics[t]

\* Only the merge of d goes on.
Others(d) == \A e \in Doc \ {d} : run'[e] = run[e]

\* The merge of d goes on with the same zip and what it read.
Same(d) == run'[d].zip = run[d].zip /\ run'[d].old = run[d].old

\* It is done with its candidate.
Advances(d) ==
    /\ Applying(d)
    /\ run'[d].todo = run[d].todo + 1
    /\ run'[d].pc = IF run[d].todo = Len(run[d].zip.cands) THEN "parents" ELSE "apply"
    /\ Same(d) /\ run'[d].result = run[d].result /\ run'[d].spoiled = run[d].spoiled

-----------------------------------------------------------------------------
(* Facts about the operators                                               *)

LEMMA LeastOfNat ==
    ASSUME NEW S, S \subseteq Nat, S # {}
    PROVE  \E i \in S : \A j \in S : i <= j
  <1>1. PICK i \in S : \A j \in S : ~ (<<j, i>> \in OpToRel(<, Nat))
    BY WFMin, NatLessThanWellFounded, Zenon
  <1>2. \A j \in S : ~ (j < i)
    BY <1>1, Zenon DEF OpToRel
  <1> QED
    BY <1>2

LEMMA GreatestOfBounded ==
    ASSUME NEW S, S # {}, NEW n \in Nat, S \subseteq 0..n
    PROVE  \E i \in S : \A j \in S : j <= i
  <1> DEFINE U == {u \in 0..n : \A j \in S : j <= u}
  <1>1. U \subseteq Nat /\ n \in U
    OBVIOUS
  <1>2. PICK u \in U : \A v \in U : u <= v
    BY <1>1, LeastOfNat, Zenon
  <1>3. PICK j \in S : j \in 0..n
    OBVIOUS
  <1>4. u \in S
    <2>1. SUFFICES ASSUME u \notin S PROVE FALSE
      OBVIOUS
    <2>2. \A i \in S : i < u
      BY <1>2, <2>1
    <2>3. u - 1 \in U
      BY <1>2, <1>3, <2>2
    <2> QED
      BY <1>2, <2>3
  <1> QED
    BY <1>2, <1>4

\* The chosen candidate is one of the zip with the stable id.
LEMMA LastOfIs ==
    ASSUME NEW z \in Upload, NEW s \in SidsOf(z)
    PROVE  /\ LastOf(z, s) \in Elements(z)
           /\ LastOf(z, s) \in Candidate
           /\ LastOf(z, s).sid = s
  <1> DEFINE at == {i \in DOMAIN z.cands : z.cands[i].sid = s}
  <1>1. z.cands \in Seq(Candidate)
    BY TopicAssumption
  <1>2. at \subseteq 0..Len(z.cands) /\ at # {} /\ Len(z.cands) \in Nat
    BY <1>1 DEF SidsOf, Elements
  <1>3. \E i \in at : \A j \in at : j <= i
    BY <1>2, GreatestOfBounded
  <1>4. PICK i \in at : LastOf(z, s) = z.cands[i]
    BY <1>3 DEF LastOf
  <1> QED
    BY <1>1, <1>4 DEF Elements

LEMMA ElementsAre ==
    ASSUME NEW z \in Upload
    PROVE  /\ z.cands \in Seq(Candidate) /\ z.paligo \in BOOLEAN
           /\ Elements(z) \subseteq Candidate
           /\ SidsOf(z) \subseteq Sid
  <1>1. z.cands \in Seq(Candidate) /\ z.paligo \in BOOLEAN
    BY TopicAssumption
  <1>2. Elements(z) \subseteq Candidate
    BY <1>1 DEF Elements
  <1> QED
    BY <1>1, <1>2 DEF SidsOf, Candidate

\* What the merge has read with a stable id, the one read last.
LEMMA PriorIs ==
    ASSUME TypeInv, NEW d \in Doc, NEW s, HasPrior(d, s)
    PROVE  /\ Prior(d, s) \in run[d].old
           /\ Prior(d, s).sid = s
           /\ Prior(d, s).id \in TopicId
           /\ Prior(d, s).text \in Text
  <1> DEFINE found == {o \in run[d].old : o.sid = s}
             ids == {o.id : o \in found}
  <1>1. run[d].old \subseteq [id : TopicId, sid : Sid \cup {None}, text : Text]
    BY DEF TypeInv, TypeOK, MergeState
  <1>2. ids \subseteq 0..MaxTopics /\ ids # {} /\ MaxTopics \in Nat
    BY <1>1, TopicAssumption DEF HasPrior, TopicId
  <1>3. \E i \in ids : \A j \in ids : j <= i
    BY <1>2, GreatestOfBounded
  <1>4. \E o \in found : \A q \in found : q.id <= o.id
    BY <1>3
  <1>5. Prior(d, s) \in found
    BY <1>4 DEF Prior
  <1> QED
    BY <1>1, <1>5

LEMMA IdleTyped ==
    ASSUME NEW r \in {"none", "clean", "partial"}, NEW b \in BOOLEAN
    PROVE  Idle(r, b) \in MergeState
  <1>1. (CHOOSE z \in Upload : TRUE) \in Upload
    BY TopicAssumption
  <1>2. NoIds \in [Sid -> TopicId \cup {None}]
    BY DEF NoIds
  <1> QED
    BY <1>1, <1>2 DEF Idle, MergeState

\* The run of one document changes.
LEMMA RunTyped ==
    ASSUME TypeOK, NEW d \in Doc, NEW r \in MergeState, run' = [run EXCEPT ![d] = r]
    PROVE  run' \in [Doc -> MergeState] /\ run'[d] = r /\ Others(d)
  BY DEF TypeOK, Others

-----------------------------------------------------------------------------
(* What holds of the topics holds on                                       *)

LEMMA TextsPersist ==
    ASSUME TypeInv, TypeOK', SameTexts, nextId' = nextId
    PROVE  Persists /\ Identified' /\ \A d \in Doc : Alone(d)
  <1>1. Persists /\ Identified'
    BY DEF Persists, Identified, TypeInv, TypeOK, SameTexts
  <1>2. ASSUME NEW d \in Doc PROVE Alone(d)
    BY DEF SameTexts, Alone, TopicsOf
  <1> QED
    BY <1>1, <1>2

LEMMA RemovalPersists ==
    ASSUME TypeInv, TypeOK', NEW ids, Removes(ids), nextId' = nextId
    PROVE  /\ Persists /\ Identified'
           /\ \A d \in Doc : ids \cap TopicsOf(d) = {} => Alone(d)
  <1>1. Persists /\ Identified'
    BY DEF Persists, Identified, TypeInv, TypeOK, Removes
  <1>2. ASSUME NEW d \in Doc, ids \cap TopicsOf(d) = {} PROVE Alone(d)
    BY <1>2 DEF Removes, Alone, TopicsOf
  <1> QED
    BY <1>1, <1>2

LEMMA OldPersists ==
    ASSUME TypeInv, TypeOK', Persists, NEW d \in Doc, run'[d].old \subseteq run[d].old
    PROVE  OldOk(d)'
  <1>1. \A o \in run[d].old : o.id \in Nat
    BY DEF TypeInv, TypeOK, MergeState, TopicId
  <1>2. nextId \in Nat /\ nextId' \in Nat /\ nextId <= nextId'
    BY TopicAssumption DEF TypeInv, TypeOK, Persists
  <1>3. SUFFICES ASSUME NEW o \in run[d].old
                 PROVE  /\ o.id < nextId' /\ o.sid \in Sid
                        /\ o.id \in DOMAIN topics' => topics'[o.id].doc = d /\ topics'[o.id].sid = o.sid
    BY DEF OldOk
  <1> QED
    BY <1>1, <1>2, <1>3 DEF TypeInv, OldOk, Persists

LEMMA TouchedPersist ==
    ASSUME TypeInv, TypeOK', Persists, NEW d \in Doc,
           run'[d].touched \subseteq run[d].touched,
           run'[d].zip = run[d].zip \/ run'[d].touched = {}
    PROVE  TouchedOk(d)'
  <1>1. \A t \in run[d].touched : t \in Nat
    BY DEF TypeInv, TypeOK, MergeState, TopicId
  <1>2. nextId \in Nat /\ nextId' \in Nat /\ nextId <= nextId'
    BY TopicAssumption DEF TypeInv, TypeOK, Persists
  <1>3. CASE run'[d].touched = {}
    BY <1>3 DEF TouchedOk
  <1>4. CASE run'[d].zip = run[d].zip
    <2>1. SUFFICES ASSUME NEW t \in run[d].touched
                   PROVE  /\ t < nextId'
                          /\ t \in DOMAIN topics' =>
                               topics'[t].doc = d /\ topics'[t].sid \in SidsOf(run[d].zip)
      BY <1>4 DEF TouchedOk
    <2> QED
      BY <1>1, <1>2, <2>1 DEF TypeInv, TouchedOk, Persists
  <1> QED
    BY <1>3, <1>4

\* The invariant of the documents that a step of d is not about.
LEMMA OthersTyped ==
    ASSUME TypeInv, TypeOK', Persists, Identified', NEW d \in Doc, Others(d), OldOk(d)', TouchedOk(d)'
    PROVE  TypeInv'
  <1>1. ASSUME NEW e \in Doc, e # d PROVE OldOk(e)' /\ TouchedOk(e)'
    <2>1. run'[e] = run[e]
      BY <1>1 DEF Others
    <2> QED
      BY <2>1, OldPersists, TouchedPersist
  <1> QED
    BY <1>1 DEF TypeInv

\* A step of d that writes nothing of the texts, and starts or ends its run or
\* goes on with what it has.
LEMMA QuietStep ==
    ASSUME TypeInv, TypeOK', SameTexts, nextId' = nextId, NEW d \in Doc, Others(d),
           run'[d].old \subseteq run[d].old, run'[d].touched \subseteq run[d].touched,
           run'[d].zip = run[d].zip \/ run'[d].touched = {}
    PROVE  TypeInv' /\ Persists /\ \A e \in Doc : Alone(e)
  BY TextsPersist, OldPersists, TouchedPersist, OthersTyped

LEMMA RemovingStep ==
    ASSUME TypeInv, TypeOK', NEW ids, Removes(ids), nextId' = nextId, NEW d \in Doc, Others(d),
           Same(d), run'[d].touched = run[d].touched,
           \A t \in ids \cap DOMAIN topics : topics[t].doc = d
    PROVE  TypeInv' /\ Persists /\ \A e \in Doc \ {d} : Alone(e)
  <1>1. Persists /\ Identified' /\ \A e \in Doc : ids \cap TopicsOf(e) = {} => Alone(e)
    BY RemovalPersists
  <1>2. \A e \in Doc \ {d} : ids \cap TopicsOf(e) = {}
    BY DEF TopicsOf
  <1>3. OldOk(d)' /\ TouchedOk(d)'
    BY <1>1, OldPersists, TouchedPersist DEF Same
  <1> QED
    BY <1>1, <1>2, <1>3, OthersTyped

-----------------------------------------------------------------------------
(* The steps, one by one                                                   *)

LEMMA StartMergeDoes ==
    ASSUME TypeInv, NEW d \in Doc, StartMerge(d)
    PROVE  /\ TypeInv' /\ Persists /\ Others(d) /\ \A e \in Doc : Alone(e)
           /\ run'[d] \in MergeState /\ run'[d].pc = "read" /\ run[d].pc = "idle"
           /\ run'[d].old = {} /\ run'[d].touched = {}
           /\ run'[d].result = run[d].result /\ run'[d].spoiled = FALSE /\ run'[d].todo = 1
  <1>1. PICK z \in Upload :
          run' = [run EXCEPT ![d] = [Idle(run[d].result, FALSE) EXCEPT !.pc = "read", !.zip = z]]
    BY DEF StartMerge
  <1> DEFINE r == [Idle(run[d].result, FALSE) EXCEPT !.pc = "read", !.zip = z]
  <1>2. run[d] \in MergeState
    BY DEF TypeInv, TypeOK
  <1>3. Idle(run[d].result, FALSE) \in MergeState
    BY <1>2, IdleTyped DEF MergeState
  <1>4. r \in MergeState
    BY <1>3 DEF MergeState
  <1>5. /\ r.pc = "read" /\ r.old = {} /\ r.touched = {}
        /\ r.result = run[d].result /\ r.spoiled = FALSE /\ r.todo = 1
    BY DEF Idle
  <1> HIDE DEF r
  <1>6. run' \in [Doc -> MergeState] /\ run'[d] = r /\ Others(d)
    BY <1>1, <1>4, RunTyped DEF TypeInv, r
  <1>7. TypeOK'
    BY <1>6, TopicAssumption DEF StartMerge, TypeInv, TypeOK
  <1>8. SameTexts /\ nextId' = nextId
    BY DEF StartMerge, SameTexts
  <1> QED
    BY <1>5, <1>6, <1>7, <1>8, QuietStep DEF StartMerge, At, TypeOK

LEMMA FindIs ==
    ASSUME TypeInv, NEW d \in Doc, NEW s
    PROVE  IF \E t \in TopicsOf(d) : topics[t].sid = s
           THEN Find(d, s) \in TopicsOf(d) /\ topics[Find(d, s)].sid = s
           ELSE Find(d, s) = None
  <1> DEFINE found == {t \in TopicsOf(d) : topics[t].sid = s}
  <1>1. found \subseteq 0..nextId /\ nextId \in Nat
    BY TopicAssumption DEF TopicsOf, TypeInv, TypeOK
  <1>2. CASE found = {}
    BY <1>2 DEF Find
  <1>3. CASE found # {}
    <2>1. \E i \in found : \A j \in found : j <= i
      BY <1>1, <1>3, GreatestOfBounded
    <2>2. Find(d, s) \in found
      BY <1>3, <2>1 DEF Find
    <2> QED
      BY <2>2
  <1> QED
    BY <1>2, <1>3

LEMMA TopicIds ==
    ASSUME TypeInv
    PROVE  /\ DOMAIN topics \subseteq TopicId
           /\ nextId \in Nat /\ \A t \in DOMAIN topics : t < nextId
           /\ nextId <= MaxTopics => nextId \in TopicId
           /\ \A d : TopicsOf(d) \subseteq DOMAIN topics
  BY TopicAssumption DEF TypeInv, TypeOK, TopicId, TopicsOf

LEMMA ReadExistingDoes ==
    ASSUME TypeInv, NEW d \in Doc, ReadExisting(d)
    PROVE  /\ TypeInv' /\ Persists /\ Others(d) /\ \A e \in Doc : Alone(e)
           /\ run'[d] \in MergeState /\ run'[d].pc = "apply" /\ run[d].pc = "read"
           /\ run'[d].old = {[id |-> t, sid |-> topics[t].sid, text |-> topics[t].text] : t \in TopicsOf(d)}
           /\ run'[d].ids = [s \in Sid |-> Find(d, s)]
           /\ \A t \in TopicsOf(d) : \E o \in run'[d].old :
                 o.id = t /\ o.sid = topics[t].sid /\ o.text = topics[t].text
           /\ \A o \in run'[d].old :
                 o.id \in TopicsOf(d) /\ o.sid = topics[o.id].sid /\ o.text = topics[o.id].text
           /\ run'[d].zip = run[d].zip /\ run'[d].result = run[d].result
           /\ run'[d].spoiled = run[d].spoiled /\ run'[d].todo = run[d].todo
           /\ run'[d].ok = run[d].ok /\ run'[d].touched = run[d].touched
  <1> DEFINE old == {[id |-> t, sid |-> topics[t].sid, text |-> topics[t].text] : t \in TopicsOf(d)}
             ids == [s \in Sid |-> Find(d, s)]
             r == [run[d] EXCEPT !.pc = "apply", !.old = old, !.ids = ids]
  <1>1. run' = [run EXCEPT ![d] = r]
    BY DEF ReadExisting
  <1>2. run[d] \in MergeState
    BY DEF TypeInv, TypeOK
  <1>3. old \subseteq [id : TopicId, sid : Sid \cup {None}, text : Text]
    <2>1. \A t \in TopicsOf(d) : t \in TopicId /\ topics[t].sid \in Sid /\ topics[t].text \in Text
      BY TopicIds DEF TypeInv, TypeOK, Identified, Topic
    <2> QED
      BY <2>1
  <1>4. ids \in [Sid -> TopicId \cup {None}]
    BY FindIs, TopicIds
  <1>5. /\ \A t \in TopicsOf(d) : \E o \in old :
              o.id = t /\ o.sid = topics[t].sid /\ o.text = topics[t].text
        /\ \A o \in old :
              o.id \in TopicsOf(d) /\ o.sid = topics[o.id].sid /\ o.text = topics[o.id].text
    <2>1. ASSUME NEW t \in TopicsOf(d)
          PROVE  \E o \in old : o.id = t /\ o.sid = topics[t].sid /\ o.text = topics[t].text
      <3>1. [id |-> t, sid |-> topics[t].sid, text |-> topics[t].text] \in old
        OBVIOUS
      <3> QED
        BY <3>1
    <2>2. ASSUME NEW o \in old
          PROVE  o.id \in TopicsOf(d) /\ o.sid = topics[o.id].sid /\ o.text = topics[o.id].text
      <3>1. PICK t \in TopicsOf(d) : o = [id |-> t, sid |-> topics[t].sid, text |-> topics[t].text]
        OBVIOUS
      <3> QED
        BY <3>1
    <2> QED
      BY <2>1, <2>2
  <1> HIDE DEF old, ids
  <1>6. r \in MergeState
    BY <1>2, <1>3, <1>4 DEF MergeState
  <1>7. /\ r.pc = "apply" /\ r.old = old /\ r.ids = ids /\ r.zip = run[d].zip
        /\ r.result = run[d].result /\ r.spoiled = run[d].spoiled /\ r.todo = run[d].todo
        /\ r.ok = run[d].ok /\ r.touched = run[d].touched
    BY <1>2 DEF MergeState
  <1> HIDE DEF r
  <1>8. run' \in [Doc -> MergeState] /\ run'[d] = r /\ Others(d)
    BY <1>1, <1>6, RunTyped DEF TypeInv
  <1>9. TypeOK'
    BY <1>8 DEF ReadExisting, TypeInv, TypeOK
  <1>10. SameTexts /\ nextId' = nextId /\ topics' = topics
    BY DEF ReadExisting, SameTexts
  <1>11. Persists /\ Identified' /\ \A e \in Doc : Alone(e)
    BY <1>9, <1>10, TextsPersist
  <1>12. OldOk(d)'
    <2>1. SUFFICES ASSUME NEW o \in old
                   PROVE  o.id < nextId /\ o.sid \in Sid /\ topics[o.id].doc = d /\ topics[o.id].sid = o.sid
      BY <1>7, <1>8, <1>10 DEF OldOk
    <2>2. o.id \in TopicsOf(d) /\ o.sid = topics[o.id].sid
      BY <1>5
    <2> QED
      BY <2>2, TopicIds DEF TopicsOf, TypeInv, Identified
  <1>13. TouchedOk(d)'
    BY <1>7, <1>8, <1>9, <1>11, TouchedPersist
  <1>14. TypeInv'
    BY <1>8, <1>9, <1>11, <1>12, <1>13, OthersTyped
  <1>15. run[d].pc = "read"
    BY DEF ReadExisting, At
  <1>16. run'[d].old = old /\ run'[d].ids = ids
    BY <1>7, <1>8
  <1> QED
    BY <1>5, <1>6, <1>7, <1>8, <1>11, <1>14, <1>15, <1>16 DEF old, ids

LEMMA RemoveAllDoes ==
    ASSUME TypeInv, NEW d \in Doc, RemoveAll(d)
    PROVE  /\ TypeInv' /\ Persists /\ Others(d) /\ \A e \in Doc \ {d} : Alone(e)
           /\ run[d].pc = "apply" /\ Len(run[d].zip.cands) = 0
           /\ Removes({o.id : o \in run[d].old})
           /\ \A o \in run[d].old : o.id \in DOMAIN topics => topics[o.id].doc = d
           /\ run'[d] = [run[d] EXCEPT !.pc = "finish"] /\ run'[d] \in MergeState
  <1> DEFINE ids == {o.id : o \in run[d].old}
             r == [run[d] EXCEPT !.pc = "finish"]
  <1>1. run' = [run EXCEPT ![d] = r]
    BY DEF RemoveAll, Step
  <1>2. run[d] \in MergeState
    BY DEF TypeInv, TypeOK
  <1>3. r \in MergeState
    BY <1>2 DEF MergeState
  <1>4. r.zip = run[d].zip /\ r.old = run[d].old /\ r.touched = run[d].touched
    BY <1>2 DEF MergeState
  <1> HIDE DEF r
  <1>5. run' \in [Doc -> MergeState] /\ run'[d] = r /\ Others(d)
    BY <1>1, <1>3, RunTyped DEF TypeInv
  <1>6. Removes(ids) /\ nextId' = nextId
    BY DEF RemoveAll, Without, Removes
  <1>7. TypeOK'
    BY <1>5, <1>6 DEF RemoveAll, Removes, TypeInv, TypeOK
  <1>8. \A t \in ids \cap DOMAIN topics : topics[t].doc = d
    BY DEF TypeInv, OldOk
  <1>9. TypeInv' /\ Persists /\ \A e \in Doc \ {d} : Alone(e)
    <2> HIDE DEF ids
    <2> QED
      BY <1>4, <1>5, <1>6, <1>7, <1>8, RemovingStep DEF Same
  <1> QED
    BY <1>3, <1>5, <1>6, <1>8, <1>9 DEF RemoveAll, At, r

LEMMA AdvanceIs ==
    ASSUME NEW r \in MergeState
    PROVE  /\ Advance(r) \in MergeState
           /\ Advance(r).todo = r.todo + 1
           /\ Advance(r).pc = IF r.todo = Len(r.zip.cands) THEN "parents" ELSE r.pc
           /\ Advance(r).zip = r.zip /\ Advance(r).old = r.old /\ Advance(r).ids = r.ids
           /\ Advance(r).touched = r.touched /\ Advance(r).ok = r.ok
           /\ Advance(r).result = r.result /\ Advance(r).spoiled = r.spoiled
  <1>1. PICK pc : pc = IF r.todo = Len(r.zip.cands) THEN "parents" ELSE r.pc
    OBVIOUS
  <1>2. r.todo + 1 \in Nat /\ pc \in {"idle", "read", "apply", "parents", "children", "sweep",
                                     "finish", "links", "urls"}
    BY <1>1 DEF MergeState
  <1>3. Advance(r) = [r EXCEPT !.todo = r.todo + 1, !.pc = pc]
    BY <1>1 DEF Advance
  <1> QED
    BY <1>1, <1>2, <1>3 DEF MergeState

LEMMA CurrentIs ==
    ASSUME TypeInv, NEW d \in Doc, Applying(d)
    PROVE  /\ run[d] \in MergeState /\ run[d].pc = "apply"
           /\ run[d].zip \in Upload /\ run[d].todo \in 1..Len(run[d].zip.cands)
           /\ Current(d) \in Elements(run[d].zip)
           /\ Current(d) \in Candidate /\ Current(d).sid \in Sid /\ Current(d).text \in Text
           /\ Current(d).sid \in SidsOf(run[d].zip)
  <1>1. run[d] \in MergeState /\ run[d].zip \in Upload /\ run[d].todo \in DOMAIN run[d].zip.cands
    BY DEF TypeInv, TypeOK, MergeState, Applying
  <1>2. run[d].zip.cands \in Seq(Candidate)
    BY <1>1, ElementsAre
  <1>3. Current(d) \in Elements(run[d].zip)
    BY <1>1 DEF Current, Elements
  <1>4. Current(d) \in Candidate
    BY <1>1, <1>3, ElementsAre
  <1> QED
    BY <1>1, <1>2, <1>3, <1>4 DEF Applying, At, Candidate, SidsOf

\* A run that goes on to the next candidate.
LEMMA AdvanceTyped ==
    ASSUME TypeInv, NEW d \in Doc, Applying(d), NEW r \in MergeState,
           r.pc = "apply" /\ r.todo = run[d].todo /\ r.zip = run[d].zip /\ r.old = run[d].old,
           r.result = run[d].result /\ r.spoiled = run[d].spoiled,
           run' = [run EXCEPT ![d] = Advance(r)]
    PROVE  /\ run' \in [Doc -> MergeState] /\ Others(d) /\ Advances(d)
           /\ run'[d].ids = r.ids /\ run'[d].touched = r.touched /\ run'[d].ok = r.ok
  <1>1. Advance(r) \in MergeState
    BY AdvanceIs
  <1>2. run' \in [Doc -> MergeState] /\ run'[d] = Advance(r) /\ Others(d)
    BY <1>1, RunTyped, Zenon DEF TypeInv
  <1> QED
    BY <1>2, AdvanceIs DEF Advances, Same

LEMMA KeepDoes ==
    ASSUME TypeInv, NEW d \in Doc, Keep(d)
    PROVE  /\ TypeInv' /\ Persists /\ Others(d) /\ \A e \in Doc : Alone(e)
           /\ Advances(d) /\ topics' = topics
           /\ run'[d].ids = run[d].ids /\ run'[d].touched = run[d].touched /\ run'[d].ok = run[d].ok
  <1>1. Applying(d) /\ run[d] \in MergeState /\ run[d].pc = "apply"
    BY CurrentIs DEF Keep
  <1>2. run' = [run EXCEPT ![d] = Advance(run[d])]
    BY DEF Keep
  <1>3. /\ run' \in [Doc -> MergeState] /\ Others(d) /\ Advances(d)
        /\ run'[d].ids = run[d].ids /\ run'[d].touched = run[d].touched /\ run'[d].ok = run[d].ok
    BY <1>1, <1>2, AdvanceTyped
  <1>4. TypeOK' /\ SameTexts /\ nextId' = nextId /\ topics' = topics
    BY <1>3 DEF Keep, TypeInv, TypeOK, SameTexts
  <1>5. TypeInv' /\ Persists /\ \A e \in Doc : Alone(e)
    BY <1>3, <1>4, QuietStep DEF Advances, Same
  <1> QED
    BY <1>3, <1>4, <1>5

LEMMA FailTopicDoes ==
    ASSUME TypeInv, NEW d \in Doc, FailTopic(d)
    PROVE  /\ TypeInv' /\ Persists /\ Others(d) /\ \A e \in Doc : Alone(e)
           /\ Advances(d) /\ topics' = topics /\ ~run'[d].ok
           /\ run'[d].ids = run[d].ids /\ run'[d].touched = run[d].touched
  <1> DEFINE r == [run[d] EXCEPT !.ok = FALSE]
  <1>1. Applying(d) /\ run[d] \in MergeState /\ run[d].pc = "apply"
    BY CurrentIs DEF FailTopic
  <1>2. run' = [run EXCEPT ![d] = Advance(r)]
    BY DEF FailTopic
  <1>3. /\ r \in MergeState /\ r.pc = "apply" /\ r.todo = run[d].todo /\ r.zip = run[d].zip
        /\ r.old = run[d].old /\ r.result = run[d].result /\ r.spoiled = run[d].spoiled
        /\ r.ids = run[d].ids /\ r.touched = run[d].touched /\ ~r.ok
    BY <1>1 DEF MergeState
  <1> HIDE DEF r
  <1>4. /\ run' \in [Doc -> MergeState] /\ Others(d) /\ Advances(d)
        /\ run'[d].ids = run[d].ids /\ run'[d].touched = run[d].touched /\ ~run'[d].ok
    BY <1>1, <1>2, <1>3, AdvanceTyped
  <1>5. faults' \in 0..MaxFaults
    BY TopicAssumption DEF FailTopic, TypeInv, TypeOK
  <1>6. TypeOK' /\ SameTexts /\ nextId' = nextId /\ topics' = topics
    BY <1>4, <1>5 DEF FailTopic, TypeInv, TypeOK, SameTexts
  <1>7. TypeInv' /\ Persists /\ \A e \in Doc : Alone(e)
    BY <1>4, <1>6, QuietStep DEF Advances, Same
  <1> QED
    BY <1>4, <1>6, <1>7

NewTopic(d, c) ==
    [doc |-> d, sid |-> c.sid, text |-> c.text, title |-> c.title, slug |-> SlugOf(run[d].zip, c),
     parent |-> None, children |-> {}, link |-> None, url |-> << >>]

LEMMA InsertDoes ==
    ASSUME TypeInv, NEW d \in Doc, Insert(d)
    PROVE  /\ TypeInv' /\ Persists /\ Others(d) /\ \A e \in Doc \ {d} : Alone(e)
           /\ Advances(d) /\ ~HasPrior(d, Current(d).sid)
           /\ nextId \in TopicId /\ nextId \notin DOMAIN topics
           /\ DOMAIN topics' = DOMAIN topics \cup {nextId}
           /\ \A t \in DOMAIN topics : topics'[t] = topics[t]
           /\ topics'[nextId] = NewTopic(d, Current(d))
           /\ run'[d].ids = [run[d].ids EXCEPT ![Current(d).sid] = nextId]
           /\ run'[d].touched = run[d].touched \cup {nextId} /\ run'[d].ok = run[d].ok
  <1> DEFINE c == Current(d)
             r == [run[d] EXCEPT !.touched = @ \cup {nextId}, !.ids[c.sid] = nextId]
  <1>1. /\ Applying(d) /\ run[d] \in MergeState /\ run[d].pc = "apply" /\ run[d].zip \in Upload
        /\ c \in Candidate /\ c.sid \in Sid /\ c.text \in Text /\ c.sid \in SidsOf(run[d].zip)
    BY CurrentIs DEF Insert
  <1>2. /\ run' = [run EXCEPT ![d] = Advance(r)]
        /\ topics' = [t \in DOMAIN topics \cup {nextId} |->
                         IF t # nextId THEN topics[t] ELSE NewTopic(d, c)]
        /\ nextId' = nextId + 1 /\ nextId <= MaxTopics
        /\ UNCHANGED <<docs, leaving, merges, faults>>
        /\ ~HasPrior(d, c.sid)
    <2>1. run' = [run EXCEPT ![d] = Advance(r)]
      BY Zenon DEF Insert
    <2>2. topics' = [t \in DOMAIN topics \cup {nextId} |->
                         IF t # nextId THEN topics[t] ELSE NewTopic(d, c)]
      BY Zenon DEF Insert, NewTopic
    <2>3. /\ nextId' = nextId + 1 /\ nextId <= MaxTopics
          /\ UNCHANGED <<docs, leaving, merges, faults>>
          /\ ~HasPrior(d, c.sid)
      BY DEF Insert
    <2> QED
      BY <2>1, <2>2, <2>3
  <1>3. nextId \in TopicId /\ nextId \notin DOMAIN topics /\ nextId \in Nat
    BY <1>2, TopicIds
  <1>4. [run[d].ids EXCEPT ![c.sid] = nextId] \in [Sid -> TopicId \cup {None}]
    BY <1>1, <1>3 DEF MergeState
  <1>5. NewTopic(d, c) \in Topic
    <2>1. << >> \in Seq(Title \cup Nat)
      OBVIOUS
    <2>2. SlugOf(run[d].zip, c) \in Title \cup {None}
      BY <1>1 DEF SlugOf, Candidate
    <2> QED
      BY <1>1, <2>1, <2>2 DEF NewTopic, Topic, Candidate
  <1>6. NewTopic(d, c).doc = d /\ NewTopic(d, c).sid = c.sid
    BY DEF NewTopic
  <1> HIDE DEF c
  <1>7. /\ r \in MergeState /\ r.pc = "apply" /\ r.todo = run[d].todo /\ r.zip = run[d].zip
        /\ r.old = run[d].old /\ r.result = run[d].result /\ r.spoiled = run[d].spoiled
        /\ r.touched = run[d].touched \cup {nextId} /\ r.ok = run[d].ok
        /\ r.ids = [run[d].ids EXCEPT ![c.sid] = nextId]
    BY <1>1, <1>3, <1>4 DEF MergeState
  <1> HIDE DEF r
  <1>8. /\ run' \in [Doc -> MergeState] /\ Others(d) /\ Advances(d)
        /\ run'[d].touched = run[d].touched \cup {nextId} /\ run'[d].ok = run[d].ok
        /\ run'[d].ids = [run[d].ids EXCEPT ![c.sid] = nextId]
    BY <1>1, <1>2, <1>7, AdvanceTyped
  <1>9. /\ DOMAIN topics' = DOMAIN topics \cup {nextId}
        /\ \A t \in DOMAIN topics : topics'[t] = topics[t]
        /\ topics'[nextId] = NewTopic(d, c)
    BY <1>2, <1>3
  <1>10. TypeOK'
    <2>1. nextId' \in 1..MaxTopics + 1 /\ DOMAIN topics' \subseteq 1..nextId' - 1
      BY <1>2, <1>9, TopicAssumption DEF TypeInv, TypeOK
    <2>2. \A t \in DOMAIN topics' : topics'[t] \in Topic
      BY <1>5, <1>9 DEF TypeInv, TypeOK
    <2> QED
      BY <1>2, <1>8, <2>1, <2>2 DEF TypeInv, TypeOK
  <1>11. Persists /\ Identified' /\ \A e \in Doc \ {d} : Alone(e)
    <2>1. Persists /\ Identified'
      BY <1>1, <1>2, <1>3, <1>6, <1>9 DEF Persists, Identified, TypeInv
    <2>2. ASSUME NEW e \in Doc \ {d} PROVE Alone(e)
      BY <1>3, <1>6, <1>9 DEF Alone, TopicsOf
    <2> QED
      BY <2>1, <2>2
  <1>12. OldOk(d)'
    BY <1>8, <1>10, <1>11, OldPersists DEF Advances, Same
  <1>13. TouchedOk(d)'
    <2>1. SUFFICES ASSUME NEW t \in run[d].touched \cup {nextId}
                   PROVE  /\ t < nextId'
                          /\ t \in DOMAIN topics' =>
                               topics'[t].doc = d /\ topics'[t].sid \in SidsOf(run[d].zip)
      BY <1>8 DEF TouchedOk, Advances, Same
    <2>2. CASE t = nextId
      BY <1>1, <1>2, <1>3, <1>6, <1>9, <2>2
    <2>3. CASE t # nextId
      <3>1. t \in run[d].touched /\ t \in TopicId
        BY <1>1, <2>1, <2>3 DEF MergeState
      <3> QED
        BY <1>2, <1>3, <1>9, <2>3, <3>1 DEF TypeInv, TouchedOk, TopicId
    <2> QED
      BY <2>2, <2>3
  <1>14. TypeInv'
    BY <1>8, <1>10, <1>11, <1>12, <1>13, OthersTyped
  <1> QED
    BY <1>2, <1>3, <1>8, <1>9, <1>11, <1>14 DEF c

LEMMA UpdateDoes ==
    ASSUME TypeInv, NEW d \in Doc, Update(d)
    PROVE  LET c == Current(d)
               t == Prior(d, c.sid).id IN
           /\ TypeInv' /\ Persists /\ Others(d) /\ \A e \in Doc \ {d} : Alone(e)
           /\ Advances(d) /\ HasPrior(d, c.sid)
           /\ DOMAIN topics' = DOMAIN topics
           /\ \A u \in DOMAIN topics : u # t => topics'[u] = topics[u]
           /\ t \in DOMAIN topics =>
                /\ topics[t].doc = d /\ topics[t].sid = c.sid
                /\ topics'[t].doc = d /\ topics'[t].sid = c.sid /\ topics'[t].text = c.text
                /\ topics'[t].parent = topics[t].parent /\ topics'[t].children = {}
           /\ run'[d].ids = run[d].ids
           /\ run'[d].touched = run[d].touched \cup {t} /\ run'[d].ok = run[d].ok
  <1> DEFINE c == Current(d)
             t == Prior(d, c.sid).id
             r == [run[d] EXCEPT !.touched = @ \cup {t}]
             New(u) == [topics[u] EXCEPT !.text = c.text, !.title = c.title,
                           !.slug = SlugOf(run[d].zip, c), !.children = {}, !.link = None]
  <1>1. /\ Applying(d) /\ run[d] \in MergeState /\ run[d].pc = "apply" /\ run[d].zip \in Upload
        /\ c \in Candidate /\ c.sid \in Sid /\ c.text \in Text /\ c.sid \in SidsOf(run[d].zip)
    BY CurrentIs DEF Update
  <1>2. /\ run' = [run EXCEPT ![d] = Advance(r)]
        /\ topics' = [u \in DOMAIN topics |-> IF u # t THEN topics[u] ELSE New(u)]
        /\ UNCHANGED <<nextId, docs, leaving, merges, faults>>
        /\ HasPrior(d, c.sid)
    <2>1. run' = [run EXCEPT ![d] = Advance(r)]
      BY Zenon DEF Update
    <2>2. topics' = [u \in DOMAIN topics |-> IF u # t THEN topics[u] ELSE New(u)]
      BY Zenon DEF Update
    <2>3. UNCHANGED <<nextId, docs, leaving, merges, faults>> /\ HasPrior(d, c.sid)
      BY DEF Update
    <2> QED
      BY <2>1, <2>2, <2>3
  <1>3. Prior(d, c.sid) \in run[d].old /\ Prior(d, c.sid).sid = c.sid
        /\ t \in TopicId /\ Prior(d, c.sid).id = t
    BY <1>2, PriorIs
  <1> HIDE DEF c, t
  <1>4. t < nextId /\ (t \in DOMAIN topics => topics[t].doc = d /\ topics[t].sid = c.sid)
    BY <1>3 DEF TypeInv, OldOk
  <1>5. ASSUME t \in DOMAIN topics
        PROVE  /\ New(t) \in Topic /\ New(t).doc = d /\ New(t).sid = c.sid /\ New(t).text = c.text
               /\ New(t).parent = topics[t].parent /\ New(t).children = {}
    <2>1. SlugOf(run[d].zip, c) \in Title \cup {None}
      BY <1>1 DEF SlugOf, Candidate
    <2>2. topics[t] \in Topic /\ c.text \in Text /\ c.title \in Title
      BY <1>1, <1>5 DEF TypeInv, TypeOK, Candidate
    <2> QED
      BY <1>4, <1>5, <2>1, <2>2 DEF Topic
  <1>6. /\ r \in MergeState /\ r.pc = "apply" /\ r.todo = run[d].todo /\ r.zip = run[d].zip
        /\ r.old = run[d].old /\ r.result = run[d].result /\ r.spoiled = run[d].spoiled
        /\ r.touched = run[d].touched \cup {t} /\ r.ok = run[d].ok /\ r.ids = run[d].ids
    BY <1>1, <1>3 DEF MergeState
  <1> HIDE DEF r
  <1>7. /\ run' \in [Doc -> MergeState] /\ Others(d) /\ Advances(d)
        /\ run'[d].touched = run[d].touched \cup {t} /\ run'[d].ok = run[d].ok
        /\ run'[d].ids = run[d].ids
    BY <1>1, <1>2, <1>6, AdvanceTyped
  <1>8. /\ DOMAIN topics' = DOMAIN topics
        /\ \A u \in DOMAIN topics : u # t => topics'[u] = topics[u]
        /\ t \in DOMAIN topics => topics'[t] = New(t)
    BY <1>2
  <1> HIDE DEF New
  <1>9. TypeOK'
    <2>1. \A u \in DOMAIN topics' : topics'[u] \in Topic
      BY <1>5, <1>8 DEF TypeInv, TypeOK
    <2> QED
      BY <1>2, <1>7, <1>8, <2>1 DEF TypeInv, TypeOK
  <1>10. Persists /\ Identified' /\ \A e \in Doc \ {d} : Alone(e)
    <2>1. nextId \in Nat /\ \A u \in DOMAIN topics : topics'[u].doc = topics[u].doc /\ topics'[u].sid = topics[u].sid
      BY <1>4, <1>5, <1>8, TopicIds
    <2>2. Persists /\ Identified'
      BY <1>2, <1>8, <2>1 DEF Persists, Identified, TypeInv
    <2>3. ASSUME NEW e \in Doc \ {d} PROVE Alone(e)
      BY <1>4, <1>8, <2>1 DEF Alone, TopicsOf
    <2> QED
      BY <2>2, <2>3
  <1>11. OldOk(d)'
    BY <1>7, <1>9, <1>10, OldPersists DEF Advances, Same
  <1>12. TouchedOk(d)'
    <2>1. SUFFICES ASSUME NEW u \in run[d].touched \cup {t}
                   PROVE  /\ u < nextId
                          /\ u \in DOMAIN topics =>
                               topics'[u].doc = d /\ topics'[u].sid \in SidsOf(run[d].zip)
      BY <1>2, <1>7, <1>8 DEF TouchedOk, Advances, Same
    <2>2. CASE u = t
      BY <1>1, <1>4, <1>5, <1>8, <2>2
    <2>3. CASE u # t
      BY <1>8, <2>1, <2>3 DEF TypeInv, TouchedOk
    <2> QED
      BY <2>2, <2>3
  <1>13. TypeInv'
    BY <1>7, <1>9, <1>10, <1>11, <1>12, OthersTyped
  <1> QED
    BY <1>2, <1>4, <1>5, <1>7, <1>8, <1>10, <1>13 DEF c, t

\* A pass writes to some of the topics it is to write to, and goes on.
LEMMA PassDoes ==
    ASSUME TypeInv, NEW d \in Doc, NEW ids, NEW done,
           NEW next \in {"children", "sweep", "finish"}, Pass(d, ids, done, next)
    PROVE  /\ run' \in [Doc -> MergeState] /\ Others(d) /\ Same(d)
           /\ run'[d].pc = next /\ run'[d].ok = (run[d].ok /\ done = ids)
           /\ run'[d].todo = run[d].todo /\ run'[d].ids = run[d].ids
           /\ run'[d].touched = run[d].touched
           /\ run'[d].result = run[d].result /\ run'[d].spoiled = run[d].spoiled
           /\ faults' \in 0..MaxFaults
           /\ UNCHANGED <<nextId, docs, leaving, merges>>
  <1>1. run[d] \in MergeState
    BY DEF TypeInv, TypeOK
  <1>2. PICK ok \in BOOLEAN : ok = (run[d].ok /\ done = ids)
    OBVIOUS
  <1> DEFINE r == [run[d] EXCEPT !.pc = next, !.ok = ok]
  <1>3. run' = [run EXCEPT ![d] = r]
    BY <1>2 DEF Pass
  <1>4. /\ r \in MergeState /\ r.pc = next /\ r.ok = ok /\ r.zip = run[d].zip /\ r.old = run[d].old
        /\ r.ids = run[d].ids /\ r.touched = run[d].touched /\ r.todo = run[d].todo
        /\ r.result = run[d].result /\ r.spoiled = run[d].spoiled
    BY <1>1 DEF MergeState
  <1> HIDE DEF r
  <1>5. run' \in [Doc -> MergeState] /\ run'[d] = r /\ Others(d)
    BY <1>3, <1>4, RunTyped DEF TypeInv
  <1>6. faults' \in 0..MaxFaults
    BY TopicAssumption DEF Pass, TypeInv, TypeOK
  <1> QED
    BY <1>2, <1>4, <1>5, <1>6 DEF Pass, Same

LEMMA IdOfIs ==
    ASSUME TypeInv, NEW d \in Doc, NEW s \in Sid \cup {None}
    PROVE  IdOf(d, s) \in TopicId \cup {None}
  BY DEF TypeInv, TypeOK, MergeState, IdOf

\* A wired topic has a stable id of the zip.
LEMMA WiredIs ==
    ASSUME TypeInv, NEW d \in Doc, NEW t \in Wired(d)
    PROVE  /\ SidOf(d, t) \in SidsOf(run[d].zip) /\ run[d].ids[SidOf(d, t)] = t
           /\ SidOf(d, t) \in Sid
           /\ LastOf(run[d].zip, SidOf(d, t)) \in Elements(run[d].zip)
           /\ LastOf(run[d].zip, SidOf(d, t)) \in Candidate
           /\ LastOf(run[d].zip, SidOf(d, t)).sid = SidOf(d, t)
           /\ t \in TopicId /\ ParentOf(d, t) \in TopicId \cup {None}
           /\ ChildrenOf(d, t) \subseteq TopicId
  <1>1. run[d] \in MergeState /\ run[d].zip \in Upload
    BY DEF TypeInv, TypeOK, MergeState
  <1>2. SidsOf(run[d].zip) \subseteq Sid /\ Elements(run[d].zip) \subseteq Candidate
    BY <1>1, ElementsAre
  <1>3. SidOf(d, t) \in SidsOf(run[d].zip) /\ run[d].ids[SidOf(d, t)] = t
    BY DEF SidOf, Wired
  <1>4. /\ LastOf(run[d].zip, SidOf(d, t)) \in Elements(run[d].zip)
        /\ LastOf(run[d].zip, SidOf(d, t)) \in Candidate
        /\ LastOf(run[d].zip, SidOf(d, t)).sid = SidOf(d, t)
    BY <1>1, <1>3, LastOfIs
  <1>5. t \in TopicId
    BY <1>1, <1>2, <1>3 DEF Wired, MergeState
  <1>6. ParentOf(d, t) \in TopicId \cup {None}
    BY <1>4, IdOfIs DEF ParentOf, Candidate
  <1>7. ChildrenOf(d, t) \subseteq TopicId
    BY <1>1, <1>2 DEF ChildrenOf, MergeState, Candidate
  <1> QED
    BY <1>2, <1>3, <1>4, <1>5, <1>6, <1>7

LEMMA WireParentsDoes ==
    ASSUME TypeInv, NEW d \in Doc, WireParents(d)
    PROVE  /\ TypeInv' /\ Persists /\ Others(d) /\ \A e \in Doc : Alone(e)
           /\ run[d].pc = "parents" /\ run'[d].pc = "children" /\ Same(d)
           /\ run'[d].todo = run[d].todo /\ run'[d].ids = run[d].ids
           /\ run'[d].touched = run[d].touched
           /\ run'[d].result = run[d].result /\ run'[d].spoiled = run[d].spoiled
           /\ run'[d].ok => run[d].ok
           /\ \E done \in SUBSET Wired(d) :
                 /\ topics' = [t \in DOMAIN topics |->
                       IF t \in done THEN [topics[t] EXCEPT !.parent = ParentOf(d, t)] ELSE topics[t]]
                 /\ run'[d].ok => done = Wired(d)
  <1>1. PICK done \in SUBSET Wired(d) :
          /\ topics' = [t \in DOMAIN topics |->
                IF t \in done THEN [topics[t] EXCEPT !.parent = ParentOf(d, t)] ELSE topics[t]]
          /\ Pass(d, Wired(d), done, "children")
    BY DEF WireParents
  <1>2. /\ run' \in [Doc -> MergeState] /\ Others(d) /\ Same(d)
        /\ run'[d].pc = "children" /\ run'[d].ok = (run[d].ok /\ done = Wired(d))
        /\ run'[d].todo = run[d].todo /\ run'[d].ids = run[d].ids
        /\ run'[d].touched = run[d].touched
        /\ run'[d].result = run[d].result /\ run'[d].spoiled = run[d].spoiled
        /\ faults' \in 0..MaxFaults
        /\ UNCHANGED <<nextId, docs, leaving, merges>>
    BY <1>1, PassDoes
  <1>3. ASSUME NEW t \in DOMAIN topics
        PROVE  /\ topics'[t] \in Topic /\ topics'[t].doc = topics[t].doc
               /\ topics'[t].sid = topics[t].sid /\ topics'[t].text = topics[t].text
    <2>1. topics[t] \in Topic
      BY DEF TypeInv, TypeOK
    <2>2. CASE t \in done
      <3>1. ParentOf(d, t) \in TopicId \cup {None}
        BY <2>2, WiredIs
      <3>2. topics'[t] = [topics[t] EXCEPT !.parent = ParentOf(d, t)]
        BY <1>1, <2>2
      <3> QED
        BY <2>1, <3>1, <3>2 DEF Topic
    <2>3. CASE t \notin done
      BY <1>1, <2>1, <2>3
    <2> QED
      BY <2>2, <2>3
  <1>4. DOMAIN topics' = DOMAIN topics
    BY <1>1
  <1>5. TypeOK' /\ SameTexts
    BY <1>2, <1>3, <1>4 DEF TypeInv, TypeOK, SameTexts
  <1>6. TypeInv' /\ Persists /\ \A e \in Doc : Alone(e)
    BY <1>2, <1>5, QuietStep DEF Same
  <1> QED
    BY <1>1, <1>2, <1>6 DEF WireParents, At

LEMMA WireChildrenDoes ==
    ASSUME TypeInv, NEW d \in Doc, WireChildren(d)
    PROVE  /\ TypeInv' /\ Persists /\ Others(d) /\ \A e \in Doc : Alone(e)
           /\ run[d].pc = "children" /\ run'[d].pc = "sweep" /\ Same(d)
           /\ run'[d].todo = run[d].todo /\ run'[d].ids = run[d].ids
           /\ run'[d].touched = run[d].touched
           /\ run'[d].result = run[d].result /\ run'[d].spoiled = run[d].spoiled
           /\ run'[d].ok => run[d].ok
           /\ \E done \in SUBSET Listed(d) :
                 /\ topics' = [t \in DOMAIN topics |->
                       IF t \in done THEN [topics[t] EXCEPT !.children = ChildrenOf(d, t)] ELSE topics[t]]
                 /\ run'[d].ok => done = Listed(d)
  <1>1. PICK done \in SUBSET Listed(d) :
          /\ topics' = [t \in DOMAIN topics |->
                IF t \in done THEN [topics[t] EXCEPT !.children = ChildrenOf(d, t)] ELSE topics[t]]
          /\ Pass(d, Listed(d), done, "sweep")
    BY DEF WireChildren
  <1>2. /\ run' \in [Doc -> MergeState] /\ Others(d) /\ Same(d)
        /\ run'[d].pc = "sweep" /\ run'[d].ok = (run[d].ok /\ done = Listed(d))
        /\ run'[d].todo = run[d].todo /\ run'[d].ids = run[d].ids
        /\ run'[d].touched = run[d].touched
        /\ run'[d].result = run[d].result /\ run'[d].spoiled = run[d].spoiled
        /\ faults' \in 0..MaxFaults
        /\ UNCHANGED <<nextId, docs, leaving, merges>>
    BY <1>1, PassDoes
  <1>3. ASSUME NEW t \in DOMAIN topics
        PROVE  /\ topics'[t] \in Topic /\ topics'[t].doc = topics[t].doc
               /\ topics'[t].sid = topics[t].sid /\ topics'[t].text = topics[t].text
    <2>1. topics[t] \in Topic
      BY DEF TypeInv, TypeOK
    <2>2. CASE t \in done
      <3>1. ChildrenOf(d, t) \subseteq TopicId
        BY <2>2, WiredIs DEF Listed
      <3>2. topics'[t] = [topics[t] EXCEPT !.children = ChildrenOf(d, t)]
        BY <1>1, <2>2
      <3> QED
        BY <2>1, <3>1, <3>2 DEF Topic
    <2>3. CASE t \notin done
      BY <1>1, <2>1, <2>3
    <2> QED
      BY <2>2, <2>3
  <1>4. DOMAIN topics' = DOMAIN topics
    BY <1>1
  <1>5. TypeOK' /\ SameTexts
    BY <1>2, <1>3, <1>4 DEF TypeInv, TypeOK, SameTexts
  <1>6. TypeInv' /\ Persists /\ \A e \in Doc : Alone(e)
    BY <1>2, <1>5, QuietStep DEF Same
  <1> QED
    BY <1>1, <1>2, <1>6 DEF WireChildren, At

\* A removed topic was read, and has a stable id that the zip lacks.
LEMMA RemovedIs ==
    ASSUME TypeInv, NEW d \in Doc, NEW t \in Removed(d)
    PROVE  \E o \in run[d].old : /\ o.id = t /\ o = Prior(d, o.sid) /\ o.sid \notin SidsOf(run[d].zip) \cup {None}
  <1>1. PICK s \in {o.sid : o \in run[d].old} \ ({None} \cup SidsOf(run[d].zip)) : t = Prior(d, s).id
    BY DEF Removed
  <1>2. Prior(d, s) \in run[d].old /\ Prior(d, s).sid = s
    BY <1>1, PriorIs DEF HasPrior
  <1> QED
    BY <1>1, <1>2

LEMMA SweepRemovedDoes ==
    ASSUME TypeInv, NEW d \in Doc, SweepRemoved(d)
    PROVE  /\ TypeInv' /\ Persists /\ Others(d) /\ \A e \in Doc \ {d} : Alone(e)
           /\ run[d].pc = "sweep" /\ run'[d].pc = "finish" /\ Same(d)
           /\ run'[d].todo = run[d].todo /\ run'[d].ids = run[d].ids
           /\ run'[d].touched = run[d].touched
           /\ run'[d].result = run[d].result /\ run'[d].spoiled = run[d].spoiled
           /\ run'[d].ok => run[d].ok
           /\ \E done \in SUBSET Removed(d) :
                 Removes(done) /\ (run'[d].ok => done = Removed(d))
           /\ \A t \in Removed(d) \cap DOMAIN topics :
                 topics[t].doc = d /\ topics[t].sid \notin SidsOf(run[d].zip) \cup {None}
  <1>1. PICK done \in SUBSET Removed(d) :
          topics' = Without(done) /\ Pass(d, Removed(d), done, "finish")
    BY DEF SweepRemoved
  <1>2. /\ run' \in [Doc -> MergeState] /\ Others(d) /\ Same(d)
        /\ run'[d].pc = "finish" /\ run'[d].ok = (run[d].ok /\ done = Removed(d))
        /\ run'[d].todo = run[d].todo /\ run'[d].ids = run[d].ids
        /\ run'[d].touched = run[d].touched
        /\ run'[d].result = run[d].result /\ run'[d].spoiled = run[d].spoiled
        /\ faults' \in 0..MaxFaults
        /\ UNCHANGED <<nextId, docs, leaving, merges>>
    BY <1>1, PassDoes
  <1>3. Removes(done)
    BY <1>1 DEF Without, Removes
  <1>4. TypeOK'
    BY <1>2, <1>3 DEF Removes, TypeInv, TypeOK
  <1>5. \A t \in Removed(d) \cap DOMAIN topics :
           topics[t].doc = d /\ topics[t].sid \notin SidsOf(run[d].zip) \cup {None}
    BY RemovedIs DEF TypeInv, OldOk
  <1>6. TypeInv' /\ Persists /\ \A e \in Doc \ {d} : Alone(e)
    BY <1>2, <1>3, <1>4, <1>5, RemovingStep
  <1> QED
    BY <1>1, <1>2, <1>3, <1>5, <1>6 DEF SweepRemoved, At

LEMMA FinishDoes ==
    ASSUME TypeInv, NEW d \in Doc, Finish(d)
    PROVE  /\ TypeInv' /\ Persists /\ Others(d) /\ \A e \in Doc : Alone(e)
           /\ run[d].pc = "finish" /\ topics' = topics
           /\ run[d] \in MergeState /\ run'[d].spoiled = run[d].spoiled
           /\ \/ run'[d].pc = "idle" /\ run'[d].result = "partial"
              \/ /\ run'[d].pc = "links"
                 /\ run'[d].result = IF run[d].ok THEN "clean" ELSE "partial"
                 /\ Same(d) /\ run'[d].ok = run[d].ok /\ run'[d].todo = run[d].todo
                 /\ run'[d].touched = run[d].touched /\ run'[d].ids = run[d].ids
  <1>1. run[d] \in MergeState /\ run[d].pc = "finish"
    BY DEF TypeInv, TypeOK, Finish, At
  <1>2. topics' = topics /\ nextId' = nextId /\ UNCHANGED <<leaving, merges, faults>> /\ SameTexts
    BY DEF Finish, SameTexts
  <1>3. CASE docs[d] = "gone"
    <2> DEFINE r == Idle("partial", run[d].spoiled)
    <2>1. run' = [run EXCEPT ![d] = r] /\ docs' = docs
      BY <1>3 DEF Finish
    <2>2. r \in MergeState
      BY <1>1, IdleTyped DEF MergeState
    <2>3. /\ r.pc = "idle" /\ r.old = {} /\ r.touched = {} /\ r.result = "partial"
          /\ r.spoiled = run[d].spoiled
      BY DEF Idle
    <2> HIDE DEF r
    <2>4. run' \in [Doc -> MergeState] /\ run'[d] = r /\ Others(d)
      BY <2>1, <2>2, RunTyped DEF TypeInv
    <2>5. TypeOK'
      BY <1>2, <2>1, <2>4 DEF TypeInv, TypeOK
    <2>6. TypeInv' /\ Persists /\ \A e \in Doc : Alone(e)
      BY <1>2, <2>3, <2>4, <2>5, QuietStep
    <2> QED
      BY <1>1, <1>2, <2>3, <2>4, <2>6
  <1>4. CASE docs[d] # "gone"
    <2>1. PICK res \in {"clean", "partial"} : res = IF run[d].ok THEN "clean" ELSE "partial"
      OBVIOUS
    <2> DEFINE r == [run[d] EXCEPT !.pc = "links", !.result = res]
    <2>2. run' = [run EXCEPT ![d] = r] /\ docs' = [docs EXCEPT ![d] = "completed"]
      BY <1>4, <2>1 DEF Finish
    <2>3. /\ r \in MergeState /\ r.pc = "links" /\ r.result = res /\ r.spoiled = run[d].spoiled
          /\ r.zip = run[d].zip /\ r.old = run[d].old /\ r.ok = run[d].ok /\ r.todo = run[d].todo
          /\ r.touched = run[d].touched /\ r.ids = run[d].ids
      BY <1>1 DEF MergeState
    <2> HIDE DEF r
    <2>4. run' \in [Doc -> MergeState] /\ run'[d] = r /\ Others(d)
      BY <2>2, <2>3, RunTyped DEF TypeInv
    <2>5. TypeOK'
      BY <1>2, <2>2, <2>4 DEF TypeInv, TypeOK
    <2>6. TypeInv' /\ Persists /\ \A e \in Doc : Alone(e)
      BY <1>2, <2>3, <2>4, <2>5, QuietStep
    <2> QED
      BY <1>1, <1>2, <2>1, <2>3, <2>4, <2>6 DEF Same
  <1> QED
    BY <1>3, <1>4

LEMMA FailMergeDoes ==
    ASSUME TypeInv, NEW d \in Doc, FailMerge(d)
    PROVE  /\ TypeInv' /\ Persists /\ Others(d) /\ \A e \in Doc : Alone(e)
           /\ run[d].pc \in {"read", "apply", "finish"} /\ topics' = topics
           /\ run'[d].pc = "idle" /\ run'[d].result = "partial"
           /\ run'[d].spoiled = run[d].spoiled
  <1> DEFINE r == Idle("partial", run[d].spoiled)
  <1>1. run[d] \in MergeState
    BY DEF TypeInv, TypeOK
  <1>2. topics' = topics /\ nextId' = nextId /\ UNCHANGED <<leaving, merges>> /\ SameTexts
    BY DEF FailMerge, SameTexts
  <1>3. run' = [run EXCEPT ![d] = r] /\ run[d].pc \in {"read", "apply", "finish"}
    BY DEF FailMerge, At
  <1>4. r \in MergeState
    BY <1>1, IdleTyped DEF MergeState
  <1>5. /\ r.pc = "idle" /\ r.old = {} /\ r.touched = {} /\ r.result = "partial"
        /\ r.spoiled = run[d].spoiled
    BY DEF Idle
  <1> HIDE DEF r
  <1>6. run' \in [Doc -> MergeState] /\ run'[d] = r /\ Others(d)
    BY <1>3, <1>4, RunTyped DEF TypeInv
  <1>7. docs' \in [Doc -> {"none", "processing", "completed", "failed", "gone"}]
    BY DEF FailMerge, TypeInv, TypeOK
  <1>8. faults' \in 0..MaxFaults
    BY TopicAssumption DEF FailMerge, TypeInv, TypeOK
  <1>9. TypeOK'
    BY <1>2, <1>6, <1>7, <1>8 DEF TypeInv, TypeOK
  <1>10. TypeInv' /\ Persists /\ \A e \in Doc : Alone(e)
    BY <1>2, <1>5, <1>6, <1>9, QuietStep
  <1> QED
    BY <1>2, <1>3, <1>5, <1>6, <1>10

LEMMA LinkTargetIs ==
    ASSUME TypeInv, NEW d \in Doc, NEW s
    PROVE  /\ LinkTarget(d, s) \in TopicId \cup {None}
           /\ (\E t \in TopicsOf(d) : topics[t].sid = s) =>
                 LinkTarget(d, s) \in DOMAIN topics /\ topics[LinkTarget(d, s)].sid = s
  <1> DEFINE found == {t \in DOMAIN topics : topics[t].sid = s /\ (run[d].zip.paligo \/ topics[t].doc = d)}
  <1>1. found \subseteq 0..nextId /\ nextId \in Nat /\ found \subseteq TopicId
    BY TopicIds DEF TypeInv, TypeOK
  <1>2. CASE found = {}
    BY <1>2 DEF LinkTarget, TopicsOf
  <1>3. CASE found # {}
    <2>1. \E i \in found : \A j \in found : j <= i
      BY <1>1, <1>3, GreatestOfBounded
    <2>2. LinkTarget(d, s) \in found
      BY <1>3, <2>1 DEF LinkTarget
    <2> QED
      BY <1>1, <2>2
  <1> QED
    BY <1>2, <1>3

LEMMA RewriteLinksDoes ==
    ASSUME TypeInv, NEW d \in Doc, RewriteLinks(d)
    PROVE  /\ TypeInv' /\ Persists /\ Others(d) /\ \A e \in Doc : Alone(e)
           /\ run[d].pc = "links" /\ run'[d].pc = "urls" /\ Same(d)
           /\ run'[d].todo = run[d].todo /\ run'[d].ids = run[d].ids
           /\ run'[d].touched = run[d].touched
           /\ run'[d].result = run[d].result /\ run'[d].spoiled = run[d].spoiled
           /\ run'[d].ok => run[d].ok
           /\ \E done \in SUBSET (run[d].touched \cap DOMAIN topics) :
                 /\ topics' = [t \in DOMAIN topics |->
                       IF t \in done
                       THEN [topics[t] EXCEPT !.link = LinkTarget(d, LastOf(run[d].zip, topics[t].sid).link)]
                       ELSE topics[t]]
                 /\ run'[d].ok => done = run[d].touched \cap DOMAIN topics
  <1> DEFINE here == run[d].touched \cap DOMAIN topics
             To(t) == LinkTarget(d, LastOf(run[d].zip, topics[t].sid).link)
  <1>1. PICK done \in SUBSET here :
          /\ IF done = here THEN UNCHANGED faults ELSE faults < MaxFaults /\ faults' = faults + 1
          /\ topics' = [t \in DOMAIN topics |->
                IF t \in done THEN [topics[t] EXCEPT !.link = To(t)] ELSE topics[t]]
    BY Zenon DEF RewriteLinks
  <1>2. run[d] \in MergeState
    BY DEF TypeInv, TypeOK
  <1>3. PICK ok \in BOOLEAN : ok = (run[d].ok /\ faults' = faults)
    OBVIOUS
  <1> DEFINE r == [run[d] EXCEPT !.pc = "urls", !.ok = ok]
  <1>4. run' = [run EXCEPT ![d] = r]
    BY <1>3 DEF RewriteLinks
  <1>5. /\ r \in MergeState /\ r.pc = "urls" /\ r.ok = ok /\ r.zip = run[d].zip /\ r.old = run[d].old
        /\ r.ids = run[d].ids /\ r.touched = run[d].touched /\ r.todo = run[d].todo
        /\ r.result = run[d].result /\ r.spoiled = run[d].spoiled
    BY <1>2 DEF MergeState
  <1> HIDE DEF r
  <1>6. run' \in [Doc -> MergeState] /\ run'[d] = r /\ Others(d)
    BY <1>4, <1>5, RunTyped DEF TypeInv
  <1>7. ASSUME NEW t PROVE To(t) \in TopicId \cup {None}
    BY LinkTargetIs
  <1> HIDE DEF To
  <1>8. ASSUME NEW t \in DOMAIN topics
        PROVE  /\ topics'[t] \in Topic /\ topics'[t].doc = topics[t].doc
               /\ topics'[t].sid = topics[t].sid /\ topics'[t].text = topics[t].text
    <2>1. topics[t] \in Topic /\ To(t) \in TopicId \cup {None}
      BY <1>7 DEF TypeInv, TypeOK
    <2>2. topics'[t] = [topics[t] EXCEPT !.link = To(t)] \/ topics'[t] = topics[t]
      BY <1>1
    <2> QED
      BY <2>1, <2>2 DEF Topic
  <1>9. DOMAIN topics' = DOMAIN topics /\ nextId' = nextId /\ UNCHANGED <<docs, leaving, merges>>
    BY <1>1 DEF RewriteLinks
  <1>10. faults' \in 0..MaxFaults
    BY <1>1, TopicAssumption DEF TypeInv, TypeOK
  <1>11. TypeOK' /\ SameTexts
    BY <1>6, <1>8, <1>9, <1>10 DEF TypeInv, TypeOK, SameTexts
  <1>12. TypeInv' /\ Persists /\ \A e \in Doc : Alone(e)
    BY <1>5, <1>6, <1>9, <1>11, QuietStep
  <1>13. faults' = faults => done = here
    BY <1>1 DEF TypeInv, TypeOK
  <1>14. run[d].pc = "links"
    BY DEF RewriteLinks, At
  <1> QED
    BY <1>1, <1>3, <1>5, <1>6, <1>12, <1>13, <1>14 DEF Same, To

LEMMA DeduplicateTyped ==
    ASSUME NEW n \in Nat, NEW T, NEW urls \in [1..n -> Seq(T \cup Nat)], NEW i \in 1..n
    PROVE  Deduplicate(urls)[i] \in Seq(T \cup Nat)
  <1> DEFINE same == {j \in 1..i : urls[j] = urls[i]}
             m == Cardinality(same)
  <1>1. m \in Nat
    <2>1. IsFiniteSet(1..i)
      BY FS_Interval
    <2>2. IsFiniteSet(same)
      BY <2>1, FS_Subset
    <2> QED
      BY <2>2, FS_CardinalityType
  <1>2. Deduplicate(urls)[i] = IF urls[i] = << >> \/ m = 1 THEN urls[i] ELSE Append(urls[i], m)
    BY DEF Deduplicate
  <1> HIDE DEF m
  <1>3. urls[i] \in Seq(T \cup Nat)
    OBVIOUS
  <1>4. Append(urls[i], m) \in Seq(T \cup Nat)
    BY <1>1, <1>3
  <1> QED
    BY <1>2, <1>3, <1>4

LEMMA RegenerateUrlsDoes ==
    ASSUME TypeInv, NEW d \in Doc, RegenerateUrls(d)
    PROVE  /\ TypeInv' /\ Persists /\ Others(d) /\ \A e \in Doc : Alone(e)
           /\ run[d].pc = "urls" /\ run'[d].pc = "idle"
           /\ run'[d].result = run[d].result /\ run'[d].spoiled = run[d].spoiled
           /\ DOMAIN topics' = DOMAIN topics
           /\ \A t \in DOMAIN topics : /\ topics'[t].parent = topics[t].parent
                                       /\ topics'[t].children = topics[t].children
                                       /\ topics'[t].link = topics[t].link
  <1> DEFINE r == Idle(run[d].result, run[d].spoiled)
  <1>1. run[d] \in MergeState
    BY DEF TypeInv, TypeOK
  <1>2. run' = [run EXCEPT ![d] = r] /\ run[d].pc = "urls"
    BY DEF RegenerateUrls, At
  <1>3. r \in MergeState
    BY <1>1, IdleTyped DEF MergeState
  <1>4. /\ r.pc = "idle" /\ r.old = {} /\ r.touched = {} /\ r.result = run[d].result
        /\ r.spoiled = run[d].spoiled
    BY DEF Idle
  <1> HIDE DEF r
  <1>5. run' \in [Doc -> MergeState] /\ run'[d] = r /\ Others(d)
    BY <1>2, <1>3, RunTyped DEF TypeInv
  <1>6. /\ DOMAIN topics' = DOMAIN topics
        /\ \A t \in DOMAIN topics : \/ topics'[t] = topics[t]
                                    \/ \E u \in Seq(Title \cup Nat) : topics'[t] = [topics[t] EXCEPT !.url = u]
    <2>1. CASE topics' = topics
      BY <2>1
    <2>2. CASE topics' # topics
      <3> DEFINE Urls(o) == Deduplicate([i \in DOMAIN o |-> UrlOf[topics[o[i]].title]])
      <3>1. PICK o \in Orders(d) :
              topics' = [t \in DOMAIN topics |->
                          IF \E i \in DOMAIN o : o[i] = t
                          THEN [topics[t] EXCEPT !.url = Urls(o)[CHOOSE i \in DOMAIN o : o[i] = t]]
                          ELSE topics[t]]
        BY <2>2, Zenon DEF RegenerateUrls
      <3>2. PICK n \in Nat : o \in [1..n -> TopicsOf(d)]
        <4>1. o \in [1..Cardinality(TopicsOf(d)) -> TopicsOf(d)]
          BY DEF Orders, SetToSeqs
        <4>2. IsFiniteSet(TopicsOf(d))
          <5>1. 1 \in Int /\ MaxTopics \in Int
            BY TopicAssumption
          <5>2. IsFiniteSet(1..MaxTopics)
            BY <5>1, FS_Interval
          <5>3. TopicsOf(d) \subseteq 1..MaxTopics
            BY TopicIds DEF TopicId
          <5> QED
            BY <5>2, <5>3, FS_Subset
        <4> QED
          BY <4>1, <4>2, FS_CardinalityType
      <3> DEFINE plain == [i \in 1..n |-> UrlOf[topics[o[i]].title]]
      <3>3. plain \in [1..n -> Seq(Title \cup Nat)]
        <4>1. ASSUME NEW i \in 1..n PROVE topics[o[i]].title \in Title
          BY <3>2, TopicIds DEF TypeInv, TypeOK, Topic
        <4> QED
          BY <4>1, TopicAssumption
      <3>4. Urls(o) = Deduplicate(plain)
        BY <3>2
      <3> HIDE DEF plain, Urls
      <3>5. ASSUME NEW i \in DOMAIN o PROVE Urls(o)[i] \in Seq(Title \cup Nat)
        BY <3>2, <3>3, <3>4, DeduplicateTyped
      <3>6. ASSUME NEW t \in DOMAIN topics
            PROVE  \/ topics'[t] = topics[t]
                   \/ \E u \in Seq(Title \cup Nat) : topics'[t] = [topics[t] EXCEPT !.url = u]
        <4>1. CASE \E i \in DOMAIN o : o[i] = t
          <5>1. (CHOOSE i \in DOMAIN o : o[i] = t) \in DOMAIN o
            BY <4>1
          <5> QED
            BY <3>1, <3>5, <4>1, <5>1
        <4>2. CASE ~ \E i \in DOMAIN o : o[i] = t
          BY <3>1, <4>2
        <4> QED
          BY <4>1, <4>2
      <3> QED
        BY <3>1, <3>6
    <2> QED
      BY <2>1, <2>2
  <1>7. ASSUME NEW t \in DOMAIN topics
        PROVE  /\ topics'[t] \in Topic /\ topics'[t].doc = topics[t].doc
               /\ topics'[t].sid = topics[t].sid /\ topics'[t].text = topics[t].text
               /\ topics'[t].parent = topics[t].parent /\ topics'[t].children = topics[t].children
               /\ topics'[t].link = topics[t].link
    <2>1. topics[t] \in Topic
      BY DEF TypeInv, TypeOK
    <2> QED
      BY <1>6, <2>1 DEF Topic
  <1>8. faults' \in 0..MaxFaults
    BY TopicAssumption DEF RegenerateUrls, TypeInv, TypeOK
  <1>9. nextId' = nextId /\ UNCHANGED <<docs, leaving, merges>>
    BY DEF RegenerateUrls
  <1>10. TypeOK' /\ SameTexts
    BY <1>5, <1>6, <1>7, <1>8, <1>9 DEF TypeInv, TypeOK, SameTexts
  <1>11. TypeInv' /\ Persists /\ \A e \in Doc : Alone(e)
    BY <1>4, <1>5, <1>9, <1>10, QuietStep
  <1> QED
    BY <1>2, <1>4, <1>5, <1>6, <1>7, <1>11

LEMMA DeleteTopicsDoes ==
    ASSUME TypeInv, NEW d \in Doc, DeleteTopics(d)
    PROVE  /\ TypeInv' /\ Persists /\ Others(d) /\ \A e \in Doc \ {d} : Alone(e)
           /\ Removes(TopicsOf(d)) /\ leaving' = leaving \cup {d}
           /\ run[d] \in MergeState /\ run'[d] = [run[d] EXCEPT !.spoiled = TRUE]
  <1> DEFINE r == [run[d] EXCEPT !.spoiled = TRUE]
  <1>1. run' = [run EXCEPT ![d] = r] /\ run[d] \in MergeState
    BY DEF DeleteTopics, TypeInv, TypeOK
  <1>2. r \in MergeState /\ r.zip = run[d].zip /\ r.old = run[d].old /\ r.touched = run[d].touched
    BY <1>1 DEF MergeState
  <1> HIDE DEF r
  <1>3. run' \in [Doc -> MergeState] /\ run'[d] = r /\ Others(d)
    BY <1>1, <1>2, RunTyped DEF TypeInv
  <1>4. Removes(TopicsOf(d)) /\ nextId' = nextId
    BY DEF DeleteTopics, Without, Removes
  <1>5. TypeOK'
    BY <1>3, <1>4 DEF DeleteTopics, Removes, TypeInv, TypeOK
  <1>6. TypeInv' /\ Persists /\ \A e \in Doc \ {d} : Alone(e)
    BY <1>2, <1>3, <1>4, <1>5, RemovingStep DEF Same, TopicsOf
  <1> QED
    BY <1>1, <1>3, <1>4, <1>6 DEF DeleteTopics, r

LEMMA DeleteDocumentDoes ==
    ASSUME TypeInv, NEW d \in Doc, DeleteDocument(d)
    PROVE  /\ TypeInv' /\ Persists /\ run' = run /\ topics' = topics /\ \A e \in Doc : Alone(e)
  <1>1. run' = run /\ topics' = topics /\ nextId' = nextId /\ TypeOK' /\ Others(d) /\ SameTexts
    BY DEF DeleteDocument, TypeInv, TypeOK, Others, SameTexts
  <1> QED
    BY <1>1, QuietStep

LEMMA CrashDoes ==
    ASSUME TypeInv, Crash
    PROVE  /\ TypeInv' /\ Persists /\ topics' = topics /\ \A e \in Doc : Alone(e)
           /\ \A d \in Doc :
                /\ run'[d].pc = "idle" /\ run'[d].spoiled = run[d].spoiled
                /\ run'[d].result = IF run[d].pc \in {"idle", "links", "urls"}
                                    THEN run[d].result ELSE "partial"
  <1> DEFINE Res(d) == IF run[d].pc \in {"idle", "links", "urls"} THEN run[d].result ELSE "partial"
  <1>1. run' = [d \in Doc |-> Idle(Res(d), run[d].spoiled)]
    BY DEF Crash
  <1>2. ASSUME NEW d \in Doc
        PROVE  /\ run'[d] \in MergeState /\ run'[d].pc = "idle" /\ run'[d].old = {}
               /\ run'[d].touched = {} /\ run'[d].result = Res(d) /\ run'[d].spoiled = run[d].spoiled
    <2>1. Res(d) \in {"none", "clean", "partial"} /\ run[d].spoiled \in BOOLEAN
      BY DEF TypeInv, TypeOK, MergeState
    <2> HIDE DEF Res
    <2>2. Idle(Res(d), run[d].spoiled) \in MergeState
      BY <2>1, IdleTyped
    <2> QED
      BY <1>1, <2>2 DEF Idle
  <1>3. topics' = topics /\ nextId' = nextId /\ SameTexts /\ UNCHANGED <<docs, merges>> /\ leaving' = {}
    BY DEF Crash, SameTexts
  <1>4. faults' \in 0..MaxFaults
    BY TopicAssumption DEF Crash, TypeInv, TypeOK
  <1>5. run' \in [Doc -> MergeState]
    BY <1>1, <1>2
  <1>6. TypeOK'
    BY <1>3, <1>4, <1>5 DEF TypeInv, TypeOK
  <1>7. Persists /\ Identified' /\ \A d \in Doc : Alone(d)
    BY <1>3, <1>6, TextsPersist
  <1>8. ASSUME NEW d \in Doc PROVE OldOk(d)' /\ TouchedOk(d)'
    BY <1>2 DEF OldOk, TouchedOk
  <1> QED
    BY <1>2, <1>3, <1>6, <1>7, <1>8 DEF TypeInv

-----------------------------------------------------------------------------
(* Type correctness, and what is never removed                             *)

LEMMA InitTyped == Init => TypeInv
  <1> SUFFICES ASSUME Init PROVE TypeInv
    OBVIOUS
  <1>1. DOMAIN topics = {}
    BY DEF Init
  <1>2. Idle("none", FALSE) \in MergeState
    BY IdleTyped
  <1>3. run \in [Doc -> MergeState]
    BY <1>2 DEF Init
  <1>4. TypeOK /\ Identified
    <2>1. nextId \in 1..MaxTopics + 1 /\ DOMAIN topics \subseteq 1..nextId - 1
      BY <1>1, TopicAssumption DEF Init
    <2>2. /\ docs \in [Doc -> {"none", "processing", "completed", "failed", "gone"}]
          /\ leaving \subseteq Doc /\ merges \in 0..MaxMerges /\ faults \in 0..MaxFaults
      BY TopicAssumption DEF Init
    <2> QED
      BY <1>1, <1>3, <2>1, <2>2 DEF TypeOK, Identified
  <1>5. ASSUME NEW d \in Doc PROVE OldOk(d) /\ TouchedOk(d)
    BY DEF Init, Idle, OldOk, TouchedOk
  <1> QED
    BY <1>4, <1>5 DEF TypeInv

LEMMA NextTyped ==
    ASSUME TypeInv, [Next]_vars
    PROVE  TypeInv'
  <1>1. CASE UNCHANGED vars
    BY <1>1 DEF vars, TypeInv, TypeOK, Identified, OldOk, TouchedOk
  <1>2. CASE Crash
    BY <1>2, CrashDoes
  <1>3. ASSUME NEW d \in Doc, StartMerge(d) \/ ReadExisting(d) \/ RemoveAll(d) PROVE TypeInv'
    BY <1>3, StartMergeDoes, ReadExistingDoes, RemoveAllDoes
  <1>4. ASSUME NEW d \in Doc, Insert(d) \/ Keep(d) \/ Update(d) \/ FailTopic(d) PROVE TypeInv'
    BY <1>4, InsertDoes, KeepDoes, UpdateDoes, FailTopicDoes
  <1>5. ASSUME NEW d \in Doc, WireParents(d) \/ WireChildren(d) \/ SweepRemoved(d) PROVE TypeInv'
    BY <1>5, WireParentsDoes, WireChildrenDoes, SweepRemovedDoes
  <1>6. ASSUME NEW d \in Doc, Finish(d) \/ FailMerge(d) \/ RewriteLinks(d) \/ RegenerateUrls(d) PROVE TypeInv'
    BY <1>6, FinishDoes, FailMergeDoes, RewriteLinksDoes, RegenerateUrlsDoes
  <1>7. ASSUME NEW d \in Doc, DeleteTopics(d) \/ DeleteDocument(d) PROVE TypeInv'
    BY <1>7, DeleteTopicsDoes, DeleteDocumentDoes
  <1> QED
    BY <1>1, <1>2, <1>3, <1>4, <1>5, <1>6, <1>7 DEF Next

\* Every topic is of a document and typed, and every merge under way is.
THEOREM TypeCorrect == Spec => []TypeOK
  <1>1. TypeInv => TypeOK
    BY DEF TypeInv
  <1> QED
    BY <1>1, InitTyped, NextTyped, PTL DEF Spec

\* A step that leaves the topics of a document alone removes none of them.
LEMMA AloneStay ==
    ASSUME TypeInv, NEW t \in DOMAIN topics
    PROVE  topics[t].doc \in Doc /\ (Alone(topics[t].doc) => t \in DOMAIN topics')
  <1>1. topics[t].doc \in Doc /\ t \in TopicsOf(topics[t].doc)
    BY DEF TypeInv, TypeOK, Topic, TopicsOf
  <1>2. PICK e \in Doc : e = topics[t].doc
    BY <1>1
  <1>3. ASSUME Alone(e) PROVE t \in DOMAIN topics'
    <2>1. TopicsOf(e)' = TopicsOf(e)
      BY <1>3 DEF Alone
    <2> QED
      BY <1>1, <1>2, <2>1 DEF TopicsOf
  <1> QED
    BY <1>2, <1>3

Stays(t) ==
    LET d == topics[t].doc
    IN  \/ d \in leaving'
        \/ run[d].zip.cands = << >>
        \/ topics[t].sid \notin SidsOf(run[d].zip) \cup {None}

\* A merge never removes a topic whose stable id the zip has, nor one without a
\* stable id, unless the zip is empty: RemoveAll and SweepRemoved go by what was
\* read, and that is of the same document and has kept its stable ids (OldOk).
THEOREM IdentityIsKept == Spec => IdentityKept
  <1>1. TypeInv /\ [Next]_vars =>
          [\A t \in DOMAIN topics : t \notin DOMAIN topics' =>
             LET d == topics[t].doc
             IN  \/ d \in leaving'
                 \/ run[d].zip.cands = << >>
                 \/ topics[t].sid \notin SidsOf(run[d].zip) \cup {None}]_vars
    <2> SUFFICES ASSUME TypeInv, Next, NEW t \in DOMAIN topics, t \notin DOMAIN topics'
                 PROVE  Stays(t)
      BY DEF Stays
    <2>1. CASE ~ \A e \in Doc : Alone(e)
      <3>1. PICK d \in Doc : RemoveAll(d) \/ Insert(d) \/ Update(d) \/ SweepRemoved(d) \/ DeleteTopics(d)
        BY <2>1, StartMergeDoes, ReadExistingDoes, KeepDoes, FailTopicDoes, WireParentsDoes,
           WireChildrenDoes, FinishDoes, FailMergeDoes, RewriteLinksDoes, RegenerateUrlsDoes,
           DeleteDocumentDoes, CrashDoes DEF Next
      <3>2. CASE RemoveAll(d)
        <4>1. topics[t].doc = d
          BY <3>2, RemoveAllDoes, AloneStay
        <4>2. run[d].zip.cands \in Seq(Candidate) /\ Len(run[d].zip.cands) = 0
          BY <3>2, RemoveAllDoes, ElementsAre DEF TypeInv, TypeOK, MergeState
        <4> QED
          BY <4>1, <4>2 DEF Stays
      <3>3. CASE Insert(d)
        BY <3>3, InsertDoes
      <3>4. CASE Update(d)
        BY <3>4, UpdateDoes
      <3>5. CASE SweepRemoved(d)
        BY <3>5, SweepRemovedDoes DEF Removes, Stays
      <3>6. CASE DeleteTopics(d)
        BY <3>6, DeleteTopicsDoes DEF Removes, TopicsOf, Stays
      <3> QED
        BY <3>1, <3>2, <3>3, <3>4, <3>5, <3>6
    <2>2. CASE \A e \in Doc : Alone(e)
      BY <2>2, AloneStay
    <2> QED
      BY <2>1, <2>2
  <1> QED
    BY <1>1, InitTyped, NextTyped, PTL DEF Spec, IdentityKept

-----------------------------------------------------------------------------
(* The merge of one document                                               *)

LEMMA AloneIs ==
    ASSUME NEW d \in Doc, Alone(d)
    PROVE  /\ TopicsOf(d)' = TopicsOf(d)
           /\ \A t \in TopicsOf(d) : /\ t \in DOMAIN topics /\ t \in DOMAIN topics'
                                     /\ topics[t].doc = d /\ topics'[t].doc = d
                                     /\ topics'[t].sid = topics[t].sid /\ topics'[t].text = topics[t].text
           /\ OneOk(d) => OneOk(d)'
  <1>1. TopicsOf(d)' = TopicsOf(d)
    BY DEF Alone
  <1>2. ASSUME NEW t \in TopicsOf(d)
        PROVE  /\ t \in DOMAIN topics /\ t \in DOMAIN topics'
               /\ topics[t].doc = d /\ topics'[t].doc = d
               /\ topics'[t].sid = topics[t].sid /\ topics'[t].text = topics[t].text
    <2>1. t \in TopicsOf(d)'
      BY <1>1
    <2> QED
      BY <2>1 DEF Alone, TopicsOf
  <1>3. OneOk(d) => OneOk(d)'
    BY <1>1, <1>2 DEF OneOk
  <1> QED
    BY <1>1, <1>2, <1>3

Passes == {<<"parents", "children">>, <<"children", "sweep">>, <<"finish", "links">>, <<"links", "urls">>}

\* A step that leaves the topics of d alone keeps what holds of its merge, which
\* stays where it is or goes on to the next pass.
LEMMA GoesOn ==
    ASSUME TypeInv, NEW d \in Doc, MergeInv(d), Alone(d), Same(d),
           run'[d].todo = run[d].todo, run'[d].spoiled = run[d].spoiled, run'[d].ok => run[d].ok,
           run'[d].pc = run[d].pc \/ <<run[d].pc, run'[d].pc>> \in Passes
    PROVE  MergeInv(d)'
  <1>1. run'[d].zip = run[d].zip /\ run'[d].old = run[d].old
    BY DEF Same
  <1>2. Seen(d)' = Seen(d)
    BY <1>1 DEF Seen
  <1>3. /\ run'[d].pc \in Working => run[d].pc \in Working
        /\ run'[d].pc \in Over => run[d].pc \in Over
        /\ TodoOk(d)'
    BY <1>1 DEF Passes, Working, Over, MergeInv, TodoOk
  <1>4. /\ TopicsOf(d)' = TopicsOf(d)
        /\ \A t \in TopicsOf(d) : /\ t \in DOMAIN topics'
                                  /\ topics'[t].sid = topics[t].sid /\ topics'[t].text = topics[t].text
    BY AloneIs
  <1>5. OneOk(d)'
    BY AloneIs DEF MergeInv
  <1>6. FreshOk(d)'
    BY <1>1, <1>2, <1>3, <1>4 DEF MergeInv, FreshOk
  <1>7. KeptOk(d)'
    <2>1. SUFFICES ASSUME run'[d].pc \in Working, ~run'[d].spoiled, NEW o \in run[d].old
                   PROVE  o.id \in DOMAIN topics' /\ (o.sid \notin Seen(d) => topics'[o.id].text = o.text)
      BY <1>1, <1>2 DEF KeptOk
    <2>2. o.id \in DOMAIN topics /\ (o.sid \notin Seen(d) => topics[o.id].text = o.text)
      BY <1>3, <2>1 DEF MergeInv, KeptOk
    <2>3. o.id \in TopicsOf(d)
      BY <2>2 DEF TypeInv, OldOk, TopicsOf
    <2> QED
      BY <1>4, <2>2, <2>3
  <1>8. DoneOk(d)'
    <2>1. SUFFICES ASSUME run'[d].pc \in Working \cup Over, run'[d].ok, ~run'[d].spoiled,
                          NEW j \in DOMAIN run[d].zip.cands, run'[d].pc \in Over \/ j < run[d].todo
                   PROVE  \E t \in TopicsOf(d) : /\ topics'[t].sid = run[d].zip.cands[j].sid
                                                   /\ topics'[t].text = run[d].zip.cands[j].text
      BY <1>1, <1>4 DEF DoneOk, Matched
    <2>2. Matched(d, run[d].zip.cands[j])
      BY <1>3, <2>1 DEF MergeInv, DoneOk
    <2> QED
      BY <1>4, <2>2 DEF Matched
  <1>9. SweptOk(d)'
    BY <1>1, <1>3, <1>4 DEF MergeInv, SweptOk
  <1> QED
    BY <1>3, <1>5, <1>6, <1>7, <1>8, <1>9 DEF MergeInv

\* Nothing is to be shown of a merge that has ended, or is about to read.
LEMMA Rests ==
    ASSUME NEW d \in Doc, MergeInv(d), Alone(d),
           run'[d].pc = "idle" \/ (run'[d].pc = "read" /\ run'[d].todo = 1)
    PROVE  MergeInv(d)'
  <1>1. OneOk(d)'
    BY AloneIs DEF MergeInv
  <1> QED
    BY <1>1 DEF MergeInv, TodoOk, FreshOk, KeptOk, DoneOk, SweptOk, Working, Over

LEMMA ReadKeeps ==
    ASSUME TypeInv, NEW d \in Doc, MergeInv(d), ReadExisting(d)
    PROVE  MergeInv(d)'
  <1>1. /\ run'[d].pc = "apply" /\ run'[d].todo = 1 /\ Alone(d)
        /\ \A t \in TopicsOf(d) : \E o \in run'[d].old : o.id = t
        /\ \A o \in run'[d].old : o.id \in TopicsOf(d) /\ o.text = topics[o.id].text
    BY ReadExistingDoes DEF MergeInv, TodoOk
  <1>2. TopicsOf(d)' = TopicsOf(d) /\ OneOk(d)' /\ topics' = topics
    BY <1>1, AloneIs DEF MergeInv, ReadExisting
  <1>3. TodoOk(d)' /\ FreshOk(d)' /\ SweptOk(d)'
    BY <1>1, <1>2 DEF TodoOk, FreshOk, SweptOk, Over
  <1>4. KeptOk(d)'
    BY <1>1, <1>2 DEF KeptOk, TopicsOf
  <1>5. run'[d].zip \in Upload
    BY ReadExistingDoes DEF MergeState
  <1>6. DoneOk(d)'
    <2>1. \A j \in DOMAIN run'[d].zip.cands : ~(j < 1)
      BY <1>5, ElementsAre
    <2> QED
      BY <1>1, <2>1 DEF DoneOk, Over
  <1> QED
    BY <1>2, <1>3, <1>4, <1>6 DEF MergeInv

\* The candidates done with, and the one now.
LEMMA SeenIs ==
    ASSUME TypeInv, NEW d \in Doc, Advances(d)
    PROVE  /\ Seen(d)' = Seen(d) \cup {Current(d).sid}
           /\ DistinctIds => Current(d).sid \notin Seen(d)
           /\ TodoOk(d) => TodoOk(d)'
           /\ run[d].pc \in Working /\ run'[d].pc \in Working
           /\ run[d].pc \notin Over /\ run'[d].pc \notin Over
           /\ run[d].todo \in DOMAIN run[d].zip.cands
           /\ Current(d) = run[d].zip.cands[run[d].todo]
           /\ \A j \in DOMAIN run[d].zip.cands : j < run'[d].todo <=> j < run[d].todo \/ j = run[d].todo
  <1> DEFINE z == run[d].zip
             n == run[d].todo
  <1>1. z \in Upload /\ n \in 1..Len(z.cands) /\ z.cands \in Seq(Candidate) /\ run[d].pc = "apply"
    BY CurrentIs, ElementsAre DEF Advances
  <1>2. run'[d].zip = z /\ run'[d].todo = n + 1
    BY DEF Advances, Same
  <1>3. DOMAIN z.cands = 1..Len(z.cands) /\ Len(z.cands) \in Nat
    BY <1>1
  <1>4. \A j \in DOMAIN z.cands : j < n + 1 <=> j < n \/ j = n
    BY <1>1, <1>3
  <1>5. Seen(d)' = Seen(d) \cup {Current(d).sid}
    <2>1. Seen(d)' = {z.cands[j].sid : j \in {j \in DOMAIN z.cands : j < n + 1}}
      BY <1>2 DEF Seen
    <2>2. {j \in DOMAIN z.cands : j < n + 1} = {j \in DOMAIN z.cands : j < n} \cup {n}
      BY <1>1, <1>3, <1>4
    <2> QED
      BY <2>1, <2>2 DEF Seen, Current
  <1>6. DistinctIds => Current(d).sid \notin Seen(d)
    <2>1. SUFFICES ASSUME DistinctIds, NEW j \in DOMAIN z.cands, j < n PROVE z.cands[j].sid # z.cands[n].sid
      BY DEF Seen, Current
    <2>2. j # n
      BY <1>1, <1>3, <2>1
    <2> QED
      BY <1>1, <1>3, <2>1, <2>2 DEF DistinctIds
  <1>7. TodoOk(d)'
    BY <1>1, <1>2, <1>3 DEF TodoOk, Advances
  <1> QED
    BY <1>1, <1>2, <1>3, <1>4, <1>5, <1>6, <1>7 DEF Current, Advances, Working, Over

LEMMA AdvanceKeeps ==
    ASSUME TypeInv, NEW d \in Doc, MergeInv(d), Advances(d),
           TopicsOf(d)' = TopicsOf(d), \A t \in TopicsOf(d) : topics'[t].sid = topics[t].sid
    PROVE  TodoOk(d)' /\ OneOk(d)' /\ FreshOk(d)' /\ SweptOk(d)'
  <1>1. /\ Seen(d) \subseteq Seen(d)' /\ TodoOk(d)'
        /\ run[d].pc \in Working /\ run'[d].pc \notin Over
    BY SeenIs DEF MergeInv
  <1>2. OneOk(d)'
    BY DEF MergeInv, OneOk
  <1>3. FreshOk(d)'
    BY <1>1 DEF MergeInv, FreshOk, Advances, Same
  <1> QED
    BY <1>1, <1>2, <1>3 DEF SweptOk

\* The candidates so far, when a step is done with one more.
LEMMA DoneSoFar ==
    ASSUME TypeInv, NEW d \in Doc, MergeInv(d), Advances(d), run'[d].ok => run[d].ok,
           run'[d].ok /\ ~run[d].spoiled =>
               \A j \in DOMAIN run[d].zip.cands :
                   j = run[d].todo \/ (j < run[d].todo /\ Matched(d, run[d].zip.cands[j])) =>
                       \E t \in TopicsOf(d)' : /\ topics'[t].sid = run[d].zip.cands[j].sid
                                               /\ topics'[t].text = run[d].zip.cands[j].text
    PROVE  DoneOk(d)'
  <1>1. run'[d].zip = run[d].zip /\ run'[d].spoiled = run[d].spoiled
    BY DEF Advances, Same
  <1>2. run[d].pc \in Working /\ run'[d].pc \notin Over
    BY SeenIs
  <1>3. SUFFICES ASSUME run'[d].ok, ~run[d].spoiled, NEW j \in DOMAIN run[d].zip.cands, j < run'[d].todo
                 PROVE  \E t \in TopicsOf(d)' : /\ topics'[t].sid = run[d].zip.cands[j].sid
                                                /\ topics'[t].text = run[d].zip.cands[j].text
    BY <1>1, <1>2 DEF DoneOk, Matched
  <1>4. j < run[d].todo \/ j = run[d].todo
    BY <1>3, SeenIs
  <1>5. j < run[d].todo => Matched(d, run[d].zip.cands[j])
    BY <1>2, <1>3 DEF MergeInv, DoneOk
  <1> QED
    BY <1>3, <1>4, <1>5

LEMMA KeptWhileSame ==
    ASSUME TypeInv, NEW d \in Doc, MergeInv(d), Advances(d), topics' = topics
    PROVE  KeptOk(d)'
  <1>1. /\ Seen(d) \subseteq Seen(d)'
        /\ run[d].pc \in Working
    BY SeenIs
  <1> QED
    BY <1>1 DEF MergeInv, KeptOk, Advances, Same

LEMMA KeepKeeps ==
    ASSUME TypeInv, DistinctIds, NEW d \in Doc, MergeInv(d), Keep(d)
    PROVE  MergeInv(d)'
  <1>1. Advances(d) /\ topics' = topics /\ run'[d].ok = run[d].ok
    BY KeepDoes
  <1>2. TopicsOf(d)' = TopicsOf(d)
    BY <1>1 DEF TopicsOf
  <1>3. TodoOk(d)' /\ OneOk(d)' /\ FreshOk(d)' /\ SweptOk(d)' /\ KeptOk(d)'
    BY <1>1, <1>2, AdvanceKeeps, KeptWhileSame
  <1> DEFINE o == Prior(d, Current(d).sid)
  <1>4. o \in run[d].old /\ o.sid = Current(d).sid /\ o.text = Current(d).text
    BY PriorIs DEF Keep, Unchanged
  <1> HIDE DEF o
  <1>5. ~run[d].spoiled =>
           o.id \in TopicsOf(d) /\ topics[o.id].sid = Current(d).sid /\ topics[o.id].text = Current(d).text
    <2>1. Current(d).sid \notin Seen(d) /\ run[d].pc \in Working
      BY <1>1, SeenIs
    <2> QED
      BY <1>4, <2>1 DEF MergeInv, KeptOk, TypeInv, OldOk, TopicsOf
  <1>6. DoneOk(d)'
    BY <1>1, <1>2, <1>5, DoneSoFar DEF Matched, Current
  <1> QED
    BY <1>3, <1>6 DEF MergeInv

LEMMA FailTopicKeeps ==
    ASSUME TypeInv, NEW d \in Doc, MergeInv(d), FailTopic(d)
    PROVE  MergeInv(d)'
  <1>1. Advances(d) /\ topics' = topics /\ ~run'[d].ok
    BY FailTopicDoes
  <1>2. TopicsOf(d)' = TopicsOf(d)
    BY <1>1 DEF TopicsOf
  <1>3. TodoOk(d)' /\ OneOk(d)' /\ FreshOk(d)' /\ SweptOk(d)' /\ KeptOk(d)'
    BY <1>1, <1>2, AdvanceKeeps, KeptWhileSame
  <1> QED
    BY <1>1, <1>3 DEF MergeInv, DoneOk

LEMMA InsertKeeps ==
    ASSUME TypeInv, DistinctIds, NEW d \in Doc, MergeInv(d), Insert(d)
    PROVE  MergeInv(d)'
  <1> DEFINE c == Current(d)
  <1>1. /\ Advances(d) /\ ~HasPrior(d, c.sid) /\ run'[d].ok = run[d].ok /\ nextId \notin DOMAIN topics
        /\ DOMAIN topics' = DOMAIN topics \cup {nextId}
        /\ \A t \in DOMAIN topics : topics'[t] = topics[t]
        /\ topics'[nextId].doc = d /\ topics'[nextId].sid = c.sid /\ topics'[nextId].text = c.text
    <2>1. /\ NewTopic(d, c).doc = d /\ NewTopic(d, c).sid = c.sid /\ NewTopic(d, c).text = c.text
      BY DEF NewTopic
    <2> QED
      BY <2>1, InsertDoes
  <1>2. /\ Seen(d)' = Seen(d) \cup {c.sid} /\ c.sid \notin Seen(d) /\ TodoOk(d)'
        /\ run[d].pc \in Working /\ run'[d].pc \notin Over
        /\ run'[d].zip = run[d].zip /\ run'[d].old = run[d].old /\ run'[d].spoiled = run[d].spoiled
    BY <1>1, SeenIs DEF MergeInv, Advances, Same
  <1>3. run[d].todo \in DOMAIN run[d].zip.cands /\ c = run[d].zip.cands[run[d].todo]
    BY <1>1, SeenIs
  <1> HIDE DEF c
  <1>4. TopicsOf(d)' = TopicsOf(d) \cup {nextId}
    BY <1>1 DEF TopicsOf
  <1>5. \A t \in TopicsOf(d) : topics'[t] = topics[t]
    BY <1>1 DEF TopicsOf
  <1>6. \A t \in TopicsOf(d) : topics[t].sid # c.sid
    <2>1. SUFFICES ASSUME NEW t \in TopicsOf(d), topics[t].sid = c.sid PROVE FALSE
      OBVIOUS
    <2>2. PICK o \in run[d].old : o.id = t
      BY <1>2, <2>1 DEF MergeInv, FreshOk
    <2>3. o.sid = c.sid
      BY <2>1, <2>2 DEF TypeInv, OldOk, TopicsOf
    <2> QED
      BY <1>1, <2>3 DEF HasPrior
  <1>7. OneOk(d)'
    BY <1>1, <1>4, <1>5, <1>6 DEF MergeInv, OneOk
  <1>8. FreshOk(d)'
    <2>1. SUFFICES ASSUME NEW t \in TopicsOf(d) \cup {nextId}
                   PROVE  (\E o \in run[d].old : o.id = t) \/ topics'[t].sid \in Seen(d) \cup {c.sid}
      BY <1>2, <1>4 DEF FreshOk
    <2> QED
      BY <1>1, <1>2, <1>5 DEF MergeInv, FreshOk
  <1>9. KeptOk(d)'
    <2>1. SUFFICES ASSUME ~run[d].spoiled, NEW o \in run[d].old
                   PROVE  o.id \in DOMAIN topics' /\ (o.sid \notin Seen(d) \cup {c.sid} => topics'[o.id].text = o.text)
      BY <1>2 DEF KeptOk
    <2> QED
      BY <1>1, <1>2, <2>1 DEF MergeInv, KeptOk
  <1>10. DoneOk(d)'
    BY <1>1, <1>3, <1>4, <1>5, DoneSoFar DEF Matched
  <1>11. SweptOk(d)'
    BY <1>2 DEF SweptOk
  <1> QED
    BY <1>2, <1>7, <1>8, <1>9, <1>10, <1>11 DEF MergeInv

LEMMA UpdateKeeps ==
    ASSUME TypeInv, DistinctIds, NEW d \in Doc, MergeInv(d), Update(d)
    PROVE  MergeInv(d)'
  <1> DEFINE c == Current(d)
             o == Prior(d, c.sid)
  <1>1. /\ Advances(d) /\ HasPrior(d, c.sid) /\ run'[d].ok = run[d].ok
        /\ DOMAIN topics' = DOMAIN topics
        /\ \A u \in DOMAIN topics : u # o.id => topics'[u] = topics[u]
        /\ o.id \in DOMAIN topics =>
             /\ topics[o.id].doc = d /\ topics[o.id].sid = c.sid
             /\ topics'[o.id].doc = d /\ topics'[o.id].sid = c.sid /\ topics'[o.id].text = c.text
    BY UpdateDoes
  <1>2. o \in run[d].old /\ o.sid = c.sid
    BY <1>1, PriorIs
  <1>3. /\ Seen(d)' = Seen(d) \cup {c.sid} /\ c.sid \notin Seen(d)
        /\ run[d].pc \in Working
        /\ run'[d].zip = run[d].zip /\ run'[d].old = run[d].old /\ run'[d].spoiled = run[d].spoiled
    BY <1>1, SeenIs DEF Advances, Same
  <1>4. run[d].todo \in DOMAIN run[d].zip.cands /\ c = run[d].zip.cands[run[d].todo]
    BY <1>1, SeenIs
  <1> HIDE DEF c, o
  <1>5. /\ TopicsOf(d)' = TopicsOf(d)
        /\ \A t \in TopicsOf(d) : topics'[t].sid = topics[t].sid
    BY <1>1 DEF TopicsOf
  <1>6. TodoOk(d)' /\ OneOk(d)' /\ FreshOk(d)' /\ SweptOk(d)'
    BY <1>1, <1>5, AdvanceKeeps
  <1>7. KeptOk(d)'
    <2>1. SUFFICES ASSUME ~run[d].spoiled, NEW q \in run[d].old
                   PROVE  q.id \in DOMAIN topics' /\ (q.sid \notin Seen(d) \cup {c.sid} => topics'[q.id].text = q.text)
      BY <1>3 DEF KeptOk
    <2>2. q.id \in DOMAIN topics /\ (q.sid \notin Seen(d) => topics[q.id].text = q.text) /\ topics[q.id].sid = q.sid
      BY <1>3, <2>1 DEF MergeInv, KeptOk, TypeInv, OldOk
    <2> QED
      BY <1>1, <2>2
  <1>8. ~run[d].spoiled => o.id \in TopicsOf(d)
    BY <1>1, <1>2, <1>3 DEF MergeInv, KeptOk, TopicsOf
  <1>9. ASSUME NEW j \in DOMAIN run[d].zip.cands, j < run[d].todo, Matched(d, run[d].zip.cands[j])
        PROVE  \E t \in TopicsOf(d) : /\ topics'[t].sid = run[d].zip.cands[j].sid
                                      /\ topics'[t].text = run[d].zip.cands[j].text
    <2>1. run[d].zip.cands[j].sid # c.sid
      BY <1>3, <1>9 DEF Seen
    <2> QED
      BY <1>1, <1>9, <2>1 DEF Matched, TopicsOf
  <1>10. DoneOk(d)'
    <2>1. ASSUME ~run[d].spoiled, NEW j \in DOMAIN run[d].zip.cands,
                 j = run[d].todo \/ (j < run[d].todo /\ Matched(d, run[d].zip.cands[j]))
          PROVE  \E t \in TopicsOf(d) : /\ topics'[t].sid = run[d].zip.cands[j].sid
                                        /\ topics'[t].text = run[d].zip.cands[j].text
      BY <1>1, <1>4, <1>8, <1>9, <2>1 DEF TopicsOf
    <2> QED
      BY <1>1, <1>5, <2>1, DoneSoFar
  <1> QED
    BY <1>6, <1>7, <1>10 DEF MergeInv

LEMMA RemoveAllKeeps ==
    ASSUME TypeInv, NEW d \in Doc, MergeInv(d), RemoveAll(d)
    PROVE  MergeInv(d)' /\ TopicsOf(d)' \subseteq TopicsOf(d)
           /\ \A t \in TopicsOf(d)' : topics'[t] = topics[t]
  <1>1. /\ Removes({o.id : o \in run[d].old}) /\ run[d].pc = "apply" /\ Len(run[d].zip.cands) = 0
        /\ run'[d] = [run[d] EXCEPT !.pc = "finish"] /\ run[d] \in MergeState
    BY RemoveAllDoes DEF TypeInv, TypeOK
  <1>2. run'[d].pc = "finish" /\ run'[d].zip = run[d].zip
    BY <1>1 DEF MergeState
  <1>3. run[d].zip.cands \in Seq(Candidate)
    BY <1>1, ElementsAre DEF MergeState
  <1>4. DOMAIN run[d].zip.cands = {}
    BY <1>1, <1>3
  <1>5. Seen(d) = {}
    BY <1>4 DEF Seen
  <1>6. TopicsOf(d)' = {}
    <2>1. SUFFICES ASSUME NEW t \in TopicsOf(d)' PROVE FALSE
      OBVIOUS
    <2>2. t \in TopicsOf(d) /\ t \notin {o.id : o \in run[d].old}
      BY <1>1, <2>1 DEF Removes, TopicsOf
    <2> QED
      BY <1>1, <1>5, <2>2 DEF MergeInv, FreshOk, Working
  <1> QED
    BY <1>2, <1>4, <1>6 DEF MergeInv, TodoOk, OneOk, FreshOk, KeptOk, DoneOk, SweptOk, Working

LEMMA SweepKeeps ==
    ASSUME TypeInv, NEW d \in Doc, MergeInv(d), SweepRemoved(d)
    PROVE  MergeInv(d)' /\ TopicsOf(d)' \subseteq TopicsOf(d)
           /\ \A t \in TopicsOf(d)' : topics'[t] = topics[t]
  <1>1. PICK done \in SUBSET Removed(d) : Removes(done) /\ (run'[d].ok => done = Removed(d))
    BY SweepRemovedDoes
  <1>2. /\ run[d].pc = "sweep" /\ run'[d].pc = "finish" /\ run'[d].zip = run[d].zip
        /\ run'[d].spoiled = run[d].spoiled /\ (run'[d].ok => run[d].ok)
        /\ \A t \in Removed(d) \cap DOMAIN topics :
              topics[t].doc = d /\ topics[t].sid \notin SidsOf(run[d].zip)
    BY SweepRemovedDoes DEF Same
  <1>3. /\ TopicsOf(d)' = TopicsOf(d) \ done
        /\ \A t \in TopicsOf(d)' : topics'[t] = topics[t]
    BY <1>1 DEF Removes, TopicsOf
  <1>4. OneOk(d)'
    BY <1>3 DEF MergeInv, OneOk
  <1>5. /\ \A j \in DOMAIN run[d].zip.cands : j < run[d].todo
        /\ Seen(d) \subseteq SidsOf(run[d].zip)
    <2>1. run[d] \in MergeState /\ run[d].zip \in Upload
      BY DEF TypeInv, TypeOK, MergeState
    <2>2. run[d].zip.cands \in Seq(Candidate) /\ run[d].todo \in Nat /\ run[d].todo > Len(run[d].zip.cands)
      BY <1>2, <2>1, ElementsAre DEF MergeInv, TodoOk, MergeState
    <2> QED
      BY <2>2 DEF Seen, SidsOf, Elements
  <1>6. DoneOk(d)'
    <2>1. SUFFICES ASSUME run'[d].ok, ~run[d].spoiled, NEW j \in DOMAIN run[d].zip.cands
                   PROVE  \E t \in TopicsOf(d)' : /\ topics'[t].sid = run[d].zip.cands[j].sid
                                                  /\ topics'[t].text = run[d].zip.cands[j].text
      BY <1>2 DEF DoneOk, Matched
    <2>2. PICK t \in TopicsOf(d) : /\ topics[t].sid = run[d].zip.cands[j].sid
                                   /\ topics[t].text = run[d].zip.cands[j].text
      BY <1>2, <1>5, <2>1 DEF MergeInv, DoneOk, Matched, Working
    <2>3. topics[t].sid \in SidsOf(run[d].zip)
      BY <2>2 DEF SidsOf, Elements
    <2>4. t \notin done
      BY <1>1, <1>2, <2>3 DEF TopicsOf
    <2> QED
      BY <1>3, <2>2, <2>4
  <1>7. SweptOk(d)'
    <2>1. SUFFICES ASSUME run'[d].ok, ~run[d].spoiled, NEW t \in TopicsOf(d), t \notin done,
                          topics[t].sid \notin SidsOf(run[d].zip)
                   PROVE  FALSE
      BY <1>2, <1>3 DEF SweptOk
    <2>2. PICK o \in run[d].old : o.id = t
      BY <1>2, <1>5, <2>1 DEF MergeInv, FreshOk, Working
    <2>3. o.sid = topics[t].sid /\ o.sid \in Sid /\ None \notin Sid
      BY <2>2, TopicAssumption DEF TypeInv, OldOk, TopicsOf
    <2>4. o.sid \in {q.sid : q \in run[d].old} \ ({None} \cup SidsOf(run[d].zip))
      BY <2>1, <2>3
    <2>5. Prior(d, o.sid).id \in Removed(d)
      BY <2>4 DEF Removed
    <2>6. Prior(d, o.sid) \in run[d].old /\ Prior(d, o.sid).sid = o.sid
      BY PriorIs DEF HasPrior
    <2>7. Prior(d, o.sid).id \in TopicsOf(d) /\ topics[Prior(d, o.sid).id].sid = o.sid
      BY <1>2, <2>1, <2>6 DEF MergeInv, KeptOk, TypeInv, OldOk, TopicsOf, Working
    <2>8. Prior(d, o.sid).id = t
      BY <2>1, <2>3, <2>7 DEF MergeInv, OneOk
    <2> QED
      BY <1>1, <2>1, <2>5, <2>8
  <1> QED
    BY <1>2, <1>3, <1>4, <1>6, <1>7 DEF MergeInv, TodoOk, FreshOk, KeptOk, Working

LEMMA DeleteKeeps ==
    ASSUME TypeInv, NEW d \in Doc, MergeInv(d), DeleteTopics(d)
    PROVE  MergeInv(d)' /\ TopicsOf(d)' = {}
  <1>1. /\ Removes(TopicsOf(d)) /\ run[d] \in MergeState /\ run'[d] = [run[d] EXCEPT !.spoiled = TRUE]
    BY DeleteTopicsDoes
  <1>2. /\ run'[d].spoiled /\ run'[d].pc = run[d].pc /\ run'[d].zip = run[d].zip
        /\ run'[d].todo = run[d].todo
    BY <1>1 DEF MergeState
  <1>3. TopicsOf(d)' = {}
    BY <1>1 DEF Removes, TopicsOf
  <1> QED
    BY <1>2, <1>3 DEF MergeInv, TodoOk, OneOk, FreshOk, KeptOk, DoneOk, SweptOk

\* A step keeps what holds of every merge.
LEMMA MergeKept ==
    ASSUME TypeInv, DistinctIds, \A e \in Doc : MergeInv(e), [Next]_vars
    PROVE  \A e \in Doc : MergeInv(e)'
  <1>1. ASSUME NEW e \in Doc, Alone(e), run'[e] = run[e] PROVE MergeInv(e)'
    BY <1>1, GoesOn DEF Same
  <1>2. CASE UNCHANGED vars
    <2>1. \A e \in Doc : Alone(e) /\ run'[e] = run[e]
      BY <1>2 DEF vars, Alone, TopicsOf
    <2> QED
      BY <1>1, <2>1
  <1>3. CASE Crash
    BY <1>3, CrashDoes, Rests
  <1>4. ASSUME NEW d \in Doc, Others(d), \A e \in Doc \ {d} : Alone(e), MergeInv(d)'
        PROVE  \A e \in Doc : MergeInv(e)'
    <2>1. ASSUME NEW e \in Doc, e # d PROVE MergeInv(e)'
      BY <1>1, <1>4, <2>1 DEF Others
    <2> QED
      BY <1>4, <2>1
  <1>5. ASSUME NEW d \in Doc, StartMerge(d) \/ ReadExisting(d) \/ FailMerge(d) \/ RegenerateUrls(d)
        PROVE  \A e \in Doc : MergeInv(e)'
    <2>1. MergeInv(d)'
      BY <1>5, StartMergeDoes, ReadKeeps, FailMergeDoes, RegenerateUrlsDoes, Rests
    <2> QED
      BY <1>4, <1>5, <2>1, StartMergeDoes, ReadExistingDoes, FailMergeDoes, RegenerateUrlsDoes
  <1>6. ASSUME NEW d \in Doc, RemoveAll(d) \/ SweepRemoved(d) \/ Insert(d)
        PROVE  \A e \in Doc : MergeInv(e)'
    BY <1>4, <1>6, RemoveAllKeeps, SweepKeeps, InsertKeeps, RemoveAllDoes, SweepRemovedDoes, InsertDoes
  <1>7. ASSUME NEW d \in Doc, Keep(d) \/ Update(d) \/ FailTopic(d)
        PROVE  \A e \in Doc : MergeInv(e)'
    BY <1>4, <1>7, KeepKeeps, UpdateKeeps, FailTopicKeeps, KeepDoes, UpdateDoes, FailTopicDoes
  <1>8. ASSUME NEW d \in Doc, WireParents(d) \/ WireChildren(d) \/ RewriteLinks(d)
        PROVE  \A e \in Doc : MergeInv(e)'
    <2>1. MergeInv(d)'
      BY <1>8, GoesOn, WireParentsDoes, WireChildrenDoes, RewriteLinksDoes DEF Passes
    <2> QED
      BY <1>4, <1>8, <2>1, WireParentsDoes, WireChildrenDoes, RewriteLinksDoes
  <1>9. ASSUME NEW d \in Doc, Finish(d) PROVE \A e \in Doc : MergeInv(e)'
    <2>1. MergeInv(d)'
      BY <1>9, FinishDoes, Rests, GoesOn DEF Passes
    <2> QED
      BY <1>4, <1>9, <2>1, FinishDoes
  <1>10. ASSUME NEW d \in Doc, DeleteTopics(d) PROVE \A e \in Doc : MergeInv(e)'
    BY <1>4, <1>10, DeleteKeeps, DeleteTopicsDoes
  <1>11. ASSUME NEW d \in Doc, DeleteDocument(d) PROVE \A e \in Doc : MergeInv(e)'
    BY <1>1, <1>11, DeleteDocumentDoes
  <1> QED
    BY <1>2, <1>3, <1>5, <1>6, <1>7, <1>8, <1>9, <1>10, <1>11 DEF Next

LEMMA InitMerges == Init => \A d \in Doc : MergeInv(d)
  <1> SUFFICES ASSUME Init, NEW d \in Doc PROVE MergeInv(d)
    OBVIOUS
  <1>1. TopicsOf(d) = {} /\ run[d].pc = "idle"
    BY DEF Init, TopicsOf, Idle
  <1> QED
    BY <1>1 DEF MergeInv, TodoOk, OneOk, FreshOk, KeptOk, DoneOk, SweptOk, Working, Over

SyncInv == TypeInv /\ \A d \in Doc : MergeInv(d)

LEMMA SyncInvariant ==
    ASSUME DistinctIds
    PROVE  Spec => []SyncInv
  <1>1. Init => SyncInv
    BY InitTyped, InitMerges DEF SyncInv
  <1>2. SyncInv /\ [Next]_vars => SyncInv'
    BY NextTyped, MergeKept DEF SyncInv
  <1> QED
    BY <1>1, <1>2, PTL DEF Spec

\* Where the stable ids of each zip are distinct, a document has one topic for
\* each stable id: Insert looks at what was read when the merge began, but no
\* other merge of the document has inserted since (FreshOk).
THEOREM OneTopicPerStableId ==
    ASSUME DistinctIds
    PROVE  Spec => []OneTopicPerId
  <1>1. SyncInv => OneTopicPerId
    <2> SUFFICES ASSUME SyncInv, NEW t \in DOMAIN topics, NEW u \in DOMAIN topics,
                        topics[t].doc = topics[u].doc, topics[t].sid = topics[u].sid
                 PROVE  t = u
      BY DEF OneTopicPerId
    <2>1. PICK d \in Doc : d = topics[t].doc
      BY DEF SyncInv, TypeInv, TypeOK, Topic
    <2> QED
      BY <2>1 DEF SyncInv, MergeInv, OneOk, TopicsOf
  <1> QED
    BY <1>1, SyncInvariant, PTL

-----------------------------------------------------------------------------
(* The merge implements TopicSync                                          *)

ShownOf(d) == [s \in Sid |-> {topics[t].text : t \in {t \in TopicsOf(d) : topics[t].sid = s}}]
GoalOf(d) == IF Merging(d) THEN Asked(run[d].zip) ELSE None

\* The state of TopicSync.
AbsGoal == [d \in Doc |-> GoalOf(d)]
AbsResult == [d \in Doc |-> run[d].result]
AbsSpoiled == {d \in Doc : run[d].spoiled}

LEMMA ShownIs == Shown = [d \in Doc |-> ShownOf(d)]
  BY DEF Shown, ShownOf

LEMMA AskedIs ==
    ASSUME NEW z \in Upload
    PROVE  /\ Asked(z) \in [Sid -> SUBSET Text] /\ Asked(z) # None
           /\ \A s \in Sid \ SidsOf(z) : Asked(z)[s] = {}
           /\ DistinctIds => \A c \in Elements(z) : Asked(z)[c.sid] = {c.text}
  <1>1. Elements(z) \subseteq Candidate /\ z.cands \in Seq(Candidate)
    BY ElementsAre
  <1>2. \A s \in Sid : Asked(z)[s] = {c.text : c \in {c \in Elements(z) : c.sid = s}}
    BY DEF Asked
  <1>3. Asked(z) \in [Sid -> SUBSET Text]
    BY <1>1 DEF Asked, Candidate
  <1>4. \A s \in Sid \ SidsOf(z) : Asked(z)[s] = {}
    BY <1>2 DEF SidsOf
  <1>5. ASSUME DistinctIds, NEW c \in Elements(z) PROVE Asked(z)[c.sid] = {c.text}
    <2>1. \A b \in Elements(z) : b.sid = c.sid => b = c
      BY <1>1, <1>5 DEF Elements, DistinctIds
    <2>2. c.sid \in Sid
      BY <1>1 DEF Candidate
    <2> QED
      BY <1>2, <2>1, <2>2
  <1> QED
    BY <1>3, <1>4, <1>5, TopicAssumption

LEMMA AloneShows ==
    ASSUME NEW d \in Doc, Alone(d)
    PROVE  ShownOf(d)' = ShownOf(d)
  BY DEF Alone, ShownOf

LEMMA AllAloneShow ==
    ASSUME \A d \in Doc : Alone(d)
    PROVE  Shown' = Shown
  <1>1. \A d \in Doc : ShownOf(d)' = ShownOf(d)
    BY AloneShows
  <1>2. Shown' = [d \in Doc |-> ShownOf(d)']
    BY DEF Shown, ShownOf
  <1> QED
    BY <1>1, <1>2, ShownIs

LEMMA OneShows ==
    ASSUME NEW d \in Doc, \A e \in Doc \ {d} : Alone(e), NEW f, ShownOf(d)' = f
    PROVE  Shown' = [Shown EXCEPT ![d] = f]
  <1>1. \A e \in Doc \ {d} : ShownOf(e)' = ShownOf(e)
    BY AloneShows
  <1>2. Shown' = [e \in Doc |-> ShownOf(e)']
    BY DEF Shown, ShownOf
  <1> QED
    BY <1>1, <1>2, ShownIs

\* What a step of the merge of d is to TopicSync.
LEMMA RunIs ==
    ASSUME NEW d \in Doc, Others(d), NEW g, GoalOf(d)' = g
    PROVE  /\ AbsGoal' = [AbsGoal EXCEPT ![d] = g]
           /\ AbsResult' = [AbsResult EXCEPT ![d] = run'[d].result]
           /\ AbsSpoiled' \ {d} = AbsSpoiled \ {d}
           /\ d \in AbsSpoiled' <=> run'[d].spoiled
           /\ d \in AbsSpoiled <=> run[d].spoiled
           /\ AbsGoal[d] = GoalOf(d) /\ AbsResult[d] = run[d].result
  <1>1. ASSUME NEW e \in Doc \ {d} PROVE run'[e] = run[e] /\ GoalOf(e)' = GoalOf(e)
    BY DEF Others, GoalOf, Merging
  <1>2. AbsGoal' = [e \in Doc |-> GoalOf(e)']
    BY DEF AbsGoal
  <1>3. AbsGoal' = [AbsGoal EXCEPT ![d] = g]
    BY <1>1, <1>2 DEF AbsGoal
  <1>4. AbsResult' = [AbsResult EXCEPT ![d] = run'[d].result]
    BY <1>1 DEF AbsResult
  <1>5. AbsSpoiled' \ {d} = AbsSpoiled \ {d}
    BY <1>1 DEF AbsSpoiled
  <1> QED
    BY <1>3, <1>4, <1>5 DEF AbsGoal, AbsResult, AbsSpoiled

LEMMA RunStays ==
    ASSUME NEW d \in Doc, Others(d), GoalOf(d)' = GoalOf(d),
           run'[d].result = run[d].result, run'[d].spoiled = run[d].spoiled
    PROVE  AbsGoal' = AbsGoal /\ AbsResult' = AbsResult /\ AbsSpoiled' = AbsSpoiled
  <1>1. ASSUME NEW e \in Doc
        PROVE  run'[e].result = run[e].result /\ run'[e].spoiled = run[e].spoiled /\ GoalOf(e)' = GoalOf(e)
    BY DEF Others, GoalOf, Merging
  <1> QED
    BY <1>1 DEF AbsGoal, AbsResult, AbsSpoiled

LEMMA SyncStutters ==
    ASSUME Shown' = Shown, AbsGoal' = AbsGoal, AbsResult' = AbsResult, AbsSpoiled' = AbsSpoiled
    PROVE  UNCHANGED Sync!vars
  BY DEF Sync!vars, AbsGoal, GoalOf, AbsResult, AbsSpoiled

LEMMA SyncBegins ==
    ASSUME NEW d \in Doc, AbsGoal[d] = None, NEW z \in Upload, AbsGoal' = [AbsGoal EXCEPT ![d] = Asked(z)],
           AbsSpoiled' = AbsSpoiled \ {d}, Shown' = Shown, AbsResult' = AbsResult
    PROVE  Sync!Begin(d)
  BY DEF Sync!Begin, AbsGoal, GoalOf, AbsResult, AbsSpoiled

LEMMA SyncMoves ==
    ASSUME NEW d \in Doc, AbsGoal[d] # None, NEW s \in Sid, Shown' = [Shown EXCEPT ![d][s] = AbsGoal[d][s]],
           AbsGoal' = AbsGoal, AbsResult' = AbsResult, AbsSpoiled' = AbsSpoiled
    PROVE  Sync!Move(d)
  BY DEF Sync!Move, AbsGoal, GoalOf, AbsResult, AbsSpoiled

LEMMA SyncSweeps ==
    ASSUME NEW d \in Doc, AbsGoal[d] # None, NEW S \in SUBSET {s \in Sid : AbsGoal[d][s] = {}},
           Shown' = [Shown EXCEPT ![d] = [s \in Sid |-> IF s \in S THEN {} ELSE Shown[d][s]]],
           AbsGoal' = AbsGoal, AbsResult' = AbsResult, AbsSpoiled' = AbsSpoiled
    PROVE  Sync!Sweep(d)
  BY DEF Sync!Sweep, AbsGoal, GoalOf, AbsResult, AbsSpoiled

LEMMA SyncCompletes ==
    ASSUME NEW d \in Doc, AbsGoal[d] # None, d \in AbsSpoiled \/ Shown[d] = AbsGoal[d],
           AbsGoal' = [AbsGoal EXCEPT ![d] = None], AbsResult' = [AbsResult EXCEPT ![d] = "clean"],
           Shown' = Shown, AbsSpoiled' = AbsSpoiled
    PROVE  Sync!Complete(d)
  BY DEF Sync!Complete, AbsGoal, GoalOf, AbsResult, AbsSpoiled

LEMMA SyncAbandons ==
    ASSUME NEW D \in SUBSET Doc,
           AbsGoal' = [d \in Doc |-> IF d \in D THEN None ELSE AbsGoal[d]],
           AbsResult' = [d \in Doc |-> IF d \in D THEN "partial" ELSE AbsResult[d]],
           Shown' = Shown, AbsSpoiled' = AbsSpoiled
    PROVE  Sync!Abandon
  BY DEF Sync!Abandon, AbsGoal, GoalOf, AbsResult, AbsSpoiled

LEMMA SyncDeletes ==
    ASSUME NEW d \in Doc, Shown' = [Shown EXCEPT ![d] = [s \in Sid |-> {}]],
           AbsSpoiled' = AbsSpoiled \cup {d}, AbsGoal' = AbsGoal, AbsResult' = AbsResult
    PROVE  Sync!Delete(d)
  BY DEF Sync!Delete, Sync!NoTopics, AbsGoal, GoalOf, AbsResult, AbsSpoiled

-----------------------------------------------------------------------------
(* Every step is one of TopicSync, or none                                 *)

\* A step that leaves all topics alone and neither starts nor ends a merge.
LEMMA QuietRefines ==
    ASSUME \A e \in Doc : Alone(e), NEW d \in Doc, Others(d),
           run'[d].zip = run[d].zip, Merging(d)' = Merging(d),
           run'[d].result = run[d].result, run'[d].spoiled = run[d].spoiled
    PROVE  UNCHANGED Sync!vars
  <1>1. GoalOf(d)' = GoalOf(d)
    BY DEF GoalOf, Asked, Elements
  <1> QED
    BY <1>1, AllAloneShow, RunStays, SyncStutters

\* One that ends a merge with an error.
LEMMA EndRefines ==
    ASSUME TypeInv, \A e \in Doc : Alone(e), NEW d \in Doc, Others(d), ~Merging(d)',
           run'[d].result = "partial", run'[d].spoiled = run[d].spoiled
    PROVE  Sync!Abandon
  <1>1. GoalOf(d)' = None
    BY DEF GoalOf
  <1>2. /\ AbsGoal' = [AbsGoal EXCEPT ![d] = None]
        /\ AbsResult' = [AbsResult EXCEPT ![d] = "partial"]
        /\ AbsSpoiled' = AbsSpoiled
    <2>1. /\ AbsGoal' = [AbsGoal EXCEPT ![d] = None]
          /\ AbsResult' = [AbsResult EXCEPT ![d] = run'[d].result]
          /\ AbsSpoiled' \ {d} = AbsSpoiled \ {d}
          /\ d \in AbsSpoiled' <=> d \in AbsSpoiled
      BY <1>1, RunIs
    <2>2. AbsSpoiled' = AbsSpoiled
      BY <2>1
    <2> QED
      BY <2>1, <2>2
  <1>3. AbsGoal = [e \in Doc |-> AbsGoal[e]] /\ AbsResult = [e \in Doc |-> AbsResult[e]]
    BY DEF AbsGoal, AbsResult
  <1>4. /\ AbsGoal' = [e \in Doc |-> IF e \in {d} THEN None ELSE AbsGoal[e]]
        /\ AbsResult' = [e \in Doc |-> IF e \in {d} THEN "partial" ELSE AbsResult[e]]
    BY <1>2, <1>3
  <1> QED
    BY <1>2, <1>4, AllAloneShow, SyncAbandons

\* Of a document whose merge is under way, topics with one stable id that the
\* zip does not have go, or none.
LEMMA RemovalRefines ==
    ASSUME TypeInv, NEW d \in Doc, MergeInv(d), Others(d), \A e \in Doc \ {d} : Alone(e),
           Merging(d), Merging(d)', run'[d].zip = run[d].zip,
           run'[d].result = run[d].result, run'[d].spoiled = run[d].spoiled,
           TopicsOf(d)' \subseteq TopicsOf(d), \A t \in TopicsOf(d)' : topics'[t] = topics[t],
           \A t \in TopicsOf(d) \ TopicsOf(d)' : topics[t].sid \notin SidsOf(run[d].zip)
    PROVE  Sync!Sweep(d)
  <1>1. run[d].zip \in Upload
    BY DEF TypeInv, TypeOK, MergeState
  <1>2. GoalOf(d)' = GoalOf(d) /\ GoalOf(d) = Asked(run[d].zip)
    BY DEF GoalOf, Asked, Elements
  <1> DEFINE S == {s \in Sid : Asked(run[d].zip)[s] = {} /\ \A t \in TopicsOf(d)' : topics'[t].sid # s}
  <1>3. ASSUME NEW s \in S
        PROVE  {topics'[t].text : t \in {t \in TopicsOf(d)' : topics'[t].sid = s}} = {}
    OBVIOUS
  <1>4. ASSUME NEW s \in Sid \ S
        PROVE  {t \in TopicsOf(d)' : topics'[t].sid = s} = {t \in TopicsOf(d) : topics[t].sid = s}
    <2>1. \A t \in TopicsOf(d)' : t \in TopicsOf(d) /\ topics'[t] = topics[t]
      OBVIOUS
    <2>2. SUFFICES ASSUME NEW t \in TopicsOf(d), topics[t].sid = s, t \notin TopicsOf(d)' PROVE FALSE
      BY <2>1
    <2>3. Asked(run[d].zip)[s] = {}
      BY <1>1, <2>2, AskedIs
    <2>4. PICK u \in TopicsOf(d)' : topics'[u].sid = s
      BY <1>4, <2>3
    <2> QED
      BY <2>1, <2>2, <2>4 DEF MergeInv, OneOk
  <1>5. PICK T : T = S
    OBVIOUS
  <1>6. ShownOf(d)' = [s \in Sid |-> IF s \in T THEN {} ELSE ShownOf(d)[s]]
    <2>1. ASSUME NEW s \in Sid
          PROVE  {topics'[t].text : t \in {t \in TopicsOf(d)' : topics'[t].sid = s}}
                    = IF s \in S THEN {} ELSE {topics[t].text : t \in {t \in TopicsOf(d) : topics[t].sid = s}}
      <3>1. CASE s \in S
        BY <1>3, <3>1
      <3>2. CASE s \notin S
        <4>1. {t \in TopicsOf(d)' : topics'[t].sid = s} = {t \in TopicsOf(d) : topics[t].sid = s}
          BY <1>4, <3>2
        <4>2. \A t \in {t \in TopicsOf(d) : topics[t].sid = s} : topics'[t].text = topics[t].text
          BY <4>1
        <4> HIDE DEF S
        <4> QED
          BY <3>2, <4>1, <4>2
      <3> QED
        BY <3>1, <3>2
    <2> HIDE DEF S
    <2> QED
      BY <1>5, <2>1 DEF ShownOf
  <1>7. Shown' = [Shown EXCEPT ![d] = [s \in Sid |-> IF s \in T THEN {} ELSE Shown[d][s]]]
    <2>1. Shown[d] = ShownOf(d)
      BY ShownIs
    <2> QED
      BY <1>6, <2>1, OneShows
  <1>8. AbsGoal' = AbsGoal /\ AbsResult' = AbsResult /\ AbsSpoiled' = AbsSpoiled
    BY <1>2, RunStays
  <1>9. AbsGoal[d] = Asked(run[d].zip) /\ AbsGoal[d] # None
    BY <1>1, <1>2, AskedIs DEF AbsGoal
  <1>10. T \in SUBSET {s \in Sid : AbsGoal[d][s] = {}}
    BY <1>5, <1>9
  <1> HIDE DEF S
  <1> QED
    BY <1>7, <1>8, <1>9, <1>10, SyncSweeps

\* The texts that readers find under the stable id of its candidate become the
\* one that the zip has.
LEMMA MoveRefines ==
    ASSUME TypeInv, DistinctIds, NEW d \in Doc, Others(d), \A e \in Doc \ {d} : Alone(e),
           Advances(d), NEW t \in TopicsOf(d)', NEW c \in Elements(run[d].zip),
           TopicsOf(d)' = TopicsOf(d) \cup {t}, topics'[t].sid = c.sid, topics'[t].text = c.text,
           \A u \in TopicsOf(d) \ {t} : topics'[u] = topics[u] /\ topics[u].sid # c.sid,
           t \in TopicsOf(d) => topics[t].sid = c.sid
    PROVE  Sync!Move(d)
  <1>1. run[d].zip \in Upload /\ c \in Candidate /\ c.sid \in Sid /\ run[d].pc = "apply"
    BY CurrentIs, ElementsAre DEF Advances, Candidate
  <1>2. GoalOf(d)' = GoalOf(d) /\ GoalOf(d) = Asked(run[d].zip)
    BY <1>1 DEF GoalOf, Asked, Elements, Merging, Advances, Same
  <1>3. AbsGoal[d] = Asked(run[d].zip) /\ AbsGoal[d] # None /\ Asked(run[d].zip)[c.sid] = {c.text}
    BY <1>1, <1>2, AskedIs DEF AbsGoal
  <1>4. {topics'[u].text : u \in {u \in TopicsOf(d)' : topics'[u].sid = c.sid}} = {c.text}
    <2>1. {u \in TopicsOf(d)' : topics'[u].sid = c.sid} = {t}
      OBVIOUS
    <2> QED
      BY <2>1
  <1>5. ASSUME NEW s \in Sid \ {c.sid}
        PROVE  {topics'[u].text : u \in {u \in TopicsOf(d)' : topics'[u].sid = s}}
                  = {topics[u].text : u \in {u \in TopicsOf(d) : topics[u].sid = s}}
    <2>1. {u \in TopicsOf(d)' : topics'[u].sid = s} = {u \in TopicsOf(d) : topics[u].sid = s}
      OBVIOUS
    <2>2. \A u \in {u \in TopicsOf(d) : topics[u].sid = s} : topics'[u].text = topics[u].text
      OBVIOUS
    <2> QED
      BY <2>1, <2>2
  <1>6. ShownOf(d)' = [ShownOf(d) EXCEPT ![c.sid] = {c.text}]
    BY <1>1, <1>4, <1>5 DEF ShownOf
  <1>7. Shown' = [Shown EXCEPT ![d][c.sid] = AbsGoal[d][c.sid]]
    <2>1. Shown[d] = ShownOf(d)
      BY ShownIs
    <2> QED
      BY <1>3, <1>6, <2>1, OneShows
  <1>8. AbsGoal' = AbsGoal /\ AbsResult' = AbsResult /\ AbsSpoiled' = AbsSpoiled
    BY <1>2, RunStays DEF Advances
  <1> QED
    BY <1>1, <1>3, <1>7, <1>8, SyncMoves

LEMMA StartRefines ==
    ASSUME TypeInv, NEW d \in Doc, StartMerge(d)
    PROVE  Sync!Begin(d)
  <1>1. /\ Others(d) /\ \A e \in Doc : Alone(e)
        /\ run'[d] \in MergeState /\ run'[d].pc = "read" /\ run[d].pc = "idle"
        /\ run'[d].result = run[d].result /\ run'[d].spoiled = FALSE
    BY StartMergeDoes
  <1>2. PICK z \in Upload : z = run'[d].zip
    BY <1>1 DEF MergeState
  <1>3. GoalOf(d)' = Asked(z) /\ GoalOf(d) = None
    BY <1>1, <1>2 DEF GoalOf, Merging, Asked, Elements
  <1>4. /\ AbsGoal' = [AbsGoal EXCEPT ![d] = Asked(z)] /\ AbsGoal[d] = None
        /\ AbsResult' = [AbsResult EXCEPT ![d] = run'[d].result] /\ AbsResult[d] = run[d].result
        /\ AbsSpoiled' \ {d} = AbsSpoiled \ {d} /\ d \notin AbsSpoiled'
    BY <1>1, <1>3, RunIs
  <1>5. AbsSpoiled' = AbsSpoiled \ {d}
    BY <1>4
  <1>6. AbsResult' = AbsResult
    BY <1>1, <1>4 DEF AbsResult
  <1> QED
    BY <1>1, <1>4, <1>5, <1>6, AllAloneShow, SyncBegins

LEMMA InsertRefines ==
    ASSUME TypeInv, DistinctIds, NEW d \in Doc, MergeInv(d), Insert(d)
    PROVE  Sync!Move(d)
  <1>0. PICK c \in Elements(run[d].zip) : c = Current(d)
    BY CurrentIs DEF Insert
  <1>1. PICK t : c = Current(d) /\ t = nextId
    BY <1>0
  <1>2. NewTopic(d, c).doc = d /\ NewTopic(d, c).sid = c.sid /\ NewTopic(d, c).text = c.text
    BY DEF NewTopic
  <1>3. /\ Advances(d) /\ Others(d) /\ \A e \in Doc \ {d} : Alone(e)
        /\ ~HasPrior(d, c.sid) /\ t \notin DOMAIN topics
        /\ DOMAIN topics' = DOMAIN topics \cup {t}
        /\ \A u \in DOMAIN topics : topics'[u] = topics[u]
        /\ topics'[t].doc = d /\ topics'[t].sid = c.sid /\ topics'[t].text = c.text
    BY <1>1, <1>2, InsertDoes
  <1>4. TopicsOf(d)' = TopicsOf(d) \cup {t} /\ t \notin TopicsOf(d)
    BY <1>3 DEF TopicsOf
  <1>5. c.sid \notin Seen(d) /\ run[d].pc \in Working
    BY <1>1, <1>3, SeenIs
  <1>6. \A u \in TopicsOf(d) : topics'[u] = topics[u] /\ topics[u].sid # c.sid
    <2>1. SUFFICES ASSUME NEW u \in TopicsOf(d), topics[u].sid = c.sid PROVE FALSE
      BY <1>3 DEF TopicsOf
    <2>2. PICK o \in run[d].old : o.id = u
      BY <1>5, <2>1 DEF MergeInv, FreshOk
    <2>3. o.sid = c.sid
      BY <2>1, <2>2 DEF TypeInv, OldOk, TopicsOf
    <2> QED
      BY <1>3, <2>3 DEF HasPrior
  <1> QED
    BY <1>3, <1>4, <1>6, MoveRefines

LEMMA UpdateRefines ==
    ASSUME TypeInv, DistinctIds, NEW d \in Doc, MergeInv(d), Update(d)
    PROVE  Sync!Move(d) \/ UNCHANGED Sync!vars
  <1>0. PICK c \in Elements(run[d].zip) : c = Current(d)
    BY CurrentIs DEF Update
  <1>1. PICK t : c = Current(d) /\ t = Prior(d, c.sid).id
    BY <1>0
  <1>2. /\ Advances(d) /\ Others(d) /\ \A e \in Doc \ {d} : Alone(e) /\ HasPrior(d, c.sid)
        /\ DOMAIN topics' = DOMAIN topics
        /\ \A u \in DOMAIN topics : u # t => topics'[u] = topics[u]
        /\ t \in DOMAIN topics =>
             /\ topics[t].doc = d /\ topics[t].sid = c.sid
             /\ topics'[t].doc = d /\ topics'[t].sid = c.sid /\ topics'[t].text = c.text
    BY <1>1, UpdateDoes
  <1>3. TopicsOf(d)' = TopicsOf(d)
    BY <1>2 DEF TopicsOf
  <1>4. CASE t \in DOMAIN topics
    <2>1. t \in TopicsOf(d) /\ topics[t].sid = c.sid
      BY <1>2, <1>4 DEF TopicsOf
    <2>2. \A u \in TopicsOf(d) \ {t} : topics'[u] = topics[u] /\ topics[u].sid # c.sid
      BY <1>2, <2>1 DEF MergeInv, OneOk, TopicsOf
    <2> QED
      BY <1>2, <1>3, <1>4, <2>1, <2>2, MoveRefines
  <1>5. CASE t \notin DOMAIN topics
    <2>1. \A e \in Doc : Alone(e)
      BY <1>2, <1>3, <1>5 DEF Alone, TopicsOf
    <2>2. run[d].pc = "apply"
      BY <1>2, CurrentIs DEF Advances
    <2> QED
      BY <1>2, <2>1, <2>2, QuietRefines DEF Advances, Same, Merging
  <1> QED
    BY <1>4, <1>5

LEMMA RemoveAllRefines ==
    ASSUME TypeInv, NEW d \in Doc, MergeInv(d), RemoveAll(d)
    PROVE  Sync!Sweep(d)
  <1>1. /\ Others(d) /\ \A e \in Doc \ {d} : Alone(e)
        /\ run[d].pc = "apply" /\ Len(run[d].zip.cands) = 0
        /\ run'[d] = [run[d] EXCEPT !.pc = "finish"] /\ run[d] \in MergeState
    BY RemoveAllDoes DEF TypeInv, TypeOK
  <1>2. /\ run'[d].pc = "finish" /\ run'[d].zip = run[d].zip
        /\ run'[d].result = run[d].result /\ run'[d].spoiled = run[d].spoiled
    BY <1>1 DEF MergeState
  <1>3. run[d].zip.cands \in Seq(Candidate)
    BY <1>1, ElementsAre DEF MergeState
  <1>4. SidsOf(run[d].zip) = {}
    BY <1>1, <1>3 DEF SidsOf, Elements
  <1> QED
    BY <1>1, <1>2, <1>4, RemoveAllKeeps, RemovalRefines DEF Merging

LEMMA SweepRefines ==
    ASSUME TypeInv, NEW d \in Doc, MergeInv(d), SweepRemoved(d)
    PROVE  Sync!Sweep(d)
  <1>1. /\ Others(d) /\ \A e \in Doc \ {d} : Alone(e)
        /\ Same(d) /\ run[d].pc = "sweep" /\ run'[d].pc = "finish"
        /\ run'[d].result = run[d].result /\ run'[d].spoiled = run[d].spoiled
    BY SweepRemovedDoes
  <1>2. \A t \in TopicsOf(d) \ TopicsOf(d)' : topics[t].sid \notin SidsOf(run[d].zip)
    <2>1. PICK done \in SUBSET Removed(d) : Removes(done)
      BY SweepRemovedDoes
    <2>2. \A t \in TopicsOf(d) \ TopicsOf(d)' : t \in Removed(d) \cap DOMAIN topics
      BY <2>1 DEF Removes, TopicsOf
    <2> QED
      BY <2>2, SweepRemovedDoes
  <1>3. Merging(d) /\ Merging(d)' /\ run'[d].zip = run[d].zip
    BY <1>1 DEF Merging, Same
  <1>4. TopicsOf(d)' \subseteq TopicsOf(d) /\ \A t \in TopicsOf(d)' : topics'[t] = topics[t]
    BY SweepKeeps
  <1> QED
    BY <1>1, <1>2, <1>3, <1>4, RemovalRefines

LEMMA FinishRefines ==
    ASSUME TypeInv, DistinctIds, NEW d \in Doc, MergeInv(d), Finish(d)
    PROVE  Sync!Complete(d) \/ Sync!Abandon
  <1>1. /\ Others(d) /\ \A e \in Doc : Alone(e)
        /\ run[d].pc = "finish" /\ run'[d].spoiled = run[d].spoiled
        /\ \/ run'[d].pc = "idle" /\ run'[d].result = "partial"
           \/ run'[d].pc = "links" /\ run'[d].result = IF run[d].ok THEN "clean" ELSE "partial"
    BY FinishDoes
  <1>2. ~Merging(d)' /\ Merging(d)
    BY <1>1 DEF Merging
  <1>3. CASE run'[d].result = "partial"
    BY <1>1, <1>2, <1>3, EndRefines
  <1>4. CASE run'[d].result # "partial"
    <2>1. run[d].ok /\ run'[d].result = "clean"
      BY <1>1, <1>4
    <2>2. run[d].zip \in Upload
      BY DEF TypeInv, TypeOK, MergeState
    <2>3. GoalOf(d)' = None /\ GoalOf(d) = Asked(run[d].zip)
      BY <1>2 DEF GoalOf
    <2>4. /\ AbsGoal' = [AbsGoal EXCEPT ![d] = None]
          /\ AbsResult' = [AbsResult EXCEPT ![d] = "clean"]
          /\ AbsGoal[d] = Asked(run[d].zip)
          /\ AbsSpoiled' \ {d} = AbsSpoiled \ {d}
          /\ d \in AbsSpoiled' <=> d \in AbsSpoiled
          /\ d \in AbsSpoiled <=> run[d].spoiled
      BY <1>1, <2>1, <2>3, RunIs
    <2>5. AbsSpoiled' = AbsSpoiled
      BY <2>4
    <2>6. ASSUME ~run[d].spoiled PROVE Shown[d] = Asked(run[d].zip)
      <3>1. /\ \A j \in DOMAIN run[d].zip.cands : Matched(d, run[d].zip.cands[j])
            /\ \A t \in TopicsOf(d) : topics[t].sid \in SidsOf(run[d].zip)
        BY <1>1, <2>1, <2>6 DEF MergeInv, DoneOk, SweptOk, Over
      <3>2. ASSUME NEW s \in Sid
            PROVE  {topics[t].text : t \in {t \in TopicsOf(d) : topics[t].sid = s}} = Asked(run[d].zip)[s]
        <4>1. CASE s \in SidsOf(run[d].zip)
          <5>1. PICK j \in DOMAIN run[d].zip.cands : run[d].zip.cands[j].sid = s
            BY <4>1 DEF SidsOf, Elements
          <5>2. PICK c : c = run[d].zip.cands[j]
            OBVIOUS
          <5>3. PICK t \in TopicsOf(d) : topics[t].sid = s /\ topics[t].text = c.text
            BY <3>1, <5>1, <5>2 DEF Matched
          <5>4. {u \in TopicsOf(d) : topics[u].sid = s} = {t}
            BY <5>3 DEF MergeInv, OneOk
          <5>5. Asked(run[d].zip)[s] = {c.text}
            BY <2>2, <5>1, <5>2, AskedIs DEF Elements
          <5> QED
            BY <5>3, <5>4, <5>5
        <4>2. CASE s \notin SidsOf(run[d].zip)
          <5>1. {u \in TopicsOf(d) : topics[u].sid = s} = {}
            BY <3>1, <4>2
          <5>2. Asked(run[d].zip)[s] = {}
            BY <2>2, <4>2, AskedIs
          <5> QED
            BY <5>1, <5>2
        <4> QED
          BY <4>1, <4>2
      <3>3. ShownOf(d) = [s \in Sid |-> Asked(run[d].zip)[s]]
        BY <3>2 DEF ShownOf
      <3>4. Asked(run[d].zip) = [s \in Sid |-> Asked(run[d].zip)[s]]
        BY <2>2, AskedIs
      <3> QED
        BY <3>3, <3>4, ShownIs
    <2> QED
      BY <1>1, <2>2, <2>4, <2>5, <2>6, AllAloneShow, AskedIs, SyncCompletes
  <1> QED
    BY <1>3, <1>4

LEMMA DeleteRefines ==
    ASSUME TypeInv, NEW d \in Doc, MergeInv(d), DeleteTopics(d)
    PROVE  Sync!Delete(d)
  <1>1. /\ Others(d) /\ \A e \in Doc \ {d} : Alone(e) /\ run[d] \in MergeState
        /\ run'[d] = [run[d] EXCEPT !.spoiled = TRUE] /\ TopicsOf(d)' = {}
    BY DeleteTopicsDoes, DeleteKeeps
  <1>2. /\ run'[d].spoiled /\ run'[d].pc = run[d].pc /\ run'[d].zip = run[d].zip
        /\ run'[d].result = run[d].result
    BY <1>1 DEF MergeState
  <1>3. PICK g : g = GoalOf(d) /\ GoalOf(d)' = g
    <2>1. GoalOf(d)' = GoalOf(d)
      BY <1>2 DEF GoalOf, Merging, Asked, Elements
    <2> QED
      BY <2>1, Zenon
  <1>4. /\ AbsGoal' = [AbsGoal EXCEPT ![d] = g] /\ AbsGoal[d] = g
        /\ AbsResult' = [AbsResult EXCEPT ![d] = run[d].result] /\ AbsResult[d] = run[d].result
        /\ AbsSpoiled' \ {d} = AbsSpoiled \ {d} /\ d \in AbsSpoiled'
    BY <1>1, <1>2, <1>3, RunIs
  <1>5. AbsGoal' = AbsGoal /\ AbsResult' = AbsResult
    BY <1>4 DEF AbsGoal, AbsResult
  <1>6. AbsSpoiled' = AbsSpoiled \cup {d}
    BY <1>4
  <1>7. ShownOf(d)' = [s \in Sid |-> {}]
    BY <1>1 DEF ShownOf
  <1>8. Shown' = [Shown EXCEPT ![d] = [s \in Sid |-> {}]]
    BY <1>1, <1>7, OneShows
  <1> QED
    BY <1>5, <1>6, <1>8, SyncDeletes

LEMMA CrashRefines ==
    ASSUME TypeInv, Crash
    PROVE  Sync!Abandon
  <1> DEFINE D == {d \in Doc : Merging(d)}
  <1>1. PICK E : E = D
    OBVIOUS
  <1>2. ASSUME NEW d \in Doc
        PROVE  /\ GoalOf(d)' = IF d \in D THEN None ELSE GoalOf(d)
               /\ run'[d].result = IF d \in D THEN "partial" ELSE run[d].result
               /\ run'[d].spoiled = run[d].spoiled
    BY CrashDoes DEF GoalOf, Merging
  <1> HIDE DEF D
  <1>3. AbsGoal' = [d \in Doc |-> IF d \in E THEN None ELSE AbsGoal[d]]
    BY <1>1, <1>2 DEF AbsGoal
  <1>4. AbsResult' = [d \in Doc |-> IF d \in E THEN "partial" ELSE AbsResult[d]]
    BY <1>1, <1>2 DEF AbsResult
  <1>5. AbsSpoiled' = AbsSpoiled
    BY <1>2 DEF AbsSpoiled
  <1>6. E \in SUBSET Doc
    BY <1>1 DEF D
  <1> QED
    BY <1>3, <1>4, <1>5, <1>6, CrashDoes, AllAloneShow, SyncAbandons

LEMMA QuietStepRefines ==
    ASSUME TypeInv, NEW d \in Doc,
           \/ ReadExisting(d) \/ Keep(d) \/ FailTopic(d) \/ WireParents(d) \/ WireChildren(d)
           \/ RewriteLinks(d) \/ RegenerateUrls(d) \/ DeleteDocument(d)
    PROVE  UNCHANGED Sync!vars
  <1>1. CASE ReadExisting(d)
    <2>1. /\ \A e \in Doc : Alone(e)
          /\ Others(d) /\ run[d].pc = "read" /\ run'[d].pc = "apply" /\ run'[d].zip = run[d].zip
          /\ run'[d].result = run[d].result /\ run'[d].spoiled = run[d].spoiled
      BY <1>1, ReadExistingDoes
    <2> QED
      BY <2>1, QuietRefines DEF Merging
  <1>2. CASE Keep(d) \/ FailTopic(d)
    <2>1. (\A e \in Doc : Alone(e)) /\ Others(d) /\ Advances(d)
      BY <1>2, KeepDoes, FailTopicDoes
    <2>2. run[d].pc = "apply" /\ Merging(d)' = Merging(d)
      BY <2>1 DEF Advances, Applying, At, Merging
    <2> QED
      BY <2>1, <2>2, QuietRefines DEF Advances, Same
  <1>3. CASE WireParents(d)
    <2>1. /\ \A e \in Doc : Alone(e)
          /\ Others(d) /\ run[d].pc = "parents" /\ run'[d].pc = "children" /\ Same(d)
          /\ run'[d].result = run[d].result /\ run'[d].spoiled = run[d].spoiled
      BY <1>3, WireParentsDoes
    <2> QED
      BY <2>1, QuietRefines DEF Merging, Same
  <1>4. CASE WireChildren(d)
    <2>1. /\ \A e \in Doc : Alone(e)
          /\ Others(d) /\ run[d].pc = "children" /\ run'[d].pc = "sweep" /\ Same(d)
          /\ run'[d].result = run[d].result /\ run'[d].spoiled = run[d].spoiled
      BY <1>4, WireChildrenDoes
    <2> QED
      BY <2>1, QuietRefines DEF Merging, Same
  <1>5. CASE RewriteLinks(d)
    <2>1. /\ \A e \in Doc : Alone(e)
          /\ Others(d) /\ run[d].pc = "links" /\ run'[d].pc = "urls" /\ Same(d)
          /\ run'[d].result = run[d].result /\ run'[d].spoiled = run[d].spoiled
      BY <1>5, RewriteLinksDoes
    <2> QED
      BY <2>1, QuietRefines DEF Merging, Same
  <1>6. CASE RegenerateUrls(d)
    <2>1. /\ \A e \in Doc : Alone(e)
          /\ Others(d) /\ run[d].pc = "urls" /\ run'[d].pc = "idle"
          /\ run'[d].result = run[d].result /\ run'[d].spoiled = run[d].spoiled
      BY <1>6, RegenerateUrlsDoes
    <2>2. GoalOf(d) = None /\ GoalOf(d)' = None
      BY <2>1 DEF GoalOf, Merging
    <2>3. GoalOf(d)' = GoalOf(d)
      BY <2>2
    <2> QED
      BY <2>1, <2>3, RunStays, AllAloneShow, SyncStutters
  <1>7. CASE DeleteDocument(d)
    <2>1. (\A e \in Doc : Alone(e)) /\ run' = run
      BY <1>7, DeleteDocumentDoes
    <2> QED
      BY <2>1, QuietRefines DEF Merging, Others
  <1> QED
    BY <1>1, <1>2, <1>3, <1>4, <1>5, <1>6, <1>7

\* Every step of a merge is a step of TopicSync, or none.
LEMMA StepRefines ==
    ASSUME SyncInv, DistinctIds, [Next]_vars
    PROVE  [Sync!Next]_Sync!vars
  <1>1. TypeInv /\ \A e \in Doc : MergeInv(e)
    BY DEF SyncInv
  <1>2. CASE UNCHANGED vars
    <2>1. \A e \in Doc : Alone(e)
      BY <1>2 DEF vars, Alone, TopicsOf
    <2>2. Shown' = Shown
      BY <2>1, AllAloneShow
    <2>3. run' = run
      BY <1>2 DEF vars
    <2>4. \A e \in Doc : GoalOf(e)' = GoalOf(e)
      BY <2>3 DEF GoalOf, Merging, Asked, Elements
    <2>5. AbsGoal' = AbsGoal /\ AbsResult' = AbsResult /\ AbsSpoiled' = AbsSpoiled
      BY <2>3, <2>4 DEF AbsGoal, AbsResult, AbsSpoiled
    <2> QED
      BY <2>2, <2>5, SyncStutters
  <1>3. CASE Crash
    BY <1>1, <1>3, CrashRefines DEF Sync!Next
  <1>4. ASSUME NEW d \in Doc, StartMerge(d) PROVE Sync!Begin(d)
    BY <1>1, <1>4, StartRefines
  <1>5. ASSUME NEW d \in Doc, Insert(d) PROVE Sync!Move(d)
    BY <1>1, <1>5, InsertRefines
  <1>6. ASSUME NEW d \in Doc, Update(d) PROVE Sync!Move(d) \/ UNCHANGED Sync!vars
    BY <1>1, <1>6, UpdateRefines
  <1>7. ASSUME NEW d \in Doc, RemoveAll(d) \/ SweepRemoved(d) PROVE Sync!Sweep(d)
    BY <1>1, <1>7, RemoveAllRefines, SweepRefines
  <1>8. ASSUME NEW d \in Doc, Finish(d) PROVE Sync!Complete(d) \/ Sync!Abandon
    BY <1>1, <1>8, FinishRefines
  <1>9. ASSUME NEW d \in Doc, FailMerge(d) PROVE Sync!Abandon
    <2>1. /\ \A e \in Doc : Alone(e)
          /\ Others(d) /\ run'[d].pc = "idle" /\ run'[d].result = "partial"
          /\ run'[d].spoiled = run[d].spoiled
      BY <1>1, <1>9, FailMergeDoes
    <2>2. ~Merging(d)'
      BY <2>1 DEF Merging
    <2> QED
      BY <1>1, <2>1, <2>2, EndRefines
  <1>10. ASSUME NEW d \in Doc, DeleteTopics(d) PROVE Sync!Delete(d)
    BY <1>1, <1>10, DeleteRefines
  <1>11. ASSUME NEW d \in Doc,
                \/ ReadExisting(d) \/ Keep(d) \/ FailTopic(d) \/ WireParents(d) \/ WireChildren(d)
                \/ RewriteLinks(d) \/ RegenerateUrls(d) \/ DeleteDocument(d)
         PROVE  UNCHANGED Sync!vars
    BY <1>1, <1>11, QuietStepRefines
  <1>12. CASE \E d \in Doc : \/ StartMerge(d) \/ Insert(d) \/ Update(d) \/ RemoveAll(d) \/ SweepRemoved(d)
                             \/ Finish(d) \/ FailMerge(d) \/ DeleteTopics(d)
    BY Zenon, <1>4, <1>5, <1>6, <1>7, <1>8, <1>9, <1>10, <1>12 DEF Sync!Next
  <1>13. CASE \E d \in Doc :
                \/ ReadExisting(d) \/ Keep(d) \/ FailTopic(d) \/ WireParents(d) \/ WireChildren(d)
                \/ RewriteLinks(d) \/ RegenerateUrls(d) \/ DeleteDocument(d)
    BY Zenon, <1>11, <1>13
  <1> QED
    BY Zenon, <1>2, <1>3, <1>12, <1>13 DEF Next

LEMMA InitRefines == Init => Sync!Init
  <1> SUFFICES ASSUME Init PROVE Sync!Init
    OBVIOUS
  <1>1. \A d \in Doc : TopicsOf(d) = {} /\ run[d] = Idle("none", FALSE)
    BY DEF Init, TopicsOf
  <1>2. \A d \in Doc : run[d].pc = "idle" /\ run[d].result = "none" /\ ~run[d].spoiled
    <2>1. SUFFICES ASSUME NEW d \in Doc
                   PROVE  run[d].pc = "idle" /\ run[d].result = "none" /\ ~run[d].spoiled
      OBVIOUS
    <2>2. /\ Idle("none", FALSE).pc = "idle" /\ Idle("none", FALSE).result = "none"
          /\ Idle("none", FALSE).spoiled = FALSE
      BY DEF Idle
    <2> QED
      BY <1>1, <2>2
  <1>3. \A d \in Doc : ~Merging(d)
    BY <1>2 DEF Merging
  <1>4. Shown = [d \in Doc |-> [s \in Sid |-> {}]]
    BY <1>1 DEF Shown
  <1> QED
    BY <1>2, <1>3, <1>4 DEF Sync!Init, Sync!NoTopics

\* Where the stable ids of each zip are distinct, whatever fails on the way
\* every step of every merge is one that TopicSync allows: a topic's text goes
\* from what it was to what the zip asks, only topics that the zip lacks go,
\* and a merge without an error has left exactly the topics of the zip.
THEOREM MergeSynchronises ==
    ASSUME DistinctIds
    PROVE  Spec => Synchronises
  <1>1. Init => Sync!Init
    BY InitRefines
  <1>2. SyncInv /\ [Next]_vars => [Sync!Next]_Sync!vars
    BY StepRefines
  <1> QED
    BY <1>1, <1>2, SyncInvariant, PTL DEF Spec, Synchronises, Sync!Spec

-----------------------------------------------------------------------------
(* The tree and the links                                                  *)

\* What the merge of d knows of ids is of d, as far as it is there.
IdsOk(d) ==
    run[d].pc \in Working \cup Over =>
        \A s \in Sid : run[d].ids[s] # None =>
            /\ run[d].ids[s] < nextId
            /\ run[d].ids[s] \in DOMAIN topics =>
                  topics[run[d].ids[s]].doc = d /\ topics[run[d].ids[s]].sid = s

\* It knows every topic of d, and what it wrote is there.
FoundOk(d) ==
    run[d].pc \in Working \cup Over /\ ~run[d].spoiled =>
        /\ \A t \in TopicsOf(d) : run[d].ids[topics[t].sid] = t
        /\ run[d].touched \subseteq TopicsOf(d)

\* A topic that was written lists no children until they are wired.
WrittenOk(d) ==
    /\ run[d].pc = "read" => run[d].touched = {}
    /\ run[d].pc \in {"apply", "parents", "children"} =>
          \A t \in TopicsOf(d) \cap run[d].touched : topics[t].children = {}

\* Of a merge without errors the pass that wires the parents has wired them,
ParentsOk(d) ==
    run[d].pc \in {"children", "sweep"} \cup Over /\ run[d].ok /\ ~run[d].spoiled =>
        \A c \in Elements(run[d].zip) : \E t \in TopicsOf(d) :
            /\ t = run[d].ids[c.sid] /\ topics[t].sid = c.sid
            /\ topics[t].parent = IdOf(d, c.parent)

\* the one that wires the children has wired them,
ChildrenOk(d) ==
    run[d].pc \in {"sweep"} \cup Over /\ run[d].ok /\ ~run[d].spoiled =>
        \A t \in TopicsOf(d) \cap Wired(d) : t \in run[d].touched \/ ChildrenOf(d, t) # {} =>
            topics[t].children = ChildrenOf(d, t)

\* and the one that rewrites the links has rewritten them.
LinksOk(d) ==
    run[d].pc = "urls" /\ run[d].ok /\ ~run[d].spoiled =>
        \A t \in run[d].touched : LastOf(run[d].zip, topics[t].sid).link \in SidsOf(run[d].zip) =>
            /\ topics[t].link # None /\ topics[t].link < nextId
            /\ topics[t].link \in DOMAIN topics =>
                  topics[topics[t].link].sid = LastOf(run[d].zip, topics[t].sid).link

TreeInv(d) == IdsOk(d) /\ FoundOk(d) /\ WrittenOk(d) /\ ParentsOk(d) /\ ChildrenOk(d) /\ LinksOk(d)

\* No topic of d comes, goes or is wired anew.
Untouched(d) ==
    /\ Alone(d)
    /\ \A t \in TopicsOf(d) : /\ topics'[t].parent = topics[t].parent
                              /\ topics'[t].children = topics[t].children
                              /\ topics'[t].link = topics[t].link

LEMMA NoneIsNoId == None \notin TopicId
  BY TopicAssumption DEF TopicId

\* What a merge of d found of topics outlasts every step that keeps it.
LEMMA IdsPersist ==
    ASSUME TypeInv, TypeInv', NEW d \in Doc, IdsOk(d), Persists, run'[d].ids = run[d].ids,
           run'[d].pc \in Working \cup Over => run[d].pc \in Working \cup Over
    PROVE  IdsOk(d)'
  <1>1. SUFFICES ASSUME run[d].pc \in Working \cup Over, NEW s \in Sid, run[d].ids[s] # None
                 PROVE  /\ run[d].ids[s] < nextId'
                        /\ run[d].ids[s] \in DOMAIN topics' =>
                              topics'[run[d].ids[s]].doc = d /\ topics'[run[d].ids[s]].sid = s
    BY DEF IdsOk
  <1>2. PICK i : i = run[d].ids[s]
    OBVIOUS
  <1>3. i \in TopicId /\ i < nextId /\ nextId \in Nat /\ (i \in DOMAIN topics => topics[i].doc = d /\ topics[i].sid = s)
    BY <1>1, <1>2, TopicIds DEF IdsOk, TypeInv, TypeOK, MergeState
  <1>4. nextId' \in Nat
    BY DEF TypeInv, TypeOK
  <1> QED
    BY <1>1, <1>2, <1>3, <1>4 DEF Persists, TopicId

\* The steps of the merge of d between which its topics are as they were.
Idles == {<<"apply", "parents">>, <<"finish", "links">>}

LEMMA UntouchedKeeps ==
    ASSUME TypeInv, TypeInv', NEW d \in Doc, TreeInv(d), Persists, Untouched(d), run'[d].zip = run[d].zip,
           run'[d].ids = run[d].ids, run'[d].touched = run[d].touched,
           run'[d].spoiled = run[d].spoiled, run'[d].ok => run[d].ok,
           run'[d].pc = run[d].pc \/ <<run[d].pc, run'[d].pc>> \in Idles
    PROVE  TreeInv(d)'
  <1>1. /\ run'[d].pc \in Working \cup Over => run[d].pc \in Working \cup Over
        /\ run'[d].pc = "read" => run[d].pc = "read"
        /\ run'[d].pc \in {"apply", "parents", "children"} => run[d].pc \in {"apply", "parents", "children"}
        /\ run'[d].pc \in {"children", "sweep"} \cup Over => run[d].pc \in {"children", "sweep"} \cup Over
        /\ run'[d].pc \in {"sweep"} \cup Over => run[d].pc \in {"sweep"} \cup Over
        /\ run'[d].pc = "urls" => run[d].pc = "urls"
        /\ run[d].pc = "urls" => run[d].pc \in Over
    BY DEF Idles, Working, Over
  <1>2. IdsOk(d)'
    BY <1>1, IdsPersist DEF TreeInv
  <1>3. TopicsOf(d)' = TopicsOf(d)
    BY DEF Untouched, Alone
  <1>4. ASSUME NEW t \in TopicsOf(d)
        PROVE  /\ topics'[t].sid = topics[t].sid /\ topics'[t].parent = topics[t].parent
               /\ topics'[t].children = topics[t].children /\ topics'[t].link = topics[t].link
    BY DEF Untouched, Alone
  <1>5. FoundOk(d)'
    BY <1>1, <1>3, <1>4 DEF TreeInv, FoundOk
  <1>6. WrittenOk(d)'
    BY <1>1, <1>3, <1>4 DEF TreeInv, WrittenOk
  <1>7. ParentsOk(d)'
    <2>1. SUFFICES ASSUME run'[d].pc \in {"children", "sweep"} \cup Over, run'[d].ok, ~run'[d].spoiled,
                          NEW c \in Elements(run[d].zip)
                   PROVE  \E t \in TopicsOf(d) : /\ t = run[d].ids[c.sid] /\ topics'[t].sid = c.sid
                                                 /\ topics'[t].parent = IdOf(d, c.parent)
      BY <1>3 DEF ParentsOk, IdOf, Elements
    <2>2. PICK t \in TopicsOf(d) : /\ t = run[d].ids[c.sid] /\ topics[t].sid = c.sid
                                   /\ topics[t].parent = IdOf(d, c.parent)
      BY <1>1, <2>1 DEF TreeInv, ParentsOk
    <2> QED
      BY <1>4, <2>2
  <1>8. ChildrenOk(d)'
    <2>1. SUFFICES ASSUME run'[d].pc \in {"sweep"} \cup Over, run'[d].ok, ~run'[d].spoiled,
                          NEW t \in TopicsOf(d) \cap Wired(d), t \in run[d].touched \/ ChildrenOf(d, t) # {}
                   PROVE  topics'[t].children = ChildrenOf(d, t)
      BY <1>3 DEF ChildrenOk, ChildrenOf, IdOf, Wired, SidsOf, Elements
    <2> QED
      BY <1>1, <1>4, <2>1 DEF TreeInv, ChildrenOk
  <1>9. LinksOk(d)'
    <2>1. SUFFICES ASSUME run'[d].pc = "urls", run'[d].ok, ~run'[d].spoiled, NEW t \in run[d].touched,
                          LastOf(run[d].zip, topics'[t].sid).link \in SidsOf(run[d].zip)
                   PROVE  /\ topics'[t].link # None /\ topics'[t].link < nextId'
                          /\ topics'[t].link \in DOMAIN topics' =>
                                topics'[topics'[t].link].sid = LastOf(run[d].zip, topics'[t].sid).link
      BY DEF LinksOk
    <2>2. t \in TopicsOf(d)
      BY <1>1, <2>1 DEF TreeInv, FoundOk
    <2>3. PICK s, u : s = LastOf(run[d].zip, topics[t].sid).link /\ u = topics[t].link
      OBVIOUS
    <2>4. u # None /\ u < nextId /\ (u \in DOMAIN topics => topics[u].sid = s)
      BY <1>1, <1>4, <2>1, <2>2, <2>3 DEF TreeInv, LinksOk
    <2>5. u \in TopicId /\ nextId \in Nat /\ nextId' \in Nat
      BY <2>2, <2>3, <2>4 DEF TypeInv, TypeOK, Topic, TopicsOf
    <2> QED
      BY <1>4, <2>2, <2>3, <2>4, <2>5 DEF Persists, TopicId
  <1> QED
    BY <1>2, <1>5, <1>6, <1>7, <1>8, <1>9 DEF TreeInv

\* Steps of the merge of d leave the topics of the others as they are.
LEMMA OthersUntouched ==
    ASSUME TypeInv, NEW d \in Doc, IdsOk(d), NEW e \in Doc, e # d, Alone(e),
           \/ topics' = topics
           \/ RemoveAll(d) \/ Insert(d) \/ Update(d) \/ WireParents(d) \/ WireChildren(d)
           \/ SweepRemoved(d) \/ RewriteLinks(d) \/ RegenerateUrls(d) \/ DeleteTopics(d)
    PROVE  Untouched(e)
  <1> DEFINE Like(t) == /\ topics'[t].parent = topics[t].parent
                        /\ topics'[t].children = topics[t].children
                        /\ topics'[t].link = topics[t].link
  <1>1. /\ TopicsOf(e) \subseteq DOMAIN topics /\ TopicsOf(e) \subseteq DOMAIN topics'
        /\ \A t \in TopicsOf(e) : topics[t].doc = e
    BY AloneIs DEF TopicsOf
  <1>2. SUFFICES ASSUME NEW t \in TopicsOf(e) PROVE Like(t)
    BY DEF Untouched
  <1>3. CASE topics' = topics
    BY <1>3
  <1>4. CASE RemoveAll(d)
    BY <1>1, <1>4, RemoveAllDoes DEF Removes
  <1>5. CASE Insert(d)
    BY <1>1, <1>5, InsertDoes
  <1>6. CASE Update(d)
    BY <1>1, <1>6, UpdateDoes
  <1>7. run[d].pc \in {"parents", "children"} => t \notin Wired(d)
    <2>1. SUFFICES ASSUME run[d].pc \in {"parents", "children"}, t \in Wired(d) PROVE FALSE
      OBVIOUS
    <2>2. PICK s \in SidsOf(run[d].zip) : run[d].ids[s] = t /\ t # None
      BY <2>1 DEF Wired
    <2>3. s \in Sid
      BY <2>2, ElementsAre DEF TypeInv, TypeOK, MergeState
    <2> QED
      BY <1>1, <2>1, <2>2, <2>3 DEF IdsOk, Working
  <1>8. CASE WireParents(d)
    BY <1>1, <1>7, <1>8, WireParentsDoes
  <1>9. CASE WireChildren(d)
    BY <1>1, <1>7, <1>9, WireChildrenDoes DEF Listed
  <1>10. CASE SweepRemoved(d)
    BY <1>1, <1>10, SweepRemovedDoes DEF Removes
  <1>11. CASE RewriteLinks(d)
    <2>1. t \notin run[d].touched
      BY <1>1 DEF TypeInv, TouchedOk
    <2> QED
      BY <1>1, <1>11, <2>1, RewriteLinksDoes
  <1>12. CASE RegenerateUrls(d)
    BY <1>1, <1>12, RegenerateUrlsDoes
  <1>13. CASE DeleteTopics(d)
    BY <1>1, <1>13, DeleteTopicsDoes DEF Removes
  <1> QED
    BY <1>3, <1>4, <1>5, <1>6, <1>8, <1>9, <1>10, <1>11, <1>12, <1>13

\* Nothing is to be shown of a merge that has ended, or is about to read.
LEMMA TreeRests ==
    ASSUME NEW d \in Doc, run'[d].pc = "idle" \/ (run'[d].pc = "read" /\ run'[d].touched = {})
    PROVE  TreeInv(d)'
  BY DEF TreeInv, IdsOk, FoundOk, WrittenOk, ParentsOk, ChildrenOk, LinksOk, Working, Over

LEMMA TreeRead ==
    ASSUME TypeInv, TypeInv', NEW d \in Doc, MergeInv(d), TreeInv(d), ReadExisting(d)
    PROVE  TreeInv(d)'
  <1>1. /\ run'[d].pc = "apply" /\ run[d].pc = "read" /\ run'[d].ids = [s \in Sid |-> Find(d, s)]
        /\ run'[d].touched = run[d].touched /\ topics' = topics /\ nextId' = nextId
    BY ReadExistingDoes DEF ReadExisting
  <1>2. run'[d].touched = {}
    BY <1>1 DEF TreeInv, WrittenOk
  <1>3. TopicsOf(d)' = TopicsOf(d)
    BY <1>1 DEF TopicsOf
  <1>4. IdsOk(d)'
    BY <1>1, FindIs, TopicIds DEF IdsOk, TopicsOf
  <1>5. FoundOk(d)'
    <2>1. SUFFICES ASSUME NEW t \in TopicsOf(d) PROVE run'[d].ids[topics[t].sid] = t
      BY <1>1, <1>2, <1>3 DEF FoundOk
    <2>2. PICK s \in Sid : s = topics[t].sid
      BY DEF TypeInv, Identified, TopicsOf
    <2>3. Find(d, s) \in TopicsOf(d) /\ topics[Find(d, s)].sid = s
      BY <2>1, <2>2, FindIs
    <2>4. Find(d, s) = t
      BY <2>1, <2>2, <2>3 DEF MergeInv, OneOk
    <2> QED
      BY <1>1, <2>2, <2>4
  <1>6. WrittenOk(d)'
    BY <1>1, <1>2 DEF WrittenOk
  <1> QED
    BY <1>1, <1>4, <1>5, <1>6 DEF TreeInv, ParentsOk, ChildrenOk, LinksOk, Over

LEMMA TreeInsert ==
    ASSUME TypeInv, TypeInv', DistinctIds, NEW d \in Doc, MergeInv(d), TreeInv(d), Insert(d)
    PROVE  TreeInv(d)'
  <1>1. PICK c \in Elements(run[d].zip) : c = Current(d)
    BY CurrentIs DEF Insert
  <1>2. PICK n : n = nextId
    OBVIOUS
  <1>3. NewTopic(d, c).doc = d /\ NewTopic(d, c).sid = c.sid /\ NewTopic(d, c).children = {}
    BY DEF NewTopic
  <1>4. /\ Advances(d) /\ ~HasPrior(d, c.sid) /\ Persists
        /\ n \in TopicId /\ n \notin DOMAIN topics
        /\ DOMAIN topics' = DOMAIN topics \cup {n}
        /\ \A t \in DOMAIN topics : topics'[t] = topics[t]
        /\ topics'[n].doc = d /\ topics'[n].sid = c.sid /\ topics'[n].children = {}
        /\ run'[d].ids = [run[d].ids EXCEPT ![c.sid] = n]
        /\ run'[d].touched = run[d].touched \cup {n}
    BY <1>1, <1>2, <1>3, InsertDoes
  <1>5. /\ run[d].pc \in Working /\ run[d].pc = "apply" /\ run'[d].pc \in {"apply", "parents"}
        /\ run'[d].spoiled = run[d].spoiled
        /\ c.sid \in Sid /\ run[d].ids \in [Sid -> TopicId \cup {None}] /\ c.sid \notin Seen(d)
    BY <1>1, <1>4, SeenIs, CurrentIs DEF Advances, MergeState
  <1>6. TopicsOf(d)' = TopicsOf(d) \cup {n} /\ TopicsOf(d) \subseteq DOMAIN topics
    BY <1>4 DEF TopicsOf
  <1>7. \A t \in TopicsOf(d) : topics[t].sid # c.sid /\ topics[t].sid \in Sid
    <2>1. SUFFICES ASSUME NEW t \in TopicsOf(d), topics[t].sid = c.sid PROVE FALSE
      BY DEF TypeInv, Identified, TopicsOf
    <2>2. PICK o \in run[d].old : o.id = t
      BY <1>5, <2>1 DEF MergeInv, FreshOk
    <2>3. o.sid = c.sid
      BY <2>1, <2>2 DEF TypeInv, OldOk, TopicsOf
    <2> QED
      BY <1>4, <2>3 DEF HasPrior
  <1>8. IdsOk(d)'
    <2>1. SUFFICES ASSUME NEW s \in Sid, run'[d].ids[s] # None
                   PROVE  /\ run'[d].ids[s] < nextId'
                          /\ run'[d].ids[s] \in DOMAIN topics' =>
                                topics'[run'[d].ids[s]].doc = d /\ topics'[run'[d].ids[s]].sid = s
      BY DEF IdsOk
    <2>2. n < nextId' /\ nextId' = nextId + 1
      BY <1>2, <1>4 DEF Insert, TopicId
    <2>3. CASE s = c.sid
      BY <1>4, <1>5, <2>2, <2>3
    <2>4. CASE s # c.sid
      <3>1. PICK i : i = run[d].ids[s] /\ i = run'[d].ids[s]
        BY <1>4, <1>5, <2>4
      <3>2. i \in TopicId /\ i < nextId /\ (i \in DOMAIN topics => topics[i].doc = d /\ topics[i].sid = s)
        BY <1>5, <2>1, <3>1 DEF TreeInv, IdsOk
      <3>3. i < nextId' /\ i # n
        BY <1>2, <1>4, <2>2, <3>2 DEF TopicId
      <3> QED
        BY <1>4, <3>1, <3>2, <3>3
    <2> QED
      BY <2>3, <2>4
  <1>9. FoundOk(d)'
    <2>1. SUFFICES ASSUME ~run[d].spoiled
                   PROVE  /\ \A t \in TopicsOf(d) \cup {n} : run'[d].ids[topics'[t].sid] = t
                          /\ run[d].touched \cup {n} \subseteq TopicsOf(d) \cup {n}
      BY <1>4, <1>5, <1>6 DEF FoundOk
    <2>2. /\ \A t \in TopicsOf(d) : run[d].ids[topics[t].sid] = t
          /\ run[d].touched \subseteq TopicsOf(d)
      BY <1>5, <2>1 DEF TreeInv, FoundOk
    <2> QED
      BY <1>4, <1>5, <1>6, <1>7, <2>2
  <1>10. WrittenOk(d)'
    BY <1>4, <1>5, <1>6 DEF TreeInv, WrittenOk
  <1> QED
    BY <1>5, <1>8, <1>9, <1>10 DEF TreeInv, ParentsOk, ChildrenOk, LinksOk, Over

LEMMA TreeUpdate ==
    ASSUME TypeInv, TypeInv', DistinctIds, NEW d \in Doc, MergeInv(d), TreeInv(d), Update(d)
    PROVE  TreeInv(d)'
  <1>1. PICK c \in Elements(run[d].zip) : c = Current(d)
    BY CurrentIs DEF Update
  <1>2. PICK n : n = Prior(d, c.sid).id
    OBVIOUS
  <1>3. /\ Advances(d) /\ HasPrior(d, c.sid) /\ Persists
        /\ DOMAIN topics' = DOMAIN topics
        /\ \A u \in DOMAIN topics : u # n => topics'[u] = topics[u]
        /\ n \in DOMAIN topics => /\ topics[n].doc = d /\ topics[n].sid = c.sid
                                  /\ topics'[n].doc = d /\ topics'[n].sid = c.sid
                                  /\ topics'[n].children = {}
        /\ run'[d].ids = run[d].ids /\ run'[d].touched = run[d].touched \cup {n}
    BY <1>1, <1>2, UpdateDoes
  <1>4. /\ run[d].pc \in Working /\ run[d].pc = "apply" /\ run'[d].pc \in {"apply", "parents"}
        /\ run'[d].spoiled = run[d].spoiled
    BY <1>3, SeenIs, CurrentIs DEF Advances
  <1>5. TopicsOf(d)' = TopicsOf(d) /\ TopicsOf(d) \subseteq DOMAIN topics
    BY <1>3 DEF TopicsOf
  <1>6. IdsOk(d)'
    BY <1>3, <1>4, IdsPersist DEF TreeInv
  <1>7. ~run[d].spoiled => n \in TopicsOf(d)
    <2>1. Prior(d, c.sid) \in run[d].old
      BY <1>3, PriorIs
    <2> QED
      BY <1>2, <1>3, <1>4, <2>1 DEF MergeInv, KeptOk, TopicsOf
  <1>8. FoundOk(d)'
    BY <1>3, <1>4, <1>5, <1>7 DEF TreeInv, FoundOk
  <1>9. WrittenOk(d)'
    BY <1>3, <1>4, <1>5 DEF TreeInv, WrittenOk
  <1> QED
    BY <1>4, <1>6, <1>8, <1>9 DEF TreeInv, ParentsOk, ChildrenOk, LinksOk, Over

LEMMA TreeRemoveAll ==
    ASSUME TypeInv, TypeInv', NEW d \in Doc, MergeInv(d), TreeInv(d), RemoveAll(d)
    PROVE  TreeInv(d)'
  <1>1. /\ run[d].pc = "apply" /\ Len(run[d].zip.cands) = 0 /\ Persists /\ run[d] \in MergeState
        /\ run'[d] = [run[d] EXCEPT !.pc = "finish"] /\ Removes({o.id : o \in run[d].old})
    BY RemoveAllDoes DEF TypeInv, TypeOK
  <1>2. /\ run'[d].pc = "finish" /\ run'[d].zip = run[d].zip /\ run'[d].ids = run[d].ids
        /\ run'[d].touched = run[d].touched /\ run'[d].spoiled = run[d].spoiled /\ run[d].zip \in Upload
    BY <1>1 DEF MergeState
  <1>3. run[d].zip.cands \in Seq(Candidate)
    BY <1>2, ElementsAre
  <1>4. DOMAIN run[d].zip.cands = {} /\ Elements(run[d].zip) = {} /\ SidsOf(run[d].zip) = {}
    BY <1>1, <1>3 DEF Elements, SidsOf
  <1>5. Seen(d) = {}
    BY <1>4 DEF Seen
  <1>6. TopicsOf(d)' = {}
    <2>1. SUFFICES ASSUME NEW t \in TopicsOf(d)' PROVE FALSE
      OBVIOUS
    <2>2. t \in TopicsOf(d) /\ t \notin {o.id : o \in run[d].old}
      BY <1>1, <2>1 DEF Removes, TopicsOf
    <2> QED
      BY <1>1, <1>5, <2>2 DEF MergeInv, FreshOk, Working
  <1>7. IdsOk(d)'
    BY <1>1, <1>2, IdsPersist DEF TreeInv, Working
  <1>8. ~run[d].spoiled => run[d].touched = {}
    <2>1. SUFFICES ASSUME ~run[d].spoiled, NEW t \in run[d].touched PROVE FALSE
      OBVIOUS
    <2>2. t \in TopicsOf(d)
      BY <1>1, <2>1 DEF TreeInv, FoundOk, Working
    <2> QED
      BY <1>4, <2>1, <2>2 DEF TypeInv, TouchedOk, TopicsOf
  <1>9. FoundOk(d)'
    BY <1>2, <1>6, <1>8 DEF FoundOk
  <1> QED
    BY <1>2, <1>4, <1>6, <1>7, <1>9 DEF TreeInv, WrittenOk, ParentsOk, ChildrenOk, LinksOk

LEMMA TreeSweep ==
    ASSUME TypeInv, TypeInv', NEW d \in Doc, MergeInv(d), TreeInv(d), SweepRemoved(d)
    PROVE  TreeInv(d)'
  <1>1. /\ Persists /\ run[d].pc = "sweep" /\ run'[d].pc = "finish" /\ Same(d)
        /\ run'[d].ids = run[d].ids /\ run'[d].touched = run[d].touched
        /\ run'[d].spoiled = run[d].spoiled /\ (run'[d].ok => run[d].ok)
        /\ run'[d].zip = run[d].zip
    BY SweepRemovedDoes DEF Same
  <1>2. /\ TopicsOf(d)' \subseteq TopicsOf(d)
        /\ \A t \in TopicsOf(d)' : topics'[t] = topics[t]
        /\ \A t \in TopicsOf(d) \ TopicsOf(d)' : topics[t].sid \notin SidsOf(run[d].zip)
    <2>1. PICK done \in SUBSET Removed(d) : Removes(done)
      BY SweepRemovedDoes
    <2>2. \A t \in TopicsOf(d) \ TopicsOf(d)' : t \in Removed(d) \cap DOMAIN topics
      BY <2>1 DEF Removes, TopicsOf
    <2>3. \A t \in TopicsOf(d) \ TopicsOf(d)' : topics[t].sid \notin SidsOf(run[d].zip)
      BY <2>2, SweepRemovedDoes
    <2> QED
      BY <2>3, SweepKeeps
  <1>3. IdsOk(d)'
    BY <1>1, IdsPersist DEF TreeInv, Working
  <1>4. FoundOk(d)'
    <2>1. SUFFICES ASSUME ~run[d].spoiled
                   PROVE  /\ \A t \in TopicsOf(d)' : run[d].ids[topics[t].sid] = t
                          /\ run[d].touched \subseteq TopicsOf(d)'
      BY <1>1, <1>2 DEF FoundOk
    <2>2. /\ \A t \in TopicsOf(d) : run[d].ids[topics[t].sid] = t
          /\ run[d].touched \subseteq TopicsOf(d)
      BY <1>1, <2>1 DEF TreeInv, FoundOk, Working
    <2>3. \A t \in run[d].touched : topics[t].sid \in SidsOf(run[d].zip)
      BY <2>2 DEF TypeInv, TouchedOk, TopicsOf
    <2> QED
      BY <1>2, <2>2, <2>3
  <1>5. ParentsOk(d)'
    <2>1. SUFFICES ASSUME run'[d].ok, ~run'[d].spoiled, NEW c \in Elements(run[d].zip)
                   PROVE  \E t \in TopicsOf(d)' : /\ t = run[d].ids[c.sid] /\ topics'[t].sid = c.sid
                                                  /\ topics'[t].parent = IdOf(d, c.parent)
      BY <1>1 DEF ParentsOk, IdOf, Elements
    <2>2. PICK t \in TopicsOf(d) : /\ t = run[d].ids[c.sid] /\ topics[t].sid = c.sid
                                   /\ topics[t].parent = IdOf(d, c.parent)
      BY <1>1, <2>1 DEF TreeInv, ParentsOk
    <2>3. c.sid \in SidsOf(run[d].zip)
      BY DEF SidsOf
    <2> QED
      BY <1>2, <2>2, <2>3
  <1>6. ChildrenOk(d)'
    <2>1. SUFFICES ASSUME run'[d].ok, ~run'[d].spoiled, NEW t \in TopicsOf(d)' \cap Wired(d),
                          t \in run[d].touched \/ ChildrenOf(d, t) # {}
                   PROVE  topics'[t].children = ChildrenOf(d, t)
      BY <1>1 DEF ChildrenOk, ChildrenOf, IdOf, Wired, SidsOf, Elements
    <2> QED
      BY <1>1, <1>2, <2>1 DEF TreeInv, ChildrenOk
  <1> QED
    BY <1>1, <1>3, <1>4, <1>5, <1>6 DEF TreeInv, WrittenOk, LinksOk

\* Where stable ids are distinct a topic of the zip is wired as its candidate says.
LEMMA WiredToCandidate ==
    ASSUME TypeInv, DistinctIds, NEW d \in Doc, TreeInv(d), run[d].pc \in Working, ~run[d].spoiled,
           NEW c \in Elements(run[d].zip), NEW t \in TopicsOf(d), topics[t].sid = c.sid
    PROVE  /\ t = run[d].ids[c.sid] /\ t \in Wired(d)
           /\ ParentOf(d, t) = IdOf(d, c.parent)
  <1>1. run[d].zip \in Upload /\ c.sid \in Sid /\ c.sid \in SidsOf(run[d].zip) /\ SidsOf(run[d].zip) \subseteq Sid
    BY ElementsAre DEF TypeInv, TypeOK, MergeState, SidsOf
  <1>2. t = run[d].ids[c.sid] /\ t # None
    <2>1. t \in TopicId
      BY TopicIds
    <2> QED
      BY <2>1, NoneIsNoId DEF TreeInv, FoundOk
  <1>3. t \in Wired(d)
    BY <1>1, <1>2 DEF Wired
  <1>4. SidOf(d, t) = c.sid
    <2>1. PICK s \in Sid : s = SidOf(d, t) /\ run[d].ids[s] = t
      BY <1>3, WiredIs
    <2>2. topics[t].sid = s
      BY <1>2, <2>1 DEF TreeInv, IdsOk, TopicsOf
    <2> QED
      BY <2>1, <2>2
  <1>5. LastOf(run[d].zip, c.sid) = c
    <2>1. PICK b \in Elements(run[d].zip) : b = LastOf(run[d].zip, c.sid) /\ b.sid = c.sid
      BY <1>1, LastOfIs
    <2> QED
      BY <1>1, <2>1 DEF Elements, DistinctIds
  <1> QED
    BY <1>2, <1>3, <1>4, <1>5 DEF ParentOf

LEMMA TreeParents ==
    ASSUME TypeInv, TypeInv', DistinctIds, NEW d \in Doc, MergeInv(d), TreeInv(d), WireParents(d)
    PROVE  TreeInv(d)'
  <1>1. /\ Persists /\ run[d].pc = "parents" /\ run'[d].pc = "children" /\ Same(d)
        /\ run'[d].ids = run[d].ids /\ run'[d].touched = run[d].touched
        /\ run'[d].spoiled = run[d].spoiled /\ (run'[d].ok => run[d].ok)
        /\ run'[d].zip = run[d].zip /\ Alone(d)
    BY WireParentsDoes DEF Same
  <1>2. PICK done \in SUBSET Wired(d) :
          /\ topics' = [t \in DOMAIN topics |->
                IF t \in done THEN [topics[t] EXCEPT !.parent = ParentOf(d, t)] ELSE topics[t]]
          /\ run'[d].ok => done = Wired(d)
    BY WireParentsDoes
  <1>3. TopicsOf(d)' = TopicsOf(d) /\ TopicsOf(d) \subseteq DOMAIN topics
    BY <1>1, AloneIs DEF TopicsOf
  <1>4. ASSUME NEW t \in TopicsOf(d)
        PROVE  /\ topics'[t].sid = topics[t].sid /\ topics'[t].children = topics[t].children
               /\ t \in done => topics'[t].parent = ParentOf(d, t)
    <2>1. topics[t] \in Topic
      BY <1>3 DEF TypeInv, TypeOK
    <2>2. topics'[t] = IF t \in done THEN [topics[t] EXCEPT !.parent = ParentOf(d, t)] ELSE topics[t]
      BY <1>2, <1>3
    <2> QED
      BY <2>1, <2>2 DEF Topic
  <1>5. IdsOk(d)'
    BY <1>1, IdsPersist DEF TreeInv, Working
  <1>6. FoundOk(d)'
    BY <1>1, <1>3, <1>4 DEF TreeInv, FoundOk, Working
  <1>7. WrittenOk(d)'
    BY <1>1, <1>3, <1>4 DEF TreeInv, WrittenOk
  <1>8. ParentsOk(d)'
    <2>1. SUFFICES ASSUME run'[d].ok, ~run'[d].spoiled, NEW c \in Elements(run[d].zip)
                   PROVE  \E t \in TopicsOf(d) : /\ t = run[d].ids[c.sid] /\ topics'[t].sid = c.sid
                                                 /\ topics'[t].parent = IdOf(d, c.parent)
      BY <1>1, <1>3 DEF ParentsOk, IdOf, Elements
    <2>2. PICK j \in DOMAIN run[d].zip.cands : c = run[d].zip.cands[j]
      BY DEF Elements
    <2>3. j < run[d].todo
      <3>1. run[d] \in MergeState /\ run[d].zip.cands \in Seq(Candidate)
        BY ElementsAre DEF TypeInv, TypeOK, MergeState
      <3>2. run[d].todo \in Nat /\ run[d].todo > Len(run[d].zip.cands)
        BY <1>1, <3>1 DEF MergeInv, TodoOk, MergeState
      <3> QED
        BY <3>1, <3>2
    <2>4. PICK t \in TopicsOf(d) : topics[t].sid = c.sid
      BY <1>1, <2>1, <2>2, <2>3 DEF MergeInv, DoneOk, Matched, Working
    <2>5. t = run[d].ids[c.sid] /\ t \in Wired(d) /\ ParentOf(d, t) = IdOf(d, c.parent)
      BY <1>1, <2>1, <2>4, WiredToCandidate DEF Working
    <2> QED
      BY <1>2, <1>4, <2>1, <2>4, <2>5
  <1> QED
    BY <1>1, <1>5, <1>6, <1>7, <1>8 DEF TreeInv, ChildrenOk, LinksOk, Over

LEMMA TreeChildren ==
    ASSUME TypeInv, TypeInv', NEW d \in Doc, MergeInv(d), TreeInv(d), WireChildren(d)
    PROVE  TreeInv(d)'
  <1>1. /\ Persists /\ run[d].pc = "children" /\ run'[d].pc = "sweep" /\ Same(d)
        /\ run'[d].ids = run[d].ids /\ run'[d].touched = run[d].touched
        /\ run'[d].spoiled = run[d].spoiled /\ (run'[d].ok => run[d].ok)
        /\ run'[d].zip = run[d].zip /\ Alone(d)
    BY WireChildrenDoes DEF Same
  <1>2. PICK done \in SUBSET Listed(d) :
          /\ topics' = [t \in DOMAIN topics |->
                IF t \in done THEN [topics[t] EXCEPT !.children = ChildrenOf(d, t)] ELSE topics[t]]
          /\ run'[d].ok => done = Listed(d)
    BY WireChildrenDoes
  <1>3. TopicsOf(d)' = TopicsOf(d) /\ TopicsOf(d) \subseteq DOMAIN topics
    BY <1>1, AloneIs DEF TopicsOf
  <1>4. ASSUME NEW t \in TopicsOf(d)
        PROVE  /\ topics'[t].sid = topics[t].sid /\ topics'[t].parent = topics[t].parent
               /\ topics'[t].children = IF t \in done THEN ChildrenOf(d, t) ELSE topics[t].children
    <2>1. topics[t] \in Topic
      BY <1>3 DEF TypeInv, TypeOK
    <2>2. topics'[t] = IF t \in done THEN [topics[t] EXCEPT !.children = ChildrenOf(d, t)] ELSE topics[t]
      BY <1>2, <1>3
    <2> QED
      BY <2>1, <2>2 DEF Topic
  <1>5. IdsOk(d)'
    BY <1>1, IdsPersist DEF TreeInv, Working
  <1>6. FoundOk(d)'
    BY <1>1, <1>3, <1>4 DEF TreeInv, FoundOk, Working
  <1>7. ParentsOk(d)'
    <2>1. SUFFICES ASSUME run'[d].ok, ~run'[d].spoiled, NEW c \in Elements(run[d].zip)
                   PROVE  \E t \in TopicsOf(d) : /\ t = run[d].ids[c.sid] /\ topics'[t].sid = c.sid
                                                 /\ topics'[t].parent = IdOf(d, c.parent)
      BY <1>1, <1>3 DEF ParentsOk, IdOf, Elements
    <2> QED
      BY <1>1, <1>4, <2>1 DEF TreeInv, ParentsOk
  <1>8. ChildrenOk(d)'
    <2>1. SUFFICES ASSUME run'[d].ok, ~run'[d].spoiled, NEW t \in TopicsOf(d) \cap Wired(d),
                          t \in run[d].touched \/ ChildrenOf(d, t) # {}
                   PROVE  topics'[t].children = ChildrenOf(d, t)
      BY <1>1, <1>3 DEF ChildrenOk, ChildrenOf, IdOf, Wired, SidsOf, Elements
    <2>2. CASE t \in done
      BY <1>4, <2>2
    <2>3. CASE t \notin done
      <3>1. ChildrenOf(d, t) = {}
        BY <1>2, <2>1, <2>3 DEF Listed
      <3> QED
        BY <1>1, <1>4, <2>1, <2>3, <3>1 DEF TreeInv, WrittenOk
    <2> QED
      BY <2>2, <2>3
  <1> QED
    BY <1>1, <1>5, <1>6, <1>7, <1>8 DEF TreeInv, WrittenOk, LinksOk

LEMMA TreeLinks ==
    ASSUME TypeInv, TypeInv', NEW d \in Doc, MergeInv(d), TreeInv(d), RewriteLinks(d)
    PROVE  TreeInv(d)'
  <1>1. /\ Persists /\ run[d].pc = "links" /\ run'[d].pc = "urls" /\ Alone(d)
        /\ run'[d].ids = run[d].ids /\ run'[d].touched = run[d].touched
        /\ run'[d].spoiled = run[d].spoiled /\ (run'[d].ok => run[d].ok)
        /\ run'[d].zip = run[d].zip
    BY RewriteLinksDoes DEF Same
  <1>2. PICK done \in SUBSET (run[d].touched \cap DOMAIN topics) :
          /\ topics' = [t \in DOMAIN topics |->
                IF t \in done
                THEN [topics[t] EXCEPT !.link = LinkTarget(d, LastOf(run[d].zip, topics[t].sid).link)]
                ELSE topics[t]]
          /\ run'[d].ok => done = run[d].touched \cap DOMAIN topics
    BY RewriteLinksDoes
  <1>3. TopicsOf(d)' = TopicsOf(d) /\ TopicsOf(d) \subseteq DOMAIN topics /\ DOMAIN topics' = DOMAIN topics
    BY <1>1, <1>2, AloneIs DEF TopicsOf
  <1>4. ASSUME NEW t \in DOMAIN topics
        PROVE  /\ topics'[t].sid = topics[t].sid /\ topics'[t].parent = topics[t].parent
               /\ topics'[t].children = topics[t].children
               /\ t \in done => topics'[t].link = LinkTarget(d, LastOf(run[d].zip, topics[t].sid).link)
    <2>1. topics[t] \in Topic
      BY DEF TypeInv, TypeOK
    <2>2. PICK u : u = LinkTarget(d, LastOf(run[d].zip, topics[t].sid).link)
      OBVIOUS
    <2>3. topics'[t] = IF t \in done THEN [topics[t] EXCEPT !.link = u] ELSE topics[t]
      BY <1>2, <2>2
    <2> QED
      BY <2>1, <2>2, <2>3 DEF Topic
  <1>5. IdsOk(d)'
    BY <1>1, IdsPersist DEF TreeInv, Over
  <1>6. FoundOk(d)'
    BY <1>1, <1>3, <1>4 DEF TreeInv, FoundOk, Over
  <1>7. ParentsOk(d)'
    <2>1. SUFFICES ASSUME run'[d].ok, ~run'[d].spoiled, NEW c \in Elements(run[d].zip)
                   PROVE  \E t \in TopicsOf(d) : /\ t = run[d].ids[c.sid] /\ topics'[t].sid = c.sid
                                                 /\ topics'[t].parent = IdOf(d, c.parent)
      BY <1>1, <1>3 DEF ParentsOk, IdOf, Elements
    <2>2. PICK t \in TopicsOf(d) : /\ t = run[d].ids[c.sid] /\ topics[t].sid = c.sid
                                   /\ topics[t].parent = IdOf(d, c.parent)
      BY <1>1, <2>1 DEF TreeInv, ParentsOk, Over
    <2> QED
      BY <1>3, <1>4, <2>2
  <1>8. ChildrenOk(d)'
    <2>1. SUFFICES ASSUME run'[d].ok, ~run'[d].spoiled, NEW t \in TopicsOf(d) \cap Wired(d),
                          t \in run[d].touched \/ ChildrenOf(d, t) # {}
                   PROVE  topics'[t].children = ChildrenOf(d, t)
      BY <1>1, <1>3 DEF ChildrenOk, ChildrenOf, IdOf, Wired, SidsOf, Elements
    <2> QED
      BY <1>1, <1>3, <1>4, <2>1 DEF TreeInv, ChildrenOk, Over
  <1>9. LinksOk(d)'
    <2>1. SUFFICES ASSUME run'[d].ok, ~run'[d].spoiled, NEW t \in run[d].touched,
                          LastOf(run[d].zip, topics'[t].sid).link \in SidsOf(run[d].zip)
                   PROVE  /\ topics'[t].link # None /\ topics'[t].link < nextId'
                          /\ topics'[t].link \in DOMAIN topics' =>
                                topics'[topics'[t].link].sid = LastOf(run[d].zip, topics'[t].sid).link
      BY <1>1 DEF LinksOk
    <2>2. t \in TopicsOf(d)
      BY <1>1, <2>1 DEF TreeInv, FoundOk, Over
    <2>3. t \in done
      BY <1>2, <1>3, <2>1, <2>2
    <2>4. PICK s \in SidsOf(run[d].zip) : s = LastOf(run[d].zip, topics[t].sid).link
      BY <1>3, <1>4, <2>1, <2>2
    <2>5. \E u \in TopicsOf(d) : topics[u].sid = s
      <3>1. PICK j \in DOMAIN run[d].zip.cands : run[d].zip.cands[j].sid = s
        BY <2>4 DEF SidsOf, Elements
      <3> QED
        BY <1>1, <2>1, <3>1 DEF MergeInv, DoneOk, Matched, Over
    <2>6. PICK u \in DOMAIN topics : u = LinkTarget(d, s) /\ topics[u].sid = s
      BY <2>5, LinkTargetIs
    <2>7. topics'[t].link = u /\ LastOf(run[d].zip, topics'[t].sid).link = s
      BY <1>3, <1>4, <2>2, <2>3, <2>4, <2>6
    <2>8. u \in TopicId /\ u < nextId /\ nextId' = nextId
      BY <2>6, TopicIds DEF RewriteLinks
    <2> QED
      BY <1>3, <1>4, <2>6, <2>7, <2>8, NoneIsNoId
  <1> QED
    BY <1>1, <1>5, <1>6, <1>7, <1>8, <1>9 DEF TreeInv, WrittenOk

LEMMA TreeDelete ==
    ASSUME TypeInv, TypeInv', NEW d \in Doc, MergeInv(d), TreeInv(d), DeleteTopics(d)
    PROVE  TreeInv(d)'
  <1>1. Persists /\ TopicsOf(d)' = {} /\ run[d] \in MergeState /\ run'[d] = [run[d] EXCEPT !.spoiled = TRUE]
    BY DeleteTopicsDoes, DeleteKeeps
  <1>2. /\ run'[d].spoiled /\ run'[d].pc = run[d].pc /\ run'[d].zip = run[d].zip
        /\ run'[d].ids = run[d].ids /\ run'[d].touched = run[d].touched
    BY <1>1 DEF MergeState
  <1>3. IdsOk(d)'
    BY <1>1, <1>2, IdsPersist DEF TreeInv
  <1> QED
    BY <1>1, <1>2, <1>3 DEF TreeInv, FoundOk, WrittenOk, ParentsOk, ChildrenOk, LinksOk

\* A step keeps what holds of the tree of every document.
LEMMA TreeKept ==
    ASSUME TypeInv, DistinctIds, \A e \in Doc : MergeInv(e) /\ TreeInv(e), [Next]_vars
    PROVE  \A e \in Doc : TreeInv(e)'
  <1>1. TypeInv'
    BY NextTyped
  <1>2. ASSUME NEW e \in Doc, Persists, Untouched(e), run'[e] = run[e] PROVE TreeInv(e)'
    BY <1>1, <1>2, UntouchedKeeps
  <1>3. CASE UNCHANGED vars
    <2>1. \A e \in Doc : Untouched(e) /\ run'[e] = run[e]
      BY <1>3 DEF vars, Untouched, Alone, TopicsOf
    <2>2. Persists
      BY <1>3, TopicIds DEF vars, Persists
    <2> QED
      BY <1>2, <2>1, <2>2
  <1>4. CASE Crash
    BY <1>4, CrashDoes, TreeRests
  <1>5. ASSUME topics' = topics, NEW e \in Doc, Alone(e) PROVE Untouched(e)
    BY <1>5 DEF Untouched
  <1>6. ASSUME NEW d \in Doc, DeleteDocument(d) PROVE \A e \in Doc : TreeInv(e)'
    BY <1>2, <1>5, <1>6, DeleteDocumentDoes
  <1>7. ASSUME NEW d \in Doc, Persists, Others(d), TreeInv(d)',
               \A e \in Doc \ {d} : Alone(e),
               \/ topics' = topics
               \/ RemoveAll(d) \/ Insert(d) \/ Update(d) \/ WireParents(d) \/ WireChildren(d)
               \/ SweepRemoved(d) \/ RewriteLinks(d) \/ RegenerateUrls(d) \/ DeleteTopics(d)
        PROVE  \A e \in Doc : TreeInv(e)'
    <2>1. ASSUME NEW e \in Doc, e # d PROVE TreeInv(e)'
      <3>1. Untouched(e)
        BY <1>7, <2>1, OthersUntouched DEF TreeInv
      <3> QED
        BY <1>2, <1>7, <2>1, <3>1 DEF Others
    <2> QED
      BY <1>7, <2>1
  <1>8. ASSUME NEW d \in Doc, StartMerge(d) \/ FailMerge(d) PROVE \A e \in Doc : TreeInv(e)'
    <2>1. TreeInv(d)'
      BY <1>8, StartMergeDoes, FailMergeDoes, TreeRests
    <2>2. topics' = topics
      BY <1>8 DEF StartMerge, FailMerge
    <2> QED
      BY <1>7, <1>8, <2>1, <2>2, StartMergeDoes, FailMergeDoes
  <1>9. ASSUME NEW d \in Doc, ReadExisting(d) PROVE \A e \in Doc : TreeInv(e)'
    <2>1. TreeInv(d)' /\ topics' = topics
      BY <1>1, <1>9, TreeRead DEF ReadExisting
    <2> QED
      BY <1>7, <1>9, <2>1, ReadExistingDoes
  <1>10. ASSUME NEW d \in Doc, Keep(d) \/ FailTopic(d) PROVE \A e \in Doc : TreeInv(e)'
    <2>1. /\ Persists /\ Others(d) /\ Advances(d) /\ topics' = topics
          /\ run'[d].ids = run[d].ids /\ run'[d].touched = run[d].touched /\ (run'[d].ok => run[d].ok)
      BY <1>10, KeepDoes, FailTopicDoes
    <2>2. \A e \in Doc : Alone(e)
      BY <1>10, KeepDoes, FailTopicDoes
    <2>3. /\ run'[d].zip = run[d].zip /\ run'[d].spoiled = run[d].spoiled
          /\ run'[d].pc = run[d].pc \/ <<run[d].pc, run'[d].pc>> \in Idles
      BY <2>1 DEF Advances, Applying, At, Same, Idles
    <2>4. TreeInv(d)'
      BY <1>1, <1>5, <2>1, <2>2, <2>3, UntouchedKeeps
    <2> QED
      BY <1>7, <2>1, <2>2, <2>4
  <1>11. ASSUME NEW d \in Doc, Insert(d) \/ Update(d) PROVE \A e \in Doc : TreeInv(e)'
    BY <1>1, <1>7, <1>11, TreeInsert, TreeUpdate, InsertDoes, UpdateDoes
  <1>12. ASSUME NEW d \in Doc, RemoveAll(d) \/ SweepRemoved(d) \/ DeleteTopics(d)
         PROVE  \A e \in Doc : TreeInv(e)'
    BY <1>1, <1>7, <1>12, TreeRemoveAll, TreeSweep, TreeDelete, RemoveAllDoes, SweepRemovedDoes,
       DeleteTopicsDoes
  <1>13. ASSUME NEW d \in Doc, WireParents(d) \/ WireChildren(d) \/ RewriteLinks(d)
         PROVE  \A e \in Doc : TreeInv(e)'
    BY <1>1, <1>7, <1>13, TreeParents, TreeChildren, TreeLinks, WireParentsDoes, WireChildrenDoes,
       RewriteLinksDoes
  <1>14. ASSUME NEW d \in Doc, Finish(d) PROVE \A e \in Doc : TreeInv(e)'
    <2>1. /\ Persists /\ Others(d) /\ topics' = topics /\ run[d].pc = "finish"
          /\ run'[d].spoiled = run[d].spoiled
          /\ \/ run'[d].pc = "idle"
             \/ /\ run'[d].pc = "links" /\ Same(d) /\ run'[d].ok = run[d].ok
                /\ run'[d].touched = run[d].touched /\ run'[d].ids = run[d].ids
      BY <1>14, FinishDoes
    <2>2. \A e \in Doc : Alone(e)
      BY <1>14, FinishDoes
    <2>3. CASE run'[d].pc = "idle"
      BY <1>7, <2>1, <2>2, <2>3, TreeRests
    <2>4. CASE run'[d].pc # "idle"
      <3>1. run'[d].zip = run[d].zip /\ <<run[d].pc, run'[d].pc>> \in Idles
        BY <2>1, <2>4 DEF Same, Idles
      <3>2. TreeInv(d)'
        BY <1>1, <1>5, <2>1, <2>2, <2>4, <3>1, UntouchedKeeps
      <3> QED
        BY <1>7, <2>1, <2>2, <3>2
    <2> QED
      BY <2>3, <2>4
  <1>15. ASSUME NEW d \in Doc, RegenerateUrls(d) PROVE \A e \in Doc : TreeInv(e)'
    BY <1>7, <1>15, RegenerateUrlsDoes, TreeRests
  <1>16. CASE \E d \in Doc : \/ StartMerge(d) \/ FailMerge(d) \/ ReadExisting(d) \/ Keep(d) \/ FailTopic(d)
                             \/ Insert(d) \/ Update(d) \/ RemoveAll(d) \/ SweepRemoved(d) \/ DeleteTopics(d)
    BY Zenon, <1>8, <1>9, <1>10, <1>11, <1>12, <1>16
  <1>17. CASE \E d \in Doc : \/ WireParents(d) \/ WireChildren(d) \/ RewriteLinks(d) \/ Finish(d)
                             \/ RegenerateUrls(d) \/ DeleteDocument(d)
    BY Zenon, <1>6, <1>13, <1>14, <1>15, <1>17
  <1> QED
    BY Zenon, <1>3, <1>4, <1>16, <1>17 DEF Next

LEMMA InitTree == Init => \A d \in Doc : TreeInv(d)
  <1> SUFFICES ASSUME Init, NEW d \in Doc PROVE TreeInv(d)
    OBVIOUS
  <1>1. run[d].pc = "idle"
    BY DEF Init, Idle
  <1> QED
    BY <1>1 DEF TreeInv, IdsOk, FoundOk, WrittenOk, ParentsOk, ChildrenOk, LinksOk, Working, Over

AllInv == SyncInv /\ \A d \in Doc : TreeInv(d)

LEMMA TreeInvariant ==
    ASSUME DistinctIds
    PROVE  Spec => []AllInv
  <1>1. Init => AllInv
    BY InitTyped, InitMerges, InitTree DEF SyncInv, AllInv
  <1>2. AllInv /\ [Next]_vars => AllInv'
    BY NextTyped, MergeKept, TreeKept DEF SyncInv, AllInv
  <1> QED
    BY <1>1, <1>2, PTL DEF Spec

\* Where moreover every parent that a zip names is in the zip, a merge without
\* errors leaves the tree that the zip asks for, whatever wired its topics before:
\* each pass has done what it is for (ParentsOk, ChildrenOk), and the sweep takes
\* no topic that another one hangs on or lists.
THEOREM TreeIsMerged ==
    ASSUME DistinctIds, ParentsThere
    PROVE  Spec => []MergedTree
  <1>1. AllInv => MergedTree
    <2> SUFFICES ASSUME AllInv, NEW d \in Doc, run[d].pc \in {"links", "urls"}, run[d].ok, ~run[d].spoiled,
                        NEW c \in Elements(run[d].zip)
                 PROVE  \E t \in TopicsOf(d) :
                          /\ topics[t].sid = c.sid
                          /\ IF c.parent = None THEN topics[t].parent = None
                             ELSE \E p \in TopicsOf(d) : /\ topics[p].sid = c.parent
                                                         /\ topics[t].parent = p /\ t \in topics[p].children
                          /\ t \in run[d].touched =>
                                topics[t].children = {u \in TopicsOf(d) : topics[u].parent = t}
      BY DEF MergedTree
    <2>1. TypeInv /\ MergeInv(d) /\ TreeInv(d) /\ run[d].zip \in Upload
      BY DEF AllInv, SyncInv, TypeInv, TypeOK, MergeState
    <2>2. ASSUME NEW b \in Elements(run[d].zip)
          PROVE  \E t \in TopicsOf(d) : /\ t = run[d].ids[b.sid] /\ topics[t].sid = b.sid
                                        /\ topics[t].parent = IdOf(d, b.parent)
      BY <2>1 DEF TreeInv, ParentsOk, Over
    <2>3. PICK t \in TopicsOf(d) : /\ t = run[d].ids[c.sid] /\ topics[t].sid = c.sid
                                   /\ topics[t].parent = IdOf(d, c.parent)
      BY <2>2
    <2>4. ASSUME NEW b \in Elements(run[d].zip), NEW u \in TopicsOf(d), u = run[d].ids[b.sid]
          PROVE  u \in Wired(d) /\ u # None
      <3>1. u \in TopicId /\ u # None
        BY <2>1, TopicIds, NoneIsNoId
      <3> QED
        BY <2>4, <3>1 DEF Wired, SidsOf
    <2>5. ASSUME c.parent # None
          PROVE  \E p \in TopicsOf(d) : /\ topics[p].sid = c.parent
                                        /\ topics[t].parent = p /\ t \in topics[p].children
      <3>1. PICK b \in Elements(run[d].zip) : b.sid = c.parent
        BY <2>1, <2>5 DEF ParentsThere, SidsOf
      <3>2. PICK p \in TopicsOf(d) : p = run[d].ids[b.sid] /\ topics[p].sid = b.sid
        BY <2>2
      <3>3. IdOf(d, c.parent) = p
        BY <2>5, <3>1, <3>2 DEF IdOf
      <3>4. t \in ChildrenOf(d, p)
        BY <2>3, <2>4, <3>3 DEF ChildrenOf
      <3>5. p \in Wired(d)
        BY <2>4, <3>2
      <3>6. topics[p].children = ChildrenOf(d, p)
        BY <2>1, <3>4, <3>5 DEF TreeInv, ChildrenOk, Over
      <3> QED
        BY <2>3, <3>1, <3>2, <3>3, <3>4, <3>6
    <2>6. ASSUME t \in run[d].touched
          PROVE  topics[t].children = {u \in TopicsOf(d) : topics[u].parent = t}
      <3>1. t \in Wired(d) /\ t # None
        BY <2>3, <2>4
      <3>2. topics[t].children = ChildrenOf(d, t)
        BY <2>1, <2>6, <3>1 DEF TreeInv, ChildrenOk, Over
      <3>3. ASSUME NEW u \in ChildrenOf(d, t) PROVE u \in TopicsOf(d) /\ topics[u].parent = t
        <4>1. PICK b \in Elements(run[d].zip) : u = run[d].ids[b.sid] /\ IdOf(d, b.parent) = t
          BY DEF ChildrenOf
        <4> QED
          BY <2>2, <4>1
      <3>4. ASSUME NEW u \in TopicsOf(d), topics[u].parent = t PROVE u \in ChildrenOf(d, t)
        <4>1. topics[u].sid \in SidsOf(run[d].zip)
          BY <2>1 DEF MergeInv, SweptOk, Over
        <4>2. PICK b \in Elements(run[d].zip) : b.sid = topics[u].sid
          BY <4>1 DEF SidsOf
        <4>3. u = run[d].ids[b.sid]
          BY <2>1, <4>2 DEF TreeInv, FoundOk, Over
        <4>4. IdOf(d, b.parent) = t /\ u # None
          BY <2>2, <2>4, <3>4, <4>3
        <4> QED
          BY <4>3, <4>4 DEF ChildrenOf
      <3> QED
        BY <3>2, <3>3, <3>4
    <2> QED
      BY <2>3, <2>5, <2>6 DEF IdOf
  <1> QED
    BY <1>1, TreeInvariant, PTL

\* The rewritten link of a topic that a merge without errors wrote leads to the
\* topic that the zip names: that topic is there when the link is looked up
\* (DoneOk), and no id is used again for another.
THEOREM LinksLead ==
    ASSUME DistinctIds
    PROVE  Spec => []TouchedLinksLead
  <1>1. AllInv => TouchedLinksLead
    BY DEF AllInv, TreeInv, LinksOk, TouchedLinksLead
  <1> QED
    BY <1>1, TreeInvariant, PTL
=============================================================================
