------------------------------ MODULE BlobProofs ------------------------------
(***************************************************************************)
(* Proofs about ExtractedBlobs.                                            *)
(*                                                                         *)
(* None of its invariants is inductive.  RawThere needs that a deletion    *)
(* about to remove a zip has no other publication of it, but late ones      *)
(* (RawInv).  BlobsThere rests on the counts, and the counts on more than  *)
(* CountsCover says: the count of a hash covers all positions in manifests *)
(* of counted publications (Holders) together with those that deletions    *)
(* have still to discount (Releases).  That is CountInv; ExactInv says that *)
(* away from miscounts and strays the two sides are equal, and what each   *)
(* stored object is kept for, from which NothingLeft follows.              *)
(***************************************************************************)
EXTENDS ExtractedBlobs, FiniteSetTheorems, WellFoundedInduction, TLAPS

-----------------------------------------------------------------------------
(* The inductive invariant                                                 *)

\* What the program state of an upload or extraction says of its publication.
PubOk(p) ==
    /\ pub[p].state # "none" => pub[p].zip \in Zip
    /\ pub[p].state = "none" => p \notin dying /\ At(p, "idle")
    /\ ~Exists(p) => pub[p].manifest = << >>
    /\ ~At(p, "idle") /\ ~At(p, "index") => pub[p].manifest = << >>
    /\ At(p, "index") => pub[p].manifest \in {<< >>, job[p].manifest}
    /\ At(p, "index") /\ p \notin dying => pub[p].manifest = job[p].manifest
    /\ At(p, "fetch") => job[p].manifest = << >>
    /\ At(p, "putEntry") => More(p)
    /\ job[p].next >= 1

\* What a deletion knows of the publication it has loaded.
DelOk(x) ==
    /\ del[x].next >= 1
    /\ del[x].pc = "idle" => del[x].manifest = << >>
    /\ del[x].pc # "idle" => del[x].pub \in dying /\ del[x].zip = pub[del[x].pub].zip
    /\ del[x].pc \in {"object", "row"} => del[x].next \in DOMAIN del[x].manifest

PubShape == \A p \in Pub : PubOk(p)
DelShape == \A x \in Deleter : DelOk(x)

TypeInv == TypeOK /\ PubShape /\ DelShape

\* Zips stay: those about to be recorded as stored are, and a deletion about to
\* remove one found no other publication of it.
RawInv ==
    /\ RawThere
    /\ \A p \in Pub \ dying : At(p, "save") /\ Exists(p) => pub[p].zip \in raw \cup late
    /\ \A x \in Deleter : del[x].pc = "raw" =>
          \A q \in Pub \ {del[x].pub} : Exists(q) /\ pub[q].zip = del[x].zip => del[x].zip \in late

\* The positions of files with hash h: in a manifest; in that of a publication
\* which is counted; in what a deletion has still to discount.
Places(m, h) == {i \in DOMAIN m : HashOf[m[i]] = h}
Owing(p, h) == IF p \in dying \/ At(p, "index") THEN {} ELSE Places(pub[p].manifest, h)
Pending(x, h) == {i \in Places(del[x].manifest, h) :
                     i > del[x].next \/ (i = del[x].next /\ del[x].pc \notin {"object", "row"})}

Holders(h) == {t \in Pub \X Nat : t[2] \in Owing(t[1], h)}
Releases(h) == {t \in Deleter \X Nat : t[2] \in Pending(t[1], h)}
Owed(h) == Cardinality(Holders(h)) + Cardinality(Releases(h))

\* What is in a manifest, or in what a deletion works through, is finite.
Filed == {t \in Pub \X Nat : t[2] \in DOMAIN pub[t[1]].manifest}
Freed == {t \in Deleter \X Nat : t[2] \in DOMAIN del[t[1]].manifest}
FiniteInv == IsFiniteSet(Filed) /\ IsFiniteSet(Freed)

Covered(h) == blob[h].refs >= Owed(h)
CountInv == \A h \in Hash \ undercount : Covered(h)

StoreInv ==
    /\ BlobsThere
    /\ \A k \in Key : InFlight(k) => k \in store \/ HashOf[k] \in undercount

\* A deletion is about to remove the object, or the row, of h.
Leaving(x, h) == del[x].pc \in {"object", "row"} /\ HashOf[Held(x)] = h

\* Why there is a row of h, and why an object k is stored.
RowKept(h) == blob[h].refs >= 1 \/ \E x \in Deleter : Leaving(x, h)
ObjectKept(k) ==
    \/ InFlight(k)
    \/ blob[HashOf[k]].key = k /\ blob[HashOf[k]].refs >= 1
    \/ \E x \in Deleter : del[x].pc = "object" /\ Held(x) = k

\* Positions with hash h have the key of its row.
Agreed(h) ==
    /\ \A p \in Pub : \A i \in Owing(p, h) : pub[p].manifest[i] = blob[h].key
    /\ \A x \in Deleter : \A i \in Pending(x, h) : del[x].manifest[i] = blob[h].key

Exact(h) ==
    /\ blob[h].refs = Owed(h)
    /\ Agreed(h)
    /\ blob[h] # NoBlob => RowKept(h)
    /\ \A k \in store : HashOf[k] = h => ObjectKept(k)
ExactInv == \A h \in Hash \ (undercount \cup stray) : Exact(h)
-----------------------------------------------------------------------------
(* What a step does to a job, a publication and a deletion                 *)

JobStep == {"idle", "head", "put", "save", "copy", "begin", "fetch", "entry", "putEntry", "index"}
DelStep == {"idle", "count", "raw", "entry", "object", "row"}

OtherJobs(p) == \A q \in Pub : q # p => job'[q] = job[q]
OtherPubs(p) == \A q \in Pub : q # p => pub'[q] = pub[q]
OtherDels(x) == \A y \in Deleter : y # x => del'[y] = del[y]

LEMMA Typed ==
    ASSUME TypeInv, NEW p \in Pub
    PROVE  /\ pub[p] \in Row /\ job[p] \in Job
           /\ pub[p].manifest \in Seq(Key) /\ job[p].manifest \in Seq(Key)
           /\ job[p].next \in Nat /\ job[p].next >= 1
           /\ pub[p].state # "none" => pub[p].zip \in Zip /\ Entries[pub[p].zip] \in Seq(Key)
  <1>1. pub[p] \in Row /\ job[p] \in Job
    BY DEF TypeInv, TypeOK
  <1>2. pub[p].manifest \in Seq(Key) /\ job[p].manifest \in Seq(Key) /\ job[p].next \in Nat
    BY <1>1 DEF Row, Job
  <1>3. job[p].next >= 1 /\ (pub[p].state # "none" => pub[p].zip \in Zip)
    BY DEF TypeInv, PubShape, PubOk
  <1> QED
    BY <1>1, <1>2, <1>3, BlobAssumption

LEMMA TypedDel ==
    ASSUME TypeInv, NEW x \in Deleter
    PROVE  /\ del[x] \in Deletion /\ del[x].manifest \in Seq(Key)
           /\ del[x].next \in Nat /\ del[x].next >= 1
           /\ del[x].pc # "idle" => del[x].pub \in dying /\ del[x].pub \in Pub /\ del[x].zip \in Zip
           /\ del[x].pc \in {"object", "row"} => del[x].next \in DOMAIN del[x].manifest
           /\ del[x].next \in DOMAIN del[x].manifest => Held(x) \in Key /\ HashOf[Held(x)] \in Hash
  <1>1. del[x] \in Deletion
    BY DEF TypeInv, TypeOK
  <1>2. del[x].manifest \in Seq(Key) /\ del[x].next \in Nat
    BY <1>1 DEF Deletion
  <1>3. /\ del[x].next >= 1
        /\ del[x].pc # "idle" => del[x].pub \in dying /\ del[x].zip = pub[del[x].pub].zip
        /\ del[x].pc \in {"object", "row"} => del[x].next \in DOMAIN del[x].manifest
    BY DEF TypeInv, DelShape, DelOk
  <1>4. del[x].next \in DOMAIN del[x].manifest => Held(x) \in Key /\ HashOf[Held(x)] \in Hash
    BY <1>2, BlobAssumption DEF Held
  <1>5. ASSUME del[x].pc # "idle" PROVE del[x].pub \in Pub /\ del[x].zip \in Zip
    <2>1. del[x].pub \in Pub
      BY <1>3, <1>5 DEF TypeInv, TypeOK
    <2>2. pub[del[x].pub].state # "none"
      BY <2>1, <1>3, <1>5 DEF TypeInv, PubShape, PubOk
    <2> QED
      BY <2>1, <2>2, <1>3, <1>5, Typed
  <1> QED
    BY <1>1, <1>2, <1>3, <1>4, <1>5

\* A job that goes to another step; that ends; that is set; that is done with an entry.
LEMMA JobGoes ==
    ASSUME TypeInv, NEW p \in Pub, NEW s \in JobStep, Goto(p, s)
    PROVE  /\ job' \in [Pub -> Job] /\ OtherJobs(p)
           /\ job'[p].pc = s /\ job'[p].next = job[p].next
           /\ job'[p].manifest = job[p].manifest /\ job'[p].copied = job[p].copied
  <1>1. job[p] \in Job /\ job \in [Pub -> Job]
    BY DEF TypeInv, TypeOK
  <1> DEFINE j == [job[p] EXCEPT !.pc = s]
  <1>2. /\ j \in Job /\ j.pc = s /\ j.next = job[p].next /\ j.manifest = job[p].manifest
        /\ j.copied = job[p].copied
    BY <1>1 DEF Job, JobStep
  <1>3. job' = [job EXCEPT ![p] = j]
    BY DEF Goto
  <1> HIDE DEF j
  <1> QED
    BY <1>1, <1>2, <1>3 DEF OtherJobs

LEMMA JobSet ==
    ASSUME TypeInv, NEW p \in Pub, NEW j \in Job, job' = [job EXCEPT ![p] = j]
    PROVE  job' \in [Pub -> Job] /\ OtherJobs(p) /\ job'[p] = j
  BY DEF TypeInv, TypeOK, OtherJobs

LEMMA NoJobTyped == NoJob \in Job /\ NoJob.pc = "idle" /\ NoJob.next = 1 /\ NoJob.manifest = << >>
  BY DEF NoJob, Job

LEMMA JobEnds ==
    ASSUME TypeInv, NEW p \in Pub, job' = [job EXCEPT ![p] = NoJob]
    PROVE  /\ job' \in [Pub -> Job] /\ OtherJobs(p)
           /\ job'[p].pc = "idle" /\ job'[p].next = 1 /\ job'[p].manifest = << >>
  BY NoJobTyped, JobSet

LEMMA EntryDone ==
    ASSUME TypeInv, NEW p \in Pub, More(p), pub[p].state # "none", Done(p)
    PROVE  /\ job' \in [Pub -> Job] /\ OtherJobs(p)
           /\ job'[p].pc = "entry" /\ job'[p].next = job[p].next + 1
           /\ EntryOf(p) \in Key /\ job'[p].manifest = Append(job[p].manifest, EntryOf(p))
  <1>1. job[p] \in Job /\ job \in [Pub -> Job]
    BY DEF TypeInv, TypeOK
  <1>2. EntryOf(p) \in Key
    BY Typed DEF More, EntryOf
  <1> DEFINE k == EntryOf(p)
             j == [job[p] EXCEPT !.pc = "entry", !.next = @ + 1, !.manifest = Append(@, k)]
  <1>3. job' = [job EXCEPT ![p] = j]
    BY DEF Done
  <1>5. Append(job[p].manifest, k) \in Seq(Key) /\ job[p].next + 1 \in Nat
    BY <1>1, <1>2, Typed DEF Job
  <1>4. /\ j.pc = "entry" /\ j.next = job[p].next + 1
        /\ j.manifest = Append(job[p].manifest, k) /\ j \in Job
    <2> HIDE DEF k
    <2> QED
      BY <1>1, <1>5 DEF Job
  <1> HIDE DEF j
  <1> QED
    BY <1>1, <1>2, <1>3, <1>4, JobSet

-----------------------------------------------------------------------------
(* Type correctness                                                        *)

LEMMA InitTypeInv == Init => TypeInv
  <1> SUFFICES ASSUME Init PROVE TypeInv
    OBVIOUS
  <1>1. NoPub("none") \in Row /\ NoJob \in Job /\ NoDeletion \in Deletion
    BY DEF NoPub, Row, NoJob, Job, NoDeletion, Deletion
  <1>2. TypeOK
    BY <1>1, BlobAssumption DEF Init, TypeOK
  <1>3. \A p \in Pub : pub[p] = NoPub("none") /\ job[p] = NoJob /\ p \notin dying
    BY DEF Init
  <1>4. PubShape
    BY <1>3 DEF PubShape, PubOk, At, NoPub, NoJob
  <1>5. DelShape
    BY DEF Init, DelShape, DelOk, NoDeletion
  <1> QED
    BY <1>2, <1>4, <1>5 DEF TypeInv

\* A step of p leaves the shape of the others; deletions know what stays.
LEMMA PubShapeKept ==
    ASSUME TypeInv, NEW p \in Pub, OtherPubs(p), OtherJobs(p), dying' = dying, PubOk(p)'
    PROVE  PubShape'
  <1> SUFFICES ASSUME NEW q \in Pub, q # p PROVE PubOk(q)'
    BY DEF PubShape
  <1>1. PubOk(q) /\ pub'[q] = pub[q] /\ job'[q] = job[q]
    BY DEF TypeInv, PubShape, OtherPubs, OtherJobs
  <1> QED
    BY <1>1 DEF PubOk, At, Exists, More

ZipsKept == \A q \in Pub : pub[q].state # "none" => pub'[q].zip = pub[q].zip

LEMMA DelShapeKept ==
    ASSUME TypeInv, del' = del, dying \subseteq dying', ZipsKept
    PROVE  DelShape'
  <1> SUFFICES ASSUME NEW x \in Deleter PROVE DelOk(x)'
    BY DEF DelShape
  <1>1. DelOk(x) /\ del'[x] = del[x]
    BY DEF TypeInv, DelShape
  <1>2. ASSUME del[x].pc # "idle" PROVE pub'[del[x].pub].zip = pub[del[x].pub].zip
    <2>1. del[x].pub \in dying /\ del[x].pub \in Pub
      BY <1>2, TypedDel
    <2>2. pub[del[x].pub].state # "none"
      BY <2>1 DEF TypeInv, PubShape, PubOk
    <2> QED
      BY <2>1, <2>2 DEF ZipsKept
  <1> QED
    BY <1>1, <1>2 DEF DelOk

\* The types that every step of p has to show.
LEMMA PubStepTyped ==
    ASSUME TypeInv, NEW p \in Pub, pub' \in [Pub -> Row], OtherPubs(p),
           job' \in [Pub -> Job], OtherJobs(p), PubOk(p)',
           pub[p].state # "none" => pub'[p].zip = pub[p].zip,
           raw' \subseteq Zip, store' \subseteq Key,
           blob' \in [Hash -> {NoBlob} \cup [key : Key, refs : Int]],
           undercount' \subseteq Hash, stray' \subseteq Hash, late' \subseteq Zip,
           uploads' \in 0..MaxUploads, faults' \in 0..MaxFaults,
           del' = del, dying' = dying
    PROVE  TypeInv' /\ ZipsKept
  <1>1. ZipsKept
    BY DEF ZipsKept, OtherPubs
  <1>2. DelShape' /\ PubShape'
    BY <1>1, DelShapeKept, PubShapeKept
  <1>3. TypeOK'
    BY DEF TypeInv, TypeOK
  <1> QED
    BY <1>1, <1>2, <1>3 DEF TypeInv

LEMMA PubSet ==
    ASSUME TypeInv, NEW p \in Pub, NEW w \in Row, pub' = [pub EXCEPT ![p] = w]
    PROVE  pub' \in [Pub -> Row] /\ OtherPubs(p) /\ pub'[p] = w
  BY DEF TypeInv, TypeOK, OtherPubs

LEMMA PubSame ==
    ASSUME TypeInv, NEW p \in Pub, pub' = pub
    PROVE  pub' \in [Pub -> Row] /\ OtherPubs(p) /\ pub'[p] = pub[p]
  BY DEF TypeInv, TypeOK, OtherPubs

\* Hashes of a manifest are hashes.
LEMMA HashesTyped == ASSUME NEW m \in Seq(Key) PROVE Hashes(m) \subseteq Hash
  BY BlobAssumption DEF Hashes, Ran

PubState == {"created", "uploaded", "extracting", "held", "failed"}

\* A publication whose state is saved, perhaps with the zip stored, or a manifest.
LEMMA RawSaved ==
    ASSUME TypeInv, NEW p \in Pub, NEW s \in PubState,
           pub' = [pub EXCEPT ![p].state = s, ![p].raw = TRUE]
    PROVE  /\ pub' \in [Pub -> Row] /\ OtherPubs(p)
           /\ pub'[p].state = s /\ pub'[p].manifest = pub[p].manifest /\ pub'[p].raw = TRUE
           /\ pub'[p].zip = pub[p].zip
  <1>1. pub[p] \in Row /\ pub \in [Pub -> Row]
    BY DEF TypeInv, TypeOK
  <1> DEFINE w == [pub[p] EXCEPT !.state = s, !.raw = TRUE]
  <1>2. w \in Row /\ w.state = s /\ w.manifest = pub[p].manifest /\ w.raw = TRUE /\ w.zip = pub[p].zip
    BY <1>1 DEF Row, PubState
  <1>3. pub' = [pub EXCEPT ![p] = w]
    BY <1>1
  <1> HIDE DEF w
  <1> QED
    BY <1>1, <1>2, <1>3 DEF OtherPubs

LEMMA StateSaved ==
    ASSUME TypeInv, NEW p \in Pub, NEW s \in PubState, pub' = [pub EXCEPT ![p].state = s]
    PROVE  /\ pub' \in [Pub -> Row] /\ OtherPubs(p)
           /\ pub'[p].state = s /\ pub'[p].manifest = pub[p].manifest /\ pub'[p].raw = pub[p].raw
           /\ pub'[p].zip = pub[p].zip
  <1>1. pub[p] \in Row /\ pub \in [Pub -> Row]
    BY DEF TypeInv, TypeOK
  <1> DEFINE w == [pub[p] EXCEPT !.state = s]
  <1>2. w \in Row /\ w.state = s /\ w.manifest = pub[p].manifest /\ w.raw = pub[p].raw /\ w.zip = pub[p].zip
    BY <1>1 DEF Row, PubState
  <1>3. pub' = [pub EXCEPT ![p] = w]
    BY <1>1
  <1> HIDE DEF w
  <1> QED
    BY <1>1, <1>2, <1>3 DEF OtherPubs

LEMMA ManifestSaved ==
    ASSUME TypeInv, NEW p \in Pub, NEW s \in PubState, NEW m \in Seq(Key),
           pub' = [pub EXCEPT ![p].state = s, ![p].manifest = m]
    PROVE  /\ pub' \in [Pub -> Row] /\ OtherPubs(p)
           /\ pub'[p].state = s /\ pub'[p].manifest = m /\ pub'[p].raw = pub[p].raw
           /\ pub'[p].zip = pub[p].zip
  <1>1. pub[p] \in Row /\ pub \in [Pub -> Row]
    BY DEF TypeInv, TypeOK
  <1> DEFINE w == [pub[p] EXCEPT !.state = s, !.manifest = m]
  <1>2. w \in Row /\ w.state = s /\ w.manifest = m /\ w.raw = pub[p].raw /\ w.zip = pub[p].zip
    BY <1>1 DEF Row, PubState
  <1>3. pub' = [pub EXCEPT ![p] = w]
    BY <1>1
  <1> HIDE DEF w
  <1> QED
    BY <1>1, <1>2, <1>3 DEF OtherPubs

-----------------------------------------------------------------------------
(* The steps of publications, one by one                                   *)

Stepped(p) == TypeInv' /\ ZipsKept /\ OtherPubs(p) /\ OtherJobs(p) /\ pub'[p].state # "none"

LEMMA CreatePubStep ==
    ASSUME TypeInv, NEW p \in Pub, CreatePub(p)
    PROVE  /\ Stepped(p) /\ pub'[p].manifest = << >> /\ pub[p].manifest = << >>
           /\ pub'[p].raw = FALSE /\ job'[p].pc = "head" /\ p \notin dying
           /\ pub[p].state = "none" /\ job[p].pc = "idle"
  <1>1. PICK z \in Zip : pub' = [pub EXCEPT ![p] = [NoPub("created") EXCEPT !.zip = z]]
    BY DEF CreatePub
  <1> DEFINE n == NoPub("created")
             w == [n EXCEPT !.zip = z]
  <1>9. n \in Row /\ n.state = "created" /\ n.raw = FALSE /\ n.manifest = << >>
    BY DEF NoPub, Row
  <1>2. w \in Row /\ w.state = "created" /\ w.zip = z /\ w.raw = FALSE /\ w.manifest = << >>
    <2> HIDE DEF n
    <2> QED
      BY <1>9 DEF Row
  <1>3. pub' \in [Pub -> Row] /\ OtherPubs(p) /\ pub'[p] = w
    BY <1>1, <1>2, PubSet
  <1> HIDE DEF w
  <1>4. /\ job' \in [Pub -> Job] /\ OtherJobs(p) /\ job'[p].pc = "head" /\ job'[p].next = job[p].next
    BY JobGoes DEF CreatePub, JobStep
  <1>5. /\ pub[p].state = "none" /\ p \notin dying /\ job[p].pc = "idle" /\ job[p].next >= 1
        /\ pub[p].manifest = << >>
    BY DEF CreatePub, TypeInv, PubShape, PubOk, At, Exists
  <1>6. PubOk(p)'
    BY <1>2, <1>3, <1>4, <1>5 DEF PubOk, At, Exists, CreatePub
  <1>7. /\ late' \subseteq Zip /\ uploads' \in 0..MaxUploads
    BY BlobAssumption DEF CreatePub, TypeInv, TypeOK
  <1>8. TypeInv' /\ ZipsKept
    BY <1>3, <1>4, <1>5, <1>6, <1>7, PubStepTyped DEF CreatePub, TypeInv, TypeOK
  <1> QED
    BY <1>2, <1>3, <1>4, <1>5, <1>8 DEF Stepped

LEMMA HeadRawStep ==
    ASSUME TypeInv, NEW p \in Pub, HeadRaw(p)
    PROVE  /\ Stepped(p) /\ pub' = pub /\ job[p].pc = "head"
           /\ job'[p].pc \in {"save", "put"} /\ (job'[p].pc = "save" => pub[p].zip \in raw)
  <1>1. PICK m \in IF Prior(p) = {} THEN {<< >>} ELSE {pub[q].manifest : q \in Prior(p)} :
            job' = [job EXCEPT ![p] = [NoJob EXCEPT
                     !.pc = IF pub[p].zip \in raw THEN "save" ELSE "put",
                     !.manifest = m, !.copied = m # << >>]]
    BY DEF HeadRaw
  <1>2. m \in Seq(Key)
    <2>1. \A q \in Prior(p) : pub[q].manifest \in Seq(Key)
      BY Typed DEF Prior
    <2>2. m = << >> \/ \E q \in Prior(p) : m = pub[q].manifest
      BY <1>1
    <2>3. << >> \in Seq(Key)
      OBVIOUS
    <2> QED
      BY <2>1, <2>2, <2>3
  <1> DEFINE s == IF pub[p].zip \in raw THEN "save" ELSE "put"
             c == (m # << >>)
             j == [NoJob EXCEPT !.pc = s, !.manifest = m, !.copied = c]
  <1>3. s \in {"save", "put"} /\ c \in BOOLEAN /\ (s = "save" => pub[p].zip \in raw)
    OBVIOUS
  <1>4. j \in Job /\ j.pc = s /\ j.next = 1
    <2> HIDE DEF s, c
    <2> QED
      BY <1>2, <1>3 DEF NoJob, Job
  <1>5. job' \in [Pub -> Job] /\ OtherJobs(p) /\ job'[p] = j
    BY <1>1, <1>4, JobSet
  <1> HIDE DEF j, s
  <1>6. pub' \in [Pub -> Row] /\ OtherPubs(p) /\ pub'[p] = pub[p] /\ job[p].pc = "head" /\ pub' = pub
    BY PubSame DEF HeadRaw, At
  <1>7. PubOk(p) /\ dying' = dying
    BY DEF TypeInv, PubShape, HeadRaw, history
  <1>8. PubOk(p)' /\ pub[p].state # "none"
    BY <1>3, <1>4, <1>5, <1>6, <1>7 DEF PubOk, At, Exists
  <1>9. TypeInv' /\ ZipsKept
    BY <1>5, <1>6, <1>8, PubStepTyped DEF HeadRaw, TypeInv, TypeOK, history
  <1> QED
    BY <1>3, <1>4, <1>5, <1>6, <1>8, <1>9 DEF Stepped

LEMMA PutRawStep ==
    ASSUME TypeInv, NEW p \in Pub, PutRaw(p)
    PROVE  Stepped(p) /\ pub' = pub /\ job[p].pc = "put" /\ job'[p].pc = "save"
  <1>1. /\ job' \in [Pub -> Job] /\ OtherJobs(p)
        /\ job'[p].pc = "save" /\ job'[p].next = job[p].next
    BY JobGoes DEF PutRaw, JobStep
  <1>2. pub' \in [Pub -> Row] /\ OtherPubs(p) /\ pub'[p] = pub[p] /\ job[p].pc = "put" /\ pub' = pub
    BY PubSame DEF PutRaw, At
  <1>3. PubOk(p) /\ dying' = dying
    BY DEF TypeInv, PubShape, PutRaw, history
  <1>4. PubOk(p)' /\ pub[p].state # "none"
    BY <1>1, <1>2, <1>3 DEF PubOk, At, Exists
  <1>5. raw' \subseteq Zip
    BY <1>4, Typed DEF PutRaw, TypeInv, TypeOK
  <1>6. TypeInv' /\ ZipsKept
    BY <1>1, <1>2, <1>4, <1>5, PubStepTyped DEF PutRaw, TypeInv, TypeOK, history
  <1> QED
    BY <1>1, <1>2, <1>4, <1>6 DEF Stepped

LEMMA SaveUploadStep ==
    ASSUME TypeInv, NEW p \in Pub, SaveUpload(p)
    PROVE  /\ Stepped(p) /\ job[p].pc = "save" /\ job'[p].pc \in {"copy", "begin", "idle"}
           /\ pub'[p].manifest = pub[p].manifest /\ (Exists(p)' => Exists(p))
  <1>1. PubOk(p) /\ dying' = dying /\ job[p].pc = "save" /\ pub[p].state # "none"
    BY DEF TypeInv, PubShape, SaveUpload, history, PubOk, At
  <1>2. CASE Exists(p)
    <2> DEFINE s == IF job[p].copied THEN "copy" ELSE "begin"
    <2>1. s \in {"copy", "begin"}
      OBVIOUS
    <2>2. Goto(p, s)
      BY <1>2 DEF SaveUpload
    <2> HIDE DEF s
    <2>3. /\ job' \in [Pub -> Job] /\ OtherJobs(p)
          /\ job'[p].pc = s /\ job'[p].next = job[p].next
      BY <2>1, <2>2, JobGoes DEF JobStep
    <2>4. /\ pub' \in [Pub -> Row] /\ OtherPubs(p)
          /\ pub'[p].state = "uploaded" /\ pub'[p].manifest = pub[p].manifest
          /\ pub'[p].zip = pub[p].zip
      BY <1>2, RawSaved DEF SaveUpload, PubState
    <2>5. PubOk(p)'
      BY <1>1, <2>1, <2>3, <2>4 DEF PubOk, At, Exists
    <2>6. TypeInv' /\ ZipsKept
      BY <2>3, <2>4, <2>5, PubStepTyped DEF SaveUpload, TypeInv, TypeOK, history
    <2> QED
      BY <1>1, <1>2, <2>1, <2>3, <2>4, <2>6 DEF Stepped
  <1>3. CASE ~Exists(p)
    <2>1. job' = [job EXCEPT ![p] = NoJob] /\ pub' = pub
      BY <1>3 DEF SaveUpload
    <2>2. /\ job' \in [Pub -> Job] /\ OtherJobs(p) /\ job'[p].pc = "idle" /\ job'[p].next = 1
      BY <2>1, JobEnds
    <2>3. pub' \in [Pub -> Row] /\ OtherPubs(p) /\ pub'[p] = pub[p]
      BY <2>1, PubSame
    <2>4. PubOk(p)'
      BY <1>1, <2>2, <2>3 DEF PubOk, At, Exists
    <2>5. TypeInv' /\ ZipsKept
      BY <2>2, <2>3, <2>4, PubStepTyped DEF SaveUpload, TypeInv, TypeOK, history
    <2> QED
      BY <1>1, <1>3, <2>2, <2>3, <2>5 DEF Stepped, Exists
  <1> QED
    BY <1>2, <1>3

LEMMA CopyManifestStep ==
    ASSUME TypeInv, NEW p \in Pub, CopyManifest(p)
    PROVE  /\ Stepped(p) /\ job[p].pc = "copy" /\ job'[p].pc = "idle"
           /\ \/ pub'[p].manifest = pub[p].manifest /\ undercount' = undercount
              \/ pub'[p].manifest = job[p].manifest /\ undercount' = undercount \cup Hashes(job[p].manifest)
           /\ pub'[p].raw = pub[p].raw /\ (Exists(p)' => Exists(p)) /\ undercount \subseteq undercount'
  <1>1. PubOk(p) /\ dying' = dying /\ job[p].pc = "copy" /\ pub[p].state # "none"
    BY DEF TypeInv, PubShape, CopyManifest, history, PubOk, At
  <1>2. /\ job' \in [Pub -> Job] /\ OtherJobs(p) /\ job'[p].pc = "idle" /\ job'[p].next = 1
    BY JobEnds DEF CopyManifest
  <1>3. CASE Exists(p)
    <2>1. /\ pub' \in [Pub -> Row] /\ OtherPubs(p)
          /\ pub'[p].state = "held" /\ pub'[p].manifest = job[p].manifest
          /\ pub'[p].zip = pub[p].zip /\ pub'[p].raw = pub[p].raw
      BY <1>3, ManifestSaved, Typed DEF CopyManifest, PubState
    <2>2. undercount' = undercount \cup Hashes(job[p].manifest) /\ undercount' \subseteq Hash
      BY <1>3, HashesTyped, Typed DEF CopyManifest, TypeInv, TypeOK
    <2>3. PubOk(p)'
      BY <1>1, <1>2, <2>1 DEF PubOk, At, Exists
    <2>4. TypeInv' /\ ZipsKept
      BY <1>2, <2>1, <2>2, <2>3, PubStepTyped DEF CopyManifest, TypeInv, TypeOK, history
    <2> QED
      BY <1>1, <1>2, <1>3, <2>1, <2>2, <2>4 DEF Stepped
  <1>4. CASE ~Exists(p)
    <2>1. undercount' = undercount /\ pub' = pub
      BY <1>4 DEF CopyManifest
    <2>2. pub' \in [Pub -> Row] /\ OtherPubs(p) /\ pub'[p] = pub[p]
      BY <2>1, PubSame
    <2>3. PubOk(p)'
      BY <1>1, <1>2, <2>2 DEF PubOk, At, Exists
    <2>4. TypeInv' /\ ZipsKept
      BY <1>2, <2>1, <2>2, <2>3, PubStepTyped DEF CopyManifest, TypeInv, TypeOK, history
    <2> QED
      BY <1>1, <1>2, <1>4, <2>1, <2>2, <2>4 DEF Stepped, Exists
  <1> QED
    BY <1>3, <1>4

LEMMA BeginExtractionStep ==
    ASSUME TypeInv, NEW p \in Pub, BeginExtraction(p)
    PROVE  /\ Stepped(p) /\ job[p].pc \in {"begin", "idle"}
           /\ job'[p].pc \in {"fetch", "idle"} /\ job'[p].manifest = << >>
           /\ pub'[p].raw = pub[p].raw /\ (Exists(p)' => Exists(p))
           /\ pub'[p].manifest = << >>
           /\ stray' = stray \cup Hashes(pub[p].manifest)
  <1>1. PubOk(p) /\ dying' = dying /\ job[p].pc \in {"begin", "idle"} /\ pub[p].state # "none"
    BY DEF TypeInv, PubShape, BeginExtraction, PubOk, At
  <1>0. uploads' \in 0..MaxUploads
    BY BlobAssumption DEF BeginExtraction, TypeInv, TypeOK
  <1>2. CASE Exists(p)
    <2>1. /\ pub' \in [Pub -> Row] /\ OtherPubs(p)
          /\ pub'[p].state = "extracting" /\ pub'[p].manifest = << >>
          /\ pub'[p].zip = pub[p].zip /\ pub'[p].raw = pub[p].raw
      <3>1. << >> \in Seq(Key) /\ "extracting" \in PubState
        BY DEF PubState
      <3>2. pub' = [pub EXCEPT ![p].state = "extracting", ![p].manifest = << >>]
        BY <1>2 DEF BeginExtraction
      <3> QED
        BY <3>1, <3>2, ManifestSaved
    <2>2. stray' = stray \cup Hashes(pub[p].manifest) /\ stray' \subseteq Hash
      BY <1>2, HashesTyped, Typed DEF BeginExtraction, TypeInv, TypeOK
    <2> DEFINE j == [NoJob EXCEPT !.pc = "fetch"]
    <2>3. j \in Job /\ j.pc = "fetch" /\ j.next = 1 /\ j.manifest = << >>
      BY NoJobTyped DEF Job
    <2>4. job' = [job EXCEPT ![p] = j]
      BY <1>2 DEF BeginExtraction
    <2> HIDE DEF j
    <2>5. job' \in [Pub -> Job] /\ OtherJobs(p) /\ job'[p] = j
      BY <2>3, <2>4, JobSet
    <2>6. PubOk(p)'
      BY <1>1, <2>1, <2>3, <2>5 DEF PubOk, At, Exists
    <2>7. TypeInv' /\ ZipsKept
      BY <1>0, <2>1, <2>2, <2>5, <2>6, PubStepTyped DEF BeginExtraction, TypeInv, TypeOK
    <2> QED
      BY <1>1, <1>2, <2>1, <2>2, <2>3, <2>5, <2>7 DEF Stepped
  <1>3. CASE ~Exists(p)
    <2>1. stray' = stray /\ pub' = pub /\ pub[p].manifest = << >> /\ job' = [job EXCEPT ![p] = NoJob]
      BY <1>1, <1>3 DEF BeginExtraction, PubOk
    <2>2. pub' \in [Pub -> Row] /\ OtherPubs(p) /\ pub'[p] = pub[p]
      BY <2>1, PubSame
    <2>3. /\ job' \in [Pub -> Job] /\ OtherJobs(p)
          /\ job'[p].pc = "idle" /\ job'[p].next = 1 /\ job'[p].manifest = << >>
      BY <2>1, JobEnds
    <2>4. PubOk(p)'
      BY <1>1, <2>2, <2>3 DEF PubOk, At, Exists
    <2>5. TypeInv' /\ ZipsKept
      BY <1>0, <2>1, <2>2, <2>3, <2>4, PubStepTyped DEF BeginExtraction, TypeInv, TypeOK
    <2>6. Hashes(pub[p].manifest) = {}
      BY <2>1 DEF Hashes, Ran
    <2> QED
      BY <1>1, <1>3, <2>1, <2>2, <2>3, <2>5, <2>6 DEF Stepped, Exists
  <1> QED
    BY <1>2, <1>3

LEMMA FailExtractionStep ==
    ASSUME TypeInv, NEW p \in Pub, FailExtraction(p)
    PROVE  /\ Stepped(p) /\ job[p].pc \in {"fetch", "entry"} /\ job'[p].pc = "idle"
           /\ pub'[p].manifest = pub[p].manifest /\ pub'[p].raw = pub[p].raw
           /\ (Exists(p)' => Exists(p)) /\ stray' = stray \cup Hashes(job[p].manifest)
  <1>1. PubOk(p) /\ dying' = dying /\ job[p].pc \in {"fetch", "entry"} /\ pub[p].state # "none"
    BY DEF TypeInv, PubShape, FailExtraction, PubOk, At
  <1>2. faults' \in 0..MaxFaults
    BY BlobAssumption DEF FailExtraction, Fault, TypeInv, TypeOK
  <1>3. /\ job' \in [Pub -> Job] /\ OtherJobs(p) /\ job'[p].pc = "idle" /\ job'[p].next = 1
    BY JobEnds DEF FailExtraction
  <1>4. stray' = stray \cup Hashes(job[p].manifest) /\ stray' \subseteq Hash
    BY HashesTyped, Typed DEF FailExtraction, TypeInv, TypeOK
  <1>5. /\ pub' \in [Pub -> Row] /\ OtherPubs(p) /\ pub'[p].manifest = pub[p].manifest
        /\ pub'[p].zip = pub[p].zip /\ pub'[p].raw = pub[p].raw
        /\ pub'[p].state = IF Exists(p) THEN "failed" ELSE pub[p].state
    <2>1. CASE Exists(p)
      <3>1. pub' = [pub EXCEPT ![p].state = "failed"]
        BY <2>1 DEF FailExtraction
      <3> QED
        BY <2>1, <3>1, StateSaved DEF PubState
    <2>2. CASE ~Exists(p)
      <3>1. pub' = [pub EXCEPT ![p].state = pub[p].state]
        BY <2>2 DEF FailExtraction
      <3>2. pub' = pub
        BY <3>1 DEF TypeInv, TypeOK, Row
      <3> QED
        BY <2>2, <3>2, PubSame
    <2> QED
      BY <2>1, <2>2
  <1>6. PubOk(p)' /\ (Exists(p)' => Exists(p))
    BY <1>1, <1>3, <1>5 DEF PubOk, At, Exists
  <1>7. TypeInv' /\ ZipsKept
    BY <1>2, <1>3, <1>4, <1>5, <1>6, PubStepTyped DEF FailExtraction, TypeInv, TypeOK
  <1> QED
    BY <1>1, <1>3, <1>4, <1>5, <1>6, <1>7 DEF Stepped

LEMMA FetchZipStep ==
    ASSUME TypeInv, NEW p \in Pub, FetchZip(p)
    PROVE  /\ Stepped(p) /\ pub' = pub /\ job[p].pc = "fetch" /\ job'[p].pc = "entry"
           /\ job'[p].manifest = << >>
  <1>1. PubOk(p) /\ dying' = dying /\ job[p].pc = "fetch" /\ pub[p].state # "none"
    BY DEF TypeInv, PubShape, FetchZip, history, PubOk, At
  <1>2. /\ job' \in [Pub -> Job] /\ OtherJobs(p)
        /\ job'[p].pc = "entry" /\ job'[p].next = job[p].next /\ job'[p].manifest = << >>
    BY <1>1, JobGoes DEF FetchZip, JobStep, PubOk, At
  <1>3. pub' \in [Pub -> Row] /\ OtherPubs(p) /\ pub'[p] = pub[p] /\ pub' = pub
    BY PubSame DEF FetchZip
  <1>4. PubOk(p)'
    BY <1>1, <1>2, <1>3 DEF PubOk, At, Exists
  <1>5. TypeInv' /\ ZipsKept
    BY <1>2, <1>3, <1>4, PubStepTyped DEF FetchZip, TypeInv, TypeOK, history
  <1> QED
    BY <1>1, <1>2, <1>3, <1>5 DEF Stepped

\* An entry whose object is there, or has been put, is done.
LEMMA CheckEntryStep ==
    ASSUME TypeInv, NEW p \in Pub, CheckEntry(p)
    PROVE  /\ Stepped(p) /\ pub' = pub /\ job[p].pc = "entry" /\ job'[p].pc \in {"entry", "putEntry"}
           /\ \/ job'[p].manifest = job[p].manifest
              \/ EntryOf(p) \in store /\ job'[p].manifest = Append(job[p].manifest, EntryOf(p))
  <1>1. PubOk(p) /\ dying' = dying /\ job[p].pc = "entry" /\ pub[p].state # "none"
    BY DEF TypeInv, PubShape, CheckEntry, history, PubOk, At
  <1>2. pub' \in [Pub -> Row] /\ OtherPubs(p) /\ pub'[p] = pub[p] /\ pub' = pub
    BY PubSame DEF CheckEntry
  <1>3. CASE EntryOf(p) \in store
    <2>1. /\ job' \in [Pub -> Job] /\ OtherJobs(p)
          /\ job'[p].pc = "entry" /\ job'[p].next = job[p].next + 1
          /\ EntryOf(p) \in Key /\ job'[p].manifest = Append(job[p].manifest, EntryOf(p))
      BY <1>1, <1>3, EntryDone DEF CheckEntry
    <2>2. PubOk(p)'
      BY <1>1, <1>2, <2>1, Typed DEF PubOk, At, Exists
    <2>3. TypeInv' /\ ZipsKept
      BY <1>2, <2>1, <2>2, PubStepTyped DEF CheckEntry, TypeInv, TypeOK, history
    <2> QED
      BY <1>1, <1>2, <1>3, <2>1, <2>3 DEF Stepped
  <1>4. CASE EntryOf(p) \notin store
    <2>1. /\ job' \in [Pub -> Job] /\ OtherJobs(p)
          /\ job'[p].pc = "putEntry" /\ job'[p].next = job[p].next /\ job'[p].manifest = job[p].manifest
      BY <1>4, JobGoes DEF CheckEntry, JobStep
    <2>2. PubOk(p)'
      BY <1>1, <1>2, <2>1 DEF PubOk, At, Exists, More, CheckEntry
    <2>3. TypeInv' /\ ZipsKept
      BY <1>2, <2>1, <2>2, PubStepTyped DEF CheckEntry, TypeInv, TypeOK, history
    <2> QED
      BY <1>1, <1>2, <2>1, <2>3 DEF Stepped
  <1> QED
    BY <1>3, <1>4

LEMMA PutEntryStep ==
    ASSUME TypeInv, NEW p \in Pub, PutEntry(p)
    PROVE  /\ Stepped(p) /\ pub' = pub /\ job[p].pc = "putEntry" /\ job'[p].pc = "entry"
           /\ EntryOf(p) \in Key /\ store' = store \cup {EntryOf(p)}
           /\ job'[p].manifest = Append(job[p].manifest, EntryOf(p))
  <1>1. PubOk(p) /\ dying' = dying /\ job[p].pc = "putEntry" /\ pub[p].state # "none" /\ More(p)
    BY DEF TypeInv, PubShape, PutEntry, history, PubOk, At
  <1>2. pub' \in [Pub -> Row] /\ OtherPubs(p) /\ pub'[p] = pub[p] /\ pub' = pub
    BY PubSame DEF PutEntry
  <1>3. /\ job' \in [Pub -> Job] /\ OtherJobs(p)
        /\ job'[p].pc = "entry" /\ job'[p].next = job[p].next + 1
        /\ EntryOf(p) \in Key /\ job'[p].manifest = Append(job[p].manifest, EntryOf(p))
    BY <1>1, EntryDone DEF PutEntry
  <1>4. PubOk(p)'
    BY <1>1, <1>2, <1>3, Typed DEF PubOk, At, Exists
  <1>5. store' = store \cup {EntryOf(p)} /\ store' \subseteq Key
    BY <1>3 DEF PutEntry, TypeInv, TypeOK
  <1>6. TypeInv' /\ ZipsKept
    BY <1>2, <1>3, <1>4, <1>5, PubStepTyped DEF PutEntry, TypeInv, TypeOK, history
  <1> QED
    BY <1>1, <1>2, <1>3, <1>5, <1>6 DEF Stepped

LEMMA SkipEntryStep ==
    ASSUME TypeInv, NEW p \in Pub, SkipEntry(p)
    PROVE  /\ Stepped(p) /\ pub' = pub /\ job[p].pc = "putEntry" /\ job'[p].pc = "entry"
           /\ job'[p].manifest = job[p].manifest
  <1>1. PubOk(p) /\ dying' = dying /\ job[p].pc = "putEntry" /\ pub[p].state # "none"
    BY DEF TypeInv, PubShape, SkipEntry, history, PubOk, At
  <1>2. pub' \in [Pub -> Row] /\ OtherPubs(p) /\ pub'[p] = pub[p] /\ pub' = pub
    BY PubSame DEF SkipEntry
  <1> DEFINE j == [job[p] EXCEPT !.pc = "entry", !.next = @ + 1]
  <1>3. j \in Job /\ j.pc = "entry" /\ j.next = job[p].next + 1 /\ j.manifest = job[p].manifest
    <2>1. job[p] \in Job /\ job[p].next + 1 \in Nat
      BY Typed
    <2> QED
      BY <2>1 DEF Job
  <1>4. job' = [job EXCEPT ![p] = j]
    BY DEF SkipEntry
  <1> HIDE DEF j
  <1>5. job' \in [Pub -> Job] /\ OtherJobs(p) /\ job'[p] = j
    BY <1>3, <1>4, JobSet
  <1>6. PubOk(p)'
    BY <1>1, <1>2, <1>3, <1>5, Typed DEF PubOk, At, Exists
  <1>7. faults' \in 0..MaxFaults
    BY BlobAssumption DEF SkipEntry, Fault, TypeInv, TypeOK
  <1>8. TypeInv' /\ ZipsKept
    BY <1>2, <1>5, <1>6, <1>7, PubStepTyped DEF SkipEntry, TypeInv, TypeOK, history
  <1> QED
    BY <1>1, <1>2, <1>3, <1>5, <1>8 DEF Stepped

LEMMA SaveManifestStep ==
    ASSUME TypeInv, NEW p \in Pub, SaveManifest(p)
    PROVE  /\ Stepped(p) /\ job[p].pc = "entry" /\ job'[p].manifest \in {job[p].manifest, << >>}
           /\ pub'[p].raw = pub[p].raw /\ (Exists(p)' => Exists(p)) /\ pub[p].manifest = << >>
           /\ \/ /\ job'[p].pc = "index" /\ job'[p].manifest = job[p].manifest
                 /\ pub'[p].manifest = job[p].manifest
                 /\ p \in dying => stray' = stray \cup Hashes(job[p].manifest)
              \/ /\ job'[p].pc = "idle" /\ pub'[p].manifest = pub[p].manifest
                 /\ stray' = stray \cup Hashes(job[p].manifest)
           /\ stray \subseteq stray'
  <1>1. /\ PubOk(p) /\ dying' = dying /\ job[p].pc = "entry" /\ pub[p].state # "none"
        /\ pub[p].manifest = << >>
    BY DEF TypeInv, PubShape, SaveManifest, history, PubOk, At
  <1>2. Hashes(job[p].manifest) \subseteq Hash
    BY HashesTyped, Typed
  <1>3. CASE Exists(p)
    <2>1. /\ pub' \in [Pub -> Row] /\ OtherPubs(p)
          /\ pub'[p].state = "held" /\ pub'[p].manifest = job[p].manifest
          /\ pub'[p].zip = pub[p].zip /\ pub'[p].raw = pub[p].raw
      BY <1>3, ManifestSaved, Typed DEF SaveManifest, PubState
    <2>2. /\ job' \in [Pub -> Job] /\ OtherJobs(p)
          /\ job'[p].pc = "index" /\ job'[p].next = job[p].next /\ job'[p].manifest = job[p].manifest
      BY <1>3, JobGoes DEF SaveManifest, JobStep
    <2>3. PubOk(p)'
      BY <1>1, <2>1, <2>2 DEF PubOk, At, Exists
    <2>4. /\ p \in dying => stray' = stray \cup Hashes(job[p].manifest)
          /\ p \notin dying => stray' = stray
          /\ stray \subseteq stray'
      BY <1>3 DEF SaveManifest
    <2>5. stray' \subseteq Hash
      BY <1>2, <2>4 DEF TypeInv, TypeOK
    <2>6. TypeInv' /\ ZipsKept
      BY <2>1, <2>2, <2>3, <2>5, PubStepTyped DEF SaveManifest, TypeInv, TypeOK
    <2> QED
      BY <1>1, <1>3, <2>1, <2>2, <2>4, <2>6 DEF Stepped
  <1>4. CASE ~Exists(p)
    <2>1. /\ job' = [job EXCEPT ![p] = NoJob] /\ pub' = pub
          /\ stray' = stray \cup Hashes(job[p].manifest)
      BY <1>4 DEF SaveManifest
    <2>2. /\ job' \in [Pub -> Job] /\ OtherJobs(p)
          /\ job'[p].pc = "idle" /\ job'[p].next = 1 /\ job'[p].manifest = << >>
      BY <2>1, JobEnds
    <2>3. pub' \in [Pub -> Row] /\ OtherPubs(p) /\ pub'[p] = pub[p]
      BY <2>1, PubSame
    <2>4. PubOk(p)'
      BY <1>1, <2>2, <2>3 DEF PubOk, At, Exists
    <2>5. stray' \subseteq Hash
      BY <1>2, <2>1 DEF TypeInv, TypeOK
    <2>6. TypeInv' /\ ZipsKept
      BY <2>2, <2>3, <2>4, <2>5, PubStepTyped DEF SaveManifest, TypeInv, TypeOK
    <2> QED
      BY <1>1, <1>4, <2>1, <2>2, <2>3, <2>6 DEF Stepped, Exists
  <1> QED
    BY <1>3, <1>4

BlobRow == {NoBlob} \cup [key : Key, refs : Int]

LEMMA BlobTyped ==
    ASSUME TypeInv, NEW h \in Hash
    PROVE  /\ blob[h] \in BlobRow /\ blob[h].refs \in Int
           /\ blob[h] # NoBlob => blob[h].key \in Key
           /\ NoBlob.key \notin Key /\ NoBlob.refs = 0
  <1>1. blob[h] \in BlobRow
    BY DEF TypeInv, TypeOK, BlobRow
  <1>2. NoBlob.key \notin Key /\ NoBlob.refs = 0
    BY BlobAssumption DEF NoBlob
  <1>3. CASE blob[h] = NoBlob
    BY <1>1, <1>2, <1>3
  <1>4. CASE blob[h] \in [key : Key, refs : Int]
    BY <1>1, <1>2, <1>4
  <1> QED
    BY <1>1, <1>3, <1>4 DEF BlobRow

LEMMA LeastOfNat ==
    ASSUME NEW S, S \subseteq Nat, S # {}
    PROVE  \E i \in S : \A j \in S : i <= j
  <1>1. PICK i \in S : \A j \in S : ~ (<<j, i>> \in OpToRel(<, Nat))
    BY WFMin, NatLessThanWellFounded, Zenon
  <1>2. \A j \in S : ~ (j < i)
    BY <1>1, Zenon DEF OpToRel
  <1> QED
    BY <1>2

\* What upserting the rows of a manifest does to that of a hash.
LEMMA CountOne ==
    ASSUME TypeInv, NEW m \in Seq(Key), NEW h \in Hash
    PROVE  /\ IsFiniteSet(Places(m, h)) /\ Cardinality(Places(m, h)) \in Nat
           /\ Places(m, h) = {} => Count(m)[h] = blob[h]
           /\ Places(m, h) # {} =>
                 /\ Cardinality(Places(m, h)) >= 1
                 /\ Count(m)[h].refs = blob[h].refs + Cardinality(Places(m, h))
                 /\ Count(m)[h].key \in Key
                 /\ blob[h] # NoBlob => Count(m)[h].key = blob[h].key
                 /\ Count(m)[h] \in [key : Key, refs : Int]
  <1> DEFINE at == Places(m, h)
  <1>1. at \subseteq 1..Len(m) /\ \A i \in at : m[i] \in Key
    BY DEF Places
  <1>2. IsFiniteSet(at) /\ Cardinality(at) \in Nat
    <2>1. IsFiniteSet(1..Len(m))
      BY FS_Interval
    <2> HIDE DEF at
    <2>2. IsFiniteSet(at)
      BY <1>1, <2>1, FS_Subset
    <2> QED
      BY <2>2, FS_CardinalityType
  <1>3. at # {} => Cardinality(at) >= 1
    BY <1>2, FS_EmptySet
  <1>4. Count(m)[h] =
            IF at = {} THEN blob[h]
            ELSE [key |-> IF blob[h] = NoBlob THEN m[CHOOSE i \in at : \A j \in at : i <= j]
                          ELSE blob[h].key,
                  refs |-> blob[h].refs + Cardinality(at)]
    BY DEF Count, Places
  <1>5. at # {} => (CHOOSE i \in at : \A j \in at : i <= j) \in at
    <2>1. SUFFICES ASSUME at # {} PROVE \E i \in at : \A j \in at : i <= j
      OBVIOUS
    <2>2. at \subseteq Nat
      BY <1>1
    <2> QED
      BY <2>1, <2>2, <1>1, LeastOfNat
  <1> HIDE DEF at
  <1>6. at # {} => (IF blob[h] = NoBlob THEN m[CHOOSE i \in at : \A j \in at : i <= j]
                    ELSE blob[h].key) \in Key
    BY <1>1, <1>5, BlobTyped
  <1>7. at # {} => blob[h].refs + Cardinality(at) \in Int
    BY <1>2, BlobTyped
  <1> QED
    BY <1>2, <1>3, <1>4, <1>6, <1>7 DEF at

LEMMA IndexStep ==
    ASSUME TypeInv, NEW p \in Pub, Index(p)
    PROVE  /\ Stepped(p) /\ pub' = pub /\ job[p].pc = "index" /\ job'[p].pc = "idle"
           /\ undercount \subseteq undercount' /\ stray \subseteq stray'
           /\ \/ /\ blob' = Count(job[p].manifest) /\ undercount' = undercount
                 /\ stray' = stray \cup Misfiled(p, Count(job[p].manifest))
              \/ /\ blob' = blob /\ undercount' = undercount \cup Hashes(job[p].manifest)
                 /\ stray' = stray \cup Hashes(job[p].manifest)
  <1>1. /\ PubOk(p) /\ dying' = dying /\ job[p].pc = "index" /\ pub[p].state # "none"
        /\ job[p].manifest \in Seq(Key)
    BY Typed DEF TypeInv, PubShape, Index, PubOk, At
  <1>2. Hashes(job[p].manifest) \subseteq Hash
    BY <1>1, HashesTyped
  <1>3. pub' \in [Pub -> Row] /\ OtherPubs(p) /\ pub'[p] = pub[p] /\ pub' = pub
    BY PubSame DEF Index
  <1>4. /\ job' \in [Pub -> Job] /\ OtherJobs(p) /\ job'[p].pc = "idle" /\ job'[p].next = 1
    BY JobEnds DEF Index
  <1>5. PubOk(p)'
    BY <1>1, <1>3, <1>4 DEF PubOk, At, Exists
  <1>6. Misfiled(p, Count(job[p].manifest)) \subseteq Hash
    BY <1>1, BlobAssumption DEF Misfiled, Ran
  <1>7. Count(job[p].manifest) \in [Hash -> BlobRow]
    <2>1. \A h \in Hash : Count(job[p].manifest)[h] \in BlobRow
      BY <1>1, CountOne, BlobTyped DEF BlobRow
    <2>2. Count(job[p].manifest) = [h \in Hash |-> Count(job[p].manifest)[h]]
      BY DEF Count
    <2> QED
      BY <2>1, <2>2
  <1>8. \/ /\ blob' = Count(job[p].manifest) /\ undercount' = undercount /\ faults' = faults
           /\ stray' = stray \cup Misfiled(p, Count(job[p].manifest))
        \/ /\ blob' = blob /\ undercount' = undercount \cup Hashes(job[p].manifest) /\ Fault
           /\ stray' = stray \cup Hashes(job[p].manifest)
    BY DEF Index
  <1>9. /\ undercount' \subseteq Hash /\ stray' \subseteq Hash /\ faults' \in 0..MaxFaults
        /\ blob' \in [Hash -> BlobRow]
    BY <1>2, <1>6, <1>7, <1>8, BlobAssumption DEF TypeInv, TypeOK, Fault, BlobRow
  <1>10. TypeInv' /\ ZipsKept
    BY <1>3, <1>4, <1>5, <1>9, PubStepTyped DEF Index, TypeInv, TypeOK, BlobRow
  <1> QED
    BY <1>1, <1>3, <1>4, <1>8, <1>10 DEF Stepped

-----------------------------------------------------------------------------
(* The steps of deletions, one by one                                      *)

LEMMA DelGoes ==
    ASSUME TypeInv, NEW x \in Deleter, NEW s \in DelStep, del' = [del EXCEPT ![x].pc = s]
    PROVE  /\ del' \in [Deleter -> Deletion] /\ OtherDels(x)
           /\ del'[x].pc = s /\ del'[x].pub = del[x].pub /\ del'[x].zip = del[x].zip
           /\ del'[x].raw = del[x].raw /\ del'[x].manifest = del[x].manifest
           /\ del'[x].next = del[x].next
  <1>1. del[x] \in Deletion /\ del \in [Deleter -> Deletion]
    BY DEF TypeInv, TypeOK
  <1> DEFINE d == [del[x] EXCEPT !.pc = s]
  <1>2. /\ d \in Deletion /\ d.pc = s /\ d.pub = del[x].pub /\ d.zip = del[x].zip
        /\ d.raw = del[x].raw /\ d.manifest = del[x].manifest /\ d.next = del[x].next
    BY <1>1 DEF Deletion, DelStep
  <1>3. del' = [del EXCEPT ![x] = d]
    OBVIOUS
  <1> HIDE DEF d
  <1> QED
    BY <1>1, <1>2, <1>3 DEF OtherDels

\* It goes on to the next entry.
LEMMA DelNext ==
    ASSUME TypeInv, NEW x \in Deleter, NEW s \in DelStep,
           del' = [del EXCEPT ![x].pc = s, ![x].next = del[x].next + 1]
    PROVE  /\ del' \in [Deleter -> Deletion] /\ OtherDels(x)
           /\ del'[x].pc = s /\ del'[x].pub = del[x].pub /\ del'[x].zip = del[x].zip
           /\ del'[x].raw = del[x].raw /\ del'[x].manifest = del[x].manifest
           /\ del'[x].next = del[x].next + 1
  <1>1. del[x] \in Deletion /\ del \in [Deleter -> Deletion] /\ del[x].next + 1 \in Nat
    BY TypedDel DEF TypeInv, TypeOK
  <1> DEFINE n == del[x].next + 1
             d == [del[x] EXCEPT !.pc = s, !.next = n]
  <1>2. /\ d \in Deletion /\ d.pc = s /\ d.pub = del[x].pub /\ d.zip = del[x].zip
        /\ d.raw = del[x].raw /\ d.manifest = del[x].manifest /\ d.next = n
    <2> HIDE DEF n
    <2>1. n \in Nat
      BY <1>1 DEF n
    <2> QED
      BY <1>1, <2>1 DEF Deletion, DelStep
  <1>3. del' = [del EXCEPT ![x] = d]
    OBVIOUS
  <1> HIDE DEF d
  <1> QED
    BY <1>1, <1>2, <1>3 DEF OtherDels

\* The types that a step of x which leaves publications alone has to show.
LEMMA DelStepTyped ==
    ASSUME TypeInv, NEW x \in Deleter, pub' = pub, job' = job, dying' = dying,
           del' \in [Deleter -> Deletion], OtherDels(x), DelOk(x)',
           raw' \subseteq Zip, store' \subseteq Key,
           blob' \in [Hash -> {NoBlob} \cup [key : Key, refs : Int]],
           undercount' \subseteq Hash, stray' \subseteq Hash, late' = late,
           uploads' = uploads, faults' \in 0..MaxFaults
    PROVE  TypeInv'
  <1>1. TypeOK'
    BY DEF TypeInv, TypeOK
  <1>2. PubShape'
    BY DEF TypeInv, PubShape, PubOk, At, Exists, More
  <1>3. DelShape'
    <2> SUFFICES ASSUME NEW y \in Deleter, y # x PROVE DelOk(y)'
      BY DEF DelShape
    <2>1. DelOk(y) /\ del'[y] = del[y]
      BY DEF TypeInv, DelShape, OtherDels
    <2> QED
      BY <2>1 DEF DelOk
  <1> QED
    BY <1>1, <1>2, <1>3 DEF TypeInv

DelStepped(x) == TypeInv' /\ OtherDels(x) /\ pub' = pub /\ job' = job

LEMMA CountOthersStep ==
    ASSUME TypeInv, NEW x \in Deleter, CountOthers(x)
    PROVE  /\ DelStepped(x) /\ del[x].pc = "count" /\ del'[x].pc \in {"raw", "entry"}
           /\ del'[x].pc = "raw" => Others(del[x].pub, del[x].zip) = {}
           /\ del'[x].pub = del[x].pub /\ del'[x].zip = del[x].zip
           /\ del'[x].manifest = del[x].manifest /\ del'[x].next = del[x].next
  <1> DEFINE s == IF del[x].raw /\ Others(del[x].pub, del[x].zip) = {} THEN "raw" ELSE "entry"
  <1>1. s \in {"raw", "entry"} /\ (s = "raw" => Others(del[x].pub, del[x].zip) = {})
    OBVIOUS
  <1>2. del' = [del EXCEPT ![x].pc = s] /\ del[x].pc = "count" /\ pub' = pub /\ job' = job
    BY DEF CountOthers
  <1> HIDE DEF s
  <1>3. /\ del' \in [Deleter -> Deletion] /\ OtherDels(x)
        /\ del'[x].pc = s /\ del'[x].pub = del[x].pub /\ del'[x].zip = del[x].zip
        /\ del'[x].manifest = del[x].manifest /\ del'[x].next = del[x].next
    BY <1>1, <1>2, DelGoes DEF DelStep
  <1>4. DelOk(x) /\ dying' = dying
    BY DEF TypeInv, DelShape, CountOthers, history
  <1>5. DelOk(x)'
    BY <1>1, <1>2, <1>3, <1>4 DEF DelOk
  <1>6. TypeInv'
    BY <1>3, <1>5, DelStepTyped DEF CountOthers, history, TypeInv, TypeOK
  <1> QED
    BY <1>1, <1>2, <1>3, <1>6 DEF DelStepped

LEMMA DeleteRawStep ==
    ASSUME TypeInv, NEW x \in Deleter, DeleteRaw(x)
    PROVE  /\ DelStepped(x) /\ del[x].pc = "raw" /\ del'[x].pc = "entry"
           /\ raw' \in {raw, raw \ {del[x].zip}}
           /\ del'[x].pub = del[x].pub /\ del'[x].zip = del[x].zip
           /\ del'[x].manifest = del[x].manifest /\ del'[x].next = del[x].next
  <1>1. /\ del[x].pc = "raw" /\ pub' = pub /\ job' = job /\ raw' \in {raw, raw \ {del[x].zip}}
        /\ DelOk(x) /\ dying' = dying
    BY DEF DeleteRaw, TypeInv, DelShape, history
  <1>2. /\ del' \in [Deleter -> Deletion] /\ OtherDels(x)
        /\ del'[x].pc = "entry" /\ del'[x].pub = del[x].pub /\ del'[x].zip = del[x].zip
        /\ del'[x].manifest = del[x].manifest /\ del'[x].next = del[x].next
    BY DelGoes DEF DeleteRaw, DelStep
  <1>3. DelOk(x)'
    BY <1>1, <1>2 DEF DelOk
  <1>4. faults' \in 0..MaxFaults /\ raw' \subseteq Zip
    BY <1>1, BlobAssumption DEF DeleteRaw, Fault, TypeInv, TypeOK
  <1>5. TypeInv'
    BY <1>1, <1>2, <1>3, <1>4, DelStepTyped DEF DeleteRaw, history, TypeInv, TypeOK
  <1> QED
    BY <1>1, <1>2, <1>5 DEF DelStepped

LEMMA LoadStep ==
    ASSUME TypeInv, NEW x \in Deleter, LoadForDeletion(x)
    PROVE  \E p \in Pub :
             /\ TypeInv' /\ OtherDels(x) /\ pub' = pub /\ job' = job
             /\ del[x].pc = "idle" /\ del'[x].pc = "count" /\ del'[x].next = 1
             /\ del'[x].manifest = pub[p].manifest
             /\ dying' = dying \cup {p} /\ undercount \subseteq undercount'
             /\ p \in dying \/ At(p, "index") => undercount' = undercount \cup Hashes(pub[p].manifest)
  <1>1. PICK p \in Pub :
          /\ Exists(p)
          /\ del' = [del EXCEPT ![x] = [pc |-> "count", pub |-> p, zip |-> pub[p].zip, raw |-> pub[p].raw,
                                        manifest |-> pub[p].manifest, next |-> 1]]
          /\ undercount' = undercount \cup
                 IF p \in dying \/ At(p, "index") THEN Hashes(pub[p].manifest) ELSE {}
          /\ dying' = dying \cup {p}
    BY DEF LoadForDeletion
  <1> DEFINE d == [pc |-> "count", pub |-> p, zip |-> pub[p].zip, raw |-> pub[p].raw,
                   manifest |-> pub[p].manifest, next |-> 1]
  <1>2. /\ d \in Deletion /\ d.pc = "count" /\ d.pub = p /\ d.zip = pub[p].zip
        /\ d.manifest = pub[p].manifest /\ d.next = 1
    <2>1. pub[p] \in Row /\ pub[p].manifest \in Seq(Key)
      BY Typed
    <2>2. pub[p].zip \in Zip \cup {None} /\ pub[p].raw \in BOOLEAN
      BY <2>1 DEF Row
    <2> QED
      BY <2>1, <2>2 DEF Deletion
  <1>3. del' = [del EXCEPT ![x] = d]
    BY <1>1
  <1> HIDE DEF d
  <1>4. /\ del' \in [Deleter -> Deletion] /\ OtherDels(x) /\ del'[x] = d
        /\ pub' = pub /\ job' = job /\ del[x].pc = "idle"
    BY <1>2, <1>3 DEF TypeInv, TypeOK, OtherDels, LoadForDeletion
  <1>5. undercount' \subseteq Hash /\ dying' \subseteq Pub
    BY <1>1, HashesTyped, Typed DEF TypeInv, TypeOK
  <1>6. TypeOK'
    BY <1>4, <1>5 DEF LoadForDeletion, TypeInv, TypeOK
  <1>7. PubShape'
    <2> SUFFICES ASSUME NEW q \in Pub PROVE PubOk(q)'
      BY DEF PubShape
    <2>1. PubOk(q) /\ pub'[q] = pub[q] /\ job'[q] = job[q] /\ dying \subseteq dying'
      BY <1>1, <1>4 DEF TypeInv, PubShape
    <2>2. pub[q].state = "none" => q \notin dying'
      BY <1>1, <2>1 DEF PubOk, Exists
    <2> QED
      BY <2>1, <2>2 DEF PubOk, At, Exists, More
  <1>8. DelShape'
    <2> SUFFICES ASSUME NEW y \in Deleter PROVE DelOk(y)'
      BY DEF DelShape
    <2>1. CASE y = x
      BY <1>1, <1>2, <1>4, <2>1 DEF DelOk
    <2>2. CASE y # x
      <3>1. DelOk(y) /\ del'[y] = del[y] /\ dying \subseteq dying'
        BY <1>1, <1>4, <2>2 DEF TypeInv, DelShape, OtherDels
      <3> QED
        BY <1>4, <3>1 DEF DelOk
    <2> QED
      BY <2>1, <2>2
  <1> QED
    BY <1>1, <1>2, <1>4, <1>6, <1>7, <1>8 DEF TypeInv

OtherBlobs(h) == \A g \in Hash : g # h => blob'[g] = blob[g]

LEMMA DiscountStep ==
    ASSUME TypeInv, NEW x \in Deleter, Discount(x)
    PROVE  /\ DelStepped(x) /\ del[x].pc = "entry"
           /\ Held(x) \in Key /\ HashOf[Held(x)] \in Hash /\ del[x].next \in DOMAIN del[x].manifest
           /\ del'[x].manifest = del[x].manifest
           /\ del'[x].pub = del[x].pub /\ del'[x].zip = del[x].zip
           /\ \/ /\ blob[HashOf[Held(x)]].key = Held(x) /\ OtherBlobs(HashOf[Held(x)])
                 /\ blob'[HashOf[Held(x)]].key = Held(x)
                 /\ blob'[HashOf[Held(x)]].refs = blob[HashOf[Held(x)]].refs - 1
                 /\ \/ del'[x].pc = "object" /\ del'[x].next = del[x].next
                    \/ /\ del'[x].pc = "entry" /\ del'[x].next = del[x].next + 1
                       /\ blob[HashOf[Held(x)]].refs - 1 > 0
              \/ /\ blob[HashOf[Held(x)]].key # Held(x) /\ blob' = blob
                 /\ del'[x].pc = "entry" /\ del'[x].next = del[x].next + 1
  <1> DEFINE k == Held(x)
             h == HashOf[k]
             r == blob[h].refs - 1
  <1>1. /\ del[x].pc = "entry" /\ del[x].next \in DOMAIN del[x].manifest /\ pub' = pub /\ job' = job
        /\ del[x].next \in Nat
        /\ DelOk(x) /\ dying' = dying /\ k \in Key /\ h \in Hash
    BY TypedDel DEF Discount, Releasing, TypeInv, DelShape, history
  <1>2. r \in Int
    BY <1>1, BlobTyped
  <1>3. \/ /\ blob[h].key = k /\ blob' = [blob EXCEPT ![h].refs = @ - 1]
           /\ \/ Last(r) /\ del' = [del EXCEPT ![x].pc = "object"]
              \/ ~Last(r) /\ del' = [del EXCEPT ![x].pc = "entry", ![x].next = del[x].next + 1]
        \/ /\ blob[h].key # k /\ blob' = blob
           /\ del' = [del EXCEPT ![x].pc = "entry", ![x].next = del[x].next + 1]
    <2>0. del[x] \in Deletion /\ del \in [Deleter -> Deletion]
      BY DEF TypeInv, TypeOK
    <2>1. CASE blob[h].key = k /\ Last(r)
      <3>1. /\ blob' = [blob EXCEPT ![h].refs = @ - 1]
            /\ del' = [del EXCEPT ![x].pc = "object", ![x].next = del[x].next]
        BY <2>1 DEF Discount
      <3> DEFINE d == [del[x] EXCEPT !.pc = "object"]
                 e == [del[x] EXCEPT !.pc = "object", !.next = del[x].next]
      <3>2. d = e
        BY <2>0 DEF Deletion
      <3>3. [del EXCEPT ![x].pc = "object"] = [del EXCEPT ![x] = d]
        OBVIOUS
      <3>4. [del EXCEPT ![x].pc = "object", ![x].next = del[x].next] = [del EXCEPT ![x] = e]
        BY <1>1, <2>0
      <3> HIDE DEF d, e
      <3> QED
        BY <2>1, <3>1, <3>2, <3>3, <3>4
    <2>2. CASE blob[h].key = k /\ ~Last(r)
      <3>1. /\ blob' = [blob EXCEPT ![h].refs = @ - 1]
            /\ del' = [del EXCEPT ![x].pc = del[x].pc, ![x].next = del[x].next + 1]
        BY <2>2 DEF Discount
      <3> QED
        BY <1>1, <2>2, <3>1
    <2>3. CASE blob[h].key # k
      <3>1. blob' = blob /\ del' = [del EXCEPT ![x].next = del[x].next + 1]
        BY <2>3 DEF Discount
      <3> DEFINE n == del[x].next + 1
                 d == [del[x] EXCEPT !.next = n]
                 e == [del[x] EXCEPT !.pc = "entry", !.next = n]
      <3>2. d = e
        <4> HIDE DEF n
        <4> QED
          BY <1>1, <2>0 DEF Deletion
      <3>3. [del EXCEPT ![x].next = del[x].next + 1] = [del EXCEPT ![x] = d]
        BY <2>0
      <3>4. [del EXCEPT ![x].pc = "entry", ![x].next = del[x].next + 1] = [del EXCEPT ![x] = e]
        BY <2>0
      <3> HIDE DEF d, e
      <3> QED
        BY <2>3, <3>1, <3>2, <3>3, <3>4
    <2> QED
      BY <2>1, <2>2, <2>3
  <1>4. /\ del' \in [Deleter -> Deletion] /\ OtherDels(x)
        /\ del'[x].manifest = del[x].manifest
        /\ del'[x].pub = del[x].pub /\ del'[x].zip = del[x].zip
        /\ \/ Last(r) /\ del'[x].pc = "object" /\ del'[x].next = del[x].next
           \/ del'[x].pc = "entry" /\ del'[x].next = del[x].next + 1
        /\ blob[h].key = k /\ ~Last(r) => del'[x].pc = "entry" /\ del'[x].next = del[x].next + 1
        /\ blob[h].key # k => del'[x].pc = "entry" /\ del'[x].next = del[x].next + 1
    <2> HIDE DEF r
    <2>1. CASE blob[h].key = k /\ Last(r) /\ del' = [del EXCEPT ![x].pc = "object"]
      BY <2>1, DelGoes DEF DelStep
    <2>2. CASE /\ ~(blob[h].key = k /\ Last(r))
               /\ del' = [del EXCEPT ![x].pc = "entry", ![x].next = del[x].next + 1]
      BY <2>2, DelNext DEF DelStep
    <2> QED
      BY <1>3, <2>1, <2>2
  <1>5. ASSUME blob[h].key = k
        PROVE  /\ blob' \in [Hash -> BlobRow] /\ OtherBlobs(h)
               /\ blob'[h].key = k /\ blob'[h].refs = r
    <2>1. blob[h] \in [key : Key, refs : Int] /\ blob \in [Hash -> BlobRow]
      BY <1>1, <1>5, BlobTyped DEF TypeInv, TypeOK, BlobRow
    <2>2. blob' = [blob EXCEPT ![h].refs = r]
      BY <1>3, <1>5
    <2> DEFINE b == [blob[h] EXCEPT !.refs = r]
    <2>3. b \in [key : Key, refs : Int] /\ b.key = k /\ b.refs = r
      <3> HIDE DEF r
      <3> QED
        BY <1>2, <1>5, <2>1
    <2>4. blob' = [blob EXCEPT ![h] = b]
      BY <2>2
    <2> HIDE DEF b
    <2> QED
      BY <1>1, <2>1, <2>3, <2>4 DEF OtherBlobs, BlobRow
  <1>6. blob' \in [Hash -> BlobRow]
    BY <1>3, <1>5 DEF TypeInv, TypeOK, BlobRow
  <1> HIDE DEF r, h, k
  <1>7. DelOk(x)'
    BY <1>1, <1>4 DEF DelOk
  <1>8. TypeInv'
    BY <1>1, <1>4, <1>6, <1>7, DelStepTyped DEF Discount, history, TypeInv, TypeOK, BlobRow
  <1>9. ~Last(r) => r > 0
    BY <1>2 DEF Last
  <1>10. \/ /\ blob[h].key = k /\ OtherBlobs(h) /\ blob'[h].key = k /\ blob'[h].refs = r
            /\ \/ del'[x].pc = "object" /\ del'[x].next = del[x].next
               \/ del'[x].pc = "entry" /\ del'[x].next = del[x].next + 1 /\ r > 0
         \/ /\ blob[h].key # k /\ blob' = blob
            /\ del'[x].pc = "entry" /\ del'[x].next = del[x].next + 1
    <2>1. CASE blob[h].key = k
      <3>1. OtherBlobs(h) /\ blob'[h].key = k /\ blob'[h].refs = r
        BY <1>5, <2>1
      <3>2. CASE Last(r) /\ del'[x].pc = "object" /\ del'[x].next = del[x].next
        BY <2>1, <3>1, <3>2
      <3>3. CASE ~Last(r)
        BY <1>4, <1>9, <2>1, <3>1, <3>3
      <3>4. Last(r) => del'[x].pc = "object" /\ del'[x].next = del[x].next
        <4>1. Last(r) => del' = [del EXCEPT ![x].pc = "object"]
          BY <1>3, <2>1
        <4> QED
          BY <4>1, DelGoes DEF DelStep
      <3> QED
        BY <3>2, <3>3, <3>4
    <2>2. CASE blob[h].key # k
      BY <1>3, <1>4, <2>2
    <2> QED
      BY <2>1, <2>2
  <1>11. /\ DelStepped(x) /\ del[x].pc = "entry" /\ k \in Key /\ h \in Hash
         /\ del[x].next \in DOMAIN del[x].manifest /\ del'[x].manifest = del[x].manifest
         /\ del'[x].pub = del[x].pub /\ del'[x].zip = del[x].zip
    BY <1>1, <1>4, <1>8 DEF DelStepped
  <1> QED
    BY <1>10, <1>11 DEF r, h, k

LEMMA RemoveObjectStep ==
    ASSUME TypeInv, NEW x \in Deleter, RemoveObject(x)
    PROVE  /\ DelStepped(x) /\ del[x].pc = "object" /\ del'[x].pc = "row"
           /\ Held(x) \in Key /\ HashOf[Held(x)] \in Hash
           /\ del'[x].manifest = del[x].manifest /\ del'[x].next = del[x].next
           /\ undercount' = undercount \cup
                 (IF InFlight(Held(x)) \/ ~Last(blob[HashOf[Held(x)]].refs) THEN {HashOf[Held(x)]} ELSE {})
           /\ \/ store' = store \ {Held(x)} /\ stray' = stray
              \/ store' = store /\ stray' = stray \cup {HashOf[Held(x)]}
  <1>1. /\ del[x].pc = "object" /\ pub' = pub /\ job' = job /\ dying' = dying /\ DelOk(x)
        /\ Held(x) \in Key /\ HashOf[Held(x)] \in Hash
    BY TypedDel DEF RemoveObject, TypeInv, DelShape
  <1>2. /\ del' \in [Deleter -> Deletion] /\ OtherDels(x)
        /\ del'[x].pc = "row" /\ del'[x].pub = del[x].pub /\ del'[x].zip = del[x].zip
        /\ del'[x].manifest = del[x].manifest /\ del'[x].next = del[x].next
    BY DelGoes DEF RemoveObject, DelStep
  <1>3. undercount' = undercount \cup
            (IF InFlight(Held(x)) \/ ~Last(blob[HashOf[Held(x)]].refs) THEN {HashOf[Held(x)]} ELSE {})
    BY DEF RemoveObject
  <1>4. \/ store' = store \ {Held(x)} /\ stray' = stray /\ faults' = faults
        \/ store' = store /\ stray' = stray \cup {HashOf[Held(x)]} /\ Fault
    BY DEF RemoveObject
  <1>5. DelOk(x)'
    BY <1>1, <1>2 DEF DelOk
  <1>6. /\ faults' \in 0..MaxFaults /\ undercount' \subseteq Hash
        /\ store' \subseteq Key /\ stray' \subseteq Hash
    BY <1>1, <1>3, <1>4, BlobAssumption DEF Fault, TypeInv, TypeOK
  <1>7. TypeInv'
    BY <1>1, <1>2, <1>5, <1>6, DelStepTyped DEF RemoveObject, TypeInv, TypeOK
  <1> QED
    BY <1>1, <1>2, <1>3, <1>4, <1>7 DEF DelStepped

LEMMA RemoveRowStep ==
    ASSUME TypeInv, NEW x \in Deleter, RemoveRow(x)
    PROVE  /\ DelStepped(x) /\ del[x].pc = "row" /\ del'[x].pc = "entry"
           /\ Held(x) \in Key /\ HashOf[Held(x)] \in Hash
           /\ del'[x].manifest = del[x].manifest /\ del'[x].next = del[x].next + 1
           /\ blob'[HashOf[Held(x)]] = NoBlob /\ OtherBlobs(HashOf[Held(x)])
           /\ ~Last(blob[HashOf[Held(x)]].refs) => HashOf[Held(x)] \in undercount'
           /\ undercount \subseteq undercount' /\ stray \subseteq stray'
  <1> DEFINE h == HashOf[Held(x)]
  <1>1. /\ del[x].pc = "row" /\ pub' = pub /\ job' = job /\ dying' = dying /\ DelOk(x)
        /\ Held(x) \in Key /\ h \in Hash /\ del[x].next \in Nat
    BY TypedDel DEF RemoveRow, TypeInv, DelShape
  <1>2. /\ del' \in [Deleter -> Deletion] /\ OtherDels(x)
        /\ del'[x].pc = "entry" /\ del'[x].pub = del[x].pub /\ del'[x].zip = del[x].zip
        /\ del'[x].manifest = del[x].manifest /\ del'[x].next = del[x].next + 1
    <2>1. del' = [del EXCEPT ![x].pc = "entry", ![x].next = del[x].next + 1]
      BY DEF RemoveRow
    <2> QED
      BY <2>1, DelNext DEF DelStep
  <1>3. /\ blob' = [blob EXCEPT ![h] = NoBlob]
        /\ undercount' = undercount \cup (IF Last(blob[h].refs) THEN {} ELSE {h})
        /\ stray' = stray \cup (IF Last(blob[h].refs) THEN {} ELSE {h})
    BY DEF RemoveRow
  <1> HIDE DEF h
  <1>4. blob' \in [Hash -> BlobRow] /\ blob'[h] = NoBlob /\ OtherBlobs(h)
    BY <1>1, <1>3 DEF TypeInv, TypeOK, BlobRow, OtherBlobs
  <1>5. undercount' \subseteq Hash /\ stray' \subseteq Hash
    BY <1>1, <1>3 DEF TypeInv, TypeOK
  <1>6. DelOk(x)'
    BY <1>1, <1>2 DEF DelOk
  <1>7. TypeInv'
    BY <1>1, <1>2, <1>4, <1>5, <1>6, DelStepTyped DEF RemoveRow, TypeInv, TypeOK, BlobRow
  <1>8. /\ ~Last(blob[h].refs) => h \in undercount'
        /\ undercount \subseteq undercount' /\ stray \subseteq stray'
    BY <1>3
  <1> QED
    BY <1>1, <1>2, <1>4, <1>7, <1>8 DEF DelStepped, h

LEMMA DeleteRowStep ==
    ASSUME TypeInv, NEW x \in Deleter, DeleteRow(x)
    PROVE  /\ TypeInv' /\ OtherDels(x) /\ job' = job /\ ZipsKept
           /\ del[x].pc = "entry" /\ del[x].next \notin DOMAIN del[x].manifest
           /\ del'[x].pc = "idle" /\ del'[x].manifest = << >>
           /\ del[x].pub \in Pub /\ del[x].pub \in dying /\ OtherPubs(del[x].pub)
           /\ pub'[del[x].pub].state = "gone" /\ pub'[del[x].pub].manifest = << >>
  <1>0. PICK p \in Pub : p = del[x].pub
    <2>1. del[x].pc # "idle"
      BY DEF DeleteRow
    <2> QED
      BY <2>1, TypedDel
  <1> DEFINE w == [pub[p] EXCEPT !.state = "gone", !.manifest = << >>]
  <1>1. /\ del[x].pc = "entry" /\ del[x].next \notin DOMAIN del[x].manifest
        /\ p \in Pub /\ p \in dying /\ job' = job /\ dying' = dying
    BY <1>0, TypedDel DEF DeleteRow, Releasing, history
  <1>2. PubOk(p) /\ pub[p] \in Row /\ pub \in [Pub -> Row]
    BY <1>1 DEF TypeInv, TypeOK, PubShape
  <1>3. w \in Row /\ w.state = "gone" /\ w.manifest = << >> /\ w.zip = pub[p].zip
    <2>1. << >> \in Seq(Key)
      OBVIOUS
    <2> QED
      BY <1>2, <2>1 DEF Row
  <1>4. pub' = [pub EXCEPT ![p] = w]
    BY <1>0, <1>2 DEF DeleteRow
  <1>5. del' = [del EXCEPT ![x] = NoDeletion]
    BY DEF DeleteRow
  <1>6. /\ NoDeletion \in Deletion /\ NoDeletion.pc = "idle" /\ NoDeletion.next = 1
        /\ NoDeletion.manifest = << >>
    BY DEF NoDeletion, Deletion
  <1> HIDE DEF w
  <1>7. pub' \in [Pub -> Row] /\ OtherPubs(p) /\ pub'[p] = w
    BY <1>1, <1>2, <1>3, <1>4 DEF OtherPubs
  <1>8. del' \in [Deleter -> Deletion] /\ OtherDels(x) /\ del'[x] = NoDeletion
    BY <1>5, <1>6 DEF TypeInv, TypeOK, OtherDels
  <1>9. OtherJobs(p) /\ job' \in [Pub -> Job] /\ ZipsKept /\ pub[p].state # "none"
    BY <1>1, <1>2, <1>3, <1>7 DEF OtherJobs, TypeInv, TypeOK, ZipsKept, OtherPubs, PubOk
  <1>10. PubOk(p)'
    <2>1. /\ pub'[p].state = "gone" /\ pub'[p].manifest = << >> /\ pub'[p].zip = pub[p].zip
          /\ job'[p] = job[p] /\ pub[p].zip \in Zip
      BY <1>1, <1>2, <1>3, <1>7, <1>9 DEF PubOk
    <2> QED
      BY <1>1, <1>2, <2>1 DEF PubOk, At, Exists, More
  <1>11. PubShape'
    <2> QED
      BY <1>1, <1>7, <1>9, <1>10, PubShapeKept
  <1>12. DelShape'
    <2> SUFFICES ASSUME NEW y \in Deleter PROVE DelOk(y)'
      BY DEF DelShape
    <2>1. CASE y = x
      BY <1>6, <1>8, <2>1 DEF DelOk
    <2>2. CASE y # x
      <3>1. DelOk(y) /\ del'[y] = del[y]
        BY <1>8, <2>2 DEF TypeInv, DelShape, OtherDels
      <3>2. del[y].pc # "idle" => pub'[del[y].pub].zip = pub[del[y].pub].zip
        <4>1. del[y].pc # "idle" => del[y].pub \in dying /\ del[y].pub \in Pub
          BY TypedDel
        <4>2. del[y].pc # "idle" => pub[del[y].pub].state # "none"
          BY <4>1 DEF TypeInv, PubShape, PubOk
        <4> QED
          BY <1>9, <4>1, <4>2 DEF ZipsKept
      <3> QED
        BY <1>1, <3>1, <3>2 DEF DelOk
    <2> QED
      BY <2>1, <2>2
  <1>13. TypeOK'
    BY <1>1, <1>7, <1>8, <1>9 DEF DeleteRow, history, TypeInv, TypeOK
  <1> QED
    BY <1>0, <1>1, <1>3, <1>6, <1>7, <1>8, <1>9, <1>11, <1>12, <1>13 DEF TypeInv

LEMMA CrashStep ==
    ASSUME TypeInv, Crash
    PROVE  /\ TypeInv' /\ pub' = pub /\ dying' = dying /\ late' = late
           /\ raw' = raw /\ store' = store /\ blob' = blob
           /\ \A p \in Pub : job'[p].pc = "idle"
           /\ \A x \in Deleter : del'[x].pc = "idle" /\ del'[x].manifest = << >>
           /\ undercount \subseteq undercount' /\ stray \subseteq stray'
           /\ \A p \in Pub : At(p, "index") => Hashes(job[p].manifest) \subseteq undercount'
           /\ \A p \in Pub : Hashes(job[p].manifest) \subseteq stray'
           /\ \A x \in Deleter : Hashes(del[x].manifest) \subseteq stray'
  <1>1. /\ NoDeletion \in Deletion /\ NoDeletion.pc = "idle" /\ NoDeletion.next = 1
        /\ NoDeletion.manifest = << >>
    BY DEF NoDeletion, Deletion
  <1>2. job' \in [Pub -> Job] /\ \A p \in Pub : job'[p] = NoJob
    BY NoJobTyped DEF Crash
  <1>3. del' \in [Deleter -> Deletion] /\ \A x \in Deleter : del'[x] = NoDeletion
    BY <1>1 DEF Crash
  <1>4. /\ pub' = pub /\ dying' = dying /\ raw' = raw /\ store' = store /\ blob' = blob /\ late' = late
    BY DEF Crash
  <1>5. /\ \A p \in Pub : Hashes(job[p].manifest) \subseteq Hash
        /\ \A x \in Deleter : Hashes(del[x].manifest) \subseteq Hash
    BY HashesTyped, Typed, TypedDel
  <1> DEFINE lost == UNION {Hashes(job[p].manifest) : p \in {p \in Pub : At(p, "index")}}
             jobs == UNION {Hashes(job[p].manifest) : p \in Pub}
             dels == UNION {Hashes(del[x].manifest) : x \in Deleter}
  <1>12. lost \subseteq Hash /\ jobs \subseteq Hash /\ dels \subseteq Hash
    BY <1>5, Zenon
  <1>13. /\ undercount' = undercount \cup lost
         /\ stray' = (stray \cup jobs) \cup dels
    <2>1. undercount' = undercount \cup lost
      BY DEF Crash
    <2>2. stray' = (stray \cup jobs) \cup dels
      BY DEF Crash
    <2> QED
      BY <2>1, <2>2
  <1>14. /\ \A p \in Pub : At(p, "index") => Hashes(job[p].manifest) \subseteq lost
         /\ \A p \in Pub : Hashes(job[p].manifest) \subseteq jobs
         /\ \A x \in Deleter : Hashes(del[x].manifest) \subseteq dels
    BY Zenon
  <1> HIDE DEF lost, jobs, dels
  <1>6. undercount' \subseteq Hash /\ stray' \subseteq Hash
    BY <1>12, <1>13 DEF TypeInv, TypeOK
  <1>7. faults' \in 0..MaxFaults
    BY BlobAssumption DEF Crash, Fault, TypeInv, TypeOK
  <1>8. TypeOK'
    BY <1>2, <1>3, <1>4, <1>6, <1>7 DEF Crash, TypeInv, TypeOK
  <1>9. PubShape'
    <2> SUFFICES ASSUME NEW p \in Pub PROVE PubOk(p)'
      BY DEF PubShape
    <2>1. PubOk(p)
      BY DEF TypeInv, PubShape
    <2> QED
      BY <1>2, <1>4, <2>1, NoJobTyped DEF PubOk, At, Exists
  <1>10. DelShape'
    BY <1>1, <1>3 DEF DelShape, DelOk
  <1>11. /\ undercount \subseteq undercount' /\ stray \subseteq stray'
         /\ \A p \in Pub : At(p, "index") => Hashes(job[p].manifest) \subseteq undercount'
         /\ \A p \in Pub : Hashes(job[p].manifest) \subseteq stray'
         /\ \A x \in Deleter : Hashes(del[x].manifest) \subseteq stray'
    BY <1>13, <1>14
  <1> QED
    BY <1>1, <1>2, <1>3, <1>4, <1>8, <1>9, <1>10, <1>11, NoJobTyped DEF TypeInv


\* Every step keeps the type invariant.
LEMMA NextTypeInv == ASSUME TypeInv, [Next]_vars PROVE TypeInv'
  <1>1. ASSUME NEW p \in Pub,
               \/ CreatePub(p) \/ HeadRaw(p) \/ PutRaw(p) \/ SaveUpload(p) \/ CopyManifest(p)
               \/ BeginExtraction(p) \/ FailExtraction(p) \/ FetchZip(p)
               \/ CheckEntry(p) \/ PutEntry(p) \/ SkipEntry(p) \/ SaveManifest(p) \/ Index(p)
        PROVE  TypeInv'
    <2>1. Stepped(p)
      BY <1>1, CreatePubStep, HeadRawStep, PutRawStep, SaveUploadStep, CopyManifestStep,
         BeginExtractionStep, FailExtractionStep, FetchZipStep, CheckEntryStep, PutEntryStep,
         SkipEntryStep, SaveManifestStep, IndexStep
    <2> QED
      BY <2>1 DEF Stepped
  <1>2. ASSUME NEW x \in Deleter,
               \/ LoadForDeletion(x) \/ CountOthers(x) \/ DeleteRaw(x)
               \/ Discount(x) \/ RemoveObject(x) \/ RemoveRow(x) \/ DeleteRow(x)
        PROVE  TypeInv'
    BY <1>2, LoadStep, CountOthersStep, DeleteRawStep, DiscountStep, RemoveObjectStep,
       RemoveRowStep, DeleteRowStep DEF DelStepped
  <1>3. CASE Crash
    BY <1>3, CrashStep
  <1>4. CASE UNCHANGED vars
    BY <1>4 DEF vars, history, TypeInv, TypeOK, PubShape, DelShape, PubOk, DelOk, At, Exists, More
  <1> QED
    BY <1>1, <1>2, <1>3, <1>4 DEF Next

\* What every step keeps true of the state is an invariant.
THEOREM TypeCorrect == Spec => []TypeOK
  <1>1. TypeInv => TypeOK
    BY DEF TypeInv
  <1> QED
    BY <1>1, InitTypeInv, NextTypeInv, PTL DEF Spec

-----------------------------------------------------------------------------
(* The raw bucket                                                          *)

\* A step that takes no zip away, creates no publication and brings no deletion
\* to the removal of a zip.
LEMMA RawKept ==
    ASSUME TypeInv, RawInv, ZipsKept, raw \subseteq raw', late \subseteq late', dying \subseteq dying',
           \A p \in Pub : Exists(p)' => Exists(p),
           \A p \in Pub : Exists(p)' /\ pub'[p].raw => pub[p].raw \/ At(p, "save"),
           \A p \in Pub : At(p, "save")' => At(p, "save") \/ pub[p].zip \in raw',
           \A x \in Deleter : del'[x].pc = "raw" =>
               del[x].pc = "raw" /\ del'[x].pub = del[x].pub /\ del'[x].zip = del[x].zip
    PROVE  RawInv'
  <1>1. \A p \in Pub : Exists(p)' => Exists(p) /\ pub'[p].zip = pub[p].zip
    BY DEF ZipsKept, Exists
  <1>2. RawThere'
    BY <1>1 DEF RawInv, RawThere
  <1>3. ASSUME NEW p \in Pub \ dying', At(p, "save")', Exists(p)'
        PROVE  pub'[p].zip \in raw' \cup late'
    BY <1>1, <1>3 DEF RawInv
  <1>4. ASSUME NEW x \in Deleter, del'[x].pc = "raw",
               NEW q \in Pub \ {del'[x].pub}, Exists(q)', pub'[q].zip = del'[x].zip
        PROVE  del'[x].zip \in late'
    BY <1>1, <1>4 DEF RawInv
  <1> QED
    BY <1>2, <1>3, <1>4 DEF RawInv

LEMMA PubRawKept ==
    ASSUME TypeInv, RawInv, NEW p \in Pub, Stepped(p), raw \subseteq raw', late' = late, dying' = dying,
           del' = del, Exists(p)' => Exists(p), pub'[p].raw => pub[p].raw \/ At(p, "save"),
           job'[p].pc = "save" => pub[p].zip \in raw'
    PROVE  RawInv'
  <1>1. \A q \in Pub : q # p => pub'[q] = pub[q] /\ job'[q] = job[q]
    BY DEF Stepped, OtherPubs, OtherJobs
  <1> QED
    BY <1>1, RawKept DEF Stepped, Exists, At

LEMMA CreatePubRaw ==
    ASSUME TypeInv, RawInv, NEW p \in Pub, CreatePub(p)
    PROVE  RawInv'
  <1>1. PICK z \in Zip :
          /\ pub' = [pub EXCEPT ![p] = [NoPub("created") EXCEPT !.zip = z]]
          /\ late' = late \cup IF \E x \in Deleter : del[x].pc = "raw" /\ del[x].zip = z THEN {z} ELSE {}
    BY DEF CreatePub
  <1>2. pub'[p].zip = z
    BY <1>1 DEF TypeInv, TypeOK, NoPub
  <1>3. /\ pub'[p].raw = FALSE /\ job'[p].pc = "head"
        /\ \A q \in Pub : q # p => pub'[q] = pub[q] /\ job'[q] = job[q]
    BY CreatePubStep DEF Stepped, OtherPubs, OtherJobs
  <1>4. raw' = raw /\ del' = del /\ dying' = dying /\ late \subseteq late'
    BY <1>1 DEF CreatePub
  <1>5. \A x \in Deleter : del[x].pc = "raw" /\ del[x].zip = z => z \in late'
    BY <1>1
  <1>6. RawThere'
    BY <1>3, <1>4 DEF RawInv, RawThere, Exists
  <1>7. \A q \in Pub \ dying' : At(q, "save")' /\ Exists(q)' => pub'[q].zip \in raw' \cup late'
    BY <1>3, <1>4 DEF RawInv, Exists, At
  <1>8. ASSUME NEW x \in Deleter, del'[x].pc = "raw",
               NEW q \in Pub \ {del'[x].pub}, Exists(q)', pub'[q].zip = del'[x].zip
        PROVE  del'[x].zip \in late'
    <2>1. CASE q = p
      BY <1>2, <1>4, <1>5, <1>8, <2>1
    <2>2. CASE q # p
      BY <1>3, <1>4, <1>8, <2>2 DEF RawInv, Exists
    <2> QED
      BY <2>1, <2>2
  <1> QED
    BY <1>6, <1>7, <1>8 DEF RawInv

\* A deletion that found no other publication of the zip; that removes it.
LEMMA CountOthersRaw ==
    ASSUME TypeInv, RawInv, NEW x \in Deleter, CountOthers(x)
    PROVE  RawInv'
  <1>1. /\ pub' = pub /\ job' = job /\ raw' = raw /\ late' = late /\ dying' = dying
    BY DEF CountOthers, history
  <1>2. /\ del'[x].pc = "raw" => Others(del[x].pub, del[x].zip) = {}
        /\ del'[x].pub = del[x].pub /\ del'[x].zip = del[x].zip
        /\ \A y \in Deleter : y # x => del'[y] = del[y]
    BY CountOthersStep DEF DelStepped, OtherDels
  <1>3. ASSUME NEW y \in Deleter, del'[y].pc = "raw",
               NEW q \in Pub \ {del'[y].pub}, Exists(q)', pub'[q].zip = del'[y].zip
        PROVE  del'[y].zip \in late'
    <2>1. CASE y = x
      BY <1>1, <1>2, <1>3, <2>1 DEF Others, Exists
    <2>2. CASE y # x
      BY <1>1, <1>2, <1>3, <2>2 DEF RawInv, Exists
    <2> QED
      BY <2>1, <2>2
  <1> QED
    BY <1>1, <1>3 DEF RawInv, RawThere, Exists, At

LEMMA DeleteRawRaw ==
    ASSUME TypeInv, RawInv, NEW x \in Deleter, DeleteRaw(x)
    PROVE  RawInv'
  <1>1. /\ pub' = pub /\ job' = job /\ late' = late /\ dying' = dying
    BY DEF DeleteRaw, history
  <1>2. /\ raw' \in {raw, raw \ {del[x].zip}} /\ del[x].pc = "raw" /\ del'[x].pc = "entry"
        /\ \A y \in Deleter : y # x => del'[y] = del[y]
        /\ del[x].pub \in dying
    BY DeleteRawStep, TypedDel DEF DelStepped, OtherDels
  <1>3. \A q \in Pub \ dying : Exists(q) /\ pub[q].zip \in raw \cup late => pub[q].zip \in raw' \cup late'
    BY <1>1, <1>2 DEF RawInv
  <1>4. RawThere'
    BY <1>1, <1>3 DEF RawInv, RawThere, Exists
  <1>5. \A q \in Pub \ dying' : At(q, "save")' /\ Exists(q)' => pub'[q].zip \in raw' \cup late'
    BY <1>1, <1>3 DEF RawInv, Exists, At
  <1>6. ASSUME NEW y \in Deleter, del'[y].pc = "raw",
               NEW q \in Pub \ {del'[y].pub}, Exists(q)', pub'[q].zip = del'[y].zip
        PROVE  del'[y].zip \in late'
    BY <1>1, <1>2, <1>6 DEF RawInv, Exists
  <1> QED
    BY <1>4, <1>5, <1>6 DEF RawInv

LEMMA NextRawInv == ASSUME TypeInv, RawInv, [Next]_vars PROVE RawInv'
  <1>1. ASSUME NEW p \in Pub,
               \/ HeadRaw(p) \/ PutRaw(p) \/ SaveUpload(p) \/ CopyManifest(p)
               \/ BeginExtraction(p) \/ FailExtraction(p) \/ FetchZip(p)
               \/ CheckEntry(p) \/ PutEntry(p) \/ SkipEntry(p) \/ SaveManifest(p) \/ Index(p)
        PROVE  RawInv'
    <2>1. late' = late /\ dying' = dying /\ del' = del /\ raw \subseteq raw'
      BY <1>1 DEF HeadRaw, PutRaw, SaveUpload, CopyManifest, BeginExtraction, FailExtraction, FetchZip,
         CheckEntry, PutEntry, SkipEntry, SaveManifest, Index, history
    <2>2. CASE HeadRaw(p)
      <3>1. raw' = raw
        BY <2>2 DEF HeadRaw
      <3> QED
        BY <2>1, <2>2, <3>1, HeadRawStep, PubRawKept DEF Exists
    <2>3. CASE PutRaw(p)
      <3>1. pub[p].zip \in raw'
        BY <2>3 DEF PutRaw
      <3> QED
        BY <2>1, <2>3, <3>1, PutRawStep, PubRawKept DEF Exists
    <2>4. CASE SaveUpload(p)
      BY <2>1, <2>4, SaveUploadStep, PubRawKept DEF At
    <2>5. CASE CopyManifest(p)
      BY <2>1, <2>5, CopyManifestStep, PubRawKept
    <2>6. CASE BeginExtraction(p)
      BY <2>1, <2>6, BeginExtractionStep, PubRawKept
    <2>7. CASE FailExtraction(p)
      BY <2>1, <2>7, FailExtractionStep, PubRawKept
    <2>8. CASE FetchZip(p) \/ CheckEntry(p) \/ PutEntry(p) \/ SkipEntry(p) \/ Index(p)
      <3>1. Stepped(p) /\ pub' = pub /\ job'[p].pc # "save"
        BY <2>8, FetchZipStep, CheckEntryStep, PutEntryStep, SkipEntryStep, IndexStep
      <3> QED
        BY <2>1, <3>1, PubRawKept DEF Exists
    <2>9. CASE SaveManifest(p)
      BY <2>1, <2>9, SaveManifestStep, PubRawKept
    <2> QED
      BY <1>1, <2>2, <2>3, <2>4, <2>5, <2>6, <2>7, <2>8, <2>9
  <1>2. ASSUME NEW x \in Deleter,
               LoadForDeletion(x) \/ Discount(x) \/ RemoveObject(x) \/ RemoveRow(x) \/ DeleteRow(x)
        PROVE  RawInv'
    <2>1. /\ late' = late /\ raw' = raw /\ dying \subseteq dying' /\ job' = job
      BY <1>2 DEF LoadForDeletion, Discount, RemoveObject, RemoveRow, DeleteRow, history
    <2>2. /\ ZipsKept /\ del'[x].pc # "raw"
          /\ \A y \in Deleter : y # x => del'[y] = del[y]
          /\ \A p \in Pub : Exists(p)' => pub'[p] = pub[p]
      <3>1. CASE DeleteRow(x)
        BY <3>1, DeleteRowStep DEF OtherDels, OtherPubs, Exists
      <3>2. CASE LoadForDeletion(x) \/ Discount(x) \/ RemoveObject(x) \/ RemoveRow(x)
        <4>1. pub' = pub /\ OtherDels(x) /\ del'[x].pc # "raw"
          BY <3>2, LoadStep, DiscountStep, RemoveObjectStep, RemoveRowStep DEF DelStepped
        <4> QED
          BY <4>1 DEF ZipsKept, OtherDels
      <3> QED
        BY <1>2, <3>1, <3>2
    <2> QED
      BY <2>1, <2>2, RawKept DEF Exists, At
  <1>3. CASE Crash
    <2>1. late' = late /\ raw' = raw /\ dying' = dying /\ pub' = pub
      BY <1>3 DEF Crash
    <2>2. /\ \A p \in Pub : job'[p].pc = "idle"
          /\ \A x \in Deleter : del'[x].pc = "idle"
      BY <1>3, CrashStep
    <2> QED
      BY <2>1, <2>2, RawKept DEF ZipsKept, Exists, At
  <1>4. CASE UNCHANGED vars
    BY <1>4 DEF vars, history, RawInv, RawThere, Exists, At
  <1> QED
    BY <1>1, <1>2, <1>3, <1>4, CreatePubRaw, CountOthersRaw, DeleteRawRaw DEF Next

LEMMA InitRawInv == Init => RawInv
  BY DEF Init, RawInv, RawThere, Exists, At, NoPub, NoJob, NoDeletion

\* The zip of a publication that no deletion has loaded is in the raw bucket,
\* whatever uploads, extractions and deletions overlap and wherever the process
\* ends, unless a deletion had counted before the zip was uploaded (RawThere).
THEOREM RawZipsThere == Spec => []RawThere
  <1>1. Init => TypeInv /\ RawInv
    BY InitTypeInv, InitRawInv
  <1>2. TypeInv /\ RawInv /\ [Next]_vars => TypeInv' /\ RawInv'
    BY NextTypeInv, NextRawInv
  <1>3. RawInv => RawThere
    BY DEF RawInv
  <1> QED
    BY <1>1, <1>2, <1>3, PTL DEF Spec

-----------------------------------------------------------------------------
(* Counting                                                                *)

LEMMA ColumnSize ==
    ASSUME NEW a, NEW S, IsFiniteSet(S)
    PROVE  IsFiniteSet({a} \X S) /\ Cardinality({a} \X S) = Cardinality(S)
  <1> DEFINE C == {a} \X S
  <1>1. IsFiniteSet({a}) /\ Cardinality({a}) = 1
    BY FS_Singleton
  <1>2. IsFiniteSet(C) /\ Cardinality(C) = Cardinality({a}) * Cardinality(S)
    BY <1>1, FS_Product
  <1>3. Cardinality(S) \in Nat
    BY FS_CardinalityType
  <1> HIDE DEF C
  <1>4. Cardinality(C) = Cardinality(S)
    BY <1>1, <1>2, <1>3
  <1> QED
    BY <1>2, <1>4, Zenon DEF C

LEMMA Column ==
    ASSUME NEW H, NEW a, NEW S, IsFiniteSet(H), IsFiniteSet(S)
    PROVE  /\ IsFiniteSet(H \cup ({a} \X S))
           /\ (\A i \in S : <<a, i>> \notin H) =>
                 Cardinality(H \cup ({a} \X S)) = Cardinality(H) + Cardinality(S)
  <1> DEFINE C == {a} \X S
  <1>2. IsFiniteSet(C) /\ Cardinality(C) = Cardinality(S)
    BY ColumnSize, Zenon
  <1>3. Cardinality(S) \in Nat /\ Cardinality(H) \in Nat
    BY FS_CardinalityType
  <1>5. (\A i \in S : <<a, i>> \notin H) => H \cap C = {}
    OBVIOUS
  <1> HIDE DEF C
  <1>6. IsFiniteSet(H \cup C) /\ Cardinality(H \cup C) = Cardinality(H) + Cardinality(C) - Cardinality(H \cap C)
    BY <1>2, FS_Union
  <1>7. Cardinality({}) = 0
    BY FS_EmptySet
  <1>8. ASSUME \A i \in S : <<a, i>> \notin H
        PROVE  Cardinality(H \cup C) = Cardinality(H) + Cardinality(S)
    <2>1. Cardinality(H \cup C) = Cardinality(H) + Cardinality(C) - 0
      BY <1>5, <1>6, <1>7, <1>8
    <2> QED
      BY <1>2, <1>3, <2>1
  <1> QED
    BY <1>6, <1>8, Zenon DEF C

WithColumn(H, a, S) == H \cup ({a} \X S)

LEMMA ColumnAdded ==
    ASSUME NEW H, NEW a, NEW S, IsFiniteSet(H), IsFiniteSet(S), \A i \in S : <<a, i>> \notin H
    PROVE  Cardinality(WithColumn(H, a, S)) = Cardinality(H) + Cardinality(S)
  BY Column, Zenon DEF WithColumn

LEMMA SequencePositions ==
    ASSUME NEW m \in Seq(Key)
    PROVE  /\ DOMAIN m \subseteq Nat /\ IsFiniteSet(DOMAIN m)
           /\ \A i \in DOMAIN m : i >= 1 /\ m[i] \in Key
           /\ \A h : /\ Places(m, h) \subseteq DOMAIN m /\ IsFiniteSet(Places(m, h))
                     /\ h \notin Hashes(m) => Places(m, h) = {}
  <1>1. DOMAIN m = 1..Len(m) /\ Len(m) \in Nat
    OBVIOUS
  <1>2. IsFiniteSet(DOMAIN m)
    BY <1>1, FS_Interval
  <1>3. DOMAIN m \subseteq Nat /\ \A i \in DOMAIN m : i >= 1 /\ m[i] \in Key
    BY <1>1
  <1>4. ASSUME NEW h
        PROVE  /\ Places(m, h) \subseteq DOMAIN m /\ IsFiniteSet(Places(m, h))
               /\ h \notin Hashes(m) => Places(m, h) = {}
    <2>1. Places(m, h) \subseteq DOMAIN m
      BY DEF Places
    <2>2. IsFiniteSet(Places(m, h))
      BY <1>2, <2>1, FS_Subset
    <2>3. h \notin Hashes(m) => Places(m, h) = {}
      BY Zenon DEF Places, Hashes, Ran
    <2> QED
      BY <2>1, <2>2, <2>3
  <1> QED
    BY <1>2, <1>3, <1>4

LEMMA PositionsTyped ==
    ASSUME TypeInv, NEW h
    PROVE  /\ \A p \in Pub : Owing(p, h) \subseteq Places(pub[p].manifest, h) /\ Owing(p, h) \subseteq Nat
           /\ \A x \in Deleter : Pending(x, h) \subseteq Places(del[x].manifest, h) /\ Pending(x, h) \subseteq Nat
  <1>1. ASSUME NEW p \in Pub
        PROVE  Owing(p, h) \subseteq Places(pub[p].manifest, h) /\ Owing(p, h) \subseteq Nat
    <2>1. Places(pub[p].manifest, h) \subseteq Nat
      BY Typed, SequencePositions
    <2> QED
      BY <2>1 DEF Owing
  <1>2. ASSUME NEW x \in Deleter
        PROVE  Pending(x, h) \subseteq Places(del[x].manifest, h) /\ Pending(x, h) \subseteq Nat
    <2>1. Places(del[x].manifest, h) \subseteq Nat
      BY TypedDel, SequencePositions
    <2> QED
      BY <2>1 DEF Pending
  <1> QED
    BY <1>1, <1>2

LEMMA OwedTyped ==
    ASSUME TypeInv, FiniteInv, NEW h
    PROVE  /\ IsFiniteSet(Holders(h)) /\ IsFiniteSet(Releases(h))
           /\ Cardinality(Holders(h)) \in Nat /\ Cardinality(Releases(h)) \in Nat
           /\ Owed(h) \in Nat
  <1>1. Holders(h) \subseteq Filed
    BY PositionsTyped DEF Holders, Filed, Places
  <1>2. Releases(h) \subseteq Freed
    BY PositionsTyped DEF Releases, Freed, Places
  <1>3. IsFiniteSet(Holders(h)) /\ IsFiniteSet(Releases(h))
    BY <1>1, <1>2, FS_Subset DEF FiniteInv
  <1>4. Cardinality(Holders(h)) \in Nat /\ Cardinality(Releases(h)) \in Nat
    BY <1>3, FS_CardinalityType
  <1> QED
    BY <1>3, <1>4 DEF Owed

\* Nothing is owed only where nothing is listed or to be discounted.
LEMMA NothingOwed ==
    ASSUME TypeInv, FiniteInv, NEW h, Owed(h) <= 0
    PROVE  /\ \A p \in Pub : Owing(p, h) = {}
           /\ \A x \in Deleter : Pending(x, h) = {}
  <1>1. Cardinality(Holders(h)) = 0 /\ Cardinality(Releases(h)) = 0
    BY OwedTyped DEF Owed
  <1>2. Holders(h) = {} /\ Releases(h) = {}
    BY <1>1, OwedTyped, FS_EmptySet
  <1>3. ASSUME NEW p \in Pub, NEW i \in Owing(p, h) PROVE FALSE
    <2>1. <<p, i>> \in Holders(h)
      BY <1>3, PositionsTyped DEF Holders
    <2> QED
      BY <1>2, <2>1
  <1>4. ASSUME NEW x \in Deleter, NEW i \in Pending(x, h) PROVE FALSE
    <2>1. <<x, i>> \in Releases(h)
      BY <1>4, PositionsTyped DEF Releases
    <2> QED
      BY <1>2, <2>1
  <1> QED
    BY <1>3, <1>4

\* What is listed by a publication alone is part of what is owed.
LEMMA OwingOwed ==
    ASSUME TypeInv, FiniteInv, NEW h, NEW p \in Pub
    PROVE  Cardinality(Owing(p, h)) <= Owed(h) /\ IsFiniteSet(Owing(p, h)) /\ Cardinality(Owing(p, h)) \in Nat
  <1>1. IsFiniteSet(Owing(p, h))
    <2>1. IsFiniteSet(Places(pub[p].manifest, h)) /\ Owing(p, h) \subseteq Places(pub[p].manifest, h)
      BY Typed, SequencePositions, PositionsTyped
    <2> QED
      BY <2>1, FS_Subset
  <1> DEFINE C == {p} \X Owing(p, h)
  <1>2. C \subseteq Holders(h)
    BY PositionsTyped DEF Holders
  <1>4. Cardinality(C) = Cardinality(Owing(p, h))
    BY <1>1, ColumnSize, Zenon
  <1> HIDE DEF C
  <1>5. Cardinality(C) <= Cardinality(Holders(h))
    BY <1>2, OwedTyped, FS_Subset
  <1> QED
    BY <1>1, <1>4, <1>5, OwedTyped, FS_CardinalityType DEF Owed

-----------------------------------------------------------------------------
(* What steps do to what is owed                                           *)

\* Nothing more is owed of h; nothing that is owed of h changes.
Fewer(h) ==
    /\ \A p \in Pub : Owing(p, h)' \subseteq Owing(p, h)
    /\ \A x \in Deleter : Pending(x, h)' \subseteq Pending(x, h)
Still(h) ==
    /\ \A p \in Pub : /\ Owing(p, h)' = Owing(p, h)
                      /\ \A i \in Owing(p, h) : pub'[p].manifest[i] = pub[p].manifest[i]
    /\ \A x \in Deleter : /\ Pending(x, h)' = Pending(x, h)
                          /\ \A i \in Pending(x, h) : del'[x].manifest[i] = del[x].manifest[i]

LEMMA FewerOwed ==
    ASSUME TypeInv, TypeInv', FiniteInv, FiniteInv', NEW h, Fewer(h)
    PROVE  Owed(h)' <= Owed(h)
  <1>1. Holders(h)' \subseteq Holders(h)
    BY DEF Fewer, Holders
  <1>2. Releases(h)' \subseteq Releases(h)
    BY DEF Fewer, Releases
  <1>3. /\ IsFiniteSet(Holders(h)) /\ IsFiniteSet(Releases(h))
        /\ Cardinality(Holders(h)) \in Nat /\ Cardinality(Releases(h)) \in Nat
    BY OwedTyped
  <1> DEFINE H == Holders(h)'
             R == Releases(h)'
  <1>4. Owed(h)' = Cardinality(H) + Cardinality(R)
    BY DEF Owed
  <1> HIDE DEF H, R
  <1>5. H \subseteq Holders(h) /\ R \subseteq Releases(h)
    BY <1>1, <1>2 DEF H, R
  <1>6. Cardinality(H) <= Cardinality(Holders(h)) /\ IsFiniteSet(H)
    BY <1>3, <1>5, FS_Subset
  <1>7. Cardinality(R) <= Cardinality(Releases(h)) /\ IsFiniteSet(R)
    BY <1>3, <1>5, FS_Subset
  <1>8. Cardinality(H) \in Nat /\ Cardinality(R) \in Nat
    BY <1>6, <1>7, FS_CardinalityType
  <1> QED
    BY <1>3, <1>4, <1>6, <1>7, <1>8 DEF Owed

LEMMA StillOwed ==
    ASSUME NEW h, Still(h)
    PROVE  /\ Fewer(h) /\ Owed(h)' = Owed(h)
           /\ Agreed(h) /\ blob'[h].key = blob[h].key => Agreed(h)'
  <1>1. Holders(h)' = Holders(h)
    BY DEF Still, Holders
  <1>2. Releases(h)' = Releases(h)
    BY DEF Still, Releases
  <1>3. Owed(h)' = Owed(h)
    BY <1>1, <1>2 DEF Owed
  <1>4. Fewer(h)
    BY DEF Still, Fewer
  <1>5. Agreed(h) /\ blob'[h].key = blob[h].key => Agreed(h)'
    BY DEF Still, Agreed
  <1> QED
    BY <1>3, <1>4, <1>5

\* Of the publication, or the deletion, of a step.
LEMMA PubStill ==
    ASSUME NEW p \in Pub, NEW h, OtherPubs(p), OtherJobs(p), del' = del, dying' = dying,
           Owing(p, h)' = Owing(p, h), Owing(p, h) = {} \/ pub'[p].manifest = pub[p].manifest
    PROVE  Still(h)
  <1>1. ASSUME NEW q \in Pub
        PROVE  /\ Owing(q, h)' = Owing(q, h)
               /\ \A i \in Owing(q, h) : pub'[q].manifest[i] = pub[q].manifest[i]
    <2>1. CASE q = p
      BY <2>1
    <2>2. CASE q # p
      BY <2>2 DEF OtherPubs, OtherJobs, Owing, At
    <2> QED
      BY <2>1, <2>2
  <1>2. \A x \in Deleter : Pending(x, h)' = Pending(x, h)
    BY DEF Pending
  <1> QED
    BY <1>1, <1>2 DEF Still

LEMMA PubFewer ==
    ASSUME NEW p \in Pub, NEW h, OtherPubs(p), OtherJobs(p), del' = del, dying' = dying,
           Owing(p, h)' \subseteq Owing(p, h)
    PROVE  Fewer(h)
  <1>1. ASSUME NEW q \in Pub PROVE Owing(q, h)' \subseteq Owing(q, h)
    <2>1. CASE q = p
      BY <2>1
    <2>2. CASE q # p
      BY <2>2 DEF OtherPubs, OtherJobs, Owing, At
    <2> QED
      BY <2>1, <2>2
  <1>2. \A x \in Deleter : Pending(x, h)' = Pending(x, h)
    BY DEF Pending
  <1> QED
    BY <1>1, <1>2 DEF Fewer

LEMMA DelStill ==
    ASSUME NEW x \in Deleter, NEW h, OtherDels(x), pub' = pub, job' = job, dying' = dying,
           Pending(x, h)' = Pending(x, h), Pending(x, h) = {} \/ del'[x].manifest = del[x].manifest
    PROVE  Still(h)
  <1>1. ASSUME NEW y \in Deleter
        PROVE  /\ Pending(y, h)' = Pending(y, h)
               /\ \A i \in Pending(y, h) : del'[y].manifest[i] = del[y].manifest[i]
    <2>1. CASE y = x
      BY <2>1
    <2>2. CASE y # x
      BY <2>2 DEF OtherDels, Pending
    <2> QED
      BY <2>1, <2>2
  <1>2. \A p \in Pub : Owing(p, h)' = Owing(p, h)
    BY DEF Owing, At
  <1> QED
    BY <1>1, <1>2 DEF Still

PubAction(p) ==
    \/ CreatePub(p) \/ HeadRaw(p) \/ PutRaw(p) \/ SaveUpload(p) \/ CopyManifest(p)
    \/ BeginExtraction(p) \/ FailExtraction(p) \/ FetchZip(p)
    \/ CheckEntry(p) \/ PutEntry(p) \/ SkipEntry(p) \/ SaveManifest(p)

\* Steps that count nothing change what their publication owes of h only when h
\* is one of the strays.
LEMMA PubOwing ==
    ASSUME TypeInv, NEW p \in Pub, PubAction(p), NEW h \in Hash, h \notin undercount'
    PROVE  \/ Owing(p, h)' = Owing(p, h) /\ (Owing(p, h) = {} \/ pub'[p].manifest = pub[p].manifest)
           \/ Owing(p, h)' = {} /\ h \in stray'
  <1>0. dying' = dying /\ PubOk(p) /\ pub[p].manifest \in Seq(Key) /\ job[p].manifest \in Seq(Key)
    BY Typed DEF TypeInv, PubShape, PubAction, CreatePub, HeadRaw, PutRaw, SaveUpload, CopyManifest,
       BeginExtraction, FailExtraction, FetchZip, CheckEntry, PutEntry, SkipEntry, SaveManifest, history
  <1>1. \A g : Places(<< >>, g) = {}
    BY DEF Places
  <1>2. CASE CreatePub(p)
    BY <1>1, <1>2, CreatePubStep DEF Owing
  <1>3. CASE HeadRaw(p) \/ PutRaw(p) \/ FetchZip(p) \/ CheckEntry(p) \/ PutEntry(p) \/ SkipEntry(p)
    <2>1. pub' = pub /\ job[p].pc # "index" /\ job'[p].pc # "index"
      BY <1>3, HeadRawStep, PutRawStep, FetchZipStep, CheckEntryStep, PutEntryStep, SkipEntryStep
    <2> QED
      BY <1>0, <2>1 DEF Owing, At
  <1>4. CASE SaveUpload(p) \/ FailExtraction(p)
    <2>1. pub'[p].manifest = pub[p].manifest /\ job[p].pc # "index" /\ job'[p].pc # "index"
      BY <1>4, SaveUploadStep, FailExtractionStep
    <2> QED
      BY <1>0, <2>1 DEF Owing, At
  <1>5. CASE CopyManifest(p)
    <2>1. job[p].pc = "copy" /\ job'[p].pc = "idle" /\ pub[p].manifest = << >>
      BY <1>0, <1>5, CopyManifestStep DEF PubOk, At
    <2>2. CASE pub'[p].manifest = pub[p].manifest
      BY <1>0, <2>1, <2>2 DEF Owing, At
    <2>3. CASE pub'[p].manifest = job[p].manifest /\ undercount' = undercount \cup Hashes(job[p].manifest)
      <3>1. Places(job[p].manifest, h) = {}
        <4>1. h \notin Hashes(job[p].manifest)
          BY <2>3
        <4> QED
          BY <1>0, <4>1, SequencePositions
      <3> QED
        BY <1>0, <1>1, <2>1, <2>3, <3>1 DEF Owing
    <2> QED
      BY <1>5, <2>2, <2>3, CopyManifestStep
  <1>6. CASE BeginExtraction(p)
    <2>1. Owing(p, h)' = {} /\ stray' = stray \cup Hashes(pub[p].manifest)
      BY <1>1, <1>6, BeginExtractionStep DEF Owing
    <2>2. h \notin Hashes(pub[p].manifest) => Owing(p, h) = {}
      BY <1>0, SequencePositions, PositionsTyped
    <2> QED
      BY <2>1, <2>2
  <1>7. CASE SaveManifest(p)
    <2>1. Owing(p, h) = {} /\ pub[p].manifest = << >>
      BY <1>1, <1>7, SaveManifestStep DEF Owing
    <2>2. Owing(p, h)' = {}
      BY <1>1, <1>7, <2>1, SaveManifestStep DEF Owing, At
    <2> QED
      BY <2>1, <2>2
  <1> QED
    BY <1>2, <1>3, <1>4, <1>5, <1>6, <1>7 DEF PubAction

\* A publication that is counted owes what its manifest lists, unless a deletion
\* has loaded it; one whose count fails is recorded.
LEMMA IndexOwing ==
    ASSUME TypeInv, NEW p \in Pub, Index(p), NEW h \in Hash
    PROVE  /\ Owing(p, h) = {}
           /\ Owing(p, h)' \subseteq Places(job[p].manifest, h)
           /\ p \in dying => Owing(p, h)' = {}
           /\ p \notin dying => /\ pub[p].manifest = job[p].manifest /\ pub' = pub
                              /\ Owing(p, h)' = Places(job[p].manifest, h)
  <1>1. /\ dying' = dying /\ PubOk(p) /\ pub' = pub /\ job[p].pc = "index" /\ job'[p].pc = "idle"
    BY IndexStep DEF TypeInv, PubShape, Index
  <1>2. pub[p].manifest \in {<< >>, job[p].manifest} /\ (p \notin dying => pub[p].manifest = job[p].manifest)
    BY <1>1 DEF PubOk, At
  <1>3. Places(<< >>, h) = {}
    BY DEF Places
  <1> QED
    BY <1>1, <1>2, <1>3 DEF Owing, At

LEMMA PendingTyped ==
    ASSUME TypeInv, NEW x \in Deleter
    PROVE  /\ del[x].manifest \in Seq(Key) /\ del[x].next \in Nat /\ del[x].next >= 1
           /\ DOMAIN del[x].manifest \subseteq Nat
           /\ \A h : Pending(x, h) \subseteq Places(del[x].manifest, h)
  BY TypedDel, SequencePositions, PositionsTyped

\* Steps of deletions that discount nothing.
LEMMA DelQuiet ==
    ASSUME TypeInv, NEW x \in Deleter, NEW h,
           CountOthers(x) \/ DeleteRaw(x) \/ RemoveObject(x) \/ RemoveRow(x) \/ DeleteRow(x)
    PROVE  Still(h)
  <1>0. dying' = dying
    BY DEF CountOthers, DeleteRaw, RemoveObject, RemoveRow, DeleteRow, history
  <1>1. CASE CountOthers(x) \/ DeleteRaw(x) \/ RemoveObject(x)
    <2>1. /\ OtherDels(x) /\ pub' = pub /\ job' = job
          /\ del'[x].manifest = del[x].manifest /\ del'[x].next = del[x].next
          /\ del[x].pc \in {"object", "row"} <=> del'[x].pc \in {"object", "row"}
      BY <1>1, CountOthersStep, DeleteRawStep, RemoveObjectStep DEF DelStepped
    <2>2. Pending(x, h)' = Pending(x, h)
      BY <2>1 DEF Pending
    <2> QED
      BY <1>0, <2>1, <2>2, DelStill
  <1>2. CASE RemoveRow(x)
    <2>1. /\ OtherDels(x) /\ pub' = pub /\ job' = job
          /\ del'[x].manifest = del[x].manifest /\ del'[x].next = del[x].next + 1
          /\ del[x].pc = "row" /\ del'[x].pc = "entry"
      BY <1>2, RemoveRowStep DEF DelStepped
    <2>2. /\ DOMAIN del[x].manifest \subseteq Nat /\ del[x].next \in Nat
      BY PendingTyped
    <2>3. Pending(x, h)' = {i \in Places(del[x].manifest, h) : i > del[x].next + 1 \/ i = del[x].next + 1}
      BY <2>1 DEF Pending
    <2>4. Pending(x, h) = {i \in Places(del[x].manifest, h) : i > del[x].next}
      BY <2>1 DEF Pending
    <2>5. \A i \in Places(del[x].manifest, h) :
             i > del[x].next <=> i > del[x].next + 1 \/ i = del[x].next + 1
      BY <2>2 DEF Places
    <2>6. Pending(x, h)' = Pending(x, h)
      BY <2>3, <2>4, <2>5
    <2> QED
      BY <1>0, <2>1, <2>6, DelStill
  <1>3. CASE DeleteRow(x)
    <2>1. PICK p \in Pub : p = del[x].pub
      BY <1>3, DeleteRowStep
    <2>2. /\ OtherDels(x) /\ job' = job /\ p \in dying /\ OtherPubs(p)
          /\ del[x].pc = "entry" /\ del[x].next \notin DOMAIN del[x].manifest /\ del'[x].manifest = << >>
      BY <1>3, <2>1, DeleteRowStep
    <2>3. Pending(x, h)' = {}
      BY <2>2 DEF Pending, Places
    <2>4. Pending(x, h) = {}
      <3>1. /\ del[x].manifest \in Seq(Key) /\ del[x].next \in Nat /\ del[x].next >= 1
        BY PendingTyped
      <3>2. \A i \in DOMAIN del[x].manifest : i < del[x].next
        BY <2>2, <3>1
      <3>3. \A i \in DOMAIN del[x].manifest : i \in Nat
        BY <3>1
      <3> QED
        BY <3>1, <3>2, <3>3 DEF Pending, Places
    <2>5. \A y \in Deleter : Pending(y, h)' = Pending(y, h) /\ (y = x \/ del'[y] = del[y])
      BY <2>2, <2>3, <2>4 DEF OtherDels, Pending
    <2>6. ASSUME NEW q \in Pub
          PROVE  Owing(q, h)' = Owing(q, h) /\ (Owing(q, h) = {} \/ pub'[q] = pub[q])
      <3>1. CASE q = p
        BY <1>0, <2>2, <3>1 DEF Owing
      <3>2. CASE q # p
        BY <1>0, <2>2, <3>2 DEF OtherPubs, Owing, At
      <3> QED
        BY <3>1, <3>2
    <2> QED
      BY <2>4, <2>5, <2>6 DEF Still
  <1> QED
    BY <1>1, <1>2, <1>3

LEMMA CrashOwing ==
    ASSUME TypeInv, Crash, NEW h \in Hash, h \notin undercount'
    PROVE  Fewer(h) /\ (h \notin stray' => Still(h))
  <1>1. /\ pub' = pub /\ dying' = dying
        /\ \A p \in Pub : job'[p].pc = "idle" /\ (At(p, "index") => Hashes(job[p].manifest) \subseteq undercount')
        /\ \A x \in Deleter : del'[x].manifest = << >> /\ Hashes(del[x].manifest) \subseteq stray'
    BY CrashStep
  <1>2. ASSUME NEW p \in Pub PROVE Owing(p, h)' = Owing(p, h)
    <2>1. CASE At(p, "index")
      <3>1. h \notin Hashes(job[p].manifest) /\ job[p].manifest \in Seq(Key)
        BY <1>1, <2>1, Typed
      <3>2. Places(job[p].manifest, h) = {}
        BY <3>1, SequencePositions
      <3>3. pub[p].manifest \in {<< >>, job[p].manifest}
        BY <2>1 DEF TypeInv, PubShape, PubOk
      <3>4. Places(<< >>, h) = {}
        BY DEF Places
      <3>5. Places(pub[p].manifest, h) = {}
        BY <3>2, <3>3, <3>4
      <3> QED
        BY <1>1, <3>5 DEF Owing
    <2>2. CASE ~At(p, "index")
      BY <1>1, <2>2 DEF Owing, At
    <2> QED
      BY <2>1, <2>2
  <1>3. \A x \in Deleter : Pending(x, h)' = {}
    BY <1>1 DEF Pending, Places
  <1>4. ASSUME h \notin stray', NEW x \in Deleter PROVE Pending(x, h) = {}
    <2>1. h \notin Hashes(del[x].manifest) /\ del[x].manifest \in Seq(Key)
      BY <1>1, <1>4, TypedDel
    <2> QED
      BY <2>1, SequencePositions, PositionsTyped
  <1>5. Fewer(h)
    BY <1>2, <1>3 DEF Fewer
  <1>6. ASSUME h \notin stray' PROVE Still(h)
    BY <1>1, <1>2, <1>3, <1>4, <1>6 DEF Still
  <1> QED
    BY <1>5, <1>6

\* A deletion takes over what its publication owes.
LEMMA LoadOwed ==
    ASSUME TypeInv, TypeInv', FiniteInv, FiniteInv', NEW x \in Deleter, LoadForDeletion(x),
           NEW h \in Hash, h \notin undercount'
    PROVE  Owed(h)' = Owed(h) /\ (Agreed(h) => Agreed(h)')
  <1>1. PICK p \in Pub :
          /\ OtherDels(x) /\ pub' = pub /\ job' = job
          /\ del[x].pc = "idle" /\ del'[x].pc = "count" /\ del'[x].next = 1
          /\ del'[x].manifest = pub[p].manifest
          /\ dying' = dying \cup {p}
          /\ p \in dying \/ At(p, "index") => undercount' = undercount \cup Hashes(pub[p].manifest)
    BY LoadStep
  <1>2. blob' = blob
    BY DEF LoadForDeletion
  <1> DEFINE S == Owing(p, h)
  <1>3. Pending(x, h) = {}
    BY <1>1 DEF TypeInv, DelShape, DelOk, Pending, Places
  <1>4. Pending(x, h)' = S
    <2>1. /\ pub[p].manifest \in Seq(Key) /\ \A i \in DOMAIN pub[p].manifest : i \in Nat /\ i >= 1
      BY Typed, SequencePositions
    <2>2. Pending(x, h)' = Places(pub[p].manifest, h)
      <3>1. Pending(x, h)' = {i \in Places(pub[p].manifest, h) : i > 1 \/ i = 1}
        BY <1>1 DEF Pending
      <3> QED
        BY <2>1, <3>1 DEF Places
    <2>3. CASE p \in dying \/ At(p, "index")
      <3>1. h \notin Hashes(pub[p].manifest)
        BY <1>1, <2>3
      <3>2. Places(pub[p].manifest, h) = {}
        BY <2>1, <3>1, SequencePositions
      <3> QED
        BY <2>2, <2>3, <3>2 DEF Owing
    <2>4. CASE ~(p \in dying \/ At(p, "index"))
      BY <2>2, <2>4 DEF Owing
    <2> QED
      BY <2>3, <2>4
  <1>5. Owing(p, h)' = {}
    BY <1>1 DEF Owing
  <1>6. \A q \in Pub : q # p => Owing(q, h)' = Owing(q, h)
    BY <1>1 DEF Owing, At
  <1>7. \A y \in Deleter : y # x => Pending(y, h)' = Pending(y, h) /\ del'[y] = del[y]
    BY <1>1 DEF OtherDels, Pending
  <1>8. S \subseteq Nat /\ IsFiniteSet(S)
    BY PositionsTyped, OwingOwed
  <1> DEFINE H == Holders(h)'
             R == Releases(h)
  <1>9. Holders(h) = WithColumn(H, p, S)
    BY <1>5, <1>6, <1>8 DEF Holders, WithColumn
  <1>10. Releases(h)' = WithColumn(R, x, S)
    BY <1>3, <1>4, <1>7, <1>8 DEF Releases, WithColumn
  <1>11. /\ \A i \in S : <<p, i>> \notin H
         /\ \A i \in S : <<x, i>> \notin R
    BY <1>3, <1>5 DEF Holders, Releases
  <1>12. IsFiniteSet(H) /\ IsFiniteSet(R) /\ Cardinality(H) \in Nat /\ Cardinality(R) \in Nat
         /\ Cardinality(S) \in Nat
    <2>1. H \subseteq Holders(h)
      BY <1>9 DEF WithColumn
    <2> HIDE DEF H, S
    <2>2. IsFiniteSet(H) /\ Cardinality(H) \in Nat
      BY <2>1, OwedTyped, FS_Subset, FS_CardinalityType
    <2>3. IsFiniteSet(R) /\ Cardinality(R) \in Nat
      BY OwedTyped
    <2>4. Cardinality(S) \in Nat
      BY <1>8, FS_CardinalityType
    <2> QED
      BY <2>2, <2>3, <2>4
  <1>13. /\ Owed(h)' = Cardinality(H) + Cardinality(Releases(h)')
         /\ Owed(h) = Cardinality(Holders(h)) + Cardinality(R)
    BY DEF Owed
  <1>14. ASSUME Agreed(h) PROVE Agreed(h)'
    <2>1. \A q \in Pub : \A i \in Owing(q, h)' : pub'[q].manifest[i] = blob'[h].key
      BY <1>1, <1>2, <1>5, <1>6, <1>14 DEF Agreed
    <2>2. \A i \in Pending(x, h)' : del'[x].manifest[i] = blob'[h].key
      BY <1>1, <1>2, <1>4, <1>14 DEF Agreed
    <2>3. \A y \in Deleter : y # x => \A i \in Pending(y, h)' : del'[y].manifest[i] = blob'[h].key
      BY <1>2, <1>7, <1>14 DEF Agreed
    <2> QED
      BY <2>1, <2>2, <2>3 DEF Agreed
  <1> HIDE DEF H, R, S
  <1>15. Cardinality(Holders(h)) = Cardinality(H) + Cardinality(S)
    BY <1>8, <1>9, <1>11, <1>12, ColumnAdded
  <1>16. Cardinality(Releases(h)') = Cardinality(R) + Cardinality(S)
    BY <1>8, <1>10, <1>11, <1>12, ColumnAdded
  <1> QED
    BY <1>12, <1>13, <1>14, <1>15, <1>16

\* A deletion discounts one position.
LEMMA DiscountOwed ==
    ASSUME TypeInv, TypeInv', FiniteInv, FiniteInv', NEW x \in Deleter, Discount(x), NEW h \in Hash
    PROVE  /\ h = HashOf[Held(x)] => Owed(h)' = Owed(h) - 1 /\ del[x].next \in Pending(x, h) /\ Fewer(h)
           /\ h # HashOf[Held(x)] => Still(h)
           /\ Agreed(h) /\ blob'[h].key = blob[h].key => Agreed(h)'
  <1>1. /\ OtherDels(x) /\ pub' = pub /\ job' = job /\ del[x].pc = "entry"
        /\ del[x].next \in DOMAIN del[x].manifest /\ del'[x].manifest = del[x].manifest
        /\ \/ del'[x].pc = "object" /\ del'[x].next = del[x].next
           \/ del'[x].pc = "entry" /\ del'[x].next = del[x].next + 1
    BY DiscountStep DEF DelStepped
  <1>2. dying' = dying
    BY DEF Discount, history
  <1>3. del[x].next \in Nat /\ \A i \in Places(del[x].manifest, h) : i \in Nat
    BY PendingTyped DEF Places
  <1>4. Pending(x, h) = {i \in Places(del[x].manifest, h) : i > del[x].next \/ i = del[x].next}
    BY <1>1 DEF Pending
  <1>5. Pending(x, h)' = {i \in Places(del[x].manifest, h) : i > del[x].next}
    <2>1. CASE del'[x].pc = "object" /\ del'[x].next = del[x].next
      BY <1>1, <2>1 DEF Pending
    <2>2. CASE del'[x].pc = "entry" /\ del'[x].next = del[x].next + 1
      <3>1. Pending(x, h)' = {i \in Places(del[x].manifest, h) : i > del[x].next + 1 \/ i = del[x].next + 1}
        BY <1>1, <2>2 DEF Pending
      <3>2. \A i \in Places(del[x].manifest, h) :
               i > del[x].next <=> i > del[x].next + 1 \/ i = del[x].next + 1
        BY <1>3
      <3> QED
        BY <3>1, <3>2
    <2> QED
      BY <1>1, <2>1, <2>2
  <1>6. /\ \A y \in Deleter : y # x => Pending(y, h)' = Pending(y, h) /\ del'[y] = del[y]
        /\ \A q \in Pub : Owing(q, h)' = Owing(q, h)
    BY <1>1, <1>2 DEF OtherDels, Pending, Owing, At
  <1>7. Fewer(h)
    BY <1>4, <1>5, <1>6 DEF Fewer
  <1>8. Agreed(h) /\ blob'[h].key = blob[h].key => Agreed(h)'
    BY <1>1, <1>4, <1>5, <1>6 DEF Agreed
  <1>9. ASSUME h # HashOf[Held(x)] PROVE Still(h)
    <2>1. del[x].next \notin Places(del[x].manifest, h)
      BY <1>9 DEF Places, Held
    <2>2. Pending(x, h)' = Pending(x, h)
      BY <1>4, <1>5, <2>1
    <2> QED
      BY <1>1, <1>2, <2>2, DelStill
  <1>10. ASSUME h = HashOf[Held(x)] PROVE Owed(h)' = Owed(h) - 1 /\ del[x].next \in Pending(x, h)
    <2>1. del[x].next \in Pending(x, h)
      BY <1>1, <1>4, <1>10 DEF Places, Held
    <2>2. Pending(x, h)' = Pending(x, h) \ {del[x].next}
      BY <1>3, <1>4, <1>5
    <2> DEFINE R == Releases(h)
               t == <<x, del[x].next>>
    <2>3. Holders(h)' = Holders(h)
      BY <1>6 DEF Holders
    <2>4. Releases(h)' = R \ {t}
      BY <1>6, <2>2 DEF Releases
    <2>5. t \in R
      BY <1>3, <2>1 DEF Releases
    <2>6. /\ Owed(h)' = Cardinality(Holders(h)) + Cardinality(Releases(h)')
          /\ Owed(h) = Cardinality(Holders(h)) + Cardinality(R)
      BY <2>3 DEF Owed
    <2>7. IsFiniteSet(R) /\ Cardinality(R) \in Nat /\ Cardinality(Holders(h)) \in Nat
      BY OwedTyped
    <2> HIDE DEF R, t
    <2>8. Cardinality(R \ {t}) = Cardinality(R) - 1
      BY <2>5, <2>7, FS_RemoveElement
    <2> QED
      BY <2>1, <2>4, <2>6, <2>7, <2>8
  <1> QED
    BY <1>7, <1>8, <1>9, <1>10

\* An index owes, and counts, what the manifest lists.
LEMMA IndexOwed ==
    ASSUME TypeInv, TypeInv', FiniteInv, FiniteInv', NEW p \in Pub, Index(p), NEW h \in Hash
    PROVE  /\ p \notin dying => Owed(h)' = Owed(h) + Cardinality(Places(job[p].manifest, h))
           /\ p \in dying \/ Places(job[p].manifest, h) = {} => Still(h)
  <1>1. /\ OtherPubs(p) /\ OtherJobs(p) /\ pub' = pub /\ del' = del /\ dying' = dying
    BY IndexStep DEF Stepped, Index
  <1>2. ASSUME p \in dying \/ Places(job[p].manifest, h) = {} PROVE Still(h)
    <2>1. Owing(p, h) = {} /\ Owing(p, h)' = {}
      BY <1>2, IndexOwing
    <2> QED
      BY <1>1, <2>1, PubStill
  <1>3. ASSUME p \notin dying
        PROVE  Owed(h)' = Owed(h) + Cardinality(Places(job[p].manifest, h))
    <2> DEFINE S == Places(job[p].manifest, h)
               H == Holders(h)
    <2>1. Owing(p, h) = {} /\ Owing(p, h)' = S
      BY <1>3, IndexOwing
    <2>2. IsFiniteSet(S) /\ S \subseteq Nat /\ Cardinality(S) \in Nat
      BY Typed, SequencePositions, FS_CardinalityType
    <2>3. \A q \in Pub : q # p => Owing(q, h)' = Owing(q, h)
      BY <1>1 DEF OtherPubs, OtherJobs, Owing, At
    <2>4. Holders(h)' = WithColumn(H, p, S)
      BY <2>1, <2>2, <2>3 DEF Holders, WithColumn
    <2>5. \A i \in S : <<p, i>> \notin H
      BY <2>1 DEF Holders
    <2>6. Releases(h)' = Releases(h)
      BY <1>1 DEF Releases, Pending
    <2>7. /\ Owed(h)' = Cardinality(Holders(h)') + Cardinality(Releases(h))
          /\ Owed(h) = Cardinality(H) + Cardinality(Releases(h))
      BY <2>6 DEF Owed
    <2>8. IsFiniteSet(H) /\ Cardinality(H) \in Nat /\ Cardinality(Releases(h)) \in Nat
      BY OwedTyped
    <2> HIDE DEF H, S
    <2>9. Cardinality(Holders(h)') = Cardinality(H) + Cardinality(S)
      BY <2>2, <2>4, <2>5, <2>8, ColumnAdded
    <2>10. Owed(h)' = Owed(h) + Cardinality(S)
      BY <2>2, <2>7, <2>8, <2>9
    <2> QED
      BY <2>10 DEF S
  <1> QED
    BY <1>2, <1>3

-----------------------------------------------------------------------------
(* The counts cover what is owed                                           *)

\* A step that changes the manifest of one publication; of one deletion.
LEMMA FiledKept ==
    ASSUME TypeInv', FiniteInv, NEW p \in Pub, OtherPubs(p)
    PROVE  IsFiniteSet(Filed')
  <1> DEFINE S == DOMAIN pub'[p].manifest
             G == Filed'
  <1>1. pub'[p].manifest \in Seq(Key)
    BY DEF TypeInv, TypeOK, Row
  <1>2. IsFiniteSet(S)
    BY <1>1, SequencePositions
  <1>3. Filed' \subseteq WithColumn(Filed, p, S)
    BY DEF OtherPubs, Filed, WithColumn
  <1> HIDE DEF S, G
  <1>4. IsFiniteSet(WithColumn(Filed, p, S))
    BY <1>2, Column, Zenon DEF FiniteInv, WithColumn
  <1>5. G \subseteq WithColumn(Filed, p, S)
    BY <1>3 DEF G
  <1>6. IsFiniteSet(G)
    BY <1>4, <1>5, FS_Subset
  <1> QED
    BY <1>6 DEF G

LEMMA FreedKept ==
    ASSUME TypeInv', FiniteInv, NEW x \in Deleter, OtherDels(x)
    PROVE  IsFiniteSet(Freed')
  <1> DEFINE S == DOMAIN del'[x].manifest
             G == Freed'
  <1>1. del'[x].manifest \in Seq(Key)
    BY DEF TypeInv, TypeOK, Deletion
  <1>2. IsFiniteSet(S)
    BY <1>1, SequencePositions
  <1>3. Freed' \subseteq WithColumn(Freed, x, S)
    BY DEF OtherDels, Freed, WithColumn
  <1> HIDE DEF S, G
  <1>4. IsFiniteSet(WithColumn(Freed, x, S))
    BY <1>2, Column, Zenon DEF FiniteInv, WithColumn
  <1>5. G \subseteq WithColumn(Freed, x, S)
    BY <1>3 DEF G
  <1>6. IsFiniteSet(G)
    BY <1>4, <1>5, FS_Subset
  <1> QED
    BY <1>6 DEF G

\* What the steps of a publication have in common; those of a deletion.
LEMMA PubActionSteps ==
    ASSUME TypeInv, NEW p \in Pub, PubAction(p) \/ Index(p)
    PROVE  Stepped(p) /\ del' = del /\ dying' = dying
  <1>1. Stepped(p)
    BY CreatePubStep, HeadRawStep, PutRawStep, SaveUploadStep, CopyManifestStep,
       BeginExtractionStep, FailExtractionStep, FetchZipStep, CheckEntryStep, PutEntryStep,
       SkipEntryStep, SaveManifestStep, IndexStep DEF PubAction
  <1>2. del' = del /\ dying' = dying
    BY DEF PubAction, CreatePub, HeadRaw, PutRaw, SaveUpload, CopyManifest,
       BeginExtraction, FailExtraction, FetchZip, CheckEntry, PutEntry, SkipEntry, SaveManifest, Index, history
  <1> QED
    BY <1>1, <1>2

DelAction(x) ==
    \/ LoadForDeletion(x) \/ CountOthers(x) \/ DeleteRaw(x)
    \/ Discount(x) \/ RemoveObject(x) \/ RemoveRow(x) \/ DeleteRow(x)

LEMMA DelActionSteps ==
    ASSUME TypeInv, NEW x \in Deleter, DelAction(x)
    PROVE  TypeInv' /\ OtherDels(x) /\ job' = job /\ (pub' = pub \/ \E p \in Pub : OtherPubs(p))
  BY LoadStep, CountOthersStep, DeleteRawStep, DiscountStep, RemoveObjectStep, RemoveRowStep,
     DeleteRowStep DEF DelAction, DelStepped

LEMMA NextFiniteInv == ASSUME TypeInv, FiniteInv, [Next]_vars PROVE FiniteInv'
  <1>1. TypeInv'
    BY NextTypeInv
  <1>2. ASSUME NEW p \in Pub, PubAction(p) \/ Index(p) PROVE FiniteInv'
    <2>1. OtherPubs(p) /\ del' = del
      BY <1>2, PubActionSteps DEF Stepped
    <2>2. IsFiniteSet(Filed')
      BY <1>1, <2>1, FiledKept
    <2>3. Freed' = Freed
      BY <2>1 DEF Freed
    <2> QED
      BY <2>2, <2>3 DEF FiniteInv
  <1>3. ASSUME NEW x \in Deleter, DelAction(x) PROVE FiniteInv'
    <2>1. OtherDels(x) /\ (pub' = pub \/ \E p \in Pub : OtherPubs(p))
      BY <1>3, DelActionSteps
    <2>2. IsFiniteSet(Freed')
      BY <1>1, <2>1, FreedKept
    <2>3. CASE pub' = pub
      <3>1. Filed' = Filed
        BY <2>3 DEF Filed
      <3> QED
        BY <2>2, <3>1 DEF FiniteInv
    <2>4. CASE \E p \in Pub : OtherPubs(p)
      <3>1. IsFiniteSet(Filed')
        BY <1>1, <2>4, FiledKept
      <3> QED
        BY <2>2, <3>1 DEF FiniteInv
    <2> QED
      BY <2>1, <2>3, <2>4
  <1>4. CASE Crash
    <2>1. Filed' = Filed
      BY <1>4, CrashStep DEF Filed
    <2>2. Freed' = {}
      BY <1>4, CrashStep DEF Freed
    <2> QED
      BY <2>1, <2>2, FS_EmptySet DEF FiniteInv
  <1>5. CASE UNCHANGED vars
    <2>1. Filed' = Filed /\ Freed' = Freed
      BY <1>5 DEF vars, Filed, Freed
    <2> QED
      BY <2>1 DEF FiniteInv
  <1> QED
    BY <1>2, <1>3, <1>4, <1>5 DEF Next, PubAction, DelAction

\* A step that owes no more, and discounts nothing, keeps the count.
LEMMA CoveredKept ==
    ASSUME TypeInv, TypeInv', FiniteInv, FiniteInv', NEW h \in Hash, Fewer(h), Covered(h),
           blob'[h].refs >= blob[h].refs, blob'[h].refs \in Int
    PROVE  Covered(h)'
  <1>1. Owed(h)' <= Owed(h) /\ Owed(h) \in Nat
    BY FewerOwed, OwedTyped
  <1> DEFINE o == Owed(h)'
  <1>2. o \in Nat
    <2>1. IsFiniteSet(Holders(h)') /\ IsFiniteSet(Releases(h)')
      <3>1. Holders(h)' \subseteq Holders(h) /\ Releases(h)' \subseteq Releases(h)
        BY DEF Fewer, Holders, Releases
      <3> DEFINE H == Holders(h)'
                 R == Releases(h)'
      <3>2. H \subseteq Holders(h) /\ R \subseteq Releases(h)
        BY <3>1
      <3> HIDE DEF H, R
      <3>3. IsFiniteSet(H) /\ IsFiniteSet(R)
        BY <3>2, OwedTyped, FS_Subset
      <3> QED
        BY <3>3 DEF H, R
    <2>2. o = Cardinality(Holders(h)') + Cardinality(Releases(h)')
      BY DEF Owed
    <2>3. Cardinality(Holders(h)') \in Nat /\ Cardinality(Releases(h)') \in Nat
      BY <2>1, FS_CardinalityType
    <2> QED
      BY <2>2, <2>3
  <1> HIDE DEF o
  <1>3. o <= Owed(h)
    BY <1>1 DEF o
  <1>4. blob[h].refs \in Int
    BY BlobTyped
  <1>5. blob'[h].refs >= o
    BY <1>1, <1>2, <1>3, <1>4 DEF Covered
  <1> QED
    BY <1>5 DEF Covered, o

LEMMA NextCountInv ==
    ASSUME TypeInv, FiniteInv, CountInv, [Next]_vars
    PROVE  CountInv'
  <1>1. TypeInv' /\ FiniteInv'
    BY NextTypeInv, NextFiniteInv
  <1> SUFFICES ASSUME NEW h \in Hash, h \notin undercount' PROVE Covered(h)'
    BY DEF CountInv
  <1>2. h \notin undercount
    BY DEF Next, vars, history, CreatePub, HeadRaw, PutRaw, SaveUpload, CopyManifest, BeginExtraction,
       FailExtraction, FetchZip, CheckEntry, PutEntry, SkipEntry, SaveManifest, Index,
       LoadForDeletion, CountOthers, DeleteRaw, Discount, RemoveObject, RemoveRow, DeleteRow, Crash
  <1>3. Covered(h) /\ blob[h].refs \in Int /\ Owed(h) \in Nat
    BY <1>2, BlobTyped, OwedTyped DEF CountInv
  <1>0. blob'[h].refs \in Int
    <2>1. TypeInv' => blob'[h].refs \in Int
      <3>1. NoBlob.refs = 0
        BY DEF NoBlob
      <3> QED
        BY <3>1 DEF TypeInv, TypeOK
    <2> QED
      BY <1>1, <2>1
  <1>4. ASSUME NEW p \in Pub, PubAction(p) PROVE Covered(h)'
    <2>1. blob' = blob
      BY <1>4 DEF PubAction, CreatePub, HeadRaw, PutRaw, SaveUpload, CopyManifest,
         BeginExtraction, FailExtraction, FetchZip, CheckEntry, PutEntry, SkipEntry, SaveManifest
    <2>2. Fewer(h)
      BY <1>4, PubOwing, PubFewer, PubActionSteps DEF Stepped
    <2> QED
      BY <1>0, <1>1, <1>3, <2>1, <2>2, CoveredKept
  <1>5. ASSUME NEW p \in Pub, Index(p) PROVE Covered(h)'
    <2> DEFINE m == job[p].manifest
    <2>1. m \in Seq(Key)
      BY Typed
    <2>2. CASE blob' = Count(m) /\ p \notin dying
      <3>1. Owed(h)' = Owed(h) + Cardinality(Places(m, h))
        BY <1>1, <1>5, <2>2, IndexOwed
      <3>2. Cardinality(Places(m, h)) \in Nat /\ blob'[h].refs = blob[h].refs + Cardinality(Places(m, h))
        <4> HIDE DEF m
        <4>1. blob'[h] = Count(m)[h] /\ Cardinality(Places(m, h)) \in Nat
          BY <2>1, <2>2, CountOne
        <4>2. CASE Places(m, h) = {}
          <5>1. Count(m)[h] = blob[h] /\ Cardinality(Places(m, h)) = 0
            BY <2>1, <4>2, CountOne, FS_EmptySet
          <5> QED
            BY <1>3, <4>1, <5>1
        <4>3. CASE Places(m, h) # {}
          <5>1. Count(m)[h].refs = blob[h].refs + Cardinality(Places(m, h))
            BY <2>1, <4>3, CountOne
          <5> QED
            BY <4>1, <5>1
        <4> QED
          BY <4>2, <4>3
      <3>3. blob[h].refs >= Owed(h)
        BY <1>3 DEF Covered
      <3> HIDE DEF m
      <3>4. blob'[h].refs >= Owed(h) + Cardinality(Places(m, h))
        BY <1>3, <3>2, <3>3
      <3> QED
        BY <3>1, <3>4 DEF Covered
    <2>3. CASE blob' = Count(m) /\ p \in dying
      <3>1. Fewer(h)
        BY <1>1, <1>5, <2>3, IndexOwed, StillOwed
      <3>2. blob'[h].refs >= blob[h].refs
        BY <1>3, <2>1, <2>3, CountOne
      <3> QED
        BY <1>0, <1>1, <1>3, <3>1, <3>2, CoveredKept
    <2>4. CASE blob' = blob /\ undercount' = undercount \cup Hashes(m)
      <3>1. Places(m, h) = {}
        BY <2>1, <2>4, SequencePositions
      <3>2. Fewer(h)
        BY <1>1, <1>5, <3>1, IndexOwed, StillOwed
      <3> QED
        BY <1>0, <1>1, <1>3, <2>4, <3>2, CoveredKept
    <2> QED
      BY <1>5, <2>2, <2>3, <2>4, IndexStep
  <1>6. ASSUME NEW x \in Deleter, LoadForDeletion(x) PROVE Covered(h)'
    <2>1. blob' = blob /\ Owed(h)' = Owed(h)
      BY <1>1, <1>6, LoadOwed DEF LoadForDeletion
    <2> QED
      BY <1>3, <2>1 DEF Covered
  <1>7. ASSUME NEW x \in Deleter, CountOthers(x) \/ DeleteRaw(x) \/ RemoveObject(x) \/ DeleteRow(x)
        PROVE  Covered(h)'
    <2>1. blob' = blob
      BY <1>7 DEF CountOthers, DeleteRaw, RemoveObject, DeleteRow
    <2>2. Fewer(h)
      BY <1>7, DelQuiet, StillOwed
    <2> QED
      BY <1>0, <1>1, <1>3, <2>1, <2>2, CoveredKept
  <1>8. ASSUME NEW x \in Deleter, Discount(x) PROVE Covered(h)'
    <2>1. CASE h = HashOf[Held(x)]
      <3>1. Owed(h)' = Owed(h) - 1
        BY <1>1, <1>8, <2>1, DiscountOwed
      <3>2. blob'[h].refs = blob[h].refs - 1 \/ blob'[h].refs = blob[h].refs
        BY <1>8, <2>1, DiscountStep
      <3>3. blob'[h].refs >= Owed(h) - 1
        BY <1>3, <3>2 DEF Covered
      <3> QED
        BY <3>1, <3>3 DEF Covered
    <2>2. CASE h # HashOf[Held(x)]
      <3>1. Fewer(h)
        BY <1>1, <1>8, <2>2, DiscountOwed, StillOwed
      <3>2. blob'[h] = blob[h]
        BY <1>8, <2>2, DiscountStep DEF OtherBlobs
      <3> QED
        BY <1>0, <1>1, <1>3, <3>1, <3>2, CoveredKept
    <2> QED
      BY <2>1, <2>2
  <1>9. ASSUME NEW x \in Deleter, RemoveRow(x) PROVE Covered(h)'
    <2>1. Fewer(h)
      BY <1>9, DelQuiet, StillOwed
    <2>2. CASE h = HashOf[Held(x)]
      <3>1. Last(blob[h].refs) /\ blob'[h] = NoBlob /\ NoBlob.refs = 0
        BY <1>9, <2>2, RemoveRowStep DEF NoBlob
      <3> QED
        BY <1>0, <1>1, <1>3, <2>1, <3>1, CoveredKept DEF Last
    <2>3. CASE h # HashOf[Held(x)]
      <3>1. blob'[h] = blob[h]
        BY <1>9, <2>3, RemoveRowStep DEF OtherBlobs
      <3> QED
        BY <1>0, <1>1, <1>3, <2>1, <3>1, CoveredKept
    <2> QED
      BY <2>2, <2>3
  <1>10. CASE Crash
    <2>1. blob' = blob /\ Fewer(h)
      BY <1>10, CrashStep, CrashOwing
    <2> QED
      BY <1>0, <1>1, <1>3, <2>1, CoveredKept
  <1>11. CASE UNCHANGED vars
    <2>1. Still(h)
      BY <1>11 DEF vars, history, Still, Owing, Pending, At
    <2>2. blob' = blob
      BY <1>11 DEF vars
    <2> QED
      BY <1>0, <1>1, <1>3, <2>1, <2>2, CoveredKept, StillOwed
  <1> QED
    BY <1>4, <1>5, <1>6, <1>7, <1>8, <1>9, <1>10, <1>11 DEF Next, PubAction

LEMMA InitOwed ==
    ASSUME Init, NEW h
    PROVE  Filed = {} /\ Freed = {} /\ Holders(h) = {} /\ Releases(h) = {} /\ Owed(h) = 0
  <1>1. Filed = {}
    BY DEF Init, Filed, NoPub
  <1>2. Freed = {}
    BY DEF Init, Freed, NoDeletion
  <1>3. Holders(h) = {}
    BY DEF Init, Holders, Owing, Places, NoPub
  <1>4. Releases(h) = {}
    BY DEF Init, Releases, Pending, Places, NoDeletion
  <1>5. Cardinality({}) = 0
    BY FS_EmptySet
  <1> QED
    BY <1>1, <1>2, <1>3, <1>4, <1>5 DEF Owed

LEMMA InitCountInv == Init => FiniteInv /\ CountInv
  <1> SUFFICES ASSUME Init PROVE FiniteInv /\ CountInv
    OBVIOUS
  <1>1. FiniteInv
    BY InitOwed, FS_EmptySet DEF FiniteInv
  <1>2. \A h \in Hash : Owed(h) = 0 /\ blob[h].refs = 0
    BY InitOwed DEF Init, NoBlob
  <1> QED
    BY <1>1, <1>2 DEF CountInv, Covered

\* The count of a file covers its listings by every publication that no deletion
\* has loaded and that is counted, whatever extractions and deletions of other
\* publications overlap, unless one of its holders was not counted in time
\* (CountsCover).
THEOREM CountsCoverHolders == Spec => []CountsCover
  <1>1. Init => TypeInv /\ FiniteInv /\ CountInv
    BY InitTypeInv, InitCountInv
  <1>2. TypeInv /\ FiniteInv /\ CountInv /\ [Next]_vars => TypeInv' /\ FiniteInv' /\ CountInv'
    BY NextTypeInv, NextFiniteInv, NextCountInv
  <1>3. TypeInv /\ FiniteInv /\ CountInv => CountsCover
    <2> SUFFICES ASSUME TypeInv, FiniteInv, CountInv, NEW h \in Hash \ undercount,
                        NEW p \in Pub \ dying, ~At(p, "index")
                 PROVE  blob[h].refs >= Cardinality(Places(pub[p].manifest, h))
      BY DEF CountsCover, Places
    <2>1. Owing(p, h) = Places(pub[p].manifest, h)
      BY DEF Owing
    <2>2. Cardinality(Owing(p, h)) <= Owed(h) /\ Cardinality(Owing(p, h)) \in Nat /\ Owed(h) \in Nat
      BY OwingOwed, OwedTyped
    <2>3. blob[h].refs >= Owed(h) /\ blob[h].refs \in Int
      BY BlobTyped DEF CountInv, Covered
    <2>4. blob[h].refs >= Cardinality(Owing(p, h))
      BY <2>2, <2>3
    <2> QED
      BY <2>1, <2>4
  <1> QED
    BY <1>1, <1>2, <1>3, PTL DEF Spec

-----------------------------------------------------------------------------
(* What is listed is stored                                                *)

\* A history variable only grows.
LEMMA UndercountGrows == ASSUME [Next]_vars PROVE undercount \subseteq undercount'
  BY DEF Next, vars, history, CreatePub, HeadRaw, PutRaw, SaveUpload, CopyManifest, BeginExtraction,
     FailExtraction, FetchZip, CheckEntry, PutEntry, SkipEntry, SaveManifest, Index,
     LoadForDeletion, CountOthers, DeleteRaw, Discount, RemoveObject, RemoveRow, DeleteRow, Crash

\* The file k that p has found or stored and not counted; that it lists.
Carries(p, k) == job[p].pc \in {"entry", "putEntry", "index"} /\ k \in Ran(job[p].manifest)
Lists(p, k) == p \notin dying /\ k \in Ran(pub[p].manifest)

LEMMA RanAppend ==
    ASSUME NEW m \in Seq(Key), NEW e \in Key
    PROVE  Ran(Append(m, e)) = Ran(m) \cup {e}
  <1>1. DOMAIN Append(m, e) = 1..(Len(m) + 1) /\ DOMAIN m = 1..Len(m) /\ Len(m) \in Nat
    OBVIOUS
  <1>2. \A i \in DOMAIN m : Append(m, e)[i] = m[i]
    OBVIOUS
  <1>3. Append(m, e)[Len(m) + 1] = e
    OBVIOUS
  <1>4. ASSUME NEW k \in Ran(Append(m, e)) PROVE k \in Ran(m) \cup {e}
    <2>1. PICK i \in 1..(Len(m) + 1) : Append(m, e)[i] = k
      BY <1>1 DEF Ran
    <2>2. i \in DOMAIN m \/ i = Len(m) + 1
      BY <1>1
    <2> QED
      BY <1>2, <1>3, <2>1, <2>2 DEF Ran
  <1>5. ASSUME NEW k \in Ran(m) \cup {e} PROVE k \in Ran(Append(m, e))
    <2>1. CASE k = e
      BY <1>1, <1>3, <2>1 DEF Ran
    <2>2. CASE k \in Ran(m)
      BY <1>1, <1>2, <2>2 DEF Ran
    <2> QED
      BY <1>5, <2>1, <2>2
  <1> QED
    BY <1>4, <1>5

\* A publication comes to carry only what is stored, and to list only what it
\* has carried; a manifest that is copied is recorded.
LEMMA CarriesStored ==
    ASSUME TypeInv, NEW p \in Pub, PubAction(p) \/ Index(p), NEW k \in Key
    PROVE  /\ Carries(p, k)' => Carries(p, k) \/ k \in store'
           /\ Lists(p, k)' => Lists(p, k) \/ Carries(p, k) \/ HashOf[k] \in undercount'
  <1>0. dying' = dying /\ job[p].manifest \in Seq(Key)
    BY PubActionSteps, Typed
  <1>1. Ran(<< >>) = {}
    BY DEF Ran
  <1>2. CASE CreatePub(p) \/ BeginExtraction(p)
    <2>1. pub'[p].manifest = << >> /\ job'[p].pc \in {"head", "fetch", "idle"}
      BY <1>2, CreatePubStep, BeginExtractionStep
    <2> QED
      BY <1>1, <2>1 DEF Carries, Lists
  <1>3. CASE HeadRaw(p) \/ PutRaw(p) \/ FetchZip(p) \/ Index(p)
    <2>1. pub' = pub /\ (job'[p].pc \in {"put", "save", "idle"} \/ job'[p].manifest = << >>)
      BY <1>3, HeadRawStep, PutRawStep, FetchZipStep, IndexStep
    <2> QED
      BY <1>0, <1>1, <2>1 DEF Carries, Lists
  <1>4. CASE SaveUpload(p) \/ FailExtraction(p)
    <2>1. pub'[p].manifest = pub[p].manifest /\ job'[p].pc \in {"copy", "begin", "idle"}
      BY <1>4, SaveUploadStep, FailExtractionStep
    <2> QED
      BY <1>0, <2>1 DEF Carries, Lists
  <1>5. CASE CopyManifest(p)
    <2>1. job'[p].pc = "idle"
      BY <1>5, CopyManifestStep
    <2>2. CASE pub'[p].manifest = pub[p].manifest
      BY <1>0, <2>1, <2>2 DEF Carries, Lists
    <2>3. CASE pub'[p].manifest = job[p].manifest /\ undercount' = undercount \cup Hashes(job[p].manifest)
      BY <2>1, <2>3 DEF Carries, Lists, Hashes
    <2> QED
      BY <1>5, <2>2, <2>3, CopyManifestStep
  <1>6. CASE CheckEntry(p) \/ PutEntry(p) \/ SkipEntry(p)
    <2>1. /\ pub' = pub /\ job[p].pc \in {"entry", "putEntry"}
          /\ \/ job'[p].manifest = job[p].manifest
             \/ /\ EntryOf(p) \in store' /\ EntryOf(p) \in Key
                /\ job'[p].manifest = Append(job[p].manifest, EntryOf(p))
      <3>1. TypeInv => store \subseteq Key
        BY DEF TypeInv, TypeOK
      <3>2. CheckEntry(p) => store' = store
        BY DEF CheckEntry
      <3> QED
        BY <1>6, <3>1, <3>2, CheckEntryStep, PutEntryStep, SkipEntryStep
    <2>2. CASE job'[p].manifest = job[p].manifest
      BY <1>0, <2>1, <2>2 DEF Carries, Lists
    <2>3. CASE /\ EntryOf(p) \in store' /\ EntryOf(p) \in Key
               /\ job'[p].manifest = Append(job[p].manifest, EntryOf(p))
      <3>1. Ran(job'[p].manifest) = Ran(job[p].manifest) \cup {EntryOf(p)}
        BY <1>0, <2>3, RanAppend
      <3> QED
        BY <1>0, <2>1, <2>3, <3>1 DEF Carries, Lists
    <2> QED
      BY <2>1, <2>2, <2>3
  <1>7. CASE SaveManifest(p)
    <2>1. /\ job[p].pc = "entry" /\ pub[p].manifest = << >>
          /\ job'[p].manifest \in {job[p].manifest, << >>}
          /\ pub'[p].manifest \in {job[p].manifest, << >>}
      BY <1>7, SaveManifestStep
    <2> QED
      BY <1>1, <2>1 DEF Carries, Lists
  <1> QED
    BY <1>2, <1>3, <1>4, <1>5, <1>6, <1>7 DEF PubAction

\* That is StoreInv, file by file.
Stored(k) == HashOf[k] \in undercount \/ k \in store
             \/ \A p \in Pub : ~Lists(p, k) /\ ~Carries(p, k)

LEMMA StoreInvStored == ASSUME TypeInv PROVE StoreInv <=> \A k \in Key : Stored(k)
  <1>1. \A p \in Pub : Ran(pub[p].manifest) \subseteq Key
    BY Typed DEF Ran
  <1> QED
    BY <1>1 DEF StoreInv, BlobsThere, InFlight, Stored, Lists, Carries

LEMMA StoredKept ==
    ASSUME NEW k, Stored(k), undercount \subseteq undercount', k \in store => k \in store',
           \A p \in Pub : (Lists(p, k)' => Lists(p, k)) /\ (Carries(p, k)' => Carries(p, k))
    PROVE  Stored(k)'
  BY DEF Stored

\* Nobody lists or carries an object that a deletion removes, except where the
\* removal is recorded: nothing is owed of it.
LEMMA RemovedUnlisted ==
    ASSUME TypeInv, FiniteInv, CountInv, NEW x \in Deleter, RemoveObject(x),
           HashOf[Held(x)] \notin undercount'
    PROVE  \A p \in Pub : ~Lists(p, Held(x)) /\ ~Carries(p, Held(x))
  <1> DEFINE k == Held(x)
             h == HashOf[k]
  <1>1. /\ h \in Hash /\ h \notin undercount /\ ~InFlight(k) /\ Last(blob[h].refs)
    BY RemoveObjectStep
  <1>2. \A p \in Pub : ~Carries(p, k)
    BY <1>1 DEF InFlight, Carries
  <1>3. Owed(h) <= 0
    BY <1>1, BlobTyped, OwedTyped DEF CountInv, Covered, Last
  <1>4. \A p \in Pub : Owing(p, h) = {}
    BY <1>3, NothingOwed
  <1>5. ASSUME NEW p \in Pub, Lists(p, k) PROVE FALSE
    <2>1. PICK i \in DOMAIN pub[p].manifest : pub[p].manifest[i] = k
      BY <1>5 DEF Lists, Ran
    <2>2. i \in Places(pub[p].manifest, h)
      BY <2>1 DEF Places
    <2>3. At(p, "index")
      BY <1>4, <1>5, <2>2 DEF Owing, Lists
    <2>4. pub[p].manifest = job[p].manifest
      BY <1>5, <2>3 DEF TypeInv, PubShape, PubOk, Lists
    <2> QED
      BY <1>2, <1>5, <2>3, <2>4 DEF Carries, Lists, At
  <1> QED
    BY <1>2, <1>5

LEMMA NextStoreInv ==
    ASSUME TypeInv, FiniteInv, CountInv, StoreInv, [Next]_vars
    PROVE  StoreInv'
  <1>1. TypeInv' /\ undercount \subseteq undercount'
    BY NextTypeInv, UndercountGrows
  <1>2. SUFFICES ASSUME NEW k \in Key PROVE Stored(k)'
    <2>1. TypeInv' => (StoreInv' <=> \A k \in Key : Stored(k)')
      <3>1. TypeInv' => \A p \in Pub : Ran(pub'[p].manifest) \subseteq Key
        BY DEF Ran, TypeInv, TypeOK, Row
      <3> QED
        BY <3>1 DEF StoreInv, BlobsThere, InFlight, Stored, Lists, Carries
    <2> QED
      BY <1>1, <2>1
  <1>3. Stored(k)
    BY StoreInvStored
  <1>4. ASSUME NEW p \in Pub, PubAction(p) \/ Index(p) PROVE Stored(k)'
    <2>1. OtherPubs(p) /\ OtherJobs(p) /\ dying' = dying
      BY <1>4, PubActionSteps DEF Stepped
    <2>2. store \subseteq store'
      BY <1>4 DEF PubAction, CreatePub, HeadRaw, PutRaw, SaveUpload, CopyManifest,
         BeginExtraction, FailExtraction, FetchZip, CheckEntry, PutEntry, SkipEntry, SaveManifest, Index
    <2>3. ASSUME NEW q \in Pub, q # p
          PROVE  (Lists(q, k)' => Lists(q, k)) /\ (Carries(q, k)' => Carries(q, k))
      BY <2>1, <2>3 DEF OtherPubs, OtherJobs, Lists, Carries
    <2>4. /\ Carries(p, k)' => Carries(p, k) \/ k \in store'
          /\ Lists(p, k)' => Lists(p, k) \/ Carries(p, k) \/ HashOf[k] \in undercount'
      BY <1>4, CarriesStored
    <2> QED
      BY <1>1, <1>3, <2>2, <2>3, <2>4 DEF Stored
  <1>5. ASSUME NEW x \in Deleter, DelAction(x) PROVE Stored(k)'
    <2>1. dying \subseteq dying' /\ job' = job
      BY <1>5 DEF DelAction, LoadForDeletion, CountOthers, DeleteRaw, Discount, RemoveObject,
         RemoveRow, DeleteRow, history
    <2>2. \A p \in Pub : pub'[p] = pub[p] \/ pub'[p].manifest = << >>
      <3>1. CASE DeleteRow(x)
        BY <3>1, DeleteRowStep DEF OtherPubs
      <3>2. CASE ~DeleteRow(x)
        BY <1>5, <3>2 DEF DelAction, LoadForDeletion, CountOthers, DeleteRaw, Discount, RemoveObject, RemoveRow
      <3> QED
        BY <3>1, <3>2
    <2>3. Ran(<< >>) = {}
      BY DEF Ran
    <2>4. \A p \in Pub : (Lists(p, k)' => Lists(p, k)) /\ (Carries(p, k)' => Carries(p, k))
      BY <2>1, <2>2, <2>3 DEF Lists, Carries
    <2>5. CASE store' = store
      BY <1>1, <1>3, <2>4, <2>5, StoredKept
    <2>6. CASE RemoveObject(x) /\ k = Held(x)
      BY <2>4, <2>6, RemovedUnlisted DEF Stored
    <2>7. CASE RemoveObject(x) /\ k # Held(x)
      <3>1. k \in store => k \in store'
        BY <2>7, RemoveObjectStep
      <3> QED
        BY <1>1, <1>3, <2>4, <3>1, StoredKept
    <2> QED
      BY <1>5, <2>5, <2>6, <2>7 DEF DelAction, LoadForDeletion, CountOthers, DeleteRaw, Discount,
         RemoveRow, DeleteRow
  <1>6. CASE Crash
    <2>1. /\ pub' = pub /\ dying' = dying /\ store' = store
          /\ \A p \in Pub : job'[p].pc = "idle"
      BY <1>6, CrashStep
    <2> QED
      BY <1>1, <1>3, <2>1, StoredKept DEF Lists, Carries
  <1>7. CASE UNCHANGED vars
    BY <1>3, <1>7 DEF vars, history, Stored, Lists, Carries
  <1> QED
    BY <1>4, <1>5, <1>6, <1>7 DEF Next, PubAction, DelAction

LEMMA InitStoreInv == Init => StoreInv
  BY DEF Init, StoreInv, BlobsThere, InFlight, Ran, NoPub, NoJob

\* An extracted file is stored as long as a publication that no deletion has
\* loaded lists it, whatever extractions and deletions of publications with equal
\* files overlap and wherever calls fail or the process ends, unless one of its
\* holders was not counted in time (BlobsThere).
THEOREM FilesStayStored == Spec => []BlobsThere
  <1>1. Init => TypeInv /\ FiniteInv /\ CountInv /\ StoreInv
    BY InitTypeInv, InitCountInv, InitStoreInv
  <1>2. TypeInv /\ FiniteInv /\ CountInv /\ StoreInv /\ [Next]_vars
        => TypeInv' /\ FiniteInv' /\ CountInv' /\ StoreInv'
    BY NextTypeInv, NextFiniteInv, NextCountInv, NextStoreInv
  <1>3. StoreInv => BlobsThere
    BY DEF StoreInv
  <1> QED
    BY <1>1, <1>2, <1>3, PTL DEF Spec

-----------------------------------------------------------------------------
(* Away from miscounts and strays the counts are exact                     *)

LEMMA HistoryGrows == ASSUME [Next]_vars PROVE stray \subseteq stray'
  BY DEF Next, vars, history, CreatePub, HeadRaw, PutRaw, SaveUpload, CopyManifest, BeginExtraction,
     FailExtraction, FetchZip, CheckEntry, PutEntry, SkipEntry, SaveManifest, Index,
     LoadForDeletion, CountOthers, DeleteRaw, Discount, RemoveObject, RemoveRow, DeleteRow, Crash

Unmarked(h) == h \in Hash /\ h \notin undercount' /\ h \notin stray'

LEMMA InFlightIs == ASSUME NEW k PROVE InFlight(k) <=> \E p \in Pub : Carries(p, k)
  BY DEF InFlight, Carries

LEMMA StillCounted ==
    ASSUME NEW h, Still(h), Exact(h), blob'[h] = blob[h]
    PROVE  /\ blob'[h].refs = Owed(h)' /\ Agreed(h)'
  <1>1. Owed(h)' = Owed(h) /\ Agreed(h)'
    BY StillOwed DEF Exact
  <1>2. blob'[h].refs = Owed(h)
    BY DEF Exact
  <1> QED
    BY <1>1, <1>2

\* A publication gives up what it carries only by recording it, or counting it.
LEMMA CarriedOn ==
    ASSUME TypeInv, NEW p \in Pub, PubAction(p), NEW k \in Key, Carries(p, k)
    PROVE  Carries(p, k)' \/ HashOf[k] \in stray'
  <1>0. job[p].manifest \in Seq(Key) /\ Ran(<< >>) = {}
    BY Typed DEF Ran
  <1>1. job[p].pc \in {"entry", "putEntry", "index"} /\ k \in Ran(job[p].manifest)
    BY DEF Carries
  <1>2. CASE CheckEntry(p) \/ PutEntry(p) \/ SkipEntry(p)
    <2>1. /\ job'[p].pc \in {"entry", "putEntry"}
          /\ \/ job'[p].manifest = job[p].manifest
             \/ EntryOf(p) \in Key /\ job'[p].manifest = Append(job[p].manifest, EntryOf(p))
      <3>1. TypeInv => store \subseteq Key
        BY DEF TypeInv, TypeOK
      <3> QED
        BY <1>2, <3>1, CheckEntryStep, PutEntryStep, SkipEntryStep
    <2>2. CASE job'[p].manifest = job[p].manifest
      BY <1>1, <2>1, <2>2 DEF Carries
    <2>3. CASE EntryOf(p) \in Key /\ job'[p].manifest = Append(job[p].manifest, EntryOf(p))
      <3>1. Ran(job'[p].manifest) = Ran(job[p].manifest) \cup {EntryOf(p)}
        BY <1>0, <2>3, RanAppend
      <3> QED
        BY <1>1, <2>1, <3>1 DEF Carries
    <2> QED
      BY <2>1, <2>2, <2>3
  <1>3. CASE SaveManifest(p) \/ FailExtraction(p)
    <2>1. \/ job'[p].pc = "index" /\ job'[p].manifest = job[p].manifest
          \/ stray' = stray \cup Hashes(job[p].manifest)
      BY <1>3, SaveManifestStep, FailExtractionStep
    <2> QED
      BY <1>1, <2>1 DEF Carries, Hashes
  <1>4. CASE ~(CheckEntry(p) \/ PutEntry(p) \/ SkipEntry(p) \/ SaveManifest(p) \/ FailExtraction(p))
    <2>1. job[p].pc \notin {"entry", "putEntry", "index"}
      BY <1>4, CreatePubStep, HeadRawStep, PutRawStep, SaveUploadStep, CopyManifestStep,
         BeginExtractionStep, FetchZipStep DEF PubAction
    <2> QED
      BY <1>1, <2>1
  <1> QED
    BY <1>2, <1>3, <1>4

\* Steps of a publication that count nothing.
LEMMA PubExact ==
    ASSUME TypeInv, NEW p \in Pub, PubAction(p), NEW h, Unmarked(h), Exact(h)
    PROVE  Exact(h)'
  <1>1. OtherPubs(p) /\ OtherJobs(p) /\ dying' = dying /\ del' = del
    BY PubActionSteps DEF Stepped
  <1>2. blob' = blob /\ (store' = store \/ (PutEntry(p) /\ store' = store \cup {EntryOf(p)}))
    BY DEF PubAction, CreatePub, HeadRaw, PutRaw, SaveUpload, CopyManifest,
       BeginExtraction, FailExtraction, FetchZip, CheckEntry, PutEntry, SkipEntry, SaveManifest
  <1>3. Still(h)
    BY <1>1, PubOwing, PubStill DEF Unmarked
  <1>4. blob'[h].refs = Owed(h)' /\ Agreed(h)'
    BY <1>2, <1>3, StillCounted
  <1>5. blob'[h] # NoBlob => RowKept(h)'
    BY <1>1, <1>2 DEF Exact, RowKept, Leaving, Held
  <1>6. ASSUME NEW k \in store', HashOf[k] = h PROVE ObjectKept(k)'
    <2>0. k \in Key
      <3>1. TypeInv'
        BY PubActionSteps DEF Stepped
      <3> QED
        BY <1>6, <3>1 DEF TypeInv, TypeOK
    <2>1. CASE k \in store
      <3>1. ObjectKept(k)
        BY <1>6, <2>1 DEF Exact
      <3>2. CASE InFlight(k)
        <4>1. PICK q \in Pub : Carries(q, k)
          BY <3>2, InFlightIs
        <4>2. CASE q = p
          BY <1>6, <2>0, <4>1, <4>2, CarriedOn DEF Unmarked, ObjectKept, InFlight, Carries
        <4>3. CASE q # p
          BY <1>1, <4>1, <4>3 DEF OtherJobs, ObjectKept, InFlight, Carries
        <4> QED
          BY <4>2, <4>3
      <3>3. CASE ~InFlight(k)
        BY <1>1, <1>2, <3>1, <3>3 DEF ObjectKept, Held
      <3> QED
        BY <3>2, <3>3
    <2>2. CASE k \notin store
      <3>1. PutEntry(p) /\ k = EntryOf(p)
        BY <1>2, <1>6, <2>2
      <3>2. job'[p].pc = "entry" /\ job'[p].manifest = Append(job[p].manifest, k)
        BY <3>1, PutEntryStep
      <3>3. k \in Ran(job'[p].manifest)
        BY <2>0, <3>2, RanAppend, Typed
      <3> QED
        BY <3>2, <3>3 DEF ObjectKept, InFlight
    <2> QED
      BY <2>1, <2>2
  <1> QED
    BY <1>4, <1>5, <1>6 DEF Exact

\* The count of a manifest.  A file of it with an unmarked hash has the key of
\* its row, and its publication is not being deleted.
LEMMA IndexExact ==
    ASSUME TypeInv, TypeInv', FiniteInv, FiniteInv', NEW p \in Pub, Index(p),
           NEW h, Unmarked(h), Exact(h)
    PROVE  Exact(h)'
  <1> DEFINE m == job[p].manifest
             S == Places(m, h)
  <1>1. /\ OtherPubs(p) /\ OtherJobs(p) /\ pub' = pub /\ dying' = dying /\ del' = del
        /\ store' = store /\ m \in Seq(Key) /\ h \in Hash
    BY IndexStep, Typed DEF Stepped, Index, Unmarked
  <1>2. store \subseteq Key
    BY DEF TypeInv, TypeOK
  <1>3. CASE S = {}
    <2>1. blob'[h] = blob[h] /\ Still(h)
      BY <1>1, <1>3, IndexStep, IndexOwed, CountOne
    <2>2. blob'[h].refs = Owed(h)' /\ Agreed(h)'
      BY <2>1, StillCounted
    <2>3. blob'[h] # NoBlob => RowKept(h)'
      BY <1>1, <2>1 DEF Exact, RowKept, Leaving, Held
    <2>4. ASSUME NEW k \in store', HashOf[k] = h PROVE ObjectKept(k)'
      <3>1. ObjectKept(k)
        BY <1>1, <2>4 DEF Exact
      <3>2. ~Carries(p, k)
        BY <1>3, <2>4 DEF Carries, Ran, Places
      <3>3. \A q \in Pub : Carries(q, k) => q # p /\ Carries(q, k)'
        BY <1>1, <3>2 DEF OtherJobs, Carries
      <3>4. InFlight(k) => InFlight(k)'
        BY <3>3 DEF InFlight, Carries
      <3> QED
        BY <1>1, <2>1, <2>4, <3>1, <3>4 DEF ObjectKept, Held
    <2> QED
      BY <2>2, <2>3, <2>4 DEF Exact
  <1>4. CASE S # {}
    <2>1. PICK i \in DOMAIN m : HashOf[m[i]] = h
      BY <1>4 DEF Places
    <2>2. h \in Hashes(m)
      BY <2>1 DEF Hashes, Ran
    <2>3. blob' = Count(m) /\ stray' = stray \cup Misfiled(p, Count(m))
      BY <2>2, IndexStep DEF Unmarked
    <2>4. h \notin Misfiled(p, Count(m))
      BY <2>3 DEF Unmarked
    <2>5. p \notin dying /\ \A k \in Ran(m) : HashOf[k] = h => blob'[h].key = k
      BY <2>1, <2>3, <2>4 DEF Misfiled, Ran
    <2>6. /\ Cardinality(S) >= 1 /\ Cardinality(S) \in Nat
          /\ blob'[h].refs = blob[h].refs + Cardinality(S)
          /\ blob[h] # NoBlob => blob'[h].key = blob[h].key
      BY <1>1, <1>4, <2>3, CountOne
    <2>7. /\ Owed(h)' = Owed(h) + Cardinality(S) /\ Owed(h) \in Nat /\ blob[h].refs = Owed(h)
      BY <1>1, <2>5, IndexOwed, OwedTyped DEF Exact
    <2>8. Owing(p, h)' = S /\ pub[p].manifest = m
      BY <1>1, <2>5, IndexOwing
    <2>9. \A q \in Pub : q # p => Owing(q, h)' = Owing(q, h)
      BY <1>1 DEF OtherPubs, OtherJobs, Owing, At
    <2>10. \A x \in Deleter : Pending(x, h)' = Pending(x, h)
      BY <1>1 DEF Pending
    <2>11. /\ \A q \in Pub : q # p => \A j \in Owing(q, h) : pub[q].manifest[j] = blob'[h].key
           /\ \A x \in Deleter : \A j \in Pending(x, h) : del[x].manifest[j] = blob'[h].key
      <3>1. CASE blob[h] = NoBlob
        <4>1. Owed(h) <= 0
          BY <2>7, <3>1 DEF NoBlob
        <4> QED
          BY <4>1, NothingOwed
      <3>2. CASE blob[h] # NoBlob
        BY <2>6, <3>2 DEF Exact, Agreed
      <3> QED
        BY <3>1, <3>2
    <2>12. \A j \in S : m[j] = blob'[h].key
      BY <2>5 DEF Places, Ran
    <2>13. Agreed(h)'
      BY <1>1, <2>8, <2>9, <2>10, <2>11, <2>12 DEF Agreed
    <2> HIDE DEF m, S
    <2>14. blob'[h].refs = Owed(h)' /\ blob'[h].refs >= 1
      BY <2>6, <2>7
    <2>15. ASSUME NEW k \in store', HashOf[k] = h PROVE ObjectKept(k)'
      <3>1. ObjectKept(k)
        BY <1>1, <2>15 DEF Exact
      <3>2. CASE InFlight(k)
        <4>1. PICK q \in Pub : Carries(q, k)
          BY <3>2, InFlightIs
        <4>2. CASE q = p
          BY <2>5, <2>14, <2>15, <4>1, <4>2 DEF Carries, ObjectKept, m
        <4>3. CASE q # p
          BY <1>1, <4>1, <4>3 DEF OtherJobs, ObjectKept, InFlight, Carries
        <4> QED
          BY <4>2, <4>3
      <3>3. CASE blob[h].key = k /\ blob[h].refs >= 1
        <4>1. blob[h] # NoBlob
          BY <3>3 DEF NoBlob
        <4> QED
          BY <2>6, <2>14, <2>15, <3>3, <4>1 DEF ObjectKept
      <3>4. CASE \E x \in Deleter : del[x].pc = "object" /\ Held(x) = k
        BY <1>1, <3>4 DEF ObjectKept, Held
      <3> QED
        BY <2>15, <3>1, <3>2, <3>3, <3>4 DEF ObjectKept
    <2> QED
      BY <2>13, <2>14, <2>15 DEF Exact, RowKept
  <1> QED
    BY <1>3, <1>4

\* What a step of deletion x keeps of rows and objects when x was not about to
\* remove any, and the row of h stays as it is.
LEMMA DelKept ==
    ASSUME NEW x \in Deleter, NEW h, OtherDels(x), job' = job, blob'[h] = blob[h], store' = store,
           Exact(h), del[x].pc \notin {"object", "row"}
    PROVE  /\ blob'[h] # NoBlob => RowKept(h)'
           /\ \A k \in store' : HashOf[k] = h => ObjectKept(k)'
  <1>1. \A y \in Deleter : del[y].pc \in {"object", "row"} => y # x /\ del'[y] = del[y]
    BY DEF OtherDels
  <1>2. blob'[h] # NoBlob => RowKept(h)'
    BY <1>1 DEF Exact, RowKept, Leaving, Held
  <1>3. ASSUME NEW k \in store', HashOf[k] = h PROVE ObjectKept(k)'
    <2>1. ObjectKept(k)
      BY <1>3 DEF Exact
    <2> QED
      BY <1>1, <1>3, <2>1 DEF ObjectKept, InFlight, Held
  <1> QED
    BY <1>2, <1>3

LEMMA DelExact ==
    ASSUME TypeInv, TypeInv', FiniteInv, FiniteInv', NEW x \in Deleter,
           LoadForDeletion(x) \/ CountOthers(x) \/ DeleteRaw(x) \/ DeleteRow(x),
           NEW h, Unmarked(h), Exact(h)
    PROVE  Exact(h)'
  <1>1. /\ OtherDels(x) /\ job' = job /\ blob' = blob /\ store' = store
        /\ del[x].pc \notin {"object", "row"}
    BY DelActionSteps DEF DelAction, LoadForDeletion, CountOthers, DeleteRaw, DeleteRow
  <1>2. blob'[h].refs = Owed(h)' /\ Agreed(h)'
    <2>1. CASE LoadForDeletion(x)
      BY <1>1, <2>1, LoadOwed DEF Unmarked, Exact
    <2>2. CASE CountOthers(x) \/ DeleteRaw(x) \/ DeleteRow(x)
      BY <1>1, <2>2, DelQuiet, StillCounted
    <2> QED
      BY <2>1, <2>2
  <1> QED
    BY <1>1, <1>2, DelKept DEF Exact

LEMMA DiscountExact ==
    ASSUME TypeInv, TypeInv', FiniteInv, FiniteInv', NEW x \in Deleter, Discount(x),
           NEW h, Unmarked(h), Exact(h)
    PROVE  Exact(h)'
  <1> DEFINE k == Held(x)
             g == HashOf[k]
  <1>1. /\ OtherDels(x) /\ job' = job /\ store' = store /\ del[x].pc = "entry" /\ h \in Hash
    BY DiscountStep DEF DelStepped, Discount, Unmarked
  <1>2. CASE h # g
    <2>1. blob'[h] = blob[h] /\ Still(h)
      BY <1>1, <1>2, DiscountStep, DiscountOwed DEF OtherBlobs
    <2>2. blob'[h].refs = Owed(h)' /\ Agreed(h)'
      BY <2>1, StillCounted
    <2> QED
      BY <1>1, <2>1, <2>2, DelKept DEF Exact
  <1>3. CASE h = g
    <2>1. Owed(h)' = Owed(h) - 1 /\ del[x].next \in Pending(x, h)
      BY <1>1, <1>3, DiscountOwed
    <2>2. blob[h].key = k
      BY <2>1 DEF Exact, Agreed, Held
    <2>3. /\ blob'[h].key = k /\ blob'[h].refs = blob[h].refs - 1
          /\ del'[x].manifest = del[x].manifest
          /\ \/ del'[x].pc = "object" /\ del'[x].next = del[x].next
             \/ blob[h].refs - 1 > 0
      BY <1>3, <2>2, DiscountStep
    <2>4. blob'[h].refs = Owed(h)' /\ Agreed(h)'
      BY <1>1, <2>1, <2>2, <2>3, DiscountOwed DEF Exact
    <2>5. blob[h].refs \in Int
      BY <1>1, BlobTyped
    <2>6. blob'[h].refs >= 1 \/ (del'[x].pc = "object" /\ Held(x)' = k)
      BY <2>3, <2>5 DEF Held
    <2>7. RowKept(h)'
      BY <1>3, <2>6 DEF RowKept, Leaving
    <2>8. ASSUME NEW e \in store', HashOf[e] = h PROVE ObjectKept(e)'
      <3>1. ObjectKept(e)
        BY <1>1, <2>8 DEF Exact
      <3>2. CASE InFlight(e)
        BY <1>1, <3>2 DEF ObjectKept, InFlight
      <3>3. CASE blob[h].key = e
        BY <2>2, <2>3, <2>6, <2>8, <3>3 DEF ObjectKept
      <3>4. CASE \E y \in Deleter : del[y].pc = "object" /\ Held(y) = e
        <4>1. PICK y \in Deleter : del[y].pc = "object" /\ Held(y) = e
          BY <3>4
        <4>2. del'[y] = del[y]
          BY <1>1, <4>1 DEF OtherDels
        <4> QED
          BY <4>1, <4>2 DEF ObjectKept, Held
      <3> QED
        BY <2>8, <3>1, <3>2, <3>3, <3>4 DEF ObjectKept
    <2> QED
      BY <2>4, <2>7, <2>8 DEF Exact
  <1> QED
    BY <1>2, <1>3

LEMMA RemoveObjectExact ==
    ASSUME TypeInv, NEW x \in Deleter, RemoveObject(x), NEW h, Unmarked(h), Exact(h)
    PROVE  Exact(h)'
  <1> DEFINE k == Held(x)
  <1>1. /\ OtherDels(x) /\ job' = job /\ blob' = blob /\ del[x].pc = "object" /\ del'[x].pc = "row"
        /\ del'[x].manifest = del[x].manifest /\ del'[x].next = del[x].next
        /\ \/ store' = store \ {k} /\ stray' = stray
           \/ store' = store /\ stray' = stray \cup {HashOf[k]}
    BY RemoveObjectStep DEF DelStepped, RemoveObject
  <1>2. Still(h)
    BY DelQuiet
  <1>3. blob'[h].refs = Owed(h)' /\ Agreed(h)'
    BY <1>1, <1>2, StillCounted
  <1>4. \A y \in Deleter : Held(y)' = Held(y) /\ (y = x \/ del'[y] = del[y])
    BY <1>1 DEF OtherDels, Held
  <1>5. \A y \in Deleter : Leaving(y, h) => Leaving(y, h)'
    BY <1>1, <1>4 DEF Leaving
  <1>6. blob'[h] # NoBlob => RowKept(h)'
    BY <1>1, <1>5 DEF Exact, RowKept
  <1>7. ASSUME NEW e \in store', HashOf[e] = h PROVE ObjectKept(e)'
    <2>1. e \in store /\ e # k
      BY <1>1, <1>7 DEF Unmarked
    <2>2. ObjectKept(e)
      BY <1>7, <2>1 DEF Exact
    <2>3. CASE InFlight(e) \/ (blob[h].key = e /\ blob[h].refs >= 1)
      BY <1>1, <1>7, <2>3 DEF ObjectKept, InFlight
    <2>4. CASE \E y \in Deleter : del[y].pc = "object" /\ Held(y) = e
      BY <1>4, <2>1, <2>4 DEF ObjectKept
    <2> QED
      BY <1>7, <2>2, <2>3, <2>4 DEF ObjectKept
  <1> QED
    BY <1>3, <1>6, <1>7 DEF Exact

LEMMA RemoveRowExact ==
    ASSUME TypeInv, TypeInv', FiniteInv, FiniteInv', NEW x \in Deleter, RemoveRow(x),
           NEW h, Unmarked(h), Exact(h)
    PROVE  Exact(h)'
  <1> DEFINE g == HashOf[Held(x)]
  <1>1. /\ OtherDels(x) /\ job' = job /\ store' = store /\ del[x].pc = "row" /\ del'[x].pc = "entry"
        /\ blob'[g] = NoBlob /\ OtherBlobs(g) /\ h \in Hash
        /\ ~Last(blob[g].refs) => g \in undercount'
    BY RemoveRowStep DEF DelStepped, RemoveRow, Unmarked
  <1>2. Still(h)
    BY DelQuiet
  <1>3. \A y \in Deleter : y # x => del'[y] = del[y]
    BY <1>1 DEF OtherDels
  <1>4. CASE h # g
    <2>1. blob'[h] = blob[h]
      BY <1>1, <1>4 DEF OtherBlobs
    <2>2. blob'[h].refs = Owed(h)' /\ Agreed(h)'
      BY <1>2, <2>1, StillCounted
    <2>3. \A y \in Deleter : Leaving(y, h) => Leaving(y, h)'
      BY <1>3, <1>4 DEF Leaving, Held
    <2>4. blob'[h] # NoBlob => RowKept(h)'
      BY <2>1, <2>3 DEF Exact, RowKept
    <2>5. ASSUME NEW e \in store', HashOf[e] = h PROVE ObjectKept(e)'
      <3>1. ObjectKept(e)
        BY <1>1, <2>5 DEF Exact
      <3> QED
        BY <1>1, <1>3, <2>1, <2>5, <3>1 DEF ObjectKept, InFlight, Held
    <2> QED
      BY <2>2, <2>4, <2>5 DEF Exact
  <1>5. CASE h = g
    <2>1. blob[h].refs <= 0 /\ blob[h].refs = Owed(h) /\ Owed(h) \in Nat
      BY <1>1, <1>5, OwedTyped DEF Unmarked, Last, Exact
    <2>2. Owed(h) = 0 /\ blob[h].refs = 0
      BY <2>1
    <2>3. blob'[h] = NoBlob /\ NoBlob.refs = 0
      BY <1>1, <1>5 DEF NoBlob
    <2>4. Owed(h)' = 0
      BY <1>2, <2>2, StillOwed
    <2>5. Agreed(h)'
      <3>1. /\ \A p \in Pub : Owing(p, h) = {}
            /\ \A y \in Deleter : Pending(y, h) = {}
        BY <2>2, NothingOwed
      <3> QED
        BY <1>2, <3>1 DEF Still, Agreed
    <2>6. ASSUME NEW e \in store', HashOf[e] = h PROVE ObjectKept(e)'
      <3>1. ObjectKept(e)
        BY <1>1, <2>6 DEF Exact
      <3>2. InFlight(e) \/ \E y \in Deleter : del[y].pc = "object" /\ Held(y) = e
        BY <2>2, <2>6, <3>1 DEF ObjectKept
      <3> QED
        BY <1>1, <1>3, <3>2 DEF ObjectKept, InFlight, Held
    <2> QED
      BY <2>3, <2>4, <2>5, <2>6 DEF Exact
  <1> QED
    BY <1>4, <1>5

LEMMA CrashExact ==
    ASSUME TypeInv, Crash, NEW h, Unmarked(h), Exact(h)
    PROVE  Exact(h)'
  <1>1. /\ blob' = blob /\ store' = store
        /\ \A p \in Pub : Hashes(job[p].manifest) \subseteq stray'
        /\ \A x \in Deleter : Hashes(del[x].manifest) \subseteq stray'
    BY CrashStep
  <1>2. Still(h)
    BY CrashOwing DEF Unmarked
  <1>3. blob'[h].refs = Owed(h)' /\ Agreed(h)'
    BY <1>1, <1>2, StillCounted
  <1>4. \A x \in Deleter : ~Leaving(x, h)
    <2> SUFFICES ASSUME NEW x \in Deleter, Leaving(x, h) PROVE FALSE
      OBVIOUS
    <2>1. del[x].next \in DOMAIN del[x].manifest
      BY TypedDel DEF Leaving
    <2>2. h \in Hashes(del[x].manifest)
      BY <2>1 DEF Leaving, Hashes, Ran, Held
    <2> QED
      BY <1>1, <2>2 DEF Unmarked
  <1>5. blob'[h] # NoBlob => RowKept(h)'
    BY <1>1, <1>4 DEF Exact, RowKept
  <1>6. ASSUME NEW k \in store', HashOf[k] = h PROVE ObjectKept(k)'
    <2>1. ObjectKept(k)
      BY <1>1, <1>6 DEF Exact
    <2>2. ~InFlight(k)
      BY <1>1, <1>6 DEF Unmarked, InFlight, Hashes
    <2>3. ~ \E x \in Deleter : del[x].pc = "object" /\ Held(x) = k
      BY <1>4, <1>6 DEF Leaving
    <2> QED
      BY <1>1, <2>1, <2>2, <2>3 DEF ObjectKept
  <1> QED
    BY <1>3, <1>5, <1>6 DEF Exact

LEMMA NextExactInv ==
    ASSUME TypeInv, FiniteInv, ExactInv, [Next]_vars
    PROVE  ExactInv'
  <1>1. TypeInv' /\ FiniteInv'
    BY NextTypeInv, NextFiniteInv
  <1> SUFFICES ASSUME NEW h, Unmarked(h) PROVE Exact(h)'
    BY DEF ExactInv, Unmarked
  <1>2. Exact(h)
    BY UndercountGrows, HistoryGrows DEF ExactInv, Unmarked
  <1>3. ASSUME NEW p \in Pub, PubAction(p) \/ Index(p) PROVE Exact(h)'
    BY <1>1, <1>2, <1>3, PubExact, IndexExact
  <1>4. ASSUME NEW x \in Deleter, DelAction(x) PROVE Exact(h)'
    BY <1>1, <1>2, <1>4, DelExact, DiscountExact, RemoveObjectExact, RemoveRowExact DEF DelAction
  <1>5. CASE Crash
    BY <1>2, <1>5, CrashExact
  <1>6. CASE UNCHANGED vars
    <2>1. Still(h)
      BY <1>6 DEF vars, history, Still, Owing, Pending, At
    <2>2. /\ blob' = blob /\ store' = store /\ job' = job /\ del' = del
      BY <1>6 DEF vars
    <2>3. blob'[h].refs = Owed(h)' /\ Agreed(h)'
      BY <1>2, <2>1, <2>2, StillCounted
    <2> QED
      BY <1>2, <2>2, <2>3 DEF Exact, RowKept, ObjectKept, InFlight, Leaving, Held
  <1> QED
    BY <1>3, <1>4, <1>5, <1>6 DEF Next, PubAction, DelAction

LEMMA InitExactInv == Init => ExactInv
  <1> SUFFICES ASSUME Init, NEW h \in Hash PROVE Exact(h)
    BY DEF ExactInv
  <1>1. blob[h] = NoBlob /\ NoBlob.refs = 0 /\ store = {} /\ Owed(h) = 0
    BY InitOwed DEF Init, NoBlob
  <1>2. Agreed(h)
    BY DEF Init, Agreed, Owing, Pending, Places, NoPub, NoDeletion
  <1> QED
    BY <1>1, <1>2 DEF Exact

\* When every publication is deleted no file of theirs is left in the bucket and
\* no row counts one, whatever order uploads, extractions and deletions came in,
\* apart from what failures, repeated extractions, miscounts and equal files with
\* different extensions have left (NothingLeft).
THEOREM NothingIsLeft == Spec => []NothingLeft
  <1>1. Init => TypeInv /\ FiniteInv /\ ExactInv
    BY InitTypeInv, InitCountInv, InitExactInv
  <1>2. TypeInv /\ FiniteInv /\ ExactInv /\ [Next]_vars => TypeInv' /\ FiniteInv' /\ ExactInv'
    BY NextTypeInv, NextFiniteInv, NextExactInv
  <1>3. TypeInv /\ FiniteInv /\ ExactInv => NothingLeft
    <2> SUFFICES ASSUME TypeInv, FiniteInv, ExactInv,
                        \A p \in Pub : ~Exists(p) /\ At(p, "idle"),
                        \A x \in Deleter : del[x].pc = "idle"
                 PROVE  /\ \A k \in store : HashOf[k] \in stray \cup undercount
                        /\ \A h \in Hash : blob[h] = NoBlob \/ h \in stray \cup undercount
      BY DEF NothingLeft
    <2>1. \A x \in Deleter : ~(del[x].pc \in {"object", "row"})
      OBVIOUS
    <2>2. \A k : ~InFlight(k)
      BY DEF InFlight, At
    <2>3. \A h \in Hash : Owed(h) = 0
      <3> TAKE h \in Hash
      <3>1. \A p \in Pub : pub[p].manifest = << >>
        BY DEF TypeInv, PubShape, PubOk
      <3>2. \A x \in Deleter : del[x].manifest = << >>
        BY DEF TypeInv, DelShape, DelOk
      <3>3. Holders(h) = {}
        BY <3>1 DEF Holders, Owing, Places
      <3>4. Releases(h) = {}
        BY <3>2 DEF Releases, Pending, Places
      <3> QED
        BY <3>3, <3>4, FS_EmptySet DEF Owed
    <2>4. \A h \in Hash \ (stray \cup undercount) : blob[h].refs = 0 /\ Exact(h)
      BY <2>3 DEF ExactInv, Exact
    <2>5. \A h \in Hash : blob[h] = NoBlob \/ h \in stray \cup undercount
      BY <2>1, <2>4 DEF Exact, RowKept, Leaving
    <2>6. ASSUME NEW k \in store, HashOf[k] \notin stray \cup undercount PROVE FALSE
      <3>1. HashOf[k] \in Hash
        BY <2>6, BlobAssumption DEF TypeInv, TypeOK
      <3> QED
        BY <2>1, <2>2, <2>4, <2>6, <3>1 DEF Exact, ObjectKept
    <2> QED
      BY <2>5, <2>6
  <1> QED
    BY <1>1, <1>2, <1>3, PTL DEF Spec
=============================================================================
