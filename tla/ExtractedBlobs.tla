---------------------------- MODULE ExtractedBlobs ----------------------------
(***************************************************************************)
(* The S3 objects that publications share: raw zips keyed by the hash of the *)
(* zip, extracted files keyed by the hash and the extension of the file, and *)
(* the ExtractedFileBlob rows that count the extracted ones.  Upload,        *)
(* extraction (publicationService.js, extractZipWorker.js) and deletion of   *)
(* publications overlap; each action is one round trip to S3 or MongoDB.     *)
(*                                                                         *)
(* Validation and ingest are left out (Publishing): a publication whose      *)
(* manifest is saved is held.  Objects of the layout that is not content-    *)
(* addressed are left out too.                                              *)
(***************************************************************************)
EXTENDS Integers, Sequences, FiniteSets

CONSTANTS
    Pub,         \* publications
    Deleter,     \* deletions under way: DELETE requests, /clean
    Zip,         \* hashes of zips
    Hash,        \* hashes of files
    Key,         \* keys of extracted files
    Entries,     \* the keys of the files of each zip, in their order
    HashOf,      \* the hash that a key is made of
    None,
    MaxUploads,  \* bound: uploads of zips, extractions asked for again
    MaxFaults    \* bound: failed calls and crashes

ASSUME BlobAssumption ==
    /\ Entries \in [Zip -> Seq(Key)]
    /\ HashOf \in [Key -> Hash]
    /\ None \notin Pub \cup Zip \cup Key
    /\ MaxUploads \in Nat /\ MaxFaults \in Nat

VARIABLES
    raw,        \* the raw bucket: hashes of zips
    store,      \* the extracted bucket: keys
    blob,       \* the ExtractedFileBlob row of each hash
    pub,        \* the Publication rows
    job,        \* the upload or extraction of each publication
    del,        \* the program state of each deletion
    dying,      \* history: publications that some deletion has loaded
    undercount, \* history: hashes with a holder that was not counted in time, or
                \* that was discounted twice
    stray,      \* history: hashes that were stored or counted for no holder
    late,       \* history: zips uploaded between the count and the end of a deletion
    uploads, faults

history == <<dying, undercount, stray, late>>
vars == <<raw, store, blob, pub, job, del, history, uploads, faults>>

Row == [state : {"none", "created", "uploaded", "extracting", "held", "failed", "gone"},
        zip : Zip \cup {None}, raw : BOOLEAN, manifest : Seq(Key)]
NoPub(state) == [state |-> state, zip |-> None, raw |-> FALSE, manifest |-> << >>]

\* next: the entry of the zip to come; manifest: the entries done, or what is
\* to be copied from a prior publication.
Job == [pc : {"idle", "head", "put", "save", "copy", "begin", "fetch", "entry",
              "putEntry", "manifest", "index"},
        next : Nat, manifest : Seq(Key), copied : BOOLEAN]
NoJob == [pc |-> "idle", next |-> 1, manifest |-> << >>, copied |-> FALSE]

\* manifest, zip, raw: the publication as loaded; next: the entry to release.
Deletion == [pc : {"idle", "count", "raw", "entry", "object", "row", "last"},
             pub : Pub \cup {None}, zip : Zip \cup {None}, raw : BOOLEAN,
             manifest : Seq(Key), next : Nat]
NoDeletion == [pc |-> "idle", pub |-> None, zip |-> None, raw |-> FALSE,
               manifest |-> << >>, next |-> 1]

NoBlob == [key |-> None, refs |-> 0]

TypeOK ==
    /\ raw \subseteq Zip
    /\ store \subseteq Key
    /\ blob \in [Hash -> {NoBlob} \cup [key : Key, refs : Int]]
    /\ pub \in [Pub -> Row]
    /\ job \in [Pub -> Job]
    /\ del \in [Deleter -> Deletion]
    /\ dying \subseteq Pub /\ undercount \subseteq Hash /\ stray \subseteq Hash /\ late \subseteq Zip
    /\ uploads \in 0..MaxUploads /\ faults \in 0..MaxFaults

Init ==
    /\ raw = {} /\ store = {}
    /\ blob = [h \in Hash |-> NoBlob]
    /\ pub = [p \in Pub |-> NoPub("none")]
    /\ job = [p \in Pub |-> NoJob]
    /\ del = [x \in Deleter |-> NoDeletion]
    /\ dying = {} /\ undercount = {} /\ stray = {} /\ late = {}
    /\ uploads = 0 /\ faults = 0

Exists(p) == pub[p].state \notin {"none", "gone"}
Ran(s) == {s[i] : i \in DOMAIN s}
Hashes(s) == {HashOf[k] : k \in Ran(s)}
At(p, pc) == job[p].pc = pc
Goto(p, pc) == job' = [job EXCEPT ![p].pc = pc]
Fault == faults < MaxFaults /\ faults' = faults + 1

-----------------------------------------------------------------------------
(* Upload                                                                  *)

\* The row is created first, with the hash of the zip.
CreatePub(p) ==
    /\ pub[p].state = "none"
    /\ uploads < MaxUploads /\ uploads' = uploads + 1
    /\ \E z \in Zip :
          /\ pub' = [pub EXCEPT ![p] = [NoPub("created") EXCEPT !.zip = z]]
          /\ late' = late \cup IF \E x \in Deleter : del[x].pc = "raw" /\ del[x].zip = z THEN {z} ELSE {}
    /\ Goto(p, "head")
    /\ UNCHANGED <<raw, store, blob, del, dying, undercount, stray, faults>>

\* A prior validated publication of the same zip, whose manifest is copied.
Prior(p) == {q \in Pub \ {p} : pub[q].state = "held" /\ pub[q].zip = pub[p].zip /\ pub[q].manifest # << >>}

\* The prior is looked up, and the raw bucket is asked for the zip.
HeadRaw(p) ==
    /\ At(p, "head")
    /\ \E m \in IF Prior(p) = {} THEN {<< >>} ELSE {pub[q].manifest : q \in Prior(p)} :
          job' = [job EXCEPT ![p] = [NoJob EXCEPT
                     !.pc = IF pub[p].zip \in raw THEN "save" ELSE "put",
                     !.manifest = m, !.copied = m # << >>]]
    /\ UNCHANGED <<raw, store, blob, pub, del, history, uploads, faults>>

PutRaw(p) ==
    /\ At(p, "put")
    /\ raw' = raw \cup {pub[p].zip}
    /\ Goto(p, "save")
    /\ UNCHANGED <<store, blob, pub, del, history, uploads, faults>>

\* The save of a row that is gone throws, which ends the upload.
SaveUpload(p) ==
    /\ At(p, "save")
    /\ IF Exists(p)
       THEN /\ pub' = [pub EXCEPT ![p].state = "uploaded", ![p].raw = TRUE]
            /\ Goto(p, IF job[p].copied THEN "copy" ELSE "begin")
       ELSE job' = [job EXCEPT ![p] = NoJob] /\ UNCHANGED pub
    /\ UNCHANGED <<raw, store, blob, del, history, uploads, faults>>

\* The manifest is copied as it was when the upload looked for a prior; the
\* counts are left alone.
CopyManifest(p) ==
    /\ At(p, "copy")
    /\ IF Exists(p)
       THEN /\ pub' = [pub EXCEPT ![p].state = "held", ![p].manifest = job[p].manifest]
            /\ undercount' = undercount \cup Hashes(job[p].manifest)
       ELSE UNCHANGED <<pub, undercount>>
    /\ job' = [job EXCEPT ![p] = NoJob]
    /\ UNCHANGED <<raw, store, blob, del, dying, stray, late, uploads, faults>>

-----------------------------------------------------------------------------
(* Extraction.  Extractions of one publication do not overlap here          *)
(* (Publishing has those that do).                                         *)

\* What was counted for the manifest that is given up stays counted.
BeginExtraction(p) ==
    /\ \/ At(p, "begin") /\ UNCHANGED uploads
       \/ /\ At(p, "idle") /\ pub[p].state \in {"uploaded", "held", "failed"} /\ pub[p].raw
          /\ uploads < MaxUploads /\ uploads' = uploads + 1
    /\ IF Exists(p)
       THEN /\ pub' = [pub EXCEPT ![p].state = "extracting", ![p].manifest = << >>]
            /\ stray' = stray \cup Hashes(pub[p].manifest)
            /\ job' = [job EXCEPT ![p] = [NoJob EXCEPT !.pc = "fetch"]]
       ELSE job' = [job EXCEPT ![p] = NoJob] /\ UNCHANGED <<pub, stray>>
    /\ UNCHANGED <<raw, store, blob, del, dying, undercount, late, faults>>

\* The worker fails when the zip is not there, or at any entry of it.
FailExtraction(p) ==
    /\ \/ At(p, "fetch") /\ pub[p].zip \notin raw /\ UNCHANGED faults
       \/ (At(p, "fetch") \/ At(p, "entry")) /\ Fault
    /\ pub' = [pub EXCEPT ![p].state = IF Exists(p) THEN "failed" ELSE @]
    /\ stray' = stray \cup Hashes(job[p].manifest)
    /\ job' = [job EXCEPT ![p] = NoJob]
    /\ UNCHANGED <<raw, store, blob, del, dying, undercount, late, uploads>>

FetchZip(p) ==
    /\ At(p, "fetch") /\ pub[p].zip \in raw
    /\ Goto(p, "entry")
    /\ UNCHANGED <<raw, store, blob, pub, del, history, uploads, faults>>

EntryOf(p) == Entries[pub[p].zip][job[p].next]
More(p) == job[p].next \in DOMAIN Entries[pub[p].zip]
Done(p) == job' = [job EXCEPT ![p].pc = "entry", ![p].next = @ + 1,
                              ![p].manifest = Append(@, EntryOf(p))]

\* The head check: an object that is there is not uploaded.
CheckEntry(p) ==
    /\ At(p, "entry") /\ More(p)
    /\ IF EntryOf(p) \in store THEN Done(p) ELSE Goto(p, "putEntry")
    /\ UNCHANGED <<raw, store, blob, pub, del, history, uploads, faults>>

PutEntry(p) ==
    /\ At(p, "putEntry")
    /\ store' = store \cup {EntryOf(p)}
    /\ Done(p)
    /\ UNCHANGED <<raw, blob, pub, del, history, uploads, faults>>

\* An entry whose upload fails is left out of the manifest.
SkipEntry(p) ==
    /\ At(p, "putEntry")
    /\ Fault
    /\ job' = [job EXCEPT ![p].pc = "entry", ![p].next = @ + 1]
    /\ UNCHANGED <<raw, store, blob, pub, del, history, uploads>>

SaveManifest(p) ==
    /\ At(p, "entry") /\ ~More(p)
    /\ IF Exists(p)
       THEN /\ pub' = [pub EXCEPT ![p].state = "held", ![p].manifest = job[p].manifest]
            /\ stray' = stray \cup IF p \in dying THEN Hashes(job[p].manifest) ELSE {}
            /\ Goto(p, "index")
       ELSE /\ stray' = stray \cup Hashes(job[p].manifest)
            /\ job' = [job EXCEPT ![p] = NoJob]
            /\ UNCHANGED pub
    /\ UNCHANGED <<raw, store, blob, del, dying, undercount, late, uploads, faults>>

\* upsertExtractedFileBlobs.  Slip: only the rows that are new are counted.
CountNew(m) ==
    [h \in Hash |->
        LET at == {i \in DOMAIN m : HashOf[m[i]] = h}
        IN  IF at = {} \/ blob[h] # NoBlob THEN blob[h]
            ELSE [key |-> m[CHOOSE i \in at : \A j \in at : i <= j], refs |-> Cardinality(at)]]
Count(m) ==
    [h \in Hash |->
        LET at == {i \in DOMAIN m : HashOf[m[i]] = h}
        IN  IF at = {} THEN blob[h]
            ELSE [key |-> IF blob[h] = NoBlob THEN m[CHOOSE i \in at : \A j \in at : i <= j]
                          ELSE blob[h].key,
                  refs |-> blob[h].refs + Cardinality(at)]]

\* A deletion looks rows up by key: the count of an entry whose row has another
\* key, or whose publication has been loaded by a deletion, stays.
Misfiled(p, counted) ==
    {HashOf[k] : k \in {k \in Ran(job[p].manifest) : counted[HashOf[k]].key # k \/ p \in dying}}

Index(p) ==
    /\ At(p, "index")
    /\ \/ /\ blob' = Count(job[p].manifest)
          /\ stray' = stray \cup Misfiled(p, Count(job[p].manifest))
          /\ UNCHANGED <<undercount, faults>>
       \/ /\ Fault
          /\ undercount' = undercount \cup Hashes(job[p].manifest)
          /\ stray' = stray \cup Hashes(job[p].manifest)
          /\ UNCHANGED blob
    /\ job' = [job EXCEPT ![p] = NoJob]
    /\ UNCHANGED <<raw, store, pub, del, dying, late, uploads>>

-----------------------------------------------------------------------------
(* Deletion                                                                *)

\* What the publication holds is discounted twice when another deletion has
\* loaded it, and too early when it is not counted yet.
LoadForDeletion(x) ==
    /\ del[x].pc = "idle"
    /\ \E p \in Pub :
          /\ Exists(p)
          /\ del' = [del EXCEPT ![x] = [pc |-> "count", pub |-> p, zip |-> pub[p].zip, raw |-> pub[p].raw,
                                        manifest |-> pub[p].manifest, next |-> 1]]
          /\ undercount' = undercount \cup
                 IF p \in dying \/ At(p, "index") THEN Hashes(pub[p].manifest) ELSE {}
          /\ dying' = dying \cup {p}
    /\ UNCHANGED <<raw, store, blob, pub, job, stray, late, uploads, faults>>

\* Slip: only publications that hold files are counted.
OthersHeld(p, z) == {q \in Pub \ {p} : pub[q].state = "held" /\ pub[q].zip = z}
Others(p, z) == {q \in Pub \ {p} : Exists(q) /\ pub[q].zip = z}

CountOthers(x) ==
    /\ del[x].pc = "count"
    /\ del' = [del EXCEPT ![x].pc =
           IF del[x].raw /\ Others(del[x].pub, del[x].zip) = {} THEN "raw" ELSE "entry"]
    /\ UNCHANGED <<raw, store, blob, pub, job, history, uploads, faults>>

\* deleteFromAllBuckets swallows its errors.
DeleteRaw(x) ==
    /\ del[x].pc = "raw"
    /\ \/ raw' = raw \ {del[x].zip} /\ UNCHANGED faults
       \/ Fault /\ UNCHANGED raw
    /\ del' = [del EXCEPT ![x].pc = "entry"]
    /\ UNCHANGED <<store, blob, pub, job, history, uploads>>

Releasing(x) == del[x].pc = "entry" /\ del[x].next \in DOMAIN del[x].manifest
Held(x) == del[x].manifest[del[x].next]
\* Slip: one holder less than none.
LastOfTwo(refs) == refs <= 1
\* Slip: a count of zero still holds.
LastBelowZero(refs) == refs < 0
Last(refs) == refs <= 0

Discount(x) ==
    LET k == Held(x)
        h == HashOf[k]
    IN  /\ Releasing(x)
        /\ IF blob[h].key = k
           THEN /\ blob' = [blob EXCEPT ![h].refs = @ - 1]
                /\ del' = [del EXCEPT ![x].pc = IF Last(blob[h].refs - 1) THEN "object" ELSE @,
                                      ![x].next = IF Last(blob[h].refs - 1) THEN @ ELSE @ + 1]
           ELSE /\ del' = [del EXCEPT ![x].next = @ + 1]
                /\ UNCHANGED blob
        /\ UNCHANGED <<raw, store, pub, job, history, uploads, faults>>

\* An extraction that has found or stored k, and has not counted it.
InFlight(k) == \E p \in Pub : job[p].pc \in {"entry", "putEntry", "index"} /\ k \in Ran(job[p].manifest)

\* Between the discount and the removals others may find the object, or count it.
RemoveObject(x) ==
    LET k == Held(x)
    IN  /\ del[x].pc = "object"
        /\ \/ store' = store \ {k} /\ UNCHANGED <<stray, faults>>
           \/ Fault /\ stray' = stray \cup {HashOf[k]} /\ UNCHANGED store
        /\ undercount' = undercount \cup
               IF InFlight(k) \/ ~Last(blob[HashOf[k]].refs) THEN {HashOf[k]} ELSE {}
        /\ del' = [del EXCEPT ![x].pc = "row"]
        /\ UNCHANGED <<raw, blob, pub, job, dying, late, uploads>>

RemoveRow(x) ==
    LET h == HashOf[Held(x)]
    IN  /\ del[x].pc = "row"
        /\ blob' = [blob EXCEPT ![h] = NoBlob]
        /\ undercount' = undercount \cup IF Last(blob[h].refs) THEN {} ELSE {h}
        /\ stray' = stray \cup IF Last(blob[h].refs) THEN {} ELSE {h}
        /\ del' = [del EXCEPT ![x].pc = "entry", ![x].next = @ + 1]
        /\ UNCHANGED <<raw, store, pub, job, dying, late, uploads, faults>>

DeleteRow(x) ==
    /\ del[x].pc = "entry" /\ ~Releasing(x)
    /\ pub' = [pub EXCEPT ![del[x].pub].state = "gone", ![del[x].pub].manifest = << >>]
    /\ del' = [del EXCEPT ![x] = NoDeletion]
    /\ UNCHANGED <<raw, store, blob, job, history, uploads, faults>>

-----------------------------------------------------------------------------

\* The process ends; what was under way is forgotten.
Crash ==
    /\ Fault
    /\ undercount' = undercount \cup UNION {Hashes(job[p].manifest) : p \in {p \in Pub : At(p, "index")}}
    /\ stray' = stray \cup (UNION {Hashes(job[p].manifest) : p \in Pub})
                      \cup (UNION {Hashes(del[x].manifest) : x \in Deleter})
    /\ job' = [p \in Pub |-> NoJob]
    /\ del' = [x \in Deleter |-> NoDeletion]
    /\ UNCHANGED <<raw, store, blob, pub, dying, late, uploads>>

Next ==
    \/ \E p \in Pub :
          \/ CreatePub(p) \/ HeadRaw(p) \/ PutRaw(p) \/ SaveUpload(p) \/ CopyManifest(p)
          \/ BeginExtraction(p) \/ FailExtraction(p) \/ FetchZip(p)
          \/ CheckEntry(p) \/ PutEntry(p) \/ SkipEntry(p) \/ SaveManifest(p) \/ Index(p)
    \/ \E x \in Deleter :
          \/ LoadForDeletion(x) \/ CountOthers(x) \/ DeleteRaw(x)
          \/ Discount(x) \/ RemoveObject(x) \/ RemoveRow(x) \/ DeleteRow(x)
    \/ Crash

Spec == Init /\ [][Next]_vars

-----------------------------------------------------------------------------
(* Properties                                                              *)

\* Invariant.  An extracted file is there as long as a publication that no
\* deletion has loaded lists it, unless one of its holders was not counted in
\* time: a manifest that was copied, a count that failed or that a deletion of
\* the last holder overtook, a publication deleted by two requests.
BlobsThere ==
    \A p \in Pub \ dying : \A k \in Ran(pub[p].manifest) : k \in store \/ HashOf[k] \in undercount

\* Invariant.  Its count, too, covers these holders.
CountsCover ==
    \A h \in Hash \ undercount :
        LET counted == {p \in Pub \ dying : ~At(p, "index")}
            holds(p) == {i \in DOMAIN pub[p].manifest : HashOf[pub[p].manifest[i]] = h}
        IN  \A p \in counted : holds(p) # {} => blob[h].refs >= Cardinality(holds(p))

\* Invariant.  The zip of a publication that no deletion has loaded is in the raw
\* bucket, unless it was uploaded while a deletion that had counted went on.
RawThere ==
    \A p \in Pub \ dying : Exists(p) /\ pub[p].raw => pub[p].zip \in raw \cup late

\* Invariant.  When every publication is deleted nothing is left of their files,
\* apart from what failures, repeated extractions, miscounts and equal files with
\* different extensions have left.
NothingLeft ==
    (\A p \in Pub : ~Exists(p) /\ At(p, "idle")) /\ (\A x \in Deleter : del[x].pc = "idle") =>
        /\ \A k \in store : HashOf[k] \in stray \cup undercount
        /\ \A h \in Hash : blob[h] = NoBlob \/ h \in stray \cup undercount
=============================================================================
