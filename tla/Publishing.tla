----------------------------- MODULE Publishing -----------------------------
(***************************************************************************)
(* The publishing pipeline of the knowledge hub                            *)
(* (backend/src/services/publishing/publicationService.js): an uploaded    *)
(* zip becomes a Publication row, is extracted, validated and, when the    *)
(* validation is clean, ingested into a portal Document.  A publication    *)
(* that replaces an earlier one is merged into that one's Document under a *)
(* lock word kept in Document.currentPublicationId.                        *)
(*                                                                         *)
(* A flow is one HTTP request together with the background work it chains  *)
(* to: uploadPublication runs on into extractPublication (or the dedupe    *)
(* path), that into validatePublication, that into                         *)
(* ingestValidatedPublication.  A step of a flow ends where the code       *)
(* awaits something another flow can interfere with.  Each re-fetch that   *)
(* is saved at once is one step.                                           *)
(***************************************************************************)
EXTENDS Naturals

CONSTANTS
    Pub,          \* publication ids
    Doc,          \* document ids
    Flow,         \* requests with their background chains
    Zip,          \* distinct zip bodies, i.e. values of contentHash
    Dirty,        \* the zips in which the validate worker finds issues
    None,         \* the null of an id field
    LegacyDoc,    \* the documents of publications that predate the lock word
    MaxRequests,  \* bound: extract, validate and delete requests of a run
    MaxCrashes    \* bound: crashes of the server process

ASSUME PublishingAssumption ==
    /\ Dirty \subseteq Zip
    /\ None \notin Pub /\ None \notin Doc /\ None \notin Zip
    /\ DOMAIN LegacyDoc \subseteq Pub
    /\ \A p \in DOMAIN LegacyDoc : LegacyDoc[p] \in Doc
    /\ \A p, q \in DOMAIN LegacyDoc : LegacyDoc[p] = LegacyDoc[q] => p = q
    /\ MaxRequests \in Nat
    /\ MaxCrashes \in Nat

VARIABLES
    row,       \* the Publication collection
    doc,       \* the Document collection
    flow,      \* the program state of each request
    doubled,   \* history: documents one publication merged into twice at once
    requests,  \* number of user requests so far, uploads apart
    crashes    \* number of crashes so far

vars == <<row, doc, flow, doubled, requests, crashes>>

-----------------------------------------------------------------------------
(* State                                                                   *)

Busy == {"extracting", "validating"}

RowStatus == {"absent", "uploaded", "extracted", "validated", "failed", "deleted"} \cup Busy

\* raw: raw.key is set; manifest: extracted.manifest is not empty; issues: the
\* validation counts do not add up to zero; mode: dedupeMode, in which a fresh
\* publication that took its verdict from the validation cache is still "fresh".
Row == [st       : RowStatus,
        zip      : Zip \cup {None},
        raw      : BOOLEAN,
        manifest : BOOLEAN,
        issues   : BOOLEAN,
        mode     : {"fresh", "reused-zip", "reused-document"},
        replaces : Pub \cup {None},
        doc      : Doc \cup {None}]

\* cur: currentPublicationId, the lock word; merges: the versionHistory entries
\* a re-publish pushed; author: the publication whose ingest created the row.
Document == [st      : {"absent", "processing", "completed", "failed", "deleted"},
             cur     : Pub \cup {None},
             version : Nat,
             merges  : Nat,
             author  : Pub \cup {None}]

Ingesting == {"download", "merge", "link", "bump", "release", "unlock"}

PC == {"idle", "store", "reuseStart", "reuseManifest", "reuseValidate", "reuseVerdict",
       "extractCheck", "extractSave", "extracting", "validateCheck", "validateSave",
       "validating", "ingest", "lock", "refused", "wipe", "erase", "eraseDoc", "eraseRow"}
      \cup Ingesting

\* prior: the issues flag of the publication the upload found to reuse; doc: the
\* document the flow works on; locked: lockAcquired; seen, ver: the
\* currentPublicationId and version of the loaded Document; stale: somebody
\* saved that Document since, so its __v moved on.
FlowState == [pc     : PC,
              pub    : Pub \cup {None},
              prior  : BOOLEAN,
              doc    : Doc \cup {None},
              locked : BOOLEAN,
              seen   : Pub \cup {None},
              ver    : Nat,
              stale  : BOOLEAN]

TypeOK ==
    /\ row \in [Pub -> Row]
    /\ doc \in [Doc -> Document]
    /\ flow \in [Flow -> FlowState]
    /\ doubled \subseteq Doc
    /\ requests \in 0..MaxRequests
    /\ crashes \in 0..MaxCrashes

NoRow == [st |-> "absent", zip |-> None, raw |-> FALSE, manifest |-> FALSE,
          issues |-> FALSE, mode |-> "fresh", replaces |-> None, doc |-> None]

NoDocument == [st |-> "absent", cur |-> None, version |-> 1, merges |-> 0, author |-> None]

IdleFlow == [pc |-> "idle", pub |-> None, prior |-> FALSE, doc |-> None,
             locked |-> FALSE, seen |-> None, ver |-> 0, stale |-> FALSE]

\* Rows written before currentPublicationId and contentHash existed: published,
\* with both fields at their schema default.
LegacyRow(d) == [NoRow EXCEPT !.st = "validated", !.raw = TRUE, !.manifest = TRUE, !.doc = d]

LegacyDocument(p) == [NoDocument EXCEPT !.st = "completed", !.author = p]

Init ==
    /\ row = [p \in Pub |-> IF p \in DOMAIN LegacyDoc THEN LegacyRow(LegacyDoc[p]) ELSE NoRow]
    /\ doc = [d \in Doc |-> IF \E p \in DOMAIN LegacyDoc : LegacyDoc[p] = d
                            THEN LegacyDocument(CHOOSE p \in DOMAIN LegacyDoc : LegacyDoc[p] = d)
                            ELSE NoDocument]
    /\ flow = [f \in Flow |-> IdleFlow]
    /\ doubled = {}
    /\ requests = 0
    /\ crashes = 0

-----------------------------------------------------------------------------
(* Reading the state                                                       *)

Live(p) == row[p].st \notin {"absent", "deleted"}          \* findById(p) finds it
DocLive(d) == doc[d].st \notin {"absent", "deleted"}

At(f, pc) == flow[f].pc = pc

\* What a flow does next.
Goto(f, pc) == flow' = [flow EXCEPT ![f].pc = pc]
Done(f) == flow' = [flow EXCEPT ![f] = IdleFlow]

\* Slip: a failed ingest returns without releasing.
UnwoundWithoutRelease(f) == IdleFlow

\* The end of an ingest: the finally clause releases the lock if it was taken.
Unwound(f) == IF flow[f].locked THEN [flow[f] EXCEPT !.pc = "unlock"] ELSE IdleFlow

\* f saved document d with a pushed array: __v moves on under every other flow
\* that has d loaded.  s is what becomes of f itself.
SavedBy(f, d, s) ==
    [g \in Flow |-> IF g = f THEN s
                    ELSE IF flow[g].doc = d /\ flow[g].pc \in Ingesting
                         THEN [flow[g] EXCEPT !.stale = TRUE]
                         ELSE flow[g]]

ExtractAllowed(p) == Live(p) /\ row[p].raw /\ row[p].st \notin Busy
ValidateAllowed(p) == Live(p) /\ row[p].manifest /\ row[p].st \notin Busy

\* A user request other than an upload starts on an idle flow.
Request(f, p, pc) ==
    /\ At(f, "idle")
    /\ requests < MaxRequests
    /\ requests' = requests + 1
    /\ flow' = [flow EXCEPT ![f] = [IdleFlow EXCEPT !.pc = pc, !.pub = p]]
    /\ UNCHANGED <<row, doc, doubled, crashes>>

-----------------------------------------------------------------------------
(* uploadPublication                                                       *)

\* The `replaces` target, when given, is looked up before the row is created.
Upload(f, p, z, r) ==
    /\ At(f, "idle")
    /\ row[p].st = "absent"
    /\ r # None => Live(r)
    /\ row' = [row EXCEPT ![p] = [NoRow EXCEPT !.st = "uploaded", !.zip = z, !.replaces = r]]
    /\ flow' = [flow EXCEPT ![f] = [IdleFlow EXCEPT !.pc = "store", !.pub = p]]
    /\ UNCHANGED <<doc, doubled, requests, crashes>>

\* Slip: the newest validated publication, of whatever zip.
ReusableOfAnyZip(p) == {q \in Pub \ {p} : row[q].st = "validated" /\ row[q].manifest}

\* The publications whose extract and validate results an upload of p may reuse.
Reusable(p) ==
    {q \in Pub \ {p} : /\ row[q].st = "validated"
                       /\ row[q].zip = row[p].zip
                       /\ row[q].manifest}

\* The zip is durable: note its key, then reuse a prior result or extract.
StoreRaw(f) ==
    LET p == flow[f].pub IN
    /\ At(f, "store")
    /\ Live(p)
    /\ row' = [row EXCEPT ![p].raw = TRUE]
    /\ IF Reusable(p) = {}
       THEN Goto(f, "extractCheck")
       ELSE \E q \in Reusable(p) :
              flow' = [flow EXCEPT ![f].pc = "reuseStart", ![f].prior = row[q].issues]
    /\ UNCHANGED <<doc, doubled, requests, crashes>>

\* The PUT of the zip failed, or the row was deleted meanwhile and save() throws.
StoreFails(f) ==
    LET p == flow[f].pub IN
    /\ At(f, "store")
    /\ row' = IF Live(p) THEN [row EXCEPT ![p].st = "failed"] ELSE row
    /\ Done(f)
    /\ UNCHANGED <<doc, doubled, requests, crashes>>

-----------------------------------------------------------------------------
(* runDedupedPublishInBackground                                           *)

\* One save of the dedupe path; a save of a deleted row throws and ends it.
ReuseSave(f, pc, saved, next) ==
    LET p == flow[f].pub IN
    /\ At(f, pc)
    /\ IF Live(p) THEN row' = [row EXCEPT ![p] = saved] /\ Goto(f, next)
                  ELSE UNCHANGED row /\ Done(f)
    /\ UNCHANGED <<doc, doubled, requests, crashes>>

ReuseStart(f) ==
    ReuseSave(f, "reuseStart",
              [row[flow[f].pub] EXCEPT !.st = "extracting", !.mode = "reused-zip"],
              "reuseManifest")

ReuseManifest(f) ==
    ReuseSave(f, "reuseManifest",
              [row[flow[f].pub] EXCEPT !.st = "extracted", !.manifest = TRUE],
              "reuseValidate")

ReuseValidate(f) ==
    ReuseSave(f, "reuseValidate",
              [row[flow[f].pub] EXCEPT !.st = "validating"],
              "reuseVerdict")

ReuseVerdict(f) ==
    ReuseSave(f, "reuseVerdict",
              [row[flow[f].pub] EXCEPT !.st = "validated", !.issues = flow[f].prior],
              "ingest")

-----------------------------------------------------------------------------
(* extractPublication, runExtractionInBackground                           *)

ExtractRequest(f, p) == ExtractAllowed(p) /\ Request(f, p, "extractSave")

\* The same check when uploadPublication chains into extractPublication.
AutoExtract(f) ==
    /\ At(f, "extractCheck")
    /\ IF ExtractAllowed(flow[f].pub) THEN Goto(f, "extractSave") ELSE Done(f)
    /\ UNCHANGED <<row, doc, doubled, requests, crashes>>

\* Between the check and this save the old extracted prefix is wiped from S3.
SaveExtracting(f) ==
    LET p == flow[f].pub IN
    /\ At(f, "extractSave")
    /\ IF Live(p)
       THEN /\ row' = [row EXCEPT ![p].st = "extracting", ![p].manifest = FALSE]
            /\ Goto(f, "extracting")
       ELSE UNCHANGED row /\ Done(f)
    /\ UNCHANGED <<doc, doubled, requests, crashes>>

\* The worker answered; the manifest is empty when every entry was skipped.
FinishExtract(f) ==
    LET p == flow[f].pub IN
    /\ At(f, "extracting")
    /\ IF Live(p)
       THEN /\ \E m \in BOOLEAN :
                 row' = [row EXCEPT ![p].st = "extracted", ![p].manifest = m]
            /\ Goto(f, "validateCheck")
       ELSE UNCHANGED row /\ Done(f)
    /\ UNCHANGED <<doc, doubled, requests, crashes>>

\* Slip: the failure is logged but not saved.
WorkerFailsSilently(f) ==
    /\ flow[f].pc \in {"extracting", "validating"}
    /\ Done(f)
    /\ UNCHANGED <<row, doc, doubled, requests, crashes>>

\* A worker of phase pc died or reported an error.
WorkerFails(f) ==
    LET p == flow[f].pub IN
    /\ flow[f].pc \in {"extracting", "validating"}
    /\ row' = IF Live(p) THEN [row EXCEPT ![p].st = "failed"] ELSE row
    /\ Done(f)
    /\ UNCHANGED <<doc, doubled, requests, crashes>>

-----------------------------------------------------------------------------
(* validatePublication, runValidationInBackground                          *)

ValidateRequest(f, p) == ValidateAllowed(p) /\ Request(f, p, "validateSave")

AutoValidate(f) ==
    /\ At(f, "validateCheck")
    /\ IF ValidateAllowed(flow[f].pub) THEN Goto(f, "validateSave") ELSE Done(f)
    /\ UNCHANGED <<row, doc, doubled, requests, crashes>>

SaveValidating(f) ==
    LET p == flow[f].pub IN
    /\ At(f, "validateSave")
    /\ IF Live(p)
       THEN row' = [row EXCEPT ![p].st = "validating"] /\ Goto(f, "validating")
       ELSE UNCHANGED row /\ Done(f)
    /\ UNCHANGED <<doc, doubled, requests, crashes>>

\* A clean publication without a document goes on to the portal.
CanPublish(p) == row[p].zip \notin Dirty /\ row[p].doc = None

FinishValidation(f) ==
    LET p == flow[f].pub IN
    /\ At(f, "validating")
    /\ IF Live(p)
       THEN /\ row' = [row EXCEPT ![p].st = "validated", ![p].issues = row[p].zip \in Dirty]
            /\ IF CanPublish(p) THEN Goto(f, "ingest") ELSE Done(f)
       ELSE UNCHANGED row /\ Done(f)
    /\ UNCHANGED <<doc, doubled, requests, crashes>>

-----------------------------------------------------------------------------
(* ingestValidatedPublication                                              *)

\* Without `replaces` there is nothing to lock.  With it, the document of the
\* replaced publication is the target; if there is none the publish is dropped.
ResolveTarget(f) ==
    LET p == flow[f].pub
        r == row[p].replaces IN
    /\ At(f, "ingest")
    /\ IF r = None THEN Goto(f, "download")
       ELSE IF Live(r) /\ row[r].doc # None
       THEN flow' = [flow EXCEPT ![f].pc = "lock", ![f].doc = row[r].doc]
       ELSE Done(f)
    /\ UNCHANGED <<row, doc, doubled, requests, crashes>>

\* A flow of publication p has document d locked, or a release of it still to come.
HoldsFor(f, d, p) ==
    flow[f].doc = d /\ flow[f].pub = p /\ (flow[f].locked \/ At(f, "unlock"))

\* Slip: the lock word is overwritten whoever holds it.
LockAlwaysFree(p, d) == DocLive(d)

\* acquirePublishLock: one findOneAndUpdate on the target document.
LockFree(p, d) == DocLive(d) /\ doc[d].cur \in {None, p}

AcquireLock(f) ==
    LET p == flow[f].pub
        d == flow[f].doc IN
    /\ At(f, "lock")
    /\ LockFree(p, d)
    /\ doc' = [doc EXCEPT ![d].cur = p]
    /\ flow' = [flow EXCEPT ![f].pc = "download", ![f].locked = TRUE]
    /\ doubled' = IF \E g \in Flow \ {f} : HoldsFor(g, d, p)
                  THEN doubled \cup {d} ELSE doubled
    /\ UNCHANGED <<row, requests, crashes>>

\* Slip: the document whose lock was refused is taken for one that failed.
LockRefusedFailsDocument(f) ==
    /\ At(f, "lock")
    /\ ~LockFree(flow[f].pub, flow[f].doc)
    /\ DocLive(flow[f].doc)
    /\ doc' = [doc EXCEPT ![flow[f].doc].st = "failed"]
    /\ Goto(f, "refused")
    /\ UNCHANGED <<row, doubled, requests, crashes>>

LockRefused(f) ==
    /\ At(f, "lock")
    /\ ~LockFree(flow[f].pub, flow[f].doc)
    /\ Goto(f, "refused")
    /\ UNCHANGED <<row, doc, doubled, requests, crashes>>

MarkRefused(f) ==
    LET p == flow[f].pub IN
    /\ At(f, "refused")
    /\ row' = IF Live(p) THEN [row EXCEPT ![p].st = "failed"] ELSE row
    /\ Done(f)
    /\ UNCHANGED <<doc, doubled, requests, crashes>>

\* The zip could not be fetched from S3, or the target document is gone.
DownloadFails(f) ==
    /\ At(f, "download")
    /\ flow' = [flow EXCEPT ![f] = Unwound(f)]
    /\ UNCHANGED <<row, doc, doubled, requests, crashes>>

\* ingestZipForTarget loads the target ...
LoadTarget(f) ==
    LET d == flow[f].doc IN
    /\ At(f, "download")
    /\ flow[f].locked
    /\ DocLive(d)
    /\ doc' = [doc EXCEPT ![d].st = "processing"]
    /\ flow' = SavedBy(f, d, [flow[f] EXCEPT !.pc = "merge", !.seen = doc[d].cur,
                                             !.ver = doc[d].version])
    /\ UNCHANGED <<row, doubled, requests, crashes>>

\* ... or creates a new document.
CreateDocument(f, d) ==
    LET p == flow[f].pub IN
    /\ At(f, "download")
    /\ ~flow[f].locked
    /\ doc[d].st = "absent"
    /\ doc' = [doc EXCEPT ![d] = [NoDocument EXCEPT !.st = "processing", !.author = p]]
    /\ flow' = [flow EXCEPT ![f].pc = "merge", ![f].doc = d, ![f].ver = 1]
    /\ UNCHANGED <<row, doubled, requests, crashes>>

\* Parsing or diffing threw: the document is marked failed, whatever it was.
MergeFails(f) ==
    LET d == flow[f].doc IN
    /\ At(f, "merge")
    /\ IF DocLive(d)
       THEN /\ doc' = [doc EXCEPT ![d].st = "failed"]
            /\ flow' = SavedBy(f, d, Unwound(f))
       ELSE UNCHANGED doc /\ flow' = [flow EXCEPT ![f] = Unwound(f)]
    /\ UNCHANGED <<row, doubled, requests, crashes>>

\* The save of a changed topicIds array carries __v in its filter, so on a stale
\* or deleted document it throws, as does the attempt to save the failure.
MergeConflict(f) ==
    /\ At(f, "merge")
    /\ flow[f].stale \/ ~DocLive(flow[f].doc)
    /\ flow' = [flow EXCEPT ![f] = Unwound(f)]
    /\ UNCHANGED <<row, doc, doubled, requests, crashes>>

\* The merge is saved.  Without a single topic the publish is dropped: a new
\* document is wiped, a target keeps the empty topic list and is released.
MergeTopics(f) ==
    LET d == flow[f].doc IN
    /\ At(f, "merge")
    /\ DocLive(d)
    /\ doc' = [doc EXCEPT ![d].st = "completed"]
    /\ \/ flow' = SavedBy(f, d, [flow[f] EXCEPT !.pc = "link"])
       \/ flow' = SavedBy(f, d, [flow[f] EXCEPT !.pc = IF flow[f].locked THEN "release" ELSE "wipe"])
    /\ UNCHANGED <<row, doubled, requests, crashes>>

\* Slip: the document without topics is not wiped.
KeepEmpty(f) == At(f, "wipe") /\ Done(f) /\ UNCHANGED <<row, doc, doubled, requests, crashes>>

WipeEmpty(f) ==
    /\ At(f, "wipe")
    /\ doc' = [doc EXCEPT ![flow[f].doc].st = "deleted"]
    /\ Done(f)
    /\ UNCHANGED <<row, doubled, requests, crashes>>

\* Publication.documentId
LinkDocument(f) ==
    LET p == flow[f].pub IN
    /\ At(f, "link")
    /\ row' = IF Live(p)
              THEN [row EXCEPT ![p].doc = flow[f].doc,
                               ![p].mode = IF flow[f].locked /\ @ = "fresh" THEN "reused-document"
                                           ELSE @]
              ELSE row
    /\ Goto(f, "bump")
    /\ UNCHANGED <<doc, doubled, requests, crashes>>

\* Slip: the first publish counts as a new version too.
BumpEveryVersion(f) ==
    /\ At(f, "bump")
    /\ doc' = [doc EXCEPT ![flow[f].doc].version = flow[f].ver + 1,
                          ![flow[f].doc].merges = IF flow[f].locked THEN @ + 1 ELSE @]
    /\ flow' = [flow EXCEPT ![f] = Unwound(f)]
    /\ UNCHANGED <<row, doubled, requests, crashes>>

\* version, versionHistory and currentPublicationId; only fields the loaded copy
\* holds with another value are written, and an error is ignored.
BumpVersion(f) ==
    LET p == flow[f].pub
        d == flow[f].doc IN
    /\ At(f, "bump")
    /\ IF DocLive(d)
       THEN /\ doc' = [doc EXCEPT ![d].version = IF flow[f].locked THEN flow[f].ver + 1 ELSE @,
                                  ![d].merges = IF flow[f].locked THEN @ + 1 ELSE @,
                                  ![d].cur = IF flow[f].seen # p THEN p ELSE @]
            /\ flow' = SavedBy(f, d, Unwound(f))
       ELSE UNCHANGED doc /\ flow' = [flow EXCEPT ![f] = Unwound(f)]
    /\ UNCHANGED <<row, doubled, requests, crashes>>

\* releasePublishLock: only the holder's value is reset.
Released(f) ==
    LET d == flow[f].doc IN
    IF DocLive(d) /\ doc[d].cur = flow[f].pub THEN [doc EXCEPT ![d].cur = None] ELSE doc

\* A publish without topics releases the lock; the finally clause will once more.
ReleaseEmpty(f) ==
    /\ At(f, "release")
    /\ doc' = Released(f)
    /\ flow' = [flow EXCEPT ![f].pc = "unlock", ![f].locked = FALSE]
    /\ UNCHANGED <<row, doubled, requests, crashes>>

\* Slip: the release is skipped when the publication was deleted meanwhile.
ReleaseForLiveRow(f) ==
    /\ At(f, "unlock")
    /\ doc' = IF Live(flow[f].pub) THEN Released(f) ELSE doc
    /\ Done(f)
    /\ UNCHANGED <<row, doubled, requests, crashes>>

\* The finally clause.
ReleaseLock(f) ==
    /\ At(f, "unlock")
    /\ doc' = Released(f)
    /\ Done(f)
    /\ UNCHANGED <<row, doubled, requests, crashes>>

-----------------------------------------------------------------------------
(* deletePublication, cleanHistory                                         *)

DeleteRequest(f, p) == Live(p) /\ Request(f, p, "erase")

\* The cleaner's cursor returned p while its status was not a running one.
CleanRequest(f, p) ==
    /\ Live(p)
    /\ row[p].st \notin {"uploaded"} \cup Busy
    /\ Request(f, p, "erase")

\* deletePublication reads the row, with no look at its status ...
EraseRead(f) ==
    LET p == flow[f].pub IN
    /\ At(f, "erase")
    /\ IF Live(p)
       THEN flow' = [flow EXCEPT ![f].pc = "eraseDoc", ![f].doc = row[p].doc]
       ELSE Done(f)
    /\ UNCHANGED <<row, doc, doubled, requests, crashes>>

\* ... drops the document it read there ...
EraseDocument(f) ==
    LET d == flow[f].doc IN
    /\ At(f, "eraseDoc")
    /\ doc' = IF d # None THEN [doc EXCEPT ![d].st = "deleted"] ELSE doc
    /\ Goto(f, "eraseRow")
    /\ UNCHANGED <<row, doubled, requests, crashes>>

\* ... and then the row.  Who it was a re-publish of is kept for the record.
EraseRow(f) ==
    LET p == flow[f].pub IN
    /\ At(f, "eraseRow")
    /\ row' = [row EXCEPT ![p] = [NoRow EXCEPT !.st = "deleted", !.zip = row[p].zip,
                                               !.replaces = row[p].replaces]]
    /\ Done(f)
    /\ UNCHANGED <<doc, doubled, requests, crashes>>

-----------------------------------------------------------------------------
(* The server process dies: every flow is lost, the collections survive.   *)
Crash ==
    /\ crashes < MaxCrashes
    /\ crashes' = crashes + 1
    /\ flow' = [f \in Flow |-> IdleFlow]
    /\ UNCHANGED <<row, doc, doubled, requests>>

\* What users do.
UserRequest(f) ==
    \E p \in Pub :
        \/ \E z \in Zip, r \in Pub \cup {None} : Upload(f, p, z, r)
        \/ ExtractRequest(f, p)
        \/ ValidateRequest(f, p)
        \/ DeleteRequest(f, p)
        \/ CleanRequest(f, p)

\* What a flow that has started does.
FlowStep(f) ==
    \/ StoreRaw(f) \/ StoreFails(f)
    \/ ReuseStart(f) \/ ReuseManifest(f) \/ ReuseValidate(f) \/ ReuseVerdict(f)
    \/ AutoExtract(f) \/ SaveExtracting(f) \/ FinishExtract(f) \/ WorkerFails(f)
    \/ AutoValidate(f) \/ SaveValidating(f) \/ FinishValidation(f)
    \/ ResolveTarget(f) \/ AcquireLock(f) \/ LockRefused(f) \/ MarkRefused(f)
    \/ DownloadFails(f) \/ LoadTarget(f) \/ (\E d \in Doc : CreateDocument(f, d))
    \/ MergeFails(f) \/ MergeConflict(f) \/ MergeTopics(f) \/ WipeEmpty(f)
    \/ LinkDocument(f) \/ BumpVersion(f) \/ ReleaseEmpty(f) \/ ReleaseLock(f)
    \/ EraseRead(f) \/ EraseDocument(f) \/ EraseRow(f)

Next == Crash \/ \E f \in Flow : UserRequest(f) \/ FlowStep(f)

Spec == Init /\ [][Next]_vars

\* Node keeps running what has been started: workers answer or die, promises
\* settle.  Nobody has to send a request, and the process need not crash.
FairSpec == Spec /\ \A f \in Flow : WF_vars(FlowStep(f))
-----------------------------------------------------------------------------
(* Safety                                                                  *)

Merging(f, d) == flow[f].locked /\ flow[f].doc = d

\* Two re-publishes of different publications never merge into one document at
\* the same time (the purpose of acquirePublishLock), unless one publication
\* was merged into it twice at once: then the first of its two flows to finish
\* releases the lock under the other.
MergesExclude ==
    \A f, g \in Flow, d \in Doc \ doubled : Merging(f, d) /\ Merging(g, d) => f = g

\* While the server has not crashed, nobody leaves a lock behind: a document
\* whose lock word names a re-publish has a flow of that publication that will
\* release it, also when the publication or the document is deleted meanwhile or
\* another flow of the publication has released the lock once already.
LockHasHolder ==
    crashes = 0 => \A d \in Doc : doc[d].cur # None /\ DocLive(d) =>
        \/ row[doc[d].cur].replaces = None
        \/ \E f \in Flow : HoldsFor(f, d, doc[d].cur)

\* Document.version counts the merges recorded in versionHistory: no re-publish
\* reads the version, is overtaken, and writes back an old one plus one.
VersionCountsMerges ==
    \A d \in Doc \ doubled : doc[d].version = doc[d].merges + 1

\* While the server has not crashed, a publication shown as extracting or
\* validating has a flow that will settle its status: no check, early return or
\* failure leaves a busy row behind, whatever requests overlap.
BusyHasRunner ==
    crashes = 0 => \A p \in Pub : row[p].st \in Busy =>
        \E f \in Flow : /\ flow[f].pub = p
                        /\ flow[f].pc \in {"extracting", "validating", "reuseManifest",
                                           "reuseValidate", "reuseVerdict"}

\* While the server has not crashed, a document listed in the portal is reachable
\* from the publication that created it, as long as that row exists: the row
\* names a document, or an ingest is about to make it do so.  Only then can
\* deletePublication clean both sides up.
PortalDocumentsOwned ==
    crashes = 0 => \A d \in Doc :
        doc[d].st = "completed" /\ Live(doc[d].author) =>
            \/ row[doc[d].author].doc # None
            \/ \E f \in Flow : flow[f].doc = d /\ flow[f].pc \in {"link", "wipe"}

\* A publication reaches the portal only with a clean validation of its zip,
\* unless its verdict was copied from an earlier publication of that zip; and a
\* copied verdict is the one a validation of its own would have given.
VerdictOfOwnZip ==
    \A p \in Pub :
        /\ row[p].st = "validated" => row[p].issues = (row[p].zip \in Dirty)
        /\ row[p].doc # None /\ row[p].mode # "reused-zip" => row[p].zip \notin Dirty

\* Whoever takes a listed document off the portal erases it or holds its lock.
LeavesPortal ==
    \A d \in Doc : doc[d].st = "completed" /\ doc'[d].st # "completed" =>
        doc'[d].st = "deleted" \/ \E f \in Flow : Merging(f, d)

\* A document in the portal leaves it only when it is erased or when a
\* re-publish that holds its lock takes it off: nobody else touches its status.
LeavesPortalLocked == [][LeavesPortal]_vars

-----------------------------------------------------------------------------
(* Liveness                                                                *)

\* A publication being extracted or validated gets settled: the drawer that
\* polls its status stops polling.
BusySettles == \A p \in Pub : row[p].st \in Busy ~> row[p].st \notin Busy

\* A re-publish gives back the document it locked, whether it succeeds, fails,
\* or finds its own row or its document deleted.
LockReleased ==
    \A d \in Doc : (doc[d].cur # None /\ row[doc[d].cur].replaces # None)
                   ~> (doc[d].cur = None \/ row[doc[d].cur].replaces = None \/ ~DocLive(d))
=============================================================================
