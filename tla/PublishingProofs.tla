-------------------------- MODULE PublishingProofs --------------------------
(***************************************************************************)
(* Proofs about Publishing.  On publications and flows: the types, what a  *)
(* step of one flow leaves alone, that busy publications are settled, and  *)
(* that what reaches the portal was found clean.  On documents and their   *)
(* publish lock: who holds it, what it excludes, that version numbers are  *)
(* safe under it, that it is given back, that listed documents are taken   *)
(* off the portal only under it, and that they are reachable from their    *)
(* publication.                                                            *)
(***************************************************************************)
EXTENDS Publishing, TLAPS

-----------------------------------------------------------------------------
(* Type correctness                                                        *)

\* What the program counter says of a flow's other fields: a started flow has a
\* publication, and past ResolveTarget or CreateDocument it has a document.
HasDocument == {"lock", "refused", "wipe", "merge", "link", "bump", "release", "unlock"}

FlowShape(s) ==
    /\ s.pc # "idle" => s.pub \in Pub
    /\ s.pc \in HasDocument => s.doc \in Doc
    /\ s.locked => s.doc \in Doc /\ s.pc \in Ingesting

TypeInv == TypeOK /\ \A f \in Flow : FlowShape(flow[f])

LEMMA InitTypeInv == Init => TypeInv
  <1> SUFFICES ASSUME Init PROVE TypeInv
    OBVIOUS
  <1> USE PublishingAssumption DEF Init
  <1>1. row \in [Pub -> Row]
    BY DEF LegacyRow, NoRow, Row, RowStatus, Busy
  <1>2. doc \in [Doc -> Document]
    BY DEF LegacyDocument, NoDocument, Document
  <1>3. flow \in [Flow -> FlowState] /\ \A f \in Flow : FlowShape(flow[f])
    BY DEF IdleFlow, FlowState, FlowShape, PC, Ingesting, HasDocument
  <1> QED
    BY <1>1, <1>2, <1>3 DEF TypeInv, TypeOK

FlowsTyped == flow \in [Flow -> FlowState] /\ \A f \in Flow : FlowShape(flow[f])

LEMMA IdleTyped == IdleFlow \in FlowState /\ FlowShape(IdleFlow)
  BY DEF IdleFlow, FlowState, FlowShape, PC, Ingesting, HasDocument

\* One flow moves to a well-formed state.
LEMMA MoveTyped ==
    ASSUME TypeInv, NEW f \in Flow, NEW s \in FlowState, FlowShape(s),
           flow' = [flow EXCEPT ![f] = s]
    PROVE  FlowsTyped'
  BY DEF TypeInv, TypeOK, FlowsTyped

LEMMA DoneTyped ==
    ASSUME TypeInv, NEW f \in Flow, Done(f)
    PROVE  FlowsTyped'
  BY IdleTyped, MoveTyped DEF Done

LEMMA GotoTyped ==
    ASSUME TypeInv, NEW f \in Flow, NEW pc \in PC, Goto(f, pc),
           flow[f].pc # "idle",
           pc \in HasDocument => flow[f].doc \in Doc,
           flow[f].locked => pc \in Ingesting
    PROVE  FlowsTyped'
  <1> DEFINE s == [flow[f] EXCEPT !.pc = pc]
  <1>1. s \in FlowState /\ FlowShape(s)
    BY DEF TypeInv, TypeOK, FlowState, FlowShape
  <1> QED
    BY <1>1, MoveTyped DEF Goto

LEMMA SavedTyped ==
    ASSUME TypeInv, NEW f \in Flow, NEW d, NEW s \in FlowState, FlowShape(s),
           flow' = SavedBy(f, d, s)
    PROVE  FlowsTyped'
  <1>1. ASSUME NEW g \in Flow
        PROVE  flow'[g] \in FlowState /\ FlowShape(flow'[g])
    <2> flow[g] \in FlowState /\ FlowShape(flow[g])
      BY DEF TypeInv, TypeOK
    <2> DEFINE t == [flow[g] EXCEPT !.stale = TRUE]
    <2>1. t \in FlowState /\ FlowShape(t)
      BY DEF FlowState, FlowShape
    <2> QED
      BY <2>1 DEF SavedBy
  <1> QED
    BY <1>1 DEF FlowsTyped, SavedBy

LEMMA UnwoundTyped ==
    ASSUME TypeInv, NEW f \in Flow
    PROVE  Unwound(f) \in FlowState /\ FlowShape(Unwound(f))
  <1>1. CASE flow[f].locked
    <2> flow[f] \in FlowState /\ FlowShape(flow[f])
      BY DEF TypeInv, TypeOK
    <2> [flow[f] EXCEPT !.pc = "unlock"] \in FlowState /\ FlowShape([flow[f] EXCEPT !.pc = "unlock"])
      BY <1>1 DEF FlowState, FlowShape, PC, Ingesting
    <2> QED
      BY <1>1 DEF Unwound
  <1>2. CASE ~flow[f].locked
    BY <1>2, IdleTyped DEF Unwound
  <1> QED
    BY <1>1, <1>2

LEMMA RequestTyped ==
    ASSUME TypeInv, NEW f \in Flow, NEW p \in Pub,
           NEW pc \in {"extractSave", "validateSave", "erase", "store"},
           flow' = [flow EXCEPT ![f] = [IdleFlow EXCEPT !.pc = pc, !.pub = p]]
    PROVE  FlowsTyped'
  <1> DEFINE s == [IdleFlow EXCEPT !.pc = pc, !.pub = p]
  <1>1. s \in FlowState /\ FlowShape(s)
    BY DEF IdleFlow, FlowState, FlowShape, PC, Ingesting, HasDocument
  <1> QED
    BY <1>1, MoveTyped

LEMMA UserRequestTyped ==
    ASSUME TypeInv, NEW f \in Flow, UserRequest(f)
    PROVE  TypeInv'
  <1> PICK p \in Pub :
        \/ \E z \in Zip, r \in Pub \cup {None} : Upload(f, p, z, r)
        \/ ExtractRequest(f, p)
        \/ ValidateRequest(f, p)
        \/ DeleteRequest(f, p)
        \/ CleanRequest(f, p)
    BY DEF UserRequest
  <1>1. ASSUME NEW z \in Zip, NEW r \in Pub \cup {None}, Upload(f, p, z, r)
        PROVE  TypeInv'
    <2>1. row' \in [Pub -> Row]
      BY <1>1 DEF Upload, TypeInv, TypeOK, NoRow, Row, RowStatus
    <2>2. FlowsTyped'
      BY <1>1, RequestTyped DEF Upload
    <2> QED
      BY <1>1, <2>1, <2>2 DEF Upload, TypeInv, TypeOK, FlowsTyped
  <1>2. ASSUME NEW pc \in {"extractSave", "validateSave", "erase"}, Request(f, p, pc)
        PROVE  TypeInv'
    <2>1. FlowsTyped'
      BY <1>2, RequestTyped DEF Request
    <2>2. requests' \in 0..MaxRequests
      BY <1>2, PublishingAssumption DEF Request, TypeInv, TypeOK
    <2> QED
      BY <1>2, <2>1, <2>2 DEF Request, TypeInv, TypeOK, FlowsTyped
  <1> QED
    BY <1>1, <1>2 DEF ExtractRequest, ValidateRequest, DeleteRequest, CleanRequest

\* Every step of the dedupe path saves a row of the right type and moves on.
LEMMA ReuseSaveTyped ==
    ASSUME TypeInv, NEW f \in Flow, NEW saved \in Row,
           NEW pc \in {"reuseStart", "reuseManifest", "reuseValidate", "reuseVerdict"},
           NEW next \in {"reuseManifest", "reuseValidate", "reuseVerdict", "ingest"},
           ReuseSave(f, pc, saved, next)
    PROVE  TypeInv'
  <1>1. row' \in [Pub -> Row]
    BY DEF ReuseSave, TypeInv, TypeOK
  <1>2. flow[f].pc # "idle" /\ ~flow[f].locked
    BY DEF ReuseSave, TypeInv, FlowShape, At, Ingesting
  <1>3. next \in PC /\ next \notin HasDocument
    BY DEF PC, HasDocument
  <1>4. FlowsTyped'
    <2>1. CASE Goto(f, next)
      BY <1>2, <1>3, <2>1, GotoTyped
    <2>2. CASE Done(f)
      BY <2>2, DoneTyped
    <2> QED
      BY <2>1, <2>2 DEF ReuseSave
  <1> QED
    BY <1>1, <1>4 DEF ReuseSave, TypeInv, TypeOK, FlowsTyped

LEMMA FlowStepTyped ==
    ASSUME TypeInv, NEW f \in Flow, FlowStep(f)
    PROVE  TypeInv'
  <1> DEFINE p == flow[f].pub
             d == flow[f].doc
  <1>0. /\ flow[f] \in FlowState /\ FlowShape(flow[f])
        /\ flow[f].pc # "idle" => p \in Pub /\ row[p] \in Row
        /\ flow[f].pc \in HasDocument \/ flow[f].locked => d \in Doc /\ doc[d] \in Document
    BY DEF TypeInv, TypeOK, FlowShape
  <1> USE DEF At
  <1>1. CASE StoreRaw(f)
    <2>1. row' \in [Pub -> Row]
      <3>1. row' = [row EXCEPT ![p].raw = TRUE]
        BY <1>1 DEF StoreRaw
      <3>2. p \in Pub /\ [row[p] EXCEPT !.raw = TRUE] \in Row
        BY <1>0, <1>1 DEF StoreRaw, Row
      <3> QED
        BY <3>1, <3>2 DEF TypeInv, TypeOK
    <2>2. CASE Reusable(p) = {}
      <3>1. Goto(f, "extractCheck") /\ ~flow[f].locked
        BY <1>1, <1>0, <2>2 DEF StoreRaw, FlowShape, Ingesting
      <3> QED
        BY <1>1, <2>1, <3>1, GotoTyped DEF StoreRaw, TypeInv, TypeOK, FlowsTyped, PC, HasDocument
    <2>3. CASE Reusable(p) # {}
      <3>1. PICK q \in Reusable(p) :
              flow' = [flow EXCEPT ![f].pc = "reuseStart", ![f].prior = row[q].issues]
        BY <1>1, <2>3 DEF StoreRaw
      <3> DEFINE t == [flow[f] EXCEPT !.pc = "reuseStart", !.prior = row[q].issues]
      <3>2. row[q].issues \in BOOLEAN
        BY DEF Reusable, TypeInv, TypeOK, Row
      <3>3. t \in FlowState /\ FlowShape(t)
        BY <1>1, <1>0, <3>2 DEF StoreRaw, FlowState, FlowShape, PC, HasDocument, Ingesting
      <3>4. FlowsTyped'
        BY <3>1, <3>3, MoveTyped
      <3> QED
        BY <1>1, <2>1, <3>4 DEF StoreRaw, TypeInv, TypeOK, FlowsTyped
    <2> QED
      BY <2>2, <2>3
  <1>2. CASE StoreFails(f) \/ WorkerFails(f) \/ MarkRefused(f)
    <2>1. row' \in [Pub -> Row]
      BY <1>2 DEF StoreFails, WorkerFails, MarkRefused, TypeInv, TypeOK, Row, RowStatus
    <2>2. FlowsTyped'
      BY <1>2, DoneTyped DEF StoreFails, WorkerFails, MarkRefused
    <2> QED
      BY <1>2, <2>1, <2>2 DEF StoreFails, WorkerFails, MarkRefused, TypeInv, TypeOK, FlowsTyped
  <1>3. CASE ReuseStart(f) \/ ReuseManifest(f) \/ ReuseValidate(f) \/ ReuseVerdict(f)
    <2> row[p] \in Row /\ flow[f].prior \in BOOLEAN
      BY <1>3, <1>0 DEF ReuseStart, ReuseManifest, ReuseValidate, ReuseVerdict, ReuseSave, FlowState
    <2>1. /\ [row[p] EXCEPT !.st = "extracting", !.mode = "reused-zip"] \in Row
          /\ [row[p] EXCEPT !.st = "extracted", !.manifest = TRUE] \in Row
          /\ [row[p] EXCEPT !.st = "validating"] \in Row
          /\ [row[p] EXCEPT !.st = "validated", !.issues = flow[f].prior] \in Row
      BY DEF Row, RowStatus, Busy
    <2> QED
      BY <1>3, <2>1, ReuseSaveTyped DEF ReuseStart, ReuseManifest, ReuseValidate, ReuseVerdict
  <1>4. CASE AutoExtract(f) \/ AutoValidate(f)
    <2>1. ~flow[f].locked /\ flow[f].pc # "idle"
      BY <1>4, <1>0 DEF AutoExtract, AutoValidate, FlowShape, Ingesting
    <2>2. FlowsTyped'
      BY <1>4, <2>1, GotoTyped, DoneTyped DEF AutoExtract, AutoValidate, PC, HasDocument
    <2> QED
      BY <1>4, <2>2 DEF AutoExtract, AutoValidate, TypeInv, TypeOK, FlowsTyped
  <1>5. CASE SaveExtracting(f) \/ FinishExtract(f) \/ SaveValidating(f)
    <2>1. row' \in [Pub -> Row]
      <3>1. CASE SaveExtracting(f) \/ SaveValidating(f)
        BY <1>5, <3>1 DEF SaveExtracting, SaveValidating, TypeInv, TypeOK, Row, RowStatus, Busy
      <3>2. CASE FinishExtract(f)
        <4>1. ASSUME NEW m \in BOOLEAN
              PROVE  [row EXCEPT ![p].st = "extracted", ![p].manifest = m] \in [Pub -> Row]
          <5>1. p \in Pub /\ [row[p] EXCEPT !.st = "extracted", !.manifest = m] \in Row
            BY <1>0, <3>2 DEF FinishExtract, Row, RowStatus
          <5> QED
            BY <5>1 DEF TypeInv, TypeOK
        <4> QED
          BY <3>2, <4>1 DEF FinishExtract, TypeInv, TypeOK
      <3> QED
        BY <1>5, <3>1, <3>2
    <2>2. ~flow[f].locked /\ flow[f].pc # "idle"
      BY <1>5, <1>0 DEF SaveExtracting, FinishExtract, SaveValidating, FlowShape, Ingesting
    <2>3. FlowsTyped'
      BY <1>5, <2>2, GotoTyped, DoneTyped DEF SaveExtracting, FinishExtract, SaveValidating, PC, HasDocument
    <2> QED
      BY <1>5, <2>1, <2>3 DEF SaveExtracting, FinishExtract, SaveValidating, TypeInv, TypeOK, FlowsTyped
  <1>6. CASE FinishValidation(f)
    <2>1. row' \in [Pub -> Row]
      BY <1>6 DEF FinishValidation, TypeInv, TypeOK, Row, RowStatus
    <2>2. ~flow[f].locked /\ flow[f].pc # "idle"
      BY <1>6, <1>0 DEF FinishValidation, FlowShape, Ingesting
    <2>3. FlowsTyped'
      BY <1>6, <2>2, GotoTyped, DoneTyped DEF FinishValidation, PC, HasDocument
    <2> QED
      BY <1>6, <2>1, <2>3 DEF FinishValidation, TypeInv, TypeOK, FlowsTyped
  <1>7. CASE ResolveTarget(f)
    <2>1. ~flow[f].locked /\ flow[f].pc # "idle" /\ p \in Pub /\ row[p] \in Row
      BY <1>7, <1>0 DEF ResolveTarget, FlowShape, Ingesting
    <2>2. CASE Goto(f, "download") \/ Done(f)
      BY <1>7, <2>1, <2>2, GotoTyped, DoneTyped
         DEF ResolveTarget, PC, Ingesting, HasDocument, TypeInv, TypeOK, FlowsTyped
    <2>3. CASE row[p].replaces # None /\ row[row[p].replaces].doc # None
               /\ flow' = [flow EXCEPT ![f].pc = "lock", ![f].doc = row[row[p].replaces].doc]
      <3> DEFINE t == [flow[f] EXCEPT !.pc = "lock", !.doc = row[row[p].replaces].doc]
      <3>1. row[row[p].replaces].doc \in Doc
        BY <2>1, <2>3 DEF TypeInv, TypeOK, Row
      <3>2. t \in FlowState /\ FlowShape(t)
        BY <1>0, <2>1, <3>1 DEF FlowState, FlowShape, PC
      <3>3. FlowsTyped'
        BY <2>3, <3>2, MoveTyped
      <3> QED
        BY <1>7, <3>3 DEF ResolveTarget, TypeInv, TypeOK, FlowsTyped
    <2> QED
      BY <1>7, <2>2, <2>3 DEF ResolveTarget
  <1>8. CASE AcquireLock(f)
    <2>1. d \in Doc /\ doc[d] \in Document /\ p \in Pub
      BY <1>8, <1>0 DEF AcquireLock, HasDocument
    <2>2. doc' \in [Doc -> Document]
      BY <1>8, <2>1 DEF AcquireLock, TypeInv, TypeOK, Document
    <2> DEFINE t == [flow[f] EXCEPT !.pc = "download", !.locked = TRUE]
    <2>3. t \in FlowState /\ FlowShape(t)
      BY <1>8, <1>0, <2>1 DEF AcquireLock, FlowState, FlowShape, PC, Ingesting, HasDocument
    <2>4. FlowsTyped'
      BY <1>8, <2>3, MoveTyped DEF AcquireLock
    <2> QED
      BY <1>8, <2>1, <2>2, <2>4 DEF AcquireLock, TypeInv, TypeOK, FlowsTyped
  <1>9. CASE LockRefused(f)
    <2>1. d \in Doc /\ flow[f].pc # "idle" /\ ~flow[f].locked
      BY <1>9, <1>0 DEF LockRefused, HasDocument, FlowShape, Ingesting
    <2>2. FlowsTyped'
      BY <1>9, <2>1, GotoTyped DEF LockRefused, PC
    <2> QED
      BY <1>9, <2>2 DEF LockRefused, TypeInv, TypeOK, FlowsTyped
  <1>10. CASE DownloadFails(f) \/ MergeConflict(f)
    <2>1. FlowsTyped'
      BY <1>10, UnwoundTyped, MoveTyped DEF DownloadFails, MergeConflict
    <2> QED
      BY <1>10, <2>1 DEF DownloadFails, MergeConflict, TypeInv, TypeOK, FlowsTyped
  <1>11. CASE LoadTarget(f)
    <2>1. d \in Doc /\ doc[d] \in Document
      BY <1>11, <1>0 DEF LoadTarget
    <2>2. doc' \in [Doc -> Document]
      BY <1>11, <2>1 DEF LoadTarget, TypeInv, TypeOK, Document
    <2> DEFINE t == [flow[f] EXCEPT !.pc = "merge", !.seen = doc[d].cur, !.ver = doc[d].version]
    <2>3. t \in FlowState /\ FlowShape(t)
      BY <1>11, <1>0, <2>1 DEF LoadTarget, FlowState, FlowShape, PC, Ingesting, Document
    <2>4. FlowsTyped'
      BY <1>11, <2>3, SavedTyped DEF LoadTarget
    <2> QED
      BY <1>11, <2>2, <2>4 DEF LoadTarget, TypeInv, TypeOK, FlowsTyped
  <1>12. CASE \E e \in Doc : CreateDocument(f, e)
    <2>1. PICK e \in Doc : CreateDocument(f, e)
      BY <1>12
    <2>2. p \in Pub
      BY <1>0, <2>1 DEF CreateDocument
    <2>3. doc' \in [Doc -> Document]
      BY <2>1, <2>2, PublishingAssumption DEF CreateDocument, TypeInv, TypeOK, NoDocument, Document
    <2> DEFINE t == [flow[f] EXCEPT !.pc = "merge", !.doc = e, !.ver = 1]
    <2>4. t \in FlowState /\ FlowShape(t)
      BY <1>0, <2>1 DEF CreateDocument, FlowState, FlowShape, PC, Ingesting
    <2>5. FlowsTyped'
      BY <2>1, <2>4, MoveTyped DEF CreateDocument
    <2> QED
      BY <2>1, <2>3, <2>5 DEF CreateDocument, TypeInv, TypeOK, FlowsTyped
  <1>13. CASE MergeFails(f)
    <2>1. d \in Doc /\ doc[d] \in Document
      BY <1>13, <1>0 DEF MergeFails, HasDocument
    <2>2. doc' \in [Doc -> Document]
      BY <1>13, <2>1 DEF MergeFails, TypeInv, TypeOK, Document
    <2>3. FlowsTyped'
      BY <1>13, UnwoundTyped, SavedTyped, MoveTyped DEF MergeFails
    <2> QED
      BY <1>13, <2>2, <2>3 DEF MergeFails, TypeInv, TypeOK, FlowsTyped
  <1>14. CASE MergeTopics(f)
    <2>1. d \in Doc /\ doc[d] \in Document
      BY <1>14, <1>0 DEF MergeTopics, HasDocument
    <2>2. doc' \in [Doc -> Document]
      BY <1>14, <2>1 DEF MergeTopics, TypeInv, TypeOK, Document
    <2>3. PICK pc \in {"link", "release", "wipe"} :
            /\ flow' = SavedBy(f, d, [flow[f] EXCEPT !.pc = pc])
            /\ pc = "wipe" => ~flow[f].locked
      BY <1>14, <1>0 DEF MergeTopics, FlowState
    <2> DEFINE t == [flow[f] EXCEPT !.pc = pc]
    <2>4. t \in FlowState /\ FlowShape(t)
      BY <1>14, <1>0, <2>1, <2>3 DEF MergeTopics, FlowState, FlowShape, PC, Ingesting
    <2>5. FlowsTyped'
      BY <2>3, <2>4, SavedTyped
    <2> QED
      BY <1>14, <2>2, <2>5 DEF MergeTopics, TypeInv, TypeOK, FlowsTyped
  <1>15. CASE WipeEmpty(f)
    <2>1. doc' \in [Doc -> Document]
      BY <1>15, <1>0 DEF WipeEmpty, TypeInv, TypeOK, Document
    <2>2. FlowsTyped'
      BY <1>15, DoneTyped DEF WipeEmpty
    <2> QED
      BY <1>15, <2>1, <2>2 DEF WipeEmpty, TypeInv, TypeOK, FlowsTyped
  <1>16. CASE LinkDocument(f)
    <2>1. d \in Doc /\ flow[f].pc # "idle"
      BY <1>16, <1>0 DEF LinkDocument, HasDocument
    <2>2. row' \in [Pub -> Row]
      <3> DEFINE mode == IF flow[f].locked /\ row[p].mode = "fresh" THEN "reused-document"
                         ELSE row[p].mode
                 linked == [row[p] EXCEPT !.doc = d, !.mode = mode]
      <3>1. p \in Pub /\ row[p] \in Row
        BY <1>0, <2>1
      <3>2. linked \in Row
        BY <2>1, <3>1 DEF Row
      <3>3. row' = IF Live(p) THEN [row EXCEPT ![p] = linked] ELSE row
        BY <1>16, <3>1 DEF LinkDocument, TypeInv, TypeOK
      <3> QED
        BY <3>2, <3>3 DEF TypeInv, TypeOK
    <2>3. FlowsTyped'
      BY <1>16, <2>1, GotoTyped DEF LinkDocument, PC, Ingesting
    <2> QED
      BY <1>16, <2>2, <2>3 DEF LinkDocument, TypeInv, TypeOK, FlowsTyped
  <1>17. CASE BumpVersion(f)
    <2>1. d \in Doc /\ doc[d] \in Document /\ p \in Pub /\ flow[f].ver \in Nat
      BY <1>17, <1>0 DEF BumpVersion, HasDocument, FlowState
    <2>2. doc' \in [Doc -> Document]
      BY <1>17, <2>1 DEF BumpVersion, TypeInv, TypeOK, Document
    <2>3. FlowsTyped'
      BY <1>17, UnwoundTyped, SavedTyped, MoveTyped DEF BumpVersion
    <2> QED
      BY <1>17, <2>2, <2>3 DEF BumpVersion, TypeInv, TypeOK, FlowsTyped
  <1>18. CASE ReleaseEmpty(f)
    <2>1. d \in Doc /\ doc[d] \in Document
      BY <1>18, <1>0 DEF ReleaseEmpty, HasDocument
    <2>2. doc' \in [Doc -> Document]
      BY <1>18, <2>1 DEF ReleaseEmpty, Released, TypeInv, TypeOK, Document
    <2> DEFINE t == [flow[f] EXCEPT !.pc = "unlock", !.locked = FALSE]
    <2>3. t \in FlowState /\ FlowShape(t)
      BY <1>18, <1>0, <2>1 DEF ReleaseEmpty, FlowState, FlowShape, PC, Ingesting
    <2>4. FlowsTyped'
      BY <1>18, <2>3, MoveTyped DEF ReleaseEmpty
    <2> QED
      BY <1>18, <2>2, <2>4 DEF ReleaseEmpty, TypeInv, TypeOK, FlowsTyped
  <1>19. CASE ReleaseLock(f)
    <2>1. d \in Doc /\ doc[d] \in Document
      BY <1>19, <1>0 DEF ReleaseLock, HasDocument
    <2>2. doc' \in [Doc -> Document]
      BY <1>19, <2>1 DEF ReleaseLock, Released, TypeInv, TypeOK, Document
    <2>3. FlowsTyped'
      BY <1>19, DoneTyped DEF ReleaseLock
    <2> QED
      BY <1>19, <2>2, <2>3 DEF ReleaseLock, TypeInv, TypeOK, FlowsTyped
  <1>20. CASE EraseRead(f)
    <2>1. p \in Pub /\ row[p] \in Row /\ ~flow[f].locked
      BY <1>20, <1>0 DEF EraseRead, FlowShape, Ingesting
    <2>2. CASE Live(p)
      <3> DEFINE t == [flow[f] EXCEPT !.pc = "eraseDoc", !.doc = row[p].doc]
      <3>1. t \in FlowState /\ FlowShape(t)
        BY <1>0, <2>1 DEF FlowState, FlowShape, PC, HasDocument, Row
      <3>2. FlowsTyped'
        <4> flow' = [flow EXCEPT ![f] = t]
          BY <1>20, <2>2 DEF EraseRead
        <4> QED
          BY <3>1, MoveTyped
      <3> QED
        BY <1>20, <3>2 DEF EraseRead, TypeInv, TypeOK, FlowsTyped
    <2>3. CASE ~Live(p)
      BY <1>20, <2>3, DoneTyped DEF EraseRead, TypeInv, TypeOK, FlowsTyped
    <2> QED
      BY <2>2, <2>3
  <1>21. CASE EraseDocument(f)
    <2>1. ~flow[f].locked /\ flow[f].pc # "idle"
      BY <1>21, <1>0 DEF EraseDocument, FlowShape, Ingesting
    <2>2. doc' \in [Doc -> Document]
      BY <1>21 DEF EraseDocument, TypeInv, TypeOK, Document
    <2>3. FlowsTyped'
      BY <1>21, <2>1, GotoTyped DEF EraseDocument, PC, HasDocument
    <2> QED
      BY <1>21, <2>2, <2>3 DEF EraseDocument, TypeInv, TypeOK, FlowsTyped
  <1>22. CASE EraseRow(f)
    <2>1. p \in Pub /\ row[p] \in Row
      BY <1>22, <1>0 DEF EraseRow
    <2>2. row' \in [Pub -> Row]
      BY <1>22, <2>1 DEF EraseRow, NoRow, TypeInv, TypeOK, Row, RowStatus
    <2>3. FlowsTyped'
      BY <1>22, DoneTyped DEF EraseRow
    <2> QED
      BY <1>22, <2>2, <2>3 DEF EraseRow, TypeInv, TypeOK, FlowsTyped
  <1> QED
    BY <1>1, <1>2, <1>3, <1>4, <1>5, <1>6, <1>7, <1>8, <1>9, <1>10, <1>11, <1>12, <1>13, <1>14, <1>15, <1>16, <1>17, <1>18, <1>19, <1>20, <1>21, <1>22 DEF FlowStep

LEMMA NextTyped == TypeInv /\ [Next]_vars => TypeInv'
  <1> SUFFICES ASSUME TypeInv, [Next]_vars PROVE TypeInv'
    OBVIOUS
  <1>1. CASE Crash
    <2>1. FlowsTyped'
      BY <1>1, IdleTyped DEF Crash, FlowsTyped
    <2> QED
      BY <1>1, <2>1, PublishingAssumption DEF Crash, TypeInv, TypeOK, FlowsTyped
  <1>2. ASSUME NEW f \in Flow, UserRequest(f) \/ FlowStep(f) PROVE TypeInv'
    BY <1>2, UserRequestTyped, FlowStepTyped
  <1>3. CASE UNCHANGED vars
    BY <1>3 DEF vars, TypeInv, TypeOK
  <1> QED
    BY <1>1, <1>2, <1>3 DEF Next

LEMMA TypeInvariant == Spec => []TypeInv
  BY InitTypeInv, NextTyped, PTL DEF Spec

\* Every field of a row, a document and a flow keeps its type, whatever requests
\* overlap: no handler stores the id of one collection in a field of another.
THEOREM TypeCorrect == Spec => []TypeOK
  BY TypeInvariant, PTL DEF TypeInv

-----------------------------------------------------------------------------
(* What a step of one flow leaves alone                                    *)

\* All of flow g but its stale flag.
Unmoved(g) ==
    /\ flow'[g].pc = flow[g].pc /\ flow'[g].pub = flow[g].pub
    /\ flow'[g].doc = flow[g].doc /\ flow'[g].locked = flow[g].locked
    /\ flow'[g].seen = flow[g].seen /\ flow'[g].ver = flow[g].ver
    /\ flow'[g].prior = flow[g].prior

OthersUnmoved(f) == \A g \in Flow \ {f} : Unmoved(g)

LEMMA SavedUnmoved ==
    ASSUME TypeInv, NEW f \in Flow, NEW d, NEW s, flow' = SavedBy(f, d, s)
    PROVE  OthersUnmoved(f) /\ flow'[f] = s
  <1>1. ASSUME NEW g \in Flow \ {f}
        PROVE  Unmoved(g)
    <2> flow[g] \in FlowState
      BY DEF TypeInv, TypeOK
    <2> DEFINE t == [flow[g] EXCEPT !.stale = TRUE]
    <2>1. flow'[g] = t \/ flow'[g] = flow[g]
      BY DEF SavedBy
    <2> QED
      BY <2>1 DEF Unmoved, FlowState
  <1> QED
    BY <1>1 DEF OthersUnmoved, SavedBy

LEMMA MovedAlone ==
    ASSUME TypeInv, NEW f \in Flow, NEW s, flow' = [flow EXCEPT ![f] = s]
    PROVE  OthersUnmoved(f) /\ flow'[f] = s
  BY DEF TypeInv, TypeOK, OthersUnmoved, Unmoved

LEMMA OnlyOneFlowMoves ==
    ASSUME TypeInv, NEW f \in Flow, UserRequest(f) \/ FlowStep(f)
    PROVE  OthersUnmoved(f)
  <1> USE DEF Request, Goto, Done, ReuseSave
  <1>1. CASE UserRequest(f)
    BY <1>1, MovedAlone DEF UserRequest, Upload, ExtractRequest, ValidateRequest, DeleteRequest, CleanRequest
  <1>2. CASE StoreRaw(f) \/ StoreFails(f) \/ ReuseStart(f) \/ ReuseManifest(f) \/ ReuseValidate(f) \/ ReuseVerdict(f)
    BY <1>2, MovedAlone DEF StoreRaw, StoreFails, ReuseStart, ReuseManifest, ReuseValidate, ReuseVerdict
  <1>3. CASE AutoExtract(f) \/ SaveExtracting(f) \/ FinishExtract(f) \/ WorkerFails(f) \/ AutoValidate(f) \/ SaveValidating(f) \/ FinishValidation(f)
    BY <1>3, MovedAlone DEF AutoExtract, SaveExtracting, FinishExtract, WorkerFails, AutoValidate, SaveValidating, FinishValidation
  <1>4. CASE ResolveTarget(f) \/ AcquireLock(f) \/ LockRefused(f) \/ MarkRefused(f) \/ DownloadFails(f) \/ (\E d \in Doc : CreateDocument(f, d))
    BY <1>4, MovedAlone DEF ResolveTarget, AcquireLock, LockRefused, MarkRefused, DownloadFails, CreateDocument
  <1>5. CASE LoadTarget(f) \/ MergeFails(f) \/ MergeConflict(f) \/ MergeTopics(f) \/ BumpVersion(f)
    BY <1>5, MovedAlone, SavedUnmoved DEF LoadTarget, MergeFails, MergeConflict, MergeTopics, BumpVersion
  <1>6. CASE WipeEmpty(f) \/ LinkDocument(f) \/ ReleaseEmpty(f) \/ ReleaseLock(f) \/ EraseRead(f) \/ EraseDocument(f) \/ EraseRow(f)
    BY <1>6, MovedAlone DEF WipeEmpty, LinkDocument, ReleaseEmpty, ReleaseLock, EraseRead, EraseDocument, EraseRow
  <1> QED
    BY <1>1, <1>2, <1>3, <1>4, <1>5, <1>6 DEF FlowStep

\* A row that exists goes on existing, if only as deleted, and with the same
\* `replaces` field.
RowsPersist ==
    \A p \in Pub : row[p].st # "absent" =>
        row'[p].st # "absent" /\ row'[p].replaces = row[p].replaces /\ row'[p].zip = row[p].zip

LEMMA StepsKeepRows ==
    ASSUME TypeInv, NEW f \in Flow, UserRequest(f) \/ FlowStep(f)
    PROVE  RowsPersist
  <1> USE DEF TypeInv, TypeOK, RowsPersist, Row
  <1>1. CASE UserRequest(f)
    BY <1>1 DEF UserRequest, Upload, NoRow, ExtractRequest, ValidateRequest, DeleteRequest, CleanRequest, Request
  <1>2. CASE StoreRaw(f) \/ StoreFails(f)
    BY <1>2 DEF StoreRaw, StoreFails
  <1>3. CASE ReuseStart(f) \/ ReuseManifest(f) \/ ReuseValidate(f) \/ ReuseVerdict(f)
    <2> DEFINE p == flow[f].pub
    <2>1. ASSUME NEW pc, NEW saved, NEW next, ReuseSave(f, pc, saved, next),
                 p \in Pub => saved.st # "absent" /\ saved.replaces = row[p].replaces /\ saved.zip = row[p].zip
          PROVE  RowsPersist
      BY <2>1 DEF ReuseSave
    <2>2. p \in Pub => row[p] \in Row
      OBVIOUS
    <2> QED
      BY <1>3, <2>1, <2>2 DEF ReuseStart, ReuseManifest, ReuseValidate, ReuseVerdict
  <1>4. CASE SaveExtracting(f) \/ SaveValidating(f)
    BY <1>4 DEF SaveExtracting, SaveValidating
  <1>5. CASE FinishExtract(f)
    <2>1. ASSUME NEW m \in BOOLEAN,
                 row' = [row EXCEPT ![flow[f].pub].st = "extracted", ![flow[f].pub].manifest = m]
          PROVE  RowsPersist
      BY <2>1
    <2> QED
      BY <1>5, <2>1 DEF FinishExtract
  <1>9. CASE WorkerFails(f) \/ FinishValidation(f) \/ MarkRefused(f)
    BY <1>9 DEF WorkerFails, FinishValidation, MarkRefused
  <1>6. CASE LinkDocument(f)
    BY <1>6 DEF LinkDocument
  <1>7. CASE EraseRow(f)
    BY <1>7 DEF EraseRow, NoRow
  <1>8. CASE UNCHANGED row
    BY <1>8
  <1> QED
    BY <1>1, <1>2, <1>3, <1>4, <1>5, <1>6, <1>7, <1>8, <1>9
       DEF FlowStep, AutoExtract, AutoValidate, ResolveTarget, AcquireLock, LockRefused, DownloadFails, CreateDocument, LoadTarget,
           MergeFails, MergeConflict, MergeTopics, WipeEmpty, BumpVersion, ReleaseEmpty, ReleaseLock,
           EraseRead, EraseDocument

\* The document of a row is set by LinkDocument and cleared by EraseRow only.
RowDocuments(f) ==
    \A p \in Pub :
        \/ row'[p].doc \in {row[p].doc, None}
        \/ p = flow[f].pub /\ flow[f].pc = "link" /\ row'[p].doc = flow[f].doc

LEMMA StepsOnRowDocuments ==
    ASSUME TypeInv, NEW f \in Flow, UserRequest(f) \/ FlowStep(f)
    PROVE  RowDocuments(f)
  <1> DEFINE p == flow[f].pub
  <1> USE DEF TypeInv, TypeOK, RowDocuments, Row
  <1>1. CASE UserRequest(f)
    <2>1. ASSUME NEW q \in Pub, NEW z \in Zip, NEW r \in Pub \cup {None}, Upload(f, q, z, r)
          PROVE  RowDocuments(f)
      BY <2>1 DEF Upload, NoRow
    <2> QED
      BY <1>1, <2>1 DEF UserRequest, ExtractRequest, ValidateRequest, DeleteRequest, CleanRequest, Request
  <1>2. CASE StoreRaw(f) \/ StoreFails(f)
    BY <1>2 DEF StoreRaw, StoreFails
  <1>3. CASE ReuseStart(f) \/ ReuseManifest(f) \/ ReuseValidate(f) \/ ReuseVerdict(f)
    <2>1. ASSUME NEW pc, NEW saved, NEW next, ReuseSave(f, pc, saved, next),
                 p \in Pub => saved.doc = row[p].doc
          PROVE  RowDocuments(f)
      BY <2>1 DEF ReuseSave
    <2>2. p \in Pub => row[p] \in Row
      OBVIOUS
    <2> QED
      BY <1>3, <2>1, <2>2 DEF ReuseStart, ReuseManifest, ReuseValidate, ReuseVerdict
  <1>4. CASE SaveExtracting(f) \/ SaveValidating(f)
    BY <1>4 DEF SaveExtracting, SaveValidating
  <1>5. CASE FinishExtract(f)
    <2>1. ASSUME NEW m \in BOOLEAN, row' = [row EXCEPT ![p].st = "extracted", ![p].manifest = m]
          PROVE  RowDocuments(f)
      BY <2>1
    <2> QED
      BY <1>5, <2>1 DEF FinishExtract
  <1>6. CASE WorkerFails(f) \/ FinishValidation(f) \/ MarkRefused(f)
    BY <1>6 DEF WorkerFails, FinishValidation, MarkRefused
  <1>7. CASE LinkDocument(f)
    BY <1>7 DEF LinkDocument, At
  <1>8. CASE EraseRow(f)
    BY <1>8 DEF EraseRow, NoRow
  <1>9. CASE UNCHANGED row
    BY <1>9
  <1> QED
    BY <1>1, <1>2, <1>3, <1>4, <1>5, <1>6, <1>7, <1>8, <1>9
       DEF FlowStep, AutoExtract, AutoValidate, ResolveTarget, AcquireLock, LockRefused, DownloadFails,
           CreateDocument, LoadTarget, MergeFails, MergeConflict, MergeTopics, WipeEmpty, BumpVersion,
           ReleaseEmpty, ReleaseLock, EraseRead, EraseDocument

\* What a step of flow f does to f itself: it ends, or starts on a row that
\* exists, or moves along one edge of the ingest, or stays outside it.
OwnMove(f) ==
    LET s == flow[f]
        t == flow'[f] IN
    \/ t = IdleFlow
    \/ /\ s.pc = "idle" /\ t.pub \in Pub /\ row'[t.pub].st # "absent"
       /\ t.pc \in {"store", "extractSave", "validateSave", "erase"}
       /\ t.doc = None /\ ~t.locked
    \/ /\ s.pc # "idle" /\ t.pub = s.pub /\ t.locked = s.locked
       /\ \/ /\ s.pc \notin Ingesting \cup HasDocument /\ ~s.locked
             /\ t.pc \notin Ingesting \cup HasDocument
             /\ t.doc \in {s.doc, row[s.pub].doc}
          \/ s.pc = "ingest" /\ t.pc = "download" /\ row[s.pub].replaces = None /\ t.doc = s.doc
          \/ /\ s.pc = "ingest" /\ t.pc = "lock" /\ row[s.pub].replaces # None
             /\ t.doc = row[row[s.pub].replaces].doc
          \/ s.pc = "lock" /\ t.pc = "refused" /\ t.doc = s.doc
          \/ s.pc = "download" /\ t.pc = "merge" /\ s.locked /\ t.doc = s.doc
             /\ t.ver = doc[s.doc].version
          \/ s.pc = "download" /\ t.pc = "merge" /\ ~s.locked /\ doc[t.doc].st = "absent"
             /\ t.doc \in Doc /\ doc'[t.doc].st = "processing"
          \/ s.pc = "merge" /\ t.pc = "link" /\ t.doc = s.doc /\ t.ver = s.ver
          \/ s.pc = "merge" /\ t.pc = "release" /\ t.doc = s.doc /\ s.locked
          \/ s.pc = "merge" /\ t.pc = "wipe" /\ t.doc = s.doc /\ ~s.locked
          \/ s.pc = "link" /\ t.pc = "bump" /\ t.doc = s.doc /\ t.ver = s.ver
          \/ s.pc \in {"download", "merge", "bump"} /\ s.locked /\ t.pc = "unlock" /\ t.doc = s.doc
    \/ /\ s.pc = "release" /\ t.pc = "unlock" /\ t.pub = s.pub /\ t.doc = s.doc /\ ~t.locked
    \/ /\ AcquireLock(f) /\ t.pc = "download" /\ t.pub = s.pub /\ t.doc = s.doc /\ t.locked

LEMMA UnwoundMoves ==
    ASSUME TypeInv, NEW f \in Flow, flow[f].pc \in {"download", "merge", "bump"}, flow'[f] = Unwound(f)
    PROVE  OwnMove(f)
  BY DEF OwnMove, Unwound, TypeInv, TypeOK, FlowState, Ingesting

LEMMA StepsMove ==
    ASSUME TypeInv, NEW f \in Flow, UserRequest(f) \/ FlowStep(f)
    PROVE  OwnMove(f)
  <1> DEFINE s == flow[f]
             t == flow'[f]
  <1>0. s \in FlowState /\ FlowShape(s) /\ flow \in [Flow -> FlowState]
    BY DEF TypeInv, TypeOK
  <1>1. CASE UserRequest(f)
    <2>1. PICK p \in Pub, pc \in {"store", "extractSave", "validateSave", "erase"} :
            /\ flow' = [flow EXCEPT ![f] = [IdleFlow EXCEPT !.pc = pc, !.pub = p]]
            /\ s.pc = "idle" /\ row'[p].st # "absent"
      <3> PICK p \in Pub :
            \/ \E z \in Zip, r \in Pub \cup {None} : Upload(f, p, z, r)
            \/ ExtractRequest(f, p) \/ ValidateRequest(f, p)
            \/ DeleteRequest(f, p) \/ CleanRequest(f, p)
        BY <1>1 DEF UserRequest
      <3>1. ASSUME NEW z \in Zip, NEW r \in Pub \cup {None}, Upload(f, p, z, r)
            PROVE  row'[p].st # "absent"
        BY <3>1 DEF Upload, NoRow, TypeInv, TypeOK
      <3> QED
        BY <3>1 DEF Upload, ExtractRequest, ValidateRequest, DeleteRequest, CleanRequest, Request,
                    At, ExtractAllowed, ValidateAllowed, Live
    <2> QED
      BY <2>1, <1>0 DEF OwnMove, IdleFlow
  <1>2. CASE Done(f)
    BY <1>0, <1>2 DEF Done, OwnMove
  <1>3. ASSUME NEW pc \in PC \ (Ingesting \cup HasDocument \cup {"idle"}), Goto(f, pc),
               s.pc \notin Ingesting \cup HasDocument \cup {"idle"}
        PROVE  OwnMove(f)
    BY <1>0, <1>3 DEF Goto, OwnMove, FlowState, FlowShape
  <1> USE DEF At
  <1>4. CASE StoreRaw(f)
    <2>1. CASE Goto(f, "extractCheck")
      BY <1>3, <1>4, <2>1 DEF StoreRaw, PC, Ingesting, HasDocument
    <2>2. ASSUME NEW q, flow' = [flow EXCEPT ![f].pc = "reuseStart", ![f].prior = row[q].issues]
          PROVE  OwnMove(f)
      <3>1. t.pc = "reuseStart" /\ t.pub = s.pub /\ t.doc = s.doc /\ t.locked = s.locked
        BY <1>0, <2>2 DEF FlowState
      <3> QED
        BY <1>0, <1>4, <3>1 DEF StoreRaw, OwnMove, FlowShape, Ingesting, HasDocument
    <2> QED
      BY <1>4, <2>1, <2>2 DEF StoreRaw
  <1>5. CASE ReuseStart(f) \/ ReuseManifest(f) \/ ReuseValidate(f) \/ ReuseVerdict(f)
    <2>1. \/ Done(f)
          \/ \E pc \in {"reuseManifest", "reuseValidate", "reuseVerdict", "ingest"} : Goto(f, pc)
      BY <1>5 DEF ReuseStart, ReuseManifest, ReuseValidate, ReuseVerdict, ReuseSave
    <2>2. s.pc \notin Ingesting \cup HasDocument \cup {"idle"}
      BY <1>5 DEF ReuseStart, ReuseManifest, ReuseValidate, ReuseVerdict, ReuseSave, Ingesting, HasDocument
    <2> QED
      BY <1>2, <1>3, <2>1, <2>2 DEF PC, Ingesting, HasDocument
  <1>6. CASE AutoExtract(f) \/ SaveExtracting(f) \/ FinishExtract(f) \/ AutoValidate(f)
             \/ SaveValidating(f) \/ FinishValidation(f) \/ EraseDocument(f)
    <2>1. \/ Done(f)
          \/ \E pc \in {"extractSave", "extracting", "validateCheck", "validateSave", "validating",
                        "ingest", "eraseRow"} : Goto(f, pc)
      BY <1>6 DEF AutoExtract, SaveExtracting, FinishExtract, AutoValidate, SaveValidating,
                  FinishValidation, EraseDocument
    <2>2. s.pc \notin Ingesting \cup HasDocument \cup {"idle"}
      BY <1>6 DEF AutoExtract, SaveExtracting, FinishExtract, AutoValidate, SaveValidating,
                  FinishValidation, EraseDocument, Ingesting, HasDocument
    <2> QED
      BY <1>2, <1>3, <2>1, <2>2 DEF PC, Ingesting, HasDocument
  <1>7. CASE StoreFails(f) \/ WorkerFails(f) \/ MarkRefused(f) \/ WipeEmpty(f) \/ ReleaseLock(f) \/ EraseRow(f)
    BY <1>2, <1>7 DEF StoreFails, WorkerFails, MarkRefused, WipeEmpty, ReleaseLock, EraseRow
  <1>8. CASE ResolveTarget(f) \/ LockRefused(f)
    BY <1>0, <1>2, <1>8 DEF ResolveTarget, LockRefused, Goto, OwnMove, FlowState, FlowShape, Ingesting
  <1>9. CASE AcquireLock(f)
    BY <1>0, <1>9 DEF AcquireLock, OwnMove, FlowState
  <1>10. CASE DownloadFails(f) \/ MergeFails(f) \/ MergeConflict(f) \/ BumpVersion(f)
    <2>1. t = Unwound(f)
      BY <1>0, <1>10, SavedUnmoved DEF DownloadFails, MergeFails, MergeConflict, BumpVersion
    <2>2. s.pc \in {"download", "merge", "bump"}
      BY <1>10 DEF DownloadFails, MergeFails, MergeConflict, BumpVersion
    <2> QED
      BY <2>1, <2>2, UnwoundMoves
  <1>11. CASE LoadTarget(f)
    <2>1. t = [s EXCEPT !.pc = "merge", !.seen = doc[s.doc].cur, !.ver = doc[s.doc].version]
      BY <1>11, SavedUnmoved DEF LoadTarget
    <2>2. /\ t.pc = "merge" /\ t.pub = s.pub /\ t.doc = s.doc /\ t.locked = s.locked
          /\ t.ver = doc[s.doc].version
      BY <1>0, <2>1 DEF FlowState
    <2> QED
      BY <1>11, <2>2 DEF LoadTarget, OwnMove
  <1>12. CASE \E d \in Doc : CreateDocument(f, d)
    <2> PICK d \in Doc : CreateDocument(f, d)
      BY <1>12
    <2>1. t.doc = d /\ t.pc = "merge" /\ t.pub = s.pub /\ t.locked = s.locked
      BY <1>0 DEF CreateDocument, FlowState
    <2>2. doc[d].st = "absent" /\ doc'[d].st = "processing"
      BY DEF CreateDocument, NoDocument, TypeInv, TypeOK
    <2> QED
      BY <1>0, <2>1, <2>2 DEF CreateDocument, OwnMove
  <1>13. CASE MergeTopics(f)
    BY <1>0, <1>13, SavedUnmoved DEF MergeTopics, OwnMove, FlowState
  <1>14. CASE LinkDocument(f) \/ ReleaseEmpty(f)
    BY <1>0, <1>14 DEF LinkDocument, ReleaseEmpty, Goto, OwnMove, FlowState
  <1>15. CASE EraseRead(f)
    BY <1>0, <1>2, <1>15 DEF EraseRead, OwnMove, FlowState, FlowShape, Ingesting, HasDocument
  <1> QED
    BY <1>1, <1>4, <1>5, <1>6, <1>7, <1>8, <1>9, <1>10, <1>11, <1>12, <1>13, <1>14, <1>15 DEF FlowStep

LEMMA CrashesKept ==
    ASSUME NEW f \in Flow, UserRequest(f) \/ FlowStep(f)
    PROVE  crashes' = crashes
  BY DEF FlowStep, UserRequest, Upload, ExtractRequest, ValidateRequest, DeleteRequest, CleanRequest,
         Request, StoreRaw, StoreFails, ReuseSave, ReuseStart, ReuseManifest, ReuseValidate, ReuseVerdict,
         AutoExtract, SaveExtracting, FinishExtract, WorkerFails, AutoValidate, SaveValidating,
         FinishValidation, ResolveTarget, AcquireLock, LockRefused, MarkRefused, DownloadFails,
         CreateDocument, LoadTarget, MergeFails, MergeConflict, MergeTopics, WipeEmpty, LinkDocument,
         BumpVersion, ReleaseEmpty, ReleaseLock, EraseRead, EraseDocument, EraseRow

-----------------------------------------------------------------------------
(* Busy publications are settled                                           *)

Runner == {"extracting", "validating", "reuseManifest", "reuseValidate", "reuseVerdict"}

\* Flow f will settle the status of p, and still will after the step.
Runs(f, p) == flow[f].pub = p /\ flow[f].pc \in Runner
WillRun(f, p) == flow'[f].pub = p /\ flow'[f].pc \in Runner

\* A step of flow f that leaves p busy did not make it so, or f runs on it now;
\* and f does not turn away from a busy publication it was running on.
Settles(f) ==
    \A p \in Pub : row'[p].st \in Busy =>
        /\ row'[p].st = row[p].st \/ WillRun(f, p)
        /\ Runs(f, p) => WillRun(f, p)

LEMMA StepsSettle ==
    ASSUME TypeInv, NEW f \in Flow, UserRequest(f) \/ FlowStep(f)
    PROVE  Settles(f)
  <1> DEFINE q == flow[f].pub
  <1>0. /\ flow \in [Flow -> FlowState] /\ row \in [Pub -> Row]
        /\ flow[f].pc # "idle" => q \in Pub /\ row[q] \in Row
    BY DEF TypeInv, TypeOK, FlowShape
  <1>1. ASSUME flow[f].pc \notin Runner, UNCHANGED row
        PROVE  Settles(f)
    BY <1>1 DEF Settles, Runs
  <1>2. ASSUME q \in Pub, NEW r \in Row, row' = [row EXCEPT ![q] = r],
               r.st \notin Busy \/ (WillRun(f, q))
        PROVE  Settles(f)
    BY <1>0, <1>2 DEF Settles, Runs
  <1>3. ASSUME q \in Pub, UNCHANGED row, row[q].st \notin Busy
        PROVE  Settles(f)
    BY <1>3 DEF Settles, Runs
  <1>4. ~Live(q) => row[q].st \notin Busy
    BY DEF Live, Busy
  <1>5. CASE UserRequest(f)
    <2>1. ASSUME NEW p \in Pub, NEW z \in Zip, NEW r \in Pub \cup {None}, Upload(f, p, z, r)
          PROVE  Settles(f)
      BY <1>0, <2>1 DEF Upload, NoRow, Settles, Runs, Runner, At, Busy
    <2>2. ASSUME NEW p \in Pub, NEW pc, Request(f, p, pc)
          PROVE  Settles(f)
      BY <1>1, <2>2 DEF Request, At, Runner
    <2> QED
      BY <1>5, <2>1, <2>2 DEF UserRequest, ExtractRequest, ValidateRequest, DeleteRequest, CleanRequest
  <1>6. CASE StoreRaw(f)
    BY <1>0, <1>6 DEF StoreRaw, At, Settles, Runs, Runner, Row
  <1>7. CASE StoreFails(f) \/ WorkerFails(f) \/ MarkRefused(f)
    <2>1. q \in Pub /\ row[q] \in Row
      BY <1>0, <1>7 DEF StoreFails, WorkerFails, MarkRefused, At
    <2>2. [row[q] EXCEPT !.st = "failed"] \in Row
      BY <2>1 DEF Row, RowStatus
    <2>3. row' = IF Live(q) THEN [row EXCEPT ![q] = [row[q] EXCEPT !.st = "failed"]] ELSE row
      BY <1>7 DEF StoreFails, WorkerFails, MarkRefused
    <2>4. [row[q] EXCEPT !.st = "failed"].st \notin Busy
      BY <2>1 DEF Row, Busy
    <2> QED
      BY <1>2, <1>3, <1>4, <2>1, <2>2, <2>3, <2>4
  <1>8. ASSUME NEW pc \in PC, NEW saved, NEW next, ReuseSave(f, pc, saved, next), pc # "idle",
               q \in Pub /\ Live(q) => saved \in Row /\ (saved.st \notin Busy \/ next \in Runner)
        PROVE  Settles(f)
    <2>1. q \in Pub
      BY <1>0, <1>8 DEF ReuseSave, At
    <2>2. CASE Live(q)
      <3>1. row' = [row EXCEPT ![q] = saved] /\ flow'[f].pub = q /\ flow'[f].pc = next
        BY <1>0, <1>8, <2>2 DEF ReuseSave, Goto, FlowState
      <3> QED
        BY <1>2, <1>8, <2>1, <2>2, <3>1 DEF WillRun
    <2>3. CASE ~Live(q)
      BY <1>3, <1>4, <1>8, <2>1, <2>3 DEF ReuseSave
    <2> QED
      BY <2>2, <2>3
  <1>9. CASE ReuseStart(f) \/ ReuseManifest(f) \/ ReuseValidate(f) \/ ReuseVerdict(f)
    <2> DEFINE r == row[q]
    <2>1. r \in Row /\ flow[f].prior \in BOOLEAN /\ flow[f].pc \in PC
      BY <1>0, <1>9 DEF ReuseStart, ReuseManifest, ReuseValidate, ReuseVerdict, ReuseSave, At, FlowState
    <2>2. /\ [r EXCEPT !.st = "extracting", !.mode = "reused-zip"] \in Row
          /\ [r EXCEPT !.st = "extracted", !.manifest = TRUE] \in Row
          /\ [r EXCEPT !.st = "validating"] \in Row
          /\ [r EXCEPT !.st = "validated", !.issues = flow[f].prior] \in Row
      BY <2>1 DEF Row, RowStatus, Busy
    <2>3. /\ [r EXCEPT !.st = "extracted", !.manifest = TRUE].st \notin Busy
          /\ [r EXCEPT !.st = "validated", !.issues = flow[f].prior].st \notin Busy
      BY <2>1 DEF Row, Busy
    <2>4. CASE ReuseStart(f)
      BY <1>8, <2>1, <2>2, <2>4 DEF ReuseStart, Runner, PC
    <2>5. CASE ReuseManifest(f)
      BY <1>8, <2>1, <2>2, <2>3, <2>5 DEF ReuseManifest, Runner, PC
    <2>6. CASE ReuseValidate(f)
      BY <1>8, <2>1, <2>2, <2>6 DEF ReuseValidate, Runner, PC
    <2>7. CASE ReuseVerdict(f)
      BY <1>8, <2>1, <2>2, <2>3, <2>7 DEF ReuseVerdict, Runner, PC
    <2> QED
      BY <1>9, <2>4, <2>5, <2>6, <2>7
  <1>10. CASE SaveExtracting(f) \/ SaveValidating(f)
    <2>1. q \in Pub /\ row[q] \in Row
      BY <1>0, <1>10 DEF SaveExtracting, SaveValidating, At
    <2>2. CASE Live(q)
      <3>1. \/ row' = [row EXCEPT ![q] = [row[q] EXCEPT !.st = "extracting", !.manifest = FALSE]]
            \/ row' = [row EXCEPT ![q] = [row[q] EXCEPT !.st = "validating"]]
        BY <1>10, <2>1, <2>2 DEF SaveExtracting, SaveValidating
      <3>2. /\ [row[q] EXCEPT !.st = "extracting", !.manifest = FALSE] \in Row
            /\ [row[q] EXCEPT !.st = "validating"] \in Row
        BY <2>1 DEF Row, RowStatus, Busy
      <3>3. flow'[f].pub = q /\ flow'[f].pc \in {"extracting", "validating"}
        BY <1>0, <1>10, <2>2 DEF SaveExtracting, SaveValidating, Goto, FlowState
      <3> QED
        BY <1>2, <2>1, <3>1, <3>2, <3>3 DEF WillRun, Runner
    <2>3. CASE ~Live(q)
      BY <1>3, <1>4, <1>10, <2>1, <2>3 DEF SaveExtracting, SaveValidating
    <2> QED
      BY <2>2, <2>3
  <1>11. CASE FinishExtract(f)
    <2>1. q \in Pub /\ row[q] \in Row
      BY <1>0, <1>11 DEF FinishExtract, At
    <2>2. CASE Live(q)
      <3>0. PICK m \in BOOLEAN : row' = [row EXCEPT ![q].st = "extracted", ![q].manifest = m]
        BY <1>11, <2>2 DEF FinishExtract
      <3>1. row' = [row EXCEPT ![q] = [row[q] EXCEPT !.st = "extracted", !.manifest = m]]
        BY <1>0, <2>1, <3>0
      <3>2. /\ [row[q] EXCEPT !.st = "extracted", !.manifest = m] \in Row
            /\ [row[q] EXCEPT !.st = "extracted", !.manifest = m].st \notin Busy
        BY <2>1 DEF Row, RowStatus, Busy
      <3> QED
        BY <1>2, <2>1, <3>1, <3>2
    <2>3. CASE ~Live(q)
      BY <1>3, <1>4, <1>11, <2>1, <2>3 DEF FinishExtract
    <2> QED
      BY <2>2, <2>3
  <1>12. CASE FinishValidation(f)
    <2>1. q \in Pub /\ row[q] \in Row
      BY <1>0, <1>12 DEF FinishValidation, At
    <2>2. CASE Live(q)
      <3> DEFINE b == row[q].zip \in Dirty
      <3>0. b \in BOOLEAN
        OBVIOUS
      <3>1. row' = [row EXCEPT ![q] = [row[q] EXCEPT !.st = "validated", !.issues = b]]
        BY <1>12, <2>1, <2>2 DEF FinishValidation
      <3> HIDE DEF b
      <3>2. /\ [row[q] EXCEPT !.st = "validated", !.issues = b] \in Row
            /\ [row[q] EXCEPT !.st = "validated", !.issues = b].st \notin Busy
        BY <2>1, <3>0 DEF Row, RowStatus, Busy
      <3> QED
        BY <1>2, <2>1, <3>1, <3>2
    <2>3. CASE ~Live(q)
      BY <1>3, <1>4, <1>12, <2>1, <2>3 DEF FinishValidation
    <2> QED
      BY <2>2, <2>3
  <1>13. CASE LinkDocument(f)
    BY <1>0, <1>13 DEF LinkDocument, At, Settles, Runs, Runner, Row
  <1>14. CASE EraseRow(f)
    BY <1>0, <1>14 DEF EraseRow, NoRow, At, Settles, Runs, Runner, Busy
  <1>15. CASE AutoExtract(f) \/ AutoValidate(f) \/ ResolveTarget(f) \/ AcquireLock(f) \/ LockRefused(f)
              \/ DownloadFails(f) \/ LoadTarget(f) \/ (\E d \in Doc : CreateDocument(f, d))
    <2>1. UNCHANGED row
      <3>1. CASE \E d \in Doc : CreateDocument(f, d)
        BY <3>1 DEF CreateDocument
      <3>2. CASE ResolveTarget(f)
        BY <3>2, Zenon DEF ResolveTarget
      <3> QED
        BY <1>15, <3>1, <3>2, Zenon DEF AutoExtract, AutoValidate, AcquireLock, LockRefused, DownloadFails, LoadTarget
    <2>2. \/ At(f, "extractCheck") \/ At(f, "validateCheck") \/ At(f, "ingest")
          \/ At(f, "lock") \/ At(f, "download")
      BY <1>15, Zenon DEF AutoExtract, AutoValidate, ResolveTarget, AcquireLock, LockRefused, DownloadFails,
             LoadTarget, CreateDocument
    <2> QED
      BY <1>1, <2>1, <2>2 DEF At, Runner
  <1>16. CASE MergeFails(f) \/ MergeConflict(f) \/ MergeTopics(f) \/ WipeEmpty(f) \/ BumpVersion(f)
              \/ ReleaseEmpty(f) \/ ReleaseLock(f) \/ EraseRead(f) \/ EraseDocument(f)
    <2>1. UNCHANGED row
      BY <1>16, Zenon DEF MergeFails, MergeConflict, MergeTopics, WipeEmpty, BumpVersion,
             ReleaseEmpty, ReleaseLock, EraseRead, EraseDocument
    <2>2. flow[f].pc \in {"merge", "wipe", "bump", "release", "unlock", "erase", "eraseDoc"}
      BY <1>16 DEF MergeFails, MergeConflict, MergeTopics, WipeEmpty, BumpVersion,
             ReleaseEmpty, ReleaseLock, EraseRead, EraseDocument, At
    <2> QED
      BY <1>1, <2>1, <2>2 DEF Runner
  <1> QED
    BY <1>5, <1>6, <1>7, <1>9, <1>10, <1>11, <1>12, <1>13, <1>14, <1>15, <1>16 DEF FlowStep

LEMMA NextBusyHasRunner == TypeInv /\ BusyHasRunner /\ [Next]_vars => BusyHasRunner'
  <1> SUFFICES ASSUME TypeInv, BusyHasRunner, [Next]_vars
               PROVE  BusyHasRunner'
    OBVIOUS
  <1>1. CASE Crash
    BY <1>1 DEF Crash, BusyHasRunner, TypeInv, TypeOK
  <1>2. ASSUME NEW f \in Flow, UserRequest(f) \/ FlowStep(f)
        PROVE  BusyHasRunner'
    <2>1. Settles(f) /\ OthersUnmoved(f) /\ crashes' = crashes
      BY <1>2, StepsSettle, OnlyOneFlowMoves, CrashesKept
    <2>2. ASSUME crashes = 0, NEW p \in Pub, row'[p].st \in Busy
          PROVE  \E g \in Flow : WillRun(g, p)
      <3>1. CASE row'[p].st = row[p].st
        <4>1. PICK g \in Flow : Runs(g, p)
          BY <2>2, <3>1 DEF BusyHasRunner, Runs, Runner
        <4> QED
          BY <2>1, <2>2, <4>1 DEF Settles, OthersUnmoved, Unmoved, Runs, WillRun
      <3>2. CASE WillRun(f, p)
        BY <3>2
      <3> QED
        BY <2>1, <2>2, <3>1, <3>2 DEF Settles
    <2> QED
      BY <2>1, <2>2 DEF BusyHasRunner, WillRun, Runner
  <1>3. CASE UNCHANGED vars
    BY <1>3 DEF vars, BusyHasRunner
  <1> QED
    BY <1>1, <1>2, <1>3 DEF Next

\* Until the first crash, a publication shown as extracting or validating has a
\* flow that will settle its status, for any number of overlapping requests.
THEOREM BusyIsRun == Spec => []BusyHasRunner
  <1>1. Init => BusyHasRunner
    <2>1. NoRow.st \notin Busy /\ \A d : LegacyRow(d).st \notin Busy
      BY DEF LegacyRow, NoRow, Busy
    <2> QED
      BY <2>1 DEF Init, BusyHasRunner
  <1> QED
    BY <1>1, NextBusyHasRunner, TypeInvariant, PTL DEF Spec

-----------------------------------------------------------------------------
(* What reaches the portal was found clean                                 *)

Reusing == {"reuseStart", "reuseManifest", "reuseValidate", "reuseVerdict"}
OnItsWay == {"ingest", "lock", "download", "merge", "link"}

\* p may be published: its verdict is a copied one, or its zip has no issues.
Cleared(p) == row[p].mode = "reused-zip" \/ row[p].zip \notin Dirty

\* A flow that copies a verdict copies the right one and has marked its row as
\* reused, and a flow on its way to the portal works on a cleared publication.
VerdictCarried ==
    \A f \in Flow :
        /\ flow[f].pc # "idle" => row[flow[f].pub].st # "absent"
        /\ flow[f].pc \in Reusing => flow[f].prior = (row[flow[f].pub].zip \in Dirty)
        /\ flow[f].pc \in Reusing \ {"reuseStart"} /\ Live(flow[f].pub)
               => row[flow[f].pub].mode = "reused-zip"
        /\ flow[f].pc \in OnItsWay /\ Live(flow[f].pub) => Cleared(flow[f].pub)

VerdictInv == VerdictCarried /\ VerdictOfOwnZip

\* What flow f writes as the verdict of its publication when it has one to write.
VerdictOf(f) == IF At(f, "reuseVerdict") THEN flow[f].prior ELSE row[flow[f].pub].zip \in Dirty

\* What a step of flow f does to a row: nothing, create it, erase it, or change
\* it while it lives; the last only on f's own publication.
RowSteps(f) ==
    \A p \in Pub :
        \/ row'[p] = row[p]
        \/ row[p].st = "absent" /\ row'[p].st = "uploaded" /\ row'[p].doc = None
        \/ row'[p].st = "deleted" /\ row'[p].doc = None
        \/ /\ p = flow[f].pub /\ Live(p) /\ row'[p].zip = row[p].zip
           /\ row[p].mode = "reused-zip" => row'[p].mode = "reused-zip"
           /\ flow[f].pc # "link" => row'[p].doc = row[p].doc
           /\ row'[p].st = "validated" =>
                \/ row[p].st = "validated" /\ row'[p].issues = row[p].issues
                \/ flow[f].pc \in {"validating", "reuseVerdict"} /\ row'[p].issues = VerdictOf(f)

LEMMA StepsOnRows ==
    ASSUME TypeInv, NEW f \in Flow, UserRequest(f) \/ FlowStep(f)
    PROVE  RowSteps(f)
  <1> DEFINE q == flow[f].pub
  <1>0. /\ flow \in [Flow -> FlowState] /\ row \in [Pub -> Row]
        /\ flow[f].pc # "idle" => q \in Pub /\ row[q] \in Row
    BY DEF TypeInv, TypeOK, FlowShape
  <1>1. ASSUME UNCHANGED row
        PROVE  RowSteps(f)
    BY <1>1 DEF RowSteps
  <1>2. ASSUME q \in Pub, Live(q), NEW r \in Row, row' = [row EXCEPT ![q] = r],
               r.zip = row[q].zip, row[q].mode = "reused-zip" => r.mode = "reused-zip",
               flow[f].pc # "link" => r.doc = row[q].doc,
               r.st = "validated" =>
                   \/ row[q].st = "validated" /\ r.issues = row[q].issues
                   \/ flow[f].pc \in {"validating", "reuseVerdict"} /\ r.issues = VerdictOf(f)
        PROVE  RowSteps(f)
    BY <1>0, <1>2 DEF RowSteps
  <1>3. CASE UserRequest(f)
    <2>1. ASSUME NEW p \in Pub, NEW z \in Zip, NEW r \in Pub \cup {None}, Upload(f, p, z, r)
          PROVE  RowSteps(f)
      <3> DEFINE fresh == [NoRow EXCEPT !.st = "uploaded", !.zip = z, !.replaces = r]
      <3>1. fresh.st = "uploaded" /\ fresh.doc = None
        BY DEF NoRow
      <3>2. row' = [row EXCEPT ![p] = fresh] /\ row[p].st = "absent"
        BY <2>1 DEF Upload
      <3> HIDE DEF fresh
      <3> QED
        BY <1>0, <3>1, <3>2 DEF RowSteps
    <2>2. ASSUME NEW p \in Pub, NEW pc, Request(f, p, pc)
          PROVE  RowSteps(f)
      BY <1>1, <2>2 DEF Request
    <2> QED
      BY <1>3, <2>1, <2>2 DEF UserRequest, ExtractRequest, ValidateRequest, DeleteRequest, CleanRequest
  <1>4. CASE StoreRaw(f) \/ StoreFails(f) \/ WorkerFails(f) \/ MarkRefused(f)
    <2>1. q \in Pub /\ row[q] \in Row
      BY <1>0, <1>4 DEF StoreRaw, StoreFails, WorkerFails, MarkRefused, At
    <2>2. \/ UNCHANGED row
          \/ Live(q) /\ row' = [row EXCEPT ![q] = [row[q] EXCEPT !.raw = TRUE]]
          \/ Live(q) /\ row' = [row EXCEPT ![q] = [row[q] EXCEPT !.st = "failed"]]
      BY <1>4 DEF StoreRaw, StoreFails, WorkerFails, MarkRefused
    <2>3. /\ [row[q] EXCEPT !.raw = TRUE] \in Row
          /\ [row[q] EXCEPT !.st = "failed"] \in Row
      BY <2>1 DEF Row, RowStatus
    <2>4. CASE Live(q) /\ row' = [row EXCEPT ![q] = [row[q] EXCEPT !.raw = TRUE]]
      BY <1>2, <2>1, <2>3, <2>4 DEF Row
    <2>5. CASE Live(q) /\ row' = [row EXCEPT ![q] = [row[q] EXCEPT !.st = "failed"]]
      BY <1>2, <2>1, <2>3, <2>5 DEF Row
    <2> QED
      BY <1>1, <2>2, <2>4, <2>5
  <1>5. CASE ReuseStart(f) \/ ReuseManifest(f) \/ ReuseValidate(f) \/ ReuseVerdict(f)
    <2> DEFINE r == row[q]
    <2>1. q \in Pub /\ r \in Row /\ flow[f].prior \in BOOLEAN
      BY <1>0, <1>5 DEF ReuseStart, ReuseManifest, ReuseValidate, ReuseVerdict, ReuseSave, At, FlowState
    <2>2. /\ [r EXCEPT !.st = "extracting", !.mode = "reused-zip"] \in Row
          /\ [r EXCEPT !.st = "extracted", !.manifest = TRUE] \in Row
          /\ [r EXCEPT !.st = "validating"] \in Row
          /\ [r EXCEPT !.st = "validated", !.issues = flow[f].prior] \in Row
      BY <2>1 DEF Row, RowStatus, Busy
    <2>3. CASE ReuseStart(f)
      <3>1. UNCHANGED row \/ (Live(q) /\ row' = [row EXCEPT ![q] = [r EXCEPT !.st = "extracting", !.mode = "reused-zip"]])
        BY <2>3 DEF ReuseStart, ReuseSave
      <3> QED
        BY <1>1, <1>2, <2>1, <2>2, <3>1 DEF Row
    <2>4. CASE ReuseManifest(f)
      <3>1. UNCHANGED row \/ (Live(q) /\ row' = [row EXCEPT ![q] = [r EXCEPT !.st = "extracted", !.manifest = TRUE]])
        BY <2>4 DEF ReuseManifest, ReuseSave
      <3> QED
        BY <1>1, <1>2, <2>1, <2>2, <3>1 DEF Row
    <2>5. CASE ReuseValidate(f)
      <3>1. UNCHANGED row \/ (Live(q) /\ row' = [row EXCEPT ![q] = [r EXCEPT !.st = "validating"]])
        BY <2>5 DEF ReuseValidate, ReuseSave
      <3> QED
        BY <1>1, <1>2, <2>1, <2>2, <3>1 DEF Row
    <2>6. CASE ReuseVerdict(f)
      <3>1. UNCHANGED row \/ (Live(q) /\ row' = [row EXCEPT ![q] = [r EXCEPT !.st = "validated", !.issues = flow[f].prior]])
        BY <2>6 DEF ReuseVerdict, ReuseSave
      <3>2. flow[f].pc = "reuseVerdict" /\ VerdictOf(f) = flow[f].prior
        BY <2>6 DEF ReuseVerdict, ReuseSave, VerdictOf, At
      <3> QED
        BY <1>1, <1>2, <2>1, <2>2, <3>1, <3>2 DEF Row
    <2> QED
      BY <1>5, <2>3, <2>4, <2>5, <2>6
  <1>6. CASE SaveExtracting(f) \/ FinishExtract(f) \/ SaveValidating(f)
    <2>1. q \in Pub /\ row[q] \in Row
      BY <1>0, <1>6 DEF SaveExtracting, FinishExtract, SaveValidating, At
    <2>2. ASSUME NEW st \in {"extracting", "extracted"}, NEW m \in BOOLEAN, Live(q),
                 row' = [row EXCEPT ![q].st = st, ![q].manifest = m]
          PROVE  RowSteps(f)
      <3>1. row' = [row EXCEPT ![q] = [row[q] EXCEPT !.st = st, !.manifest = m]]
        BY <1>0, <2>1, <2>2
      <3>2. [row[q] EXCEPT !.st = st, !.manifest = m] \in Row
        BY <2>1 DEF Row, RowStatus, Busy
      <3> QED
        BY <1>2, <2>1, <2>2, <3>1, <3>2 DEF Row
    <2>3. CASE SaveExtracting(f)
      BY <1>1, <2>2, <2>3 DEF SaveExtracting
    <2>4. CASE FinishExtract(f)
      BY <1>1, <2>2, <2>4 DEF FinishExtract
    <2>5. CASE SaveValidating(f)
      <3>1. UNCHANGED row \/ (Live(q) /\ row' = [row EXCEPT ![q] = [row[q] EXCEPT !.st = "validating"]])
        BY <2>5 DEF SaveValidating
      <3>2. [row[q] EXCEPT !.st = "validating"] \in Row
        BY <2>1 DEF Row, RowStatus, Busy
      <3> QED
        BY <1>1, <1>2, <2>1, <3>1, <3>2 DEF Row
    <2> QED
      BY <1>6, <2>3, <2>4, <2>5
  <1>7. CASE FinishValidation(f)
    <2>1. q \in Pub /\ row[q] \in Row /\ flow[f].pc = "validating"
      BY <1>0, <1>7 DEF FinishValidation, At
    <2> DEFINE b == row[q].zip \in Dirty
    <2>2. b \in BOOLEAN /\ VerdictOf(f) = b
      BY <2>1 DEF VerdictOf, At
    <2>3. UNCHANGED row \/ (Live(q) /\ row' = [row EXCEPT ![q] = [row[q] EXCEPT !.st = "validated", !.issues = b]])
      BY <1>7, <2>1 DEF FinishValidation
    <2> HIDE DEF b
    <2>4. [row[q] EXCEPT !.st = "validated", !.issues = b] \in Row
      BY <2>1, <2>2 DEF Row, RowStatus
    <2> QED
      BY <1>1, <1>2, <2>1, <2>2, <2>3, <2>4 DEF Row
  <1>8. CASE LinkDocument(f)
    <2> DEFINE mode == IF flow[f].locked /\ row[q].mode = "fresh" THEN "reused-document" ELSE row[q].mode
               linked == [row[q] EXCEPT !.doc = flow[f].doc, !.mode = mode]
    <2>1. q \in Pub /\ row[q] \in Row /\ flow[f].doc \in Doc /\ flow[f].pc = "link"
      BY <1>0, <1>8 DEF LinkDocument, At, TypeInv, FlowShape, HasDocument
    <2>2. row' = IF Live(q) THEN [row EXCEPT ![q] = linked] ELSE row
      BY <1>0, <1>8, <2>1 DEF LinkDocument
    <2>3. linked \in Row /\ linked.zip = row[q].zip /\ linked.st = row[q].st /\ linked.issues = row[q].issues
          /\ (row[q].mode = "reused-zip" => linked.mode = "reused-zip")
      BY <2>1 DEF Row
    <2> HIDE DEF linked
    <2> QED
      BY <1>1, <1>2, <2>1, <2>2, <2>3
  <1>9. CASE EraseRow(f)
    <2> DEFINE gone == [NoRow EXCEPT !.st = "deleted", !.zip = row[q].zip, !.replaces = row[q].replaces]
    <2>1. gone.st = "deleted" /\ gone.doc = None
      BY DEF NoRow
    <2>2. row' = [row EXCEPT ![q] = gone]
      BY <1>9 DEF EraseRow
    <2> HIDE DEF gone
    <2> QED
      BY <1>0, <2>1, <2>2 DEF RowSteps
  <1>10. CASE UNCHANGED row
    BY <1>1, <1>10
  <1>11. CASE ResolveTarget(f)
    <2>1. UNCHANGED row
      BY <1>11, Zenon DEF ResolveTarget
    <2> QED
      BY <1>1, <2>1
  <1>12. CASE LoadTarget(f) \/ \E d \in Doc : CreateDocument(f, d)
    <2>1. UNCHANGED row
      BY <1>12, Zenon DEF LoadTarget, CreateDocument
    <2> QED
      BY <1>1, <2>1
  <1> QED
    BY <1>3, <1>4, <1>5, <1>6, <1>7, <1>8, <1>9, <1>10, <1>11, <1>12, Zenon
       DEF FlowStep, AutoExtract, AutoValidate, AcquireLock, LockRefused, DownloadFails,
           MergeFails, MergeConflict, MergeTopics, WipeEmpty, BumpVersion, ReleaseEmpty,
           ReleaseLock, EraseRead, EraseDocument

\* How flow f comes to copy a verdict, or to publish.
VerdictMoves(f) ==
    LET s == flow[f]
        t == flow'[f] IN
    t.pc \in Reusing \cup OnItsWay =>
        /\ s.pc # "idle" /\ t.pub = s.pub
        /\ t.pc = "reuseStart" =>
             \E q \in Pub : row[q].st = "validated" /\ row[q].zip = row[s.pub].zip /\ t.prior = row[q].issues
        /\ t.pc \in Reusing \ {"reuseStart"} =>
             /\ s.pc \in Reusing /\ t.prior = s.prior
             /\ s.pc = "reuseStart" => Live(s.pub) /\ row'[s.pub].mode = "reused-zip"
        /\ t.pc = "ingest" => s.pc = "reuseVerdict" \/ row[s.pub].zip \notin Dirty
        /\ t.pc \in OnItsWay \ {"ingest"} => s.pc \in OnItsWay

LEMMA StepsCarryVerdict ==
    ASSUME TypeInv, NEW f \in Flow, UserRequest(f) \/ FlowStep(f)
    PROVE  VerdictMoves(f)
  <1> DEFINE s == flow[f]
             t == flow'[f]
  <1>0. s \in FlowState /\ FlowShape(s) /\ flow \in [Flow -> FlowState]
    BY DEF TypeInv, TypeOK
  <1>1. ASSUME t.pc \notin Reusing \cup OnItsWay
        PROVE  VerdictMoves(f)
    BY <1>1, Zenon DEF VerdictMoves
  <1>2. CASE Done(f)
    <2>1. t.pc = "idle"
      BY <1>0, <1>2 DEF Done, IdleFlow
    <2> QED
      BY <1>1, <2>1 DEF Reusing, OnItsWay
  <1>3. ASSUME NEW pc, Goto(f, pc)
        PROVE  t = [s EXCEPT !.pc = pc] /\ t.pc = pc /\ t.pub = s.pub /\ t.prior = s.prior
    BY <1>0, <1>3 DEF Goto, FlowState
  <1>4. ASSUME t = Unwound(f)
        PROVE  VerdictMoves(f)
    <2>1. t.pc \in {"idle", "unlock"}
      BY <1>0, <1>4 DEF Unwound, IdleFlow, FlowState
    <2> QED
      BY <1>1, <2>1 DEF Reusing, OnItsWay
  <1>5. CASE UserRequest(f)
    <2>1. PICK p \in Pub :
            \/ \E z \in Zip, r \in Pub \cup {None} : Upload(f, p, z, r)
            \/ ExtractRequest(f, p) \/ ValidateRequest(f, p)
            \/ DeleteRequest(f, p) \/ CleanRequest(f, p)
      BY <1>5 DEF UserRequest
    <2>2. ASSUME NEW z \in Zip, NEW r \in Pub \cup {None}, Upload(f, p, z, r)
          PROVE  t.pc = "store"
      BY <1>0, <2>2 DEF Upload, IdleFlow
    <2>3. ASSUME NEW pc, Request(f, p, pc)
          PROVE  t.pc = pc
      BY <1>0, <2>3 DEF Request, IdleFlow
    <2>4. t.pc \in {"store", "extractSave", "validateSave", "erase"}
      BY <2>1, <2>2, <2>3 DEF ExtractRequest, ValidateRequest, DeleteRequest, CleanRequest
    <2> QED
      BY <1>1, <2>4 DEF Reusing, OnItsWay
  <1>6. CASE StoreRaw(f)
    <2>1. CASE Goto(f, "extractCheck")
      <3>1. t.pc = "extractCheck"
        BY <1>3, <2>1
      <3> QED
        BY <1>1, <3>1 DEF Reusing, OnItsWay
    <2>2. ASSUME NEW q \in Reusable(s.pub),
                 flow' = [flow EXCEPT ![f].pc = "reuseStart", ![f].prior = row[q].issues]
          PROVE  VerdictMoves(f)
      <3>1. t.pc = "reuseStart" /\ t.pub = s.pub /\ t.prior = row[q].issues
        BY <1>0, <2>2 DEF FlowState
      <3>2. q \in Pub /\ row[q].st = "validated" /\ row[q].zip = row[s.pub].zip
        BY DEF Reusable
      <3>3. s.pc # "idle"
        BY <1>6 DEF StoreRaw, At
      <3> QED
        BY <3>1, <3>2, <3>3 DEF VerdictMoves, Reusing, OnItsWay
    <2> QED
      BY <1>6, <2>1, <2>2 DEF StoreRaw
  <1>7. CASE ReuseStart(f)
    <2>1. s.pc = "reuseStart" /\ s.pub \in Pub
      BY <1>0, <1>7 DEF ReuseStart, ReuseSave, At, FlowShape
    <2>2. CASE ~Live(s.pub)
      BY <1>2, <1>7, <2>2 DEF ReuseStart, ReuseSave
    <2>3. CASE Live(s.pub)
      <3>1. Goto(f, "reuseManifest")
            /\ row' = [row EXCEPT ![s.pub] = [row[s.pub] EXCEPT !.st = "extracting", !.mode = "reused-zip"]]
        BY <1>7, <2>3 DEF ReuseStart, ReuseSave
      <3>2. row'[s.pub].mode = "reused-zip"
        BY <2>1, <3>1 DEF TypeInv, TypeOK, Row
      <3>3. t.pc = "reuseManifest" /\ t.pub = s.pub /\ t.prior = s.prior
        BY <1>3, <3>1
      <3> QED
        BY <2>1, <2>3, <3>2, <3>3 DEF VerdictMoves, Reusing, OnItsWay
    <2> QED
      BY <2>2, <2>3
  <1>8. CASE ReuseManifest(f) \/ ReuseValidate(f) \/ ReuseVerdict(f)
    <2>1. \/ Done(f)
          \/ s.pc = "reuseManifest" /\ Goto(f, "reuseValidate")
          \/ s.pc = "reuseValidate" /\ Goto(f, "reuseVerdict")
          \/ s.pc = "reuseVerdict" /\ Goto(f, "ingest")
      BY <1>8 DEF ReuseManifest, ReuseValidate, ReuseVerdict, ReuseSave, At
    <2>2. ASSUME NEW pc \in {"reuseValidate", "reuseVerdict", "ingest"}, Goto(f, pc),
                 s.pc \in {"reuseManifest", "reuseValidate", "reuseVerdict"},
                 pc = "ingest" => s.pc = "reuseVerdict"
          PROVE  VerdictMoves(f)
      BY <1>3, <2>2 DEF VerdictMoves, Reusing, OnItsWay
    <2> QED
      BY <1>2, <2>1, <2>2
  <1>9. CASE AutoExtract(f) \/ SaveExtracting(f) \/ FinishExtract(f) \/ AutoValidate(f)
             \/ SaveValidating(f) \/ EraseDocument(f)
    <2>1. \/ Done(f)
          \/ \E pc \in {"extractSave", "extracting", "validateCheck", "validateSave", "validating", "eraseRow"} :
                Goto(f, pc)
      BY <1>9 DEF AutoExtract, SaveExtracting, FinishExtract, AutoValidate, SaveValidating, EraseDocument
    <2> QED
      BY <1>1, <1>2, <1>3, <2>1 DEF Reusing, OnItsWay
  <1>10. CASE FinishValidation(f)
    <2>1. Done(f) \/ (Goto(f, "ingest") /\ row[s.pub].zip \notin Dirty)
      BY <1>10 DEF FinishValidation, CanPublish
    <2>2. CASE Goto(f, "ingest") /\ row[s.pub].zip \notin Dirty
      <3>1. t.pc = "ingest" /\ t.pub = s.pub
        BY <1>3, <2>2
      <3>2. s.pc # "idle"
        BY <1>10 DEF FinishValidation, At
      <3> QED
        BY <2>2, <3>1, <3>2 DEF VerdictMoves, Reusing, OnItsWay
    <2> QED
      BY <1>2, <2>1, <2>2
  <1>11. CASE StoreFails(f) \/ WorkerFails(f) \/ MarkRefused(f) \/ WipeEmpty(f) \/ ReleaseLock(f) \/ EraseRow(f)
    BY <1>2, <1>11, Zenon DEF StoreFails, WorkerFails, MarkRefused, WipeEmpty, ReleaseLock, EraseRow
  <1>12. ASSUME s.pc \in OnItsWay, t.pub = s.pub,
                t.pc \in {"lock", "download", "merge", "link"}
         PROVE  VerdictMoves(f)
    BY <1>12 DEF VerdictMoves, Reusing, OnItsWay
  <1>13. CASE ResolveTarget(f)
    <2>1. \/ Done(f) \/ Goto(f, "download")
          \/ \E d : flow' = [flow EXCEPT ![f].pc = "lock", ![f].doc = d]
      BY <1>13, Zenon DEF ResolveTarget
    <2>2. ASSUME NEW d, flow' = [flow EXCEPT ![f].pc = "lock", ![f].doc = d]
          PROVE  t.pc = "lock" /\ t.pub = s.pub
      BY <1>0, <2>2 DEF FlowState
    <2>3. s.pc = "ingest"
      BY <1>13 DEF ResolveTarget, At
    <2> QED
      BY <1>2, <1>3, <1>12, <2>1, <2>2, <2>3 DEF OnItsWay
  <1>14. CASE AcquireLock(f) \/ LoadTarget(f) \/ \E d \in Doc : CreateDocument(f, d)
    <2>1. At(f, "lock") \/ At(f, "download")
      BY <1>14, Zenon DEF AcquireLock, LoadTarget, CreateDocument
    <2>2. CASE AcquireLock(f)
      BY <1>0, <1>12, <2>1, <2>2 DEF AcquireLock, FlowState, OnItsWay, At
    <2>3. CASE LoadTarget(f)
      <3>1. t = [s EXCEPT !.pc = "merge", !.seen = doc[s.doc].cur, !.ver = doc[s.doc].version]
        BY <2>3, SavedUnmoved DEF LoadTarget
      <3>2. t.pc = "merge" /\ t.pub = s.pub
        BY <1>0, <3>1 DEF FlowState
      <3> QED
        BY <1>12, <2>1, <3>2 DEF OnItsWay, At
    <2>4. ASSUME NEW d \in Doc, CreateDocument(f, d)
          PROVE  VerdictMoves(f)
      <3>1. t.pc = "merge" /\ t.pub = s.pub
        BY <1>0, <2>4 DEF CreateDocument, FlowState
      <3> QED
        BY <1>12, <2>1, <3>1 DEF OnItsWay, At
    <2> QED
      BY <1>14, <2>2, <2>3, <2>4
  <1>15. CASE DownloadFails(f) \/ MergeFails(f) \/ MergeConflict(f) \/ BumpVersion(f)
    <2>1. t = Unwound(f)
      BY <1>0, <1>15, SavedUnmoved DEF DownloadFails, MergeFails, MergeConflict, BumpVersion
    <2> QED
      BY <1>4, <2>1
  <1>16. CASE MergeTopics(f)
    <2>1. s.pc = "merge" /\ \E pc \in {"link", "release", "wipe"} : t = [s EXCEPT !.pc = pc]
      BY <1>16, SavedUnmoved DEF MergeTopics, At
    <2>2. t.pub = s.pub /\ t.pc \in {"link", "release", "wipe"}
      BY <1>0, <2>1 DEF FlowState
    <2> QED
      BY <1>1, <1>12, <2>1, <2>2 DEF Reusing, OnItsWay
  <1>17. CASE LockRefused(f) \/ LinkDocument(f)
    <2>1. Goto(f, "refused") \/ Goto(f, "bump")
      BY <1>17 DEF LockRefused, LinkDocument
    <2>2. t.pc \in {"refused", "bump"}
      BY <1>3, <2>1
    <2> QED
      BY <1>1, <2>2 DEF Reusing, OnItsWay
  <1>18. CASE ReleaseEmpty(f) \/ EraseRead(f)
    <2>1. t.pc \in {"unlock", "eraseDoc", "idle"}
      BY <1>0, <1>18 DEF ReleaseEmpty, EraseRead, Done, IdleFlow, FlowState
    <2> QED
      BY <1>1, <2>1 DEF Reusing, OnItsWay
  <1> QED
    BY <1>5, <1>6, <1>7, <1>8, <1>9, <1>10, <1>11, <1>13, <1>14, <1>15, <1>16, <1>17, <1>18 DEF FlowStep

LEMMA StepsKeepVerdicts ==
    ASSUME TypeInv, VerdictInv, NEW f \in Flow, UserRequest(f) \/ FlowStep(f)
    PROVE  VerdictInv'
  <1>1. RowSteps(f) /\ VerdictMoves(f) /\ OthersUnmoved(f) /\ OwnMove(f) /\ RowsPersist
    BY StepsOnRows, StepsCarryVerdict, OnlyOneFlowMoves, StepsMove, StepsKeepRows
  <1>2. /\ \A g \in Flow : flow[g].pc # "idle" => flow[g].pub \in Pub /\ row[flow[g].pub].st # "absent"
        /\ VerdictCarried /\ VerdictOfOwnZip
    BY DEF VerdictInv, VerdictCarried, TypeInv, FlowShape
  \* A row that exists keeps its zip; as long as it lives it also stays reused.
  <1>3. ASSUME NEW p \in Pub, row[p].st # "absent"
        PROVE  /\ row'[p].st # "absent" /\ row'[p].zip = row[p].zip
               /\ row'[p].st # "deleted" => Live(p)
               /\ row'[p].st # "deleted" /\ row[p].mode = "reused-zip" => row'[p].mode = "reused-zip"
    BY <1>1, <1>3 DEF RowsPersist, RowSteps, Live
  <1>4. ASSUME NEW g \in Flow, flow'[g].pc # "idle"
        PROVE  row'[flow'[g].pub].st # "absent"
    <2>1. CASE g # f
      BY <1>1, <1>2, <1>3, <1>4, <2>1 DEF OthersUnmoved, Unmoved
    <2>2. CASE g = f
      <3>1. \/ flow'[f].pub = flow[f].pub /\ flow[f].pc # "idle"
            \/ row'[flow'[f].pub].st # "absent"
        BY <1>1, <1>4, <2>2 DEF OwnMove, IdleFlow, AcquireLock, At
      <3> QED
        BY <1>2, <1>3, <2>2, <3>1
    <2> QED
      BY <2>1, <2>2
  <1>5. ASSUME NEW g \in Flow, flow'[g].pc \in Reusing \cup OnItsWay
        PROVE  /\ flow'[g].pub = flow[g].pub /\ flow[g].pc # "idle" /\ flow[g].pub \in Pub
               /\ row[flow[g].pub].st # "absent"
    BY <1>1, <1>2, <1>5 DEF OthersUnmoved, Unmoved, VerdictMoves, Reusing, OnItsWay
  <1>6. ASSUME NEW g \in Flow, flow'[g].pc \in Reusing
        PROVE  flow'[g].prior = (row'[flow'[g].pub].zip \in Dirty)
    <2>1. flow'[g].prior = (row[flow[g].pub].zip \in Dirty)
      <3>1. CASE g # f
        BY <1>1, <1>2, <1>6, <3>1 DEF OthersUnmoved, Unmoved, VerdictCarried
      <3>2. CASE g = f /\ flow'[f].pc = "reuseStart"
        BY <1>1, <1>2, <3>2 DEF VerdictMoves, Reusing, VerdictOfOwnZip
      <3>3. CASE g = f /\ flow'[f].pc # "reuseStart"
        BY <1>1, <1>2, <1>6, <3>3 DEF VerdictMoves, VerdictCarried
      <3> QED
        BY <3>1, <3>2, <3>3
    <2> QED
      BY <1>3, <1>5, <1>6, <2>1
  <1>7. ASSUME NEW g \in Flow, flow'[g].pc \in Reusing \ {"reuseStart"}, row'[flow'[g].pub].st # "deleted"
        PROVE  row'[flow'[g].pub].mode = "reused-zip"
    <2>1. Live(flow[g].pub)
      BY <1>3, <1>5, <1>7
    <2>2. CASE g = f /\ flow[f].pc = "reuseStart"
      BY <1>1, <1>7, <2>2 DEF VerdictMoves
    <2>3. CASE ~(g = f /\ flow[f].pc = "reuseStart")
      <3>1. flow[g].pc \in Reusing \ {"reuseStart"}
        BY <1>1, <1>7, <2>3 DEF VerdictMoves, OthersUnmoved, Unmoved
      <3>2. row[flow[g].pub].mode = "reused-zip"
        BY <1>2, <2>1, <3>1 DEF VerdictCarried
      <3> QED
        BY <1>3, <1>5, <1>7, <3>2
    <2> QED
      BY <2>2, <2>3
  <1>8. ASSUME NEW g \in Flow, flow'[g].pc \in OnItsWay, row'[flow'[g].pub].st # "deleted"
        PROVE  row'[flow'[g].pub].mode = "reused-zip" \/ row'[flow'[g].pub].zip \notin Dirty
    <2>1. Live(flow[g].pub)
      BY <1>3, <1>5, <1>8
    <2>2. Cleared(flow[g].pub)
      <3>1. CASE g = f /\ flow'[f].pc = "ingest"
        BY <1>1, <1>2, <1>8, <2>1, <3>1 DEF VerdictMoves, VerdictCarried, Cleared, Reusing
      <3>2. CASE ~(g = f /\ flow'[f].pc = "ingest")
        <4>1. flow[g].pc \in OnItsWay
          BY <1>1, <1>8, <3>2 DEF VerdictMoves, OthersUnmoved, Unmoved
        <4> QED
          BY <1>2, <2>1, <4>1 DEF VerdictCarried
      <3> QED
        BY <3>1, <3>2
    <2> QED
      BY <1>3, <1>5, <1>8, <2>2 DEF Cleared
  <1>9. ASSUME NEW p \in Pub, row'[p].st = "validated"
        PROVE  row'[p].issues = (row'[p].zip \in Dirty)
    <2>1. CASE row[p].st = "validated" /\ row'[p].issues = row[p].issues
      BY <1>2, <1>3, <2>1 DEF VerdictOfOwnZip
    <2>2. CASE p = flow[f].pub /\ Live(p) /\ flow[f].pc \in {"validating", "reuseVerdict"} /\ row'[p].issues = VerdictOf(f)
      <3>1. VerdictOf(f) = (row[p].zip \in Dirty)
        BY <1>2, <2>2 DEF VerdictOf, At, VerdictCarried, Reusing
      <3>2. row'[p].zip = row[p].zip
        BY <1>3, <2>2 DEF Live
      <3> QED
        BY <2>2, <3>1, <3>2
    <2> QED
      BY <1>1, <1>9, <2>1, <2>2 DEF RowSteps
  <1>10. ASSUME NEW p \in Pub, row'[p].doc # None, row'[p].mode # "reused-zip"
         PROVE  row'[p].zip \notin Dirty
    <2>1. CASE row'[p] = row[p]
      BY <1>2, <1>10, <2>1 DEF VerdictOfOwnZip
    <2>2. CASE row'[p].zip = row[p].zip /\ row'[p].doc = row[p].doc /\ row[p].mode # "reused-zip"
      BY <1>2, <1>10, <2>2 DEF VerdictOfOwnZip
    <2>3. CASE /\ p = flow[f].pub /\ Live(p) /\ flow[f].pc = "link" /\ row'[p].zip = row[p].zip
               /\ row[p].mode # "reused-zip"
      BY <1>2, <2>3 DEF VerdictCarried, Cleared, OnItsWay
    <2> QED
      BY <1>1, <1>10, <2>1, <2>2, <2>3 DEF RowSteps
  <1>11. VerdictCarried'
    BY <1>4, <1>6, <1>7, <1>8 DEF VerdictCarried, Live, Cleared
  <1>12. VerdictOfOwnZip'
    BY <1>9, <1>10 DEF VerdictOfOwnZip
  <1> QED
    BY <1>11, <1>12 DEF VerdictInv

LEMMA NextVerdictInv == TypeInv /\ VerdictInv /\ [Next]_vars => VerdictInv'
  <1> SUFFICES ASSUME TypeInv, VerdictInv, [Next]_vars
               PROVE  VerdictInv'
    OBVIOUS
  <1>1. CASE Crash
    BY <1>1 DEF Crash, VerdictInv, VerdictCarried, VerdictOfOwnZip, IdleFlow, Reusing, OnItsWay
  <1>2. ASSUME NEW f \in Flow, UserRequest(f) \/ FlowStep(f)
        PROVE  VerdictInv'
    BY <1>2, StepsKeepVerdicts
  <1>3. CASE UNCHANGED vars
    BY <1>3 DEF vars, VerdictInv, VerdictCarried, VerdictOfOwnZip, Live, Cleared
  <1> QED
    BY <1>1, <1>2, <1>3 DEF Next

\* A publication with issues is never listed on a verdict of its own, and a
\* verdict copied from an earlier publication is the one its own zip deserves.
THEOREM VerdictsAreRight == Spec => []VerdictOfOwnZip
  <1>1. Init => VerdictInv
    <2> SUFFICES ASSUME Init
                 PROVE  VerdictInv
      OBVIOUS
    <2>1. \A f \in Flow : flow[f].pc = "idle"
      BY DEF Init, IdleFlow
    <2>2. NoRow.zip = None /\ NoRow.st # "validated" /\ NoRow.doc = None
      BY DEF NoRow
    <2>3. \A d : LegacyRow(d).zip = None /\ LegacyRow(d).issues = FALSE
      BY DEF LegacyRow, NoRow
    <2>4. None \notin Dirty
      BY PublishingAssumption
    <2>5. \A p \in Pub : row[p] = NoRow \/ row[p] = LegacyRow(LegacyDoc[p])
      BY Zenon DEF Init
    <2>6. ASSUME NEW p \in Pub
          PROVE  /\ row[p].zip = None
                 /\ row[p].st = "validated" => row[p].issues = FALSE
      BY <2>2, <2>3, <2>5
    <2>7. ASSUME NEW p \in Pub, row[p].st = "validated"
          PROVE  row[p].issues = (row[p].zip \in Dirty)
      <3>1. row[p].zip \notin Dirty /\ row[p].issues = FALSE
        BY <2>4, <2>6, <2>7
      <3>2. row[p].issues \in BOOLEAN
        BY <3>1
      <3> QED
        BY <3>1, <3>2
    <2>8. VerdictOfOwnZip
      <3>1. \A p \in Pub : row[p].zip \notin Dirty
        BY <2>4, <2>6
      <3> QED
        BY <2>7, <3>1, Zenon DEF VerdictOfOwnZip
    <2> QED
      BY <2>1, <2>8 DEF VerdictInv, VerdictCarried, Reusing, OnItsWay
  <1> QED
    BY <1>1, NextVerdictInv, InitTypeInv, NextTyped, PTL DEF Spec, VerdictInv

-----------------------------------------------------------------------------
(* The publish lock: the inductive invariant                               *)

\* Flows work on, and lock words name, publications that were created.
Known ==
    /\ \A f \in Flow : flow[f].pc # "idle" => row[flow[f].pub].st # "absent"
    /\ \A d \in Doc : doc[d].cur # None => row[doc[d].cur].st # "absent"

\* Rows and flows name documents that were created.
DocsExist ==
    /\ \A p \in Pub : row[p].doc # None => doc[row[p].doc].st # "absent"
    /\ \A f \in Flow : flow[f].doc # None => doc[flow[f].doc].st # "absent"

\* A flow takes the lock exactly when its publication replaces another one.
OnlyReplacersLock ==
    \A f \in Flow :
        /\ flow[f].locked \/ flow[f].pc \in {"lock", "refused", "release", "unlock"}
               => row[flow[f].pub].replaces # None
        /\ flow[f].pc \in {"download", "merge", "link", "bump", "wipe"} /\ ~flow[f].locked
               => row[flow[f].pub].replaces = None
        /\ flow[f].pc = "release" => flow[f].locked

\* While a flow merges, the lock word names its publication or one that never
\* takes the lock (a first publish that bumps the version late); in both cases
\* AcquireLock refuses every other publication.
LockKept ==
    \A f \in Flow, d \in Doc \ doubled : Merging(f, d) =>
        /\ doc[d].cur # None
        /\ doc[d].cur = flow[f].pub \/ row[doc[d].cur].replaces = None

\* Two flows of one publication with the same lock are always noticed.
OverlapMarked ==
    \A f, g \in Flow, d \in Doc, p \in Pub :
        HoldsFor(f, d, p) /\ HoldsFor(g, d, p) /\ f # g => d \in doubled

LockInv == Known /\ DocsExist /\ OnlyReplacersLock /\ LockKept /\ OverlapMarked /\ MergesExclude

LEMMA InitLockInv == Init => LockInv
  <1> SUFFICES ASSUME Init PROVE LockInv
    OBVIOUS
  <1> USE PublishingAssumption DEF Init
  <1>1. \A f \in Flow : flow[f] = IdleFlow
    OBVIOUS
  <1>2. Known
    BY <1>1 DEF Known, IdleFlow, LegacyDocument, NoDocument
  <1>3. DocsExist
    BY <1>1 DEF DocsExist, IdleFlow, LegacyDocument, NoDocument, LegacyRow, NoRow
  <1>4. OnlyReplacersLock /\ LockKept /\ OverlapMarked /\ MergesExclude
    BY <1>1 DEF OnlyReplacersLock, LockKept, OverlapMarked, MergesExclude, Merging, HoldsFor, IdleFlow, At
  <1> QED
    BY <1>2, <1>3, <1>4 DEF LockInv

\* What a step of flow f does to the lock words.
LockWords(f) ==
    \A d \in Doc :
        \/ doc'[d].cur = doc[d].cur
        \/ doc[d].st = "absent" /\ doc'[d].cur = None
        \/ /\ d = flow[f].doc /\ flow[f].pc \in {"lock", "bump"}
           /\ doc'[d].cur = flow[f].pub
        \/ /\ d = flow[f].doc /\ flow[f].pc \in {"release", "unlock"}
           /\ doc[d].cur = flow[f].pub /\ doc'[d].cur = None

LEMMA StepsOnLockWords ==
    ASSUME TypeInv, NEW f \in Flow, UserRequest(f) \/ FlowStep(f)
    PROVE  LockWords(f)
  <1> USE DEF TypeInv, TypeOK, Document, LockWords, At
  <1>1. CASE UNCHANGED doc
    BY <1>1
  <1>2. CASE AcquireLock(f)
    BY <1>2 DEF AcquireLock
  <1>3. CASE LoadTarget(f) \/ MergeFails(f) \/ MergeTopics(f)
    BY <1>3 DEF LoadTarget, MergeFails, MergeTopics
  <1>4. CASE \E d \in Doc : CreateDocument(f, d)
    BY <1>4 DEF CreateDocument, NoDocument
  <1>5. CASE WipeEmpty(f) \/ EraseDocument(f)
    BY <1>5 DEF WipeEmpty, EraseDocument
  <1>6. CASE BumpVersion(f)
    BY <1>6 DEF BumpVersion
  <1>7. CASE ReleaseEmpty(f) \/ ReleaseLock(f)
    BY <1>7 DEF ReleaseEmpty, ReleaseLock, Released
  <1> QED
    BY <1>1, <1>2, <1>3, <1>4, <1>5, <1>6, <1>7
       DEF FlowStep, UserRequest, Upload, ExtractRequest, ValidateRequest, DeleteRequest, CleanRequest,
           Request, StoreRaw, StoreFails, ReuseSave, ReuseStart, ReuseManifest, ReuseValidate, ReuseVerdict,
           AutoExtract, SaveExtracting, FinishExtract, WorkerFails, AutoValidate, SaveValidating,
           FinishValidation, ResolveTarget, LockRefused, MarkRefused, DownloadFails, MergeConflict,
           LinkDocument, EraseRead, EraseRow

LEMMA DocumentsPersist ==
    ASSUME TypeInv, NEW f \in Flow, UserRequest(f) \/ FlowStep(f)
    PROVE  \A d \in Doc : doc[d].st # "absent" => doc'[d].st # "absent"
  <1> USE DEF TypeInv, TypeOK, Document, At
  <1>1. CASE UNCHANGED doc
    BY <1>1
  <1>2. CASE AcquireLock(f) \/ LoadTarget(f) \/ MergeFails(f) \/ MergeTopics(f)
    BY <1>2 DEF AcquireLock, LoadTarget, MergeFails, MergeTopics
  <1>3. CASE \E d \in Doc : CreateDocument(f, d)
    BY <1>3 DEF CreateDocument, NoDocument
  <1>4. CASE WipeEmpty(f) \/ EraseDocument(f)
    BY <1>4 DEF WipeEmpty, EraseDocument
  <1>5. CASE BumpVersion(f)
    BY <1>5 DEF BumpVersion
  <1>6. CASE ReleaseEmpty(f) \/ ReleaseLock(f)
    BY <1>6 DEF ReleaseEmpty, ReleaseLock, Released
  <1> QED
    BY <1>1, <1>2, <1>3, <1>4, <1>5, <1>6
       DEF FlowStep, UserRequest, Upload, ExtractRequest, ValidateRequest, DeleteRequest, CleanRequest,
           Request, StoreRaw, StoreFails, ReuseSave, ReuseStart, ReuseManifest, ReuseValidate, ReuseVerdict,
           AutoExtract, SaveExtracting, FinishExtract, WorkerFails, AutoValidate, SaveValidating,
           FinishValidation, ResolveTarget, LockRefused, MarkRefused, DownloadFails, MergeConflict,
           LinkDocument, EraseRead, EraseRow

-----------------------------------------------------------------------------
(* Each part of the invariant is kept by each step                          *)

LEMMA KnownKept ==
    ASSUME TypeInv, TypeInv', LockInv, NEW f \in Flow, UserRequest(f) \/ FlowStep(f)
    PROVE  Known'
  <1>1. RowsPersist /\ OthersUnmoved(f) /\ OwnMove(f) /\ LockWords(f)
    BY StepsKeepRows, OnlyOneFlowMoves, StepsMove, StepsOnLockWords
  <1>2. \A p \in Pub : row[p].st # "absent" => row'[p].st # "absent"
    BY <1>1 DEF RowsPersist
  <1>3. Known /\ \A g \in Flow : flow[g].pc # "idle" => flow[g].pub \in Pub
    BY DEF TypeInv, FlowShape, LockInv
  <1>4. ASSUME NEW g \in Flow, flow'[g].pc # "idle"
        PROVE  row'[flow'[g].pub].st # "absent"
    <2>1. CASE g # f
      BY <1>1, <1>2, <1>3, <1>4, <2>1 DEF OthersUnmoved, Unmoved, Known
    <2>2. CASE g = f
      <3>1. \/ flow'[f].pub = flow[f].pub /\ flow[f].pc # "idle"
            \/ row'[flow'[f].pub].st # "absent"
        BY <1>1, <1>4, <2>2 DEF OwnMove, IdleFlow, AcquireLock, At
      <3> QED
        BY <1>2, <1>3, <2>2, <3>1 DEF Known
    <2> QED
      BY <2>1, <2>2
  <1>5. ASSUME NEW d \in Doc, doc'[d].cur # None
        PROVE  row'[doc'[d].cur].st # "absent"
    <2>1. \/ doc'[d].cur = doc[d].cur
          \/ doc'[d].cur = flow[f].pub /\ flow[f].pc # "idle"
      BY <1>1, <1>5 DEF LockWords
    <2>2. doc[d].cur \in Pub \cup {None}
      BY DEF TypeInv, TypeOK, Document
    <2> QED
      BY <1>2, <1>3, <1>5, <2>1, <2>2 DEF Known
  <1> QED
    BY <1>4, <1>5 DEF Known

LEMMA DocsExistKept ==
    ASSUME TypeInv, TypeInv', LockInv, NEW f \in Flow, UserRequest(f) \/ FlowStep(f)
    PROVE  DocsExist'
  <1>1. RowDocuments(f) /\ OthersUnmoved(f) /\ OwnMove(f)
    BY StepsOnRowDocuments, OnlyOneFlowMoves, StepsMove
  <1>2. \A d \in Doc : doc[d].st # "absent" => doc'[d].st # "absent"
    BY DocumentsPersist
  <1>3. /\ DocsExist
        /\ \A p \in Pub : row[p].doc \in Doc \cup {None} /\ row[p].replaces \in Pub \cup {None}
        /\ \A g \in Flow : flow[g].doc \in Doc \cup {None} /\ (flow[g].pc # "idle" => flow[g].pub \in Pub)
        /\ flow[f].pc = "link" => flow[f].doc \in Doc
    BY DEF TypeInv, TypeOK, LockInv, Row, FlowState, FlowShape, HasDocument
  <1>4. ASSUME NEW p \in Pub, row'[p].doc # None
        PROVE  doc'[row'[p].doc].st # "absent"
    BY <1>1, <1>2, <1>3, <1>4, PublishingAssumption DEF RowDocuments, DocsExist
  <1>5. ASSUME NEW g \in Flow, flow'[g].doc # None
        PROVE  doc'[flow'[g].doc].st # "absent"
    <2>1. CASE g # f
      BY <1>1, <1>2, <1>3, <1>5, <2>1 DEF OthersUnmoved, Unmoved, DocsExist
    <2>2. CASE g = f
      <3>1. \/ flow'[f].doc = flow[f].doc
            \/ flow[f].pub \in Pub /\ flow'[f].doc = row[flow[f].pub].doc
            \/ row[flow[f].pub].replaces \in Pub /\ flow'[f].doc = row[row[flow[f].pub].replaces].doc
            \/ doc'[flow'[f].doc].st = "processing"
        BY <1>1, <1>3, <1>5, <2>2 DEF OwnMove, IdleFlow
      <3> QED
        BY <1>2, <1>3, <1>5, <2>2, <3>1 DEF DocsExist
    <2> QED
      BY <2>1, <2>2
  <1> QED
    BY <1>4, <1>5 DEF DocsExist

LEMMA OnlyReplacersLockKept ==
    ASSUME TypeInv, TypeInv', LockInv, NEW f \in Flow, UserRequest(f) \/ FlowStep(f)
    PROVE  OnlyReplacersLock'
  <1>1. RowsPersist /\ OthersUnmoved(f) /\ OwnMove(f)
    BY StepsKeepRows, OnlyOneFlowMoves, StepsMove
  <1>2. /\ Known /\ OnlyReplacersLock
        /\ \A g \in Flow : flow[g].pc # "idle" => flow[g].pub \in Pub
        /\ \A g \in Flow : flow[g].locked => flow[g].pc \in Ingesting
    BY DEF TypeInv, LockInv, FlowShape
  <1>3. \A g \in Flow : flow[g].pc # "idle" => row'[flow[g].pub].replaces = row[flow[g].pub].replaces
    BY <1>1, <1>2 DEF RowsPersist, Known
  <1>4. ASSUME NEW g \in Flow
        PROVE  /\ flow'[g].locked \/ flow'[g].pc \in {"lock", "refused", "release", "unlock"}
                      => row'[flow'[g].pub].replaces # None
               /\ flow'[g].pc \in {"download", "merge", "link", "bump", "wipe"} /\ ~flow'[g].locked
                      => row'[flow'[g].pub].replaces = None
               /\ flow'[g].pc = "release" => flow'[g].locked
    <2>1. CASE g # f
      BY <1>1, <1>2, <1>3, <2>1 DEF OthersUnmoved, Unmoved, OnlyReplacersLock, Ingesting
    <2>2. CASE g = f
      <3>1. CASE flow'[f] = IdleFlow
        BY <2>2, <3>1 DEF IdleFlow
      <3>2. CASE AcquireLock(f) /\ flow'[f].pc = "download" /\ flow'[f].pub = flow[f].pub /\ flow'[f].locked
        BY <1>2, <1>3, <2>2, <3>2 DEF AcquireLock, At, OnlyReplacersLock
      <3> QED
        BY <1>1, <1>2, <1>3, <2>2, <3>1, <3>2 DEF OwnMove, OnlyReplacersLock, Ingesting, HasDocument
    <2> QED
      BY <2>1, <2>2
  <1> QED
    BY <1>4 DEF OnlyReplacersLock

\* A flow comes to hold a lock, or a release, only by AcquireLock.
LEMMA HoldsByAcquire ==
    ASSUME TypeInv, LockInv, NEW f \in Flow, UserRequest(f) \/ FlowStep(f),
           NEW g \in Flow, NEW d \in Doc
    PROVE  /\ Merging(g, d)' => Merging(g, d) \/ (g = f /\ d = flow[f].doc /\ AcquireLock(f))
           /\ Merging(g, d)' => flow'[g].pub = flow[g].pub
           /\ \A p \in Pub : HoldsFor(g, d, p)' =>
                  \/ HoldsFor(g, d, p)
                  \/ g = f /\ d = flow[f].doc /\ p = flow[f].pub /\ AcquireLock(f)
  <1>1. OthersUnmoved(f) /\ OwnMove(f)
    BY OnlyOneFlowMoves, StepsMove
  <1>2. CASE g # f
    BY <1>1, <1>2 DEF OthersUnmoved, Unmoved, Merging, HoldsFor, At
  <1>3. CASE g = f
    <2>1. flow[f].pc = "release" => flow[f].locked
      BY DEF LockInv, OnlyReplacersLock
    <2>2. flow[f].locked => flow[f].pc \in Ingesting
      BY DEF TypeInv, FlowShape
    <2>3. CASE flow'[f] = IdleFlow
      BY <1>3, <2>3 DEF IdleFlow, Merging, HoldsFor, At
    <2> QED
      BY <1>1, <1>3, <2>1, <2>2, <2>3 DEF OwnMove, Merging, HoldsFor, At, Ingesting, HasDocument
  <1> QED
    BY <1>2, <1>3

LEMMA DoubledGrows ==
    ASSUME NEW f \in Flow, UserRequest(f) \/ FlowStep(f)
    PROVE  \/ doubled' = doubled
           \/ AcquireLock(f) /\ doubled \subseteq doubled'
  BY DEF FlowStep, UserRequest, Upload, ExtractRequest, ValidateRequest, DeleteRequest, CleanRequest,
         Request, StoreRaw, StoreFails, ReuseSave, ReuseStart, ReuseManifest, ReuseValidate, ReuseVerdict,
         AutoExtract, SaveExtracting, FinishExtract, WorkerFails, AutoValidate, SaveValidating,
         FinishValidation, ResolveTarget, AcquireLock, LockRefused, MarkRefused, DownloadFails,
         CreateDocument, LoadTarget, MergeFails, MergeConflict, MergeTopics, WipeEmpty, LinkDocument,
         BumpVersion, ReleaseEmpty, ReleaseLock, EraseRead, EraseDocument, EraseRow

LEMMA OverlapMarkedKept ==
    ASSUME TypeInv, TypeInv', LockInv, NEW f \in Flow, UserRequest(f) \/ FlowStep(f)
    PROVE  OverlapMarked'
  <1>1. doubled \subseteq doubled'
    BY DoubledGrows
  <1>2. OverlapMarked
    BY DEF LockInv
  <1>3. ASSUME NEW g \in Flow, NEW h \in Flow, NEW d \in Doc, NEW p \in Pub,
               HoldsFor(g, d, p)', HoldsFor(h, d, p)', g # h
        PROVE  d \in doubled'
    <2>1. /\ HoldsFor(g, d, p) \/ (g = f /\ d = flow[f].doc /\ p = flow[f].pub /\ AcquireLock(f))
          /\ HoldsFor(h, d, p) \/ (h = f /\ d = flow[f].doc /\ p = flow[f].pub /\ AcquireLock(f))
      BY <1>3, HoldsByAcquire
    <2>2. CASE HoldsFor(g, d, p) /\ HoldsFor(h, d, p)
      BY <1>1, <1>2, <1>3, <2>2 DEF OverlapMarked
    <2>3. ASSUME NEW k \in Flow \ {f}, HoldsFor(k, d, p), d = flow[f].doc, p = flow[f].pub, AcquireLock(f)
          PROVE  d \in doubled'
      BY <2>3 DEF AcquireLock
    <2> QED
      BY <1>3, <2>1, <2>2, <2>3
  <1> QED
    BY <1>3 DEF OverlapMarked

\* The heart of the matter: who may take a lock that a merge holds.
LEMMA AcquireIsRefused ==
    ASSUME TypeInv, LockInv, NEW f \in Flow, AcquireLock(f),
           NEW g \in Flow \ {f}, NEW d \in Doc \ doubled', Merging(g, d)
    PROVE  d # flow[f].doc
  <1> SUFFICES ASSUME d = flow[f].doc
               PROVE  FALSE
    OBVIOUS
  <1>1. d \notin doubled /\ ~HoldsFor(g, d, flow[f].pub)
    BY DEF AcquireLock
  <1>2. doc[d].cur # None /\ (doc[d].cur = flow[g].pub \/ row[doc[d].cur].replaces = None)
    BY <1>1 DEF LockInv, LockKept
  <1>3. doc[d].cur \in {None, flow[f].pub} /\ row[flow[f].pub].replaces # None
    BY DEF AcquireLock, LockFree, At, LockInv, OnlyReplacersLock
  <1>4. flow[g].pub = flow[f].pub
    BY <1>2, <1>3
  <1> QED
    BY <1>1, <1>4 DEF HoldsFor, Merging

LEMMA MergesExcludeKept ==
    ASSUME TypeInv, TypeInv', LockInv, NEW f \in Flow, UserRequest(f) \/ FlowStep(f)
    PROVE  MergesExclude'
  <1>1. doubled \subseteq doubled'
    BY DoubledGrows
  <1>2. ASSUME NEW g \in Flow, NEW h \in Flow, NEW d \in Doc \ doubled',
               Merging(g, d)', Merging(h, d)', g # h
        PROVE  FALSE
    <2>1. /\ Merging(g, d) \/ (g = f /\ d = flow[f].doc /\ AcquireLock(f))
          /\ Merging(h, d) \/ (h = f /\ d = flow[f].doc /\ AcquireLock(f))
      BY <1>2, HoldsByAcquire
    <2>2. CASE Merging(g, d) /\ Merging(h, d)
      BY <1>1, <1>2, <2>2 DEF LockInv, MergesExclude
    <2> QED
      BY <1>2, <2>1, <2>2, AcquireIsRefused
  <1> QED
    BY <1>2 DEF MergesExclude

LEMMA LockKeptKept ==
    ASSUME TypeInv, TypeInv', LockInv, NEW f \in Flow, UserRequest(f) \/ FlowStep(f)
    PROVE  LockKept'
  <1>1. RowsPersist /\ LockWords(f) /\ doubled \subseteq doubled'
    BY StepsKeepRows, StepsOnLockWords, DoubledGrows
  <1>2. Known /\ DocsExist /\ OnlyReplacersLock /\ LockKept /\ OverlapMarked
    BY DEF LockInv
  <1>3. ASSUME NEW g \in Flow, NEW d \in Doc \ doubled', Merging(g, d)'
        PROVE  doc'[d].cur # None /\ (doc'[d].cur = flow'[g].pub \/ row'[doc'[d].cur].replaces = None)
    <2>1. flow'[g].pub = flow[g].pub
      BY <1>3, HoldsByAcquire
    <2>2. CASE g = f /\ d = flow[f].doc /\ AcquireLock(f)
      <3>1. doc'[d].cur = flow[f].pub /\ flow[f].pub \in Pub
        BY <2>2 DEF AcquireLock, At, TypeInv, TypeOK, FlowShape, Document
      <3> QED
        BY <2>1, <2>2, <3>1, PublishingAssumption
    <2>3. CASE Merging(g, d) /\ ~(g = f /\ d = flow[f].doc /\ AcquireLock(f))
      <3>1. /\ doc[d].cur # None /\ doc[d].cur \in Pub
            /\ doc[d].cur = flow[g].pub \/ row[doc[d].cur].replaces = None
            /\ row[doc[d].cur].st # "absent"
        BY <1>1, <1>2, <2>3 DEF LockKept, Known, TypeInv, TypeOK, Document
      <3>2. flow[g].pub \in Pub /\ doc[d].st # "absent" /\ flow[g].doc = d /\ flow[g].locked
        BY <1>2, <2>3, PublishingAssumption DEF Merging, TypeInv, FlowShape, DocsExist, Ingesting
      <3>3. CASE doc'[d].cur = doc[d].cur
        BY <1>1, <2>1, <3>1, <3>3 DEF RowsPersist
      <3>4. CASE /\ d = flow[f].doc /\ flow[f].pc \in {"lock", "bump"}
                 /\ doc'[d].cur = flow[f].pub
        \* A bump by the flow itself, by a first publish, or a refused lock.
        <4>1. flow[f].pub \in Pub /\ row[flow[f].pub].st # "absent"
          BY <1>2, <3>4 DEF TypeInv, FlowShape, Known
        <4>2. CASE g = f
          BY <2>1, <3>4, <4>1, <4>2, PublishingAssumption
        <4>3. CASE g # f /\ flow[f].locked
          BY <1>1, <2>3, <3>4, <4>3 DEF LockInv, MergesExclude, Merging
        <4>4. CASE g # f /\ ~flow[f].locked /\ flow[f].pc = "bump"
          BY <1>1, <1>2, <3>4, <4>1, <4>4, PublishingAssumption DEF OnlyReplacersLock, RowsPersist
        <4>5. CASE g # f /\ ~flow[f].locked /\ flow[f].pc = "lock"
          <5>1. CASE AcquireLock(f)
            BY <2>3, <3>4, <4>5, <5>1, AcquireIsRefused
          <5>2. CASE ~AcquireLock(f)
            <6>1. doc' = doc
              BY <4>5, <5>2 DEF FlowStep, UserRequest, Upload, ExtractRequest, ValidateRequest,
                 DeleteRequest, CleanRequest, Request, At, LockRefused, StoreRaw, StoreFails, ReuseSave, ReuseStart, ReuseManifest, ReuseValidate, ReuseVerdict,
                 AutoExtract, SaveExtracting, FinishExtract, WorkerFails, AutoValidate, SaveValidating,
                 FinishValidation, ResolveTarget, MarkRefused, DownloadFails,
                 CreateDocument, LoadTarget, MergeFails, MergeConflict, MergeTopics, WipeEmpty, LinkDocument,
                 BumpVersion, ReleaseEmpty, ReleaseLock, EraseRead, EraseDocument, EraseRow
            <6> QED
              BY <1>1, <2>1, <3>1, <6>1 DEF RowsPersist
          <5> QED
            BY <5>1, <5>2
        <4> QED
          BY <3>4, <4>2, <4>3, <4>4, <4>5
      <3>5. CASE /\ d = flow[f].doc /\ flow[f].pc \in {"release", "unlock"}
                 /\ doc[d].cur = flow[f].pub /\ doc'[d].cur = None
        \* The release of another flow of the same publication.
        <4>1. flow[f].pub \in Pub /\ row[flow[f].pub].replaces # None
          BY <1>2, <3>5 DEF TypeInv, FlowShape, OnlyReplacersLock
        <4>2. flow[f].pub = flow[g].pub
          BY <3>1, <3>5, <4>1
        <4>3. HoldsFor(f, d, flow[f].pub) /\ HoldsFor(g, d, flow[f].pub)
          BY <1>2, <3>2, <3>5, <4>2 DEF HoldsFor, At, OnlyReplacersLock
        <4>4. f = g
          BY <1>1, <1>2, <4>1, <4>3 DEF OverlapMarked
        <4>5. ~Merging(f, d)'
          <5>1. flow'[f] = IdleFlow \/ ~flow'[f].locked
            BY <3>5, StepsMove DEF OwnMove, Ingesting, HasDocument, AcquireLock, At
          <5> QED
            BY <5>1 DEF IdleFlow, Merging
        <4> QED
          BY <1>3, <4>4, <4>5
      <3> QED
        BY <1>1, <3>2, <3>3, <3>4, <3>5 DEF LockWords
    <2> QED
      BY <1>3, <2>2, <2>3, HoldsByAcquire
  <1> QED
    BY <1>3 DEF LockKept

LEMMA NextLockInv == TypeInv /\ LockInv /\ [Next]_vars => LockInv'
  <1> SUFFICES ASSUME TypeInv, LockInv, [Next]_vars
               PROVE  LockInv'
    OBVIOUS
  <1>1. TypeInv'
    BY NextTyped
  <1>2. CASE Crash
    <2> USE DEF Crash, LockInv, TypeInv, TypeOK
    <2>1. Known' /\ DocsExist'
      BY <1>2 DEF Known, DocsExist, IdleFlow
    <2>2. OnlyReplacersLock' /\ LockKept' /\ OverlapMarked' /\ MergesExclude'
      BY <1>2 DEF OnlyReplacersLock, LockKept, OverlapMarked, MergesExclude, Merging, HoldsFor, At, IdleFlow
    <2> QED
      BY <2>1, <2>2
  <1>3. ASSUME NEW f \in Flow, UserRequest(f) \/ FlowStep(f)
        PROVE  LockInv'
    BY <1>1, <1>3, KnownKept, DocsExistKept, OnlyReplacersLockKept, LockKeptKept, OverlapMarkedKept,
       MergesExcludeKept DEF LockInv
  <1>4. CASE UNCHANGED vars
    BY <1>4 DEF vars, LockInv, Known, DocsExist, OnlyReplacersLock, LockKept, OverlapMarked, MergesExclude,
                Merging, HoldsFor, At
  <1> QED
    BY <1>2, <1>3, <1>4 DEF Next

LEMMA LockInvariant == Spec => []LockInv
  <1>1. Init => TypeInv /\ LockInv
    BY InitTypeInv, InitLockInv
  <1>2. TypeInv /\ LockInv /\ [Next]_vars => TypeInv' /\ LockInv'
    BY NextTyped, NextLockInv
  <1> QED
    BY <1>1, <1>2, PTL DEF Spec

\* Re-publishes of different publications never merge into one document at the
\* same time, for any number of publications, documents, requests and crashes.
THEOREM PublishLockExcludes == Spec => []MergesExclude
  BY LockInvariant, PTL DEF LockInv

-----------------------------------------------------------------------------
(* Versions                                                                *)

\* While a flow merges, the version it loaded is the document's.
VersionSeen ==
    \A f \in Flow, d \in Doc \ doubled :
        Merging(f, d) /\ flow[f].pc \in {"merge", "link", "bump"} => flow[f].ver = doc[d].version

VersionInv == VersionSeen /\ VersionCountsMerges

\* What a step of flow f does to the version and to the number of merges.
Versions(f) ==
    \A d \in Doc :
        \/ doc'[d].version = doc[d].version /\ doc'[d].merges = doc[d].merges
        \/ doc[d].st = "absent" /\ doc'[d].version = 1 /\ doc'[d].merges = 0
        \/ /\ Merging(f, d) /\ flow[f].pc = "bump" /\ flow'[f].pc \notin {"merge", "link", "bump"}
           /\ doc'[d].version = flow[f].ver + 1 /\ doc'[d].merges = doc[d].merges + 1

LEMMA StepsOnVersions ==
    ASSUME TypeInv, NEW f \in Flow, UserRequest(f) \/ FlowStep(f)
    PROVE  Versions(f)
  <1> USE DEF TypeInv, TypeOK, Document, Versions, At
  <1>1. CASE UNCHANGED doc
    BY <1>1
  <1>2. CASE AcquireLock(f) \/ LoadTarget(f) \/ MergeFails(f) \/ MergeTopics(f)
    BY <1>2 DEF AcquireLock, LoadTarget, MergeFails, MergeTopics
  <1>3. CASE \E d \in Doc : CreateDocument(f, d)
    BY <1>3 DEF CreateDocument, NoDocument
  <1>4. CASE WipeEmpty(f) \/ EraseDocument(f)
    BY <1>4 DEF WipeEmpty, EraseDocument
  <1>5. CASE BumpVersion(f)
    <2>1. flow'[f] = Unwound(f)
      BY <1>5, SavedUnmoved DEF BumpVersion
    <2>2. flow'[f].pc \notin {"merge", "link", "bump"}
      BY <2>1 DEF Unwound, IdleFlow, FlowState
    <2> QED
      BY <1>5, <2>2 DEF BumpVersion, Merging
  <1>6. CASE ReleaseEmpty(f) \/ ReleaseLock(f)
    BY <1>6 DEF ReleaseEmpty, ReleaseLock, Released
  <1> QED
    BY <1>1, <1>2, <1>3, <1>4, <1>5, <1>6
       DEF FlowStep, UserRequest, Upload, ExtractRequest, ValidateRequest, DeleteRequest, CleanRequest,
           Request, StoreRaw, StoreFails, ReuseSave, ReuseStart, ReuseManifest, ReuseValidate, ReuseVerdict,
           AutoExtract, SaveExtracting, FinishExtract, WorkerFails, AutoValidate, SaveValidating,
           FinishValidation, ResolveTarget, LockRefused, MarkRefused, DownloadFails, MergeConflict,
           LinkDocument, EraseRead, EraseRow

LEMMA StepsKeepVersionInv ==
    ASSUME TypeInv, TypeInv', LockInv, LockInv', VersionInv, NEW f \in Flow, UserRequest(f) \/ FlowStep(f)
    PROVE  VersionInv'
  <1>1. OthersUnmoved(f) /\ OwnMove(f) /\ Versions(f) /\ doubled \subseteq doubled'
    BY OnlyOneFlowMoves, StepsMove, StepsOnVersions, DoubledGrows
  <1>2. \A d \in Doc : doc[d].version \in Nat /\ doc[d].merges \in Nat
    BY DEF TypeInv, TypeOK, Document
  <1>3. ASSUME NEW d \in Doc \ doubled'
        PROVE  doc'[d].version = doc'[d].merges + 1
    <2>1. doc[d].version = doc[d].merges + 1
      BY <1>1 DEF VersionInv, VersionCountsMerges
    <2>2. Merging(f, d) /\ flow[f].pc = "bump" => flow[f].ver = doc[d].version
      BY <1>1 DEF VersionInv, VersionSeen
    <2> QED
      BY <1>1, <1>2, <2>1, <2>2 DEF Versions
  <1>4. ASSUME NEW g \in Flow, NEW d \in Doc \ doubled', Merging(g, d)',
               flow'[g].pc \in {"merge", "link", "bump"}
        PROVE  flow'[g].ver = doc'[d].version
    <2>1. CASE g = f
      <3>1. doc'[d].version = doc[d].version
        <4>1. Merging(f, d) \/ AcquireLock(f)
          BY <1>4, <2>1, HoldsByAcquire
        <4>2. CASE Merging(f, d)
          BY <1>1, <1>4, <2>1, <4>2, PublishingAssumption DEF Versions, Merging, LockInv, DocsExist
        <4>3. CASE AcquireLock(f)
          BY <1>4, <2>1, <4>3 DEF AcquireLock, TypeInv, TypeOK, FlowState
        <4> QED
          BY <4>1, <4>2, <4>3
      <3>2. \/ flow'[f].ver = doc[flow[f].doc].version
            \/ /\ flow'[f].ver = flow[f].ver /\ flow[f].pc \in {"merge", "link"}
               /\ flow[f].locked
        BY <1>1, <1>4, <2>1 DEF OwnMove, IdleFlow, Merging, Ingesting
      <3>3. flow'[f].doc = flow[f].doc /\ flow'[f].doc = d
        BY <1>1, <1>4, <2>1 DEF OwnMove, IdleFlow, Merging, Ingesting
      <3> QED
        BY <1>1, <2>1, <3>1, <3>2, <3>3 DEF VersionInv, VersionSeen, Merging
    <2>2. CASE g # f
      <3>1. Merging(g, d) /\ flow[g].pc = flow'[g].pc /\ flow[g].ver = flow'[g].ver
        BY <1>1, <1>4, <2>2 DEF OthersUnmoved, Unmoved, Merging
      <3>2. ~Merging(f, d)
        BY <1>1, <2>2, <3>1 DEF LockInv, MergesExclude
      <3>3. doc[d].st # "absent"
        BY <3>1, PublishingAssumption DEF LockInv, DocsExist, Merging
      <3> QED
        BY <1>1, <1>4, <3>1, <3>2, <3>3 DEF Versions, VersionInv, VersionSeen
    <2> QED
      BY <2>1, <2>2
  <1> QED
    BY <1>3, <1>4 DEF VersionInv, VersionSeen, VersionCountsMerges

LEMMA NextVersionInv == TypeInv /\ LockInv /\ VersionInv /\ [Next]_vars => VersionInv'
  <1> SUFFICES ASSUME TypeInv, LockInv, VersionInv, [Next]_vars
               PROVE  VersionInv'
    OBVIOUS
  <1>1. TypeInv' /\ LockInv'
    BY NextTyped, NextLockInv
  <1>2. CASE Crash
    BY <1>2 DEF Crash, VersionInv, VersionSeen, VersionCountsMerges, Merging, IdleFlow
  <1>3. ASSUME NEW f \in Flow, UserRequest(f) \/ FlowStep(f)
        PROVE  VersionInv'
    BY <1>1, <1>3, StepsKeepVersionInv
  <1>4. CASE UNCHANGED vars
    BY <1>4 DEF vars, VersionInv, VersionSeen, VersionCountsMerges, Merging
  <1> QED
    BY <1>2, <1>3, <1>4 DEF Next

\* Document.version counts the merges recorded in versionHistory: the value read
\* before the merge is still the value when it is written back plus one.
THEOREM VersionsAreCounted == Spec => []VersionCountsMerges
  <1>1. Init => VersionInv
    <2> SUFFICES ASSUME Init
                 PROVE  VersionInv
      OBVIOUS
    <2>1. \A f \in Flow : ~flow[f].locked
      BY DEF Init, IdleFlow
    <2>2. ASSUME NEW d \in Doc
          PROVE  doc[d].version = 1 /\ doc[d].merges = 0
      <3>1. PICK p : doc[d] = LegacyDocument(p) \/ doc[d] = NoDocument
        <4> DEFINE q == CHOOSE p \in DOMAIN LegacyDoc : LegacyDoc[p] = d
        <4>1. doc[d] = LegacyDocument(q) \/ doc[d] = NoDocument
          BY Zenon DEF Init
        <4> QED
          BY <4>1
      <3> QED
        <4>1. CASE doc[d] = LegacyDocument(p)
          BY <4>1 DEF LegacyDocument, NoDocument
        <4>2. CASE doc[d] = NoDocument
          BY <4>2 DEF NoDocument
        <4> QED
          BY <3>1, <4>1, <4>2
    <2> QED
      BY <2>1, <2>2 DEF VersionInv, VersionSeen, VersionCountsMerges, Merging
  <1>2. Init => TypeInv /\ LockInv
    BY InitTypeInv, InitLockInv
  <1>3. TypeInv /\ LockInv /\ VersionInv /\ [Next]_vars => TypeInv' /\ LockInv' /\ VersionInv'
    BY NextTyped, NextLockInv, NextVersionInv
  <1>4. VersionInv => VersionCountsMerges
    BY DEF VersionInv
  <1> QED
    BY <1>1, <1>2, <1>3, <1>4, PTL DEF Spec

-----------------------------------------------------------------------------
(* Nobody leaves a lock behind                                             *)

\* Flow f holds d for p after the step.
WillHold(f, d, p) ==
    flow'[f].doc = d /\ flow'[f].pub = p /\ (flow'[f].locked \/ flow'[f].pc = "unlock")

\* A step takes a flow's hold on a document away only by releasing it.
LEMMA HoldEndsInRelease ==
    ASSUME TypeInv, LockInv, NEW f \in Flow, UserRequest(f) \/ FlowStep(f),
           NEW d \in Doc, NEW p \in Pub, HoldsFor(f, d, p)
    PROVE  WillHold(f, d, p) \/ doc' = Released(f)
  <1> DEFINE s == flow[f]
             t == flow'[f]
  <1>1. /\ s.pc \in Ingesting /\ s.pub = p /\ s.doc = d
        /\ s.pc \in {"release", "unlock"} \/ s.locked
        /\ s \in FlowState /\ flow \in [Flow -> FlowState]
    BY DEF HoldsFor, At, TypeInv, TypeOK, FlowShape, Ingesting
  <1>2. OwnMove(f)
    BY StepsMove
  <1>3. CASE t # IdleFlow
    BY <1>1, <1>2, <1>3 DEF OwnMove, WillHold, Ingesting, HasDocument, AcquireLock
  <1>4. CASE t = IdleFlow /\ s.pc = "unlock"
    <2>1. ReleaseLock(f)
      BY <1>4 DEF FlowStep, UserRequest, Upload, ExtractRequest, ValidateRequest, DeleteRequest, CleanRequest,
         Request, StoreRaw, StoreFails, ReuseSave, ReuseStart, ReuseManifest, ReuseValidate, ReuseVerdict,
         AutoExtract, SaveExtracting, FinishExtract, WorkerFails, AutoValidate, SaveValidating,
         FinishValidation, ResolveTarget, AcquireLock, LockRefused, MarkRefused, DownloadFails,
         CreateDocument, LoadTarget, MergeFails, MergeConflict, MergeTopics, WipeEmpty, LinkDocument,
         BumpVersion, ReleaseEmpty, EraseRead, EraseDocument, EraseRow, At
    <2> QED
      BY <2>1 DEF ReleaseLock
  <1>5. CASE t = IdleFlow /\ s.pc # "unlock"
    <2>1. s.pc \in {"download", "merge", "link", "bump", "release"} /\ t.pc = "idle"
      BY <1>1, <1>5 DEF Ingesting, IdleFlow
    <2>2. s.pc = "release" \/ s.locked
      BY <1>1, <2>1
    <2>3. t # Unwound(f) \/ s.pc = "release"
      BY <1>1, <2>1, <2>2 DEF Unwound, FlowState
    <2>4. CASE DownloadFails(f) \/ MergeFails(f) \/ MergeConflict(f) \/ BumpVersion(f)
      <3>1. t = Unwound(f) /\ s.pc # "release"
        BY <1>1, <2>4, SavedUnmoved DEF DownloadFails, MergeFails, MergeConflict, BumpVersion, At
      <3> QED
        BY <2>3, <3>1
    <2>5. CASE LoadTarget(f) \/ MergeTopics(f)
      <3>1. PICK pc \in {"merge", "link", "release", "wipe"} :
              t = [s EXCEPT !.pc = pc] \/ t = [s EXCEPT !.pc = pc, !.seen = doc[d].cur, !.ver = doc[d].version]
        BY <1>1, <2>5, SavedUnmoved DEF LoadTarget, MergeTopics
      <3>2. t.pc = pc
        BY <1>1, <3>1 DEF FlowState
      <3> QED
        BY <2>1, <3>1, <3>2
    <2>6. CASE ReleaseEmpty(f)
      BY <2>6 DEF ReleaseEmpty
    <2>7. CASE LinkDocument(f) \/ \E e \in Doc : CreateDocument(f, e)
      <3>1. t.pc \in {"bump", "merge"}
        <4>1. ASSUME NEW e \in Doc, CreateDocument(f, e)
              PROVE  t.pc = "merge"
          BY <1>1, <4>1 DEF CreateDocument, FlowState
        <4>2. CASE LinkDocument(f)
          BY <1>1, <4>2 DEF LinkDocument, Goto, FlowState
        <4> QED
          BY <2>7, <4>1, <4>2
      <3> QED
        BY <2>1, <3>1
    <2> QED
      BY <2>1, <2>4, <2>5, <2>6, <2>7 DEF FlowStep, UserRequest, Upload, ExtractRequest, ValidateRequest, DeleteRequest, CleanRequest,
         Request, StoreRaw, StoreFails, ReuseSave, ReuseStart, ReuseManifest, ReuseValidate, ReuseVerdict,
         AutoExtract, SaveExtracting, FinishExtract, WorkerFails, AutoValidate, SaveValidating,
         FinishValidation, ResolveTarget, AcquireLock, LockRefused, MarkRefused, WipeEmpty,
         ReleaseLock, EraseRead, EraseDocument, EraseRow, At
  <1> QED
    BY <1>1, <1>3, <1>4, <1>5

\* Only CreateDocument brings a document to life, and it does so unlocked.
LEMMA ComesAliveUnlocked ==
    ASSUME TypeInv, NEW f \in Flow, UserRequest(f) \/ FlowStep(f), NEW d \in Doc, DocLive(d)'
    PROVE  DocLive(d) \/ doc'[d].cur = None
  <1> USE DEF TypeInv, TypeOK, Document, At, DocLive
  <1>1. CASE UNCHANGED doc
    BY <1>1
  <1>2. CASE AcquireLock(f) \/ LoadTarget(f) \/ MergeFails(f) \/ MergeTopics(f)
    BY <1>2 DEF AcquireLock, LockFree, LoadTarget, MergeFails, MergeTopics
  <1>3. CASE \E e \in Doc : CreateDocument(f, e)
    BY <1>3 DEF CreateDocument, NoDocument
  <1>4. CASE WipeEmpty(f) \/ EraseDocument(f)
    BY <1>4 DEF WipeEmpty, EraseDocument
  <1>5. CASE BumpVersion(f)
    BY <1>5 DEF BumpVersion
  <1>6. CASE ReleaseEmpty(f) \/ ReleaseLock(f)
    BY <1>6 DEF ReleaseEmpty, ReleaseLock, Released
  <1> QED
    BY <1>1, <1>2, <1>3, <1>4, <1>5, <1>6
       DEF FlowStep, UserRequest, Upload, ExtractRequest, ValidateRequest, DeleteRequest, CleanRequest,
           Request, StoreRaw, StoreFails, ReuseSave, ReuseStart, ReuseManifest, ReuseValidate, ReuseVerdict,
           AutoExtract, SaveExtracting, FinishExtract, WorkerFails, AutoValidate, SaveValidating,
           FinishValidation, ResolveTarget, LockRefused, MarkRefused, DownloadFails, MergeConflict,
           LinkDocument, EraseRead, EraseRow

LEMMA StepsKeepHolder ==
    ASSUME TypeInv, TypeInv', LockInv, LockInv', LockHasHolder, NEW f \in Flow, UserRequest(f) \/ FlowStep(f)
    PROVE  LockHasHolder'
  <1>1. /\ RowsPersist /\ OthersUnmoved(f) /\ OwnMove(f) /\ LockWords(f) /\ crashes' = crashes
    BY StepsKeepRows, OnlyOneFlowMoves, StepsMove, StepsOnLockWords, CrashesKept
  <1> SUFFICES ASSUME crashes = 0, NEW d \in Doc, doc'[d].cur # None, DocLive(d)',
                      row'[doc'[d].cur].replaces # None
               PROVE  \E g \in Flow : WillHold(g, d, doc'[d].cur)
    BY <1>1 DEF LockHasHolder, HoldsFor, WillHold, At
  <1>2. DocLive(d) /\ doc'[d].cur \in Pub
    BY ComesAliveUnlocked DEF TypeInv, TypeOK, Document
  <1>3. CASE doc'[d].cur = doc[d].cur
    <2> DEFINE p == doc[d].cur
    <2>1. row[p].replaces # None /\ p \in Pub /\ p # None
      BY <1>1, <1>2, <1>3 DEF RowsPersist, LockInv, Known
    <2>2. PICK g \in Flow : HoldsFor(g, d, p)
      BY <1>2, <2>1 DEF LockHasHolder
    <2>3. CASE g # f
      BY <1>1, <1>3, <2>2, <2>3 DEF OthersUnmoved, Unmoved, HoldsFor, WillHold, At
    <2>4. CASE g = f
      <3>1. doc' # Released(f)
        <4>1. flow[f].doc = d /\ flow[f].pub = p
          BY <2>2, <2>4 DEF HoldsFor
        <4>2. Released(f) = [doc EXCEPT ![d].cur = None]
          BY <1>2, <4>1 DEF Released
        <4>3. doc \in [Doc -> Document] /\ doc[d] \in Document
          BY DEF TypeInv, TypeOK
        <4>4. Released(f)[d].cur = None
          BY <4>2, <4>3 DEF Document
        <4> QED
          BY <1>3, <2>1, <4>4
      <3> QED
        BY <1>3, <2>1, <2>2, <2>4, <3>1, HoldEndsInRelease
    <2> QED
      BY <2>3, <2>4
  <1>4. CASE d = flow[f].doc /\ flow[f].pc = "lock" /\ doc'[d].cur = flow[f].pub /\ doc'[d].cur # doc[d].cur
    <2>1. AcquireLock(f)
      BY <1>4 DEF FlowStep, UserRequest, Upload, ExtractRequest, ValidateRequest,
         DeleteRequest, CleanRequest, Request, At, LockRefused, StoreRaw, StoreFails, ReuseSave, ReuseStart, ReuseManifest, ReuseValidate, ReuseVerdict,
         AutoExtract, SaveExtracting, FinishExtract, WorkerFails, AutoValidate, SaveValidating,
         FinishValidation, ResolveTarget, MarkRefused, DownloadFails,
         CreateDocument, LoadTarget, MergeFails, MergeConflict, MergeTopics, WipeEmpty, LinkDocument,
         BumpVersion, ReleaseEmpty, ReleaseLock, EraseRead, EraseDocument, EraseRow
    <2> QED
      BY <1>4, <2>1 DEF AcquireLock, WillHold, TypeInv, TypeOK, FlowState
  <1>5. CASE d = flow[f].doc /\ flow[f].pc = "bump" /\ doc'[d].cur = flow[f].pub
    <2>1. row[flow[f].pub].replaces # None /\ flow[f].pub \in Pub
      BY <1>1, <1>2, <1>5 DEF RowsPersist, LockInv, Known
    <2>2. flow[f].locked
      BY <1>5, <2>1 DEF LockInv, OnlyReplacersLock
    <2>3. HoldsFor(f, d, flow[f].pub)
      BY <1>5, <2>2 DEF HoldsFor
    <2>4. doc' # Released(f)  \/ doc'[d].cur = doc[d].cur
      BY <1>2, <1>5, <2>1, PublishingAssumption DEF Released, TypeInv, TypeOK
    <2> QED
      BY <1>3, <1>5, <2>1, <2>3, <2>4, HoldEndsInRelease
  <1> QED
    BY <1>1, <1>2, <1>3, <1>4, <1>5 DEF LockWords, DocLive

\* Nobody leaves a lock behind: until the first crash, a live document that is
\* locked by a re-publish has a flow that will release it.
THEOREM LocksAreHeld == Spec => []LockHasHolder
  <1>1. Init => LockHasHolder
    <2>1. NoDocument.cur = None /\ \A p : LegacyDocument(p).cur = None
      BY DEF LegacyDocument, NoDocument
    <2> QED
      BY <2>1 DEF Init, LockHasHolder
  <1>2. TypeInv /\ LockInv /\ LockHasHolder /\ [Next]_vars => LockHasHolder'
    <2> SUFFICES ASSUME TypeInv, LockInv, LockHasHolder, [Next]_vars
                 PROVE  LockHasHolder'
      OBVIOUS
    <2>1. TypeInv' /\ LockInv'
      BY NextTyped, NextLockInv
    <2>2. CASE Crash
      BY <2>2 DEF Crash, LockHasHolder, TypeInv, TypeOK
    <2>3. ASSUME NEW f \in Flow, UserRequest(f) \/ FlowStep(f)
          PROVE  LockHasHolder'
      BY <2>1, <2>3, StepsKeepHolder
    <2>4. CASE UNCHANGED vars
      BY <2>4 DEF vars, LockHasHolder, DocLive, HoldsFor, At
    <2> QED
      BY <2>2, <2>3, <2>4 DEF Next
  <1> QED
    BY <1>1, <1>2, TypeInvariant, LockInvariant, PTL DEF Spec

-----------------------------------------------------------------------------
(* Leaving the portal                                                      *)

\* A document of a first publish is nobody else's before it is listed.
FreshPrivate ==
    \A f \in Flow : flow[f].pc = "merge" /\ ~flow[f].locked =>
        /\ doc[flow[f].doc].st = "processing"
        /\ \A p \in Pub : row[p].doc # flow[f].doc
        /\ \A g \in Flow \ {f} : flow[g].doc # flow[f].doc

\* What a step of flow f does to the status of the documents.
Statuses(f) ==
    \A d \in Doc :
        \/ doc'[d].st \in {doc[d].st, "deleted"} /\ (doc'[d].st # doc[d].st => d = flow[f].doc)
        \/ doc[d].st = "absent"
        \/ d = flow[f].doc /\ Merging(f, d)
        \/ d = flow[f].doc /\ flow[f].pc = "merge"

LEMMA StepsOnStatuses ==
    ASSUME TypeInv, NEW f \in Flow, UserRequest(f) \/ FlowStep(f)
    PROVE  Statuses(f)
  <1> USE DEF TypeInv, TypeOK, Document, Statuses, At
  <1>1. CASE UNCHANGED doc
    BY <1>1
  <1>2. CASE AcquireLock(f) \/ LoadTarget(f) \/ MergeFails(f) \/ MergeTopics(f)
    BY <1>2 DEF AcquireLock, LoadTarget, MergeFails, MergeTopics, Merging
  <1>3. CASE \E d \in Doc : CreateDocument(f, d)
    BY <1>3 DEF CreateDocument, NoDocument
  <1>4. CASE WipeEmpty(f) \/ EraseDocument(f)
    BY <1>4 DEF WipeEmpty, EraseDocument
  <1>5. CASE BumpVersion(f)
    BY <1>5 DEF BumpVersion
  <1>6. CASE ReleaseEmpty(f) \/ ReleaseLock(f)
    BY <1>6 DEF ReleaseEmpty, ReleaseLock, Released
  <1> QED
    BY <1>1, <1>2, <1>3, <1>4, <1>5, <1>6
       DEF FlowStep, UserRequest, Upload, ExtractRequest, ValidateRequest, DeleteRequest, CleanRequest,
           Request, StoreRaw, StoreFails, ReuseSave, ReuseStart, ReuseManifest, ReuseValidate, ReuseVerdict,
           AutoExtract, SaveExtracting, FinishExtract, WorkerFails, AutoValidate, SaveValidating,
           FinishValidation, ResolveTarget, LockRefused, MarkRefused, DownloadFails, MergeConflict,
           LinkDocument, EraseRead, EraseRow

LEMMA StepsKeepFreshPrivate ==
    ASSUME TypeInv, TypeInv', LockInv, FreshPrivate, NEW f \in Flow, UserRequest(f) \/ FlowStep(f)
    PROVE  FreshPrivate'
  <1>1. OthersUnmoved(f) /\ OwnMove(f) /\ Statuses(f) /\ RowDocuments(f)
    BY OnlyOneFlowMoves, StepsMove, StepsOnStatuses, StepsOnRowDocuments
  <1>2. /\ \A p \in Pub : row[p].doc # None => doc[row[p].doc].st # "absent"
        /\ \A g \in Flow : flow[g].doc # None => doc[flow[g].doc].st # "absent"
        /\ \A p \in Pub : row[p].replaces \in Pub \cup {None}
        /\ \A g \in Flow : flow[g].pc # "idle" => flow[g].pub \in Pub
    BY DEF LockInv, DocsExist, TypeInv, TypeOK, Row, FlowShape
  <1>3. CASE flow[f].pc = "download" /\ ~flow[f].locked /\ flow'[f].pc = "merge" /\ flow'[f].doc \in Doc
             /\ doc[flow'[f].doc].st = "absent" /\ doc'[flow'[f].doc].st = "processing"
    \* CreateDocument: nobody knows of the new document.
    <2>1. \A p \in Pub : row'[p].doc # flow'[f].doc
      BY <1>1, <1>2, <1>3, PublishingAssumption DEF RowDocuments
    <2>2. \A g \in Flow \ {f} : flow'[g].doc # flow'[f].doc
      BY <1>1, <1>2, <1>3, PublishingAssumption DEF OthersUnmoved, Unmoved
    <2>3. ASSUME NEW g \in Flow \ {f}, flow'[g].pc = "merge" /\ ~flow'[g].locked
          PROVE  /\ doc'[flow'[g].doc].st = "processing"
                 /\ \A p \in Pub : row'[p].doc # flow'[g].doc
                 /\ \A h \in Flow \ {g} : flow'[h].doc # flow'[g].doc
      <3>1. /\ flow[g].pc = "merge" /\ ~flow[g].locked /\ flow'[g].doc = flow[g].doc /\ flow[g].doc \in Doc
        BY <1>1, <2>3 DEF OthersUnmoved, Unmoved, TypeInv, FlowShape, HasDocument
      <3>2. /\ doc[flow[g].doc].st = "processing" /\ flow[f].doc # flow[g].doc
            /\ \A p \in Pub : row[p].doc # flow[g].doc
            /\ \A h \in Flow \ {g} : flow[h].doc # flow[g].doc
        BY <2>3, <3>1 DEF FreshPrivate
      <3> QED
        BY <1>1, <1>3, <2>2, <2>3, <3>1, <3>2, PublishingAssumption
           DEF Statuses, RowDocuments, OthersUnmoved, Unmoved
    <2> QED
      BY <1>3, <2>1, <2>2, <2>3 DEF FreshPrivate
  <1>4. CASE ~(flow[f].pc = "download" /\ ~flow[f].locked /\ flow'[f].pc = "merge")
    <2>1. ASSUME NEW g \in Flow, flow'[g].pc = "merge" /\ ~flow'[g].locked
          PROVE  /\ doc'[flow'[g].doc].st = "processing"
                 /\ \A p \in Pub : row'[p].doc # flow'[g].doc
                 /\ \A h \in Flow \ {g} : flow'[h].doc # flow'[g].doc
      <3>1. g # f
        BY <1>1, <1>4, <2>1 DEF OwnMove, IdleFlow, Ingesting, HasDocument
      <3>2. /\ flow[g].pc = "merge" /\ ~flow[g].locked /\ flow'[g].doc = flow[g].doc /\ flow[g].doc \in Doc
        BY <1>1, <2>1, <3>1 DEF OthersUnmoved, Unmoved, TypeInv, FlowShape, HasDocument
      <3>3. /\ doc[flow[g].doc].st = "processing" /\ flow[f].doc # flow[g].doc
            /\ \A p \in Pub : row[p].doc # flow[g].doc
            /\ \A h \in Flow \ {g} : flow[h].doc # flow[g].doc
        BY <3>1, <3>2 DEF FreshPrivate
      <3>4. \/ flow'[f].doc \in {flow[f].doc, None}
            \/ flow[f].pub \in Pub /\ flow'[f].doc = row[flow[f].pub].doc
            \/ row[flow[f].pub].replaces \in Pub /\ flow'[f].doc = row[row[flow[f].pub].replaces].doc
        BY <1>1, <1>2, <1>4 DEF OwnMove, IdleFlow
      <3> QED
        BY <1>1, <3>1, <3>2, <3>3, <3>4, PublishingAssumption
           DEF Statuses, RowDocuments, OthersUnmoved, Unmoved
    <2> QED
      BY <2>1 DEF FreshPrivate
  <1> QED
    BY <1>1, <1>3, <1>4 DEF OwnMove, IdleFlow, Ingesting, HasDocument

LEMMA NextFreshPrivate == TypeInv /\ LockInv /\ FreshPrivate /\ [Next]_vars => FreshPrivate'
  <1> SUFFICES ASSUME TypeInv, LockInv, FreshPrivate, [Next]_vars
               PROVE  FreshPrivate'
    OBVIOUS
  <1>1. TypeInv'
    BY NextTyped
  <1>2. CASE Crash
    BY <1>2 DEF Crash, FreshPrivate, IdleFlow
  <1>3. ASSUME NEW f \in Flow, UserRequest(f) \/ FlowStep(f)
        PROVE  FreshPrivate'
    BY <1>1, <1>3, StepsKeepFreshPrivate
  <1>4. CASE UNCHANGED vars
    BY <1>4 DEF vars, FreshPrivate
  <1> QED
    BY <1>2, <1>3, <1>4 DEF Next

LEMMA NextLeavesPortal == TypeInv /\ FreshPrivate /\ [Next]_vars => LeavesPortal
  <1> SUFFICES ASSUME TypeInv, FreshPrivate, [Next]_vars,
                      NEW d \in Doc, doc[d].st = "completed", doc'[d].st # "completed"
               PROVE  doc'[d].st = "deleted" \/ \E f \in Flow : Merging(f, d)
    BY DEF LeavesPortal
  <1>1. PICK f \in Flow : UserRequest(f) \/ FlowStep(f)
    BY DEF Next, Crash, vars
  <1>2. Statuses(f)
    BY <1>1, StepsOnStatuses
  <1>3. CASE d = flow[f].doc /\ flow[f].pc = "merge"
    BY <1>3 DEF FreshPrivate, Merging
  <1> QED
    BY <1>2, <1>3 DEF Statuses

\* A listed document goes off the portal by being erased or under its lock.
THEOREM PortalIsLeftLocked == Spec => LeavesPortalLocked
  <1>1. Init => TypeInv /\ LockInv /\ FreshPrivate
    BY InitTypeInv, InitLockInv DEF Init, FreshPrivate, IdleFlow
  <1>2. TypeInv /\ LockInv /\ FreshPrivate /\ [Next]_vars => TypeInv' /\ LockInv' /\ FreshPrivate'
    BY NextTyped, NextLockInv, NextFreshPrivate
  <1>3. TypeInv /\ LockInv /\ FreshPrivate /\ [Next]_vars => [LeavesPortal]_vars
    BY NextLeavesPortal
  <1> QED
    BY <1>1, <1>2, <1>3, PTL DEF Spec, LeavesPortalLocked
-----------------------------------------------------------------------------
(* Listed documents are reachable from their publication                   *)

\* Document d is known to its creator only: flow f made it and has yet to link
\* it to the publication, or to wipe it.
PrivateTo(f, d) ==
    /\ flow[f].doc = d /\ flow[f].pub = doc[d].author /\ ~flow[f].locked
    /\ flow[f].pc \in {"merge", "link", "wipe"}
    /\ doc[d].st = "completed" => flow[f].pc \in {"link", "wipe"}
    /\ \A p \in Pub : row[p].doc # d
    /\ \A g \in Flow \ {f} : flow[g].doc # d

\* The publish that made d was given up: nobody knows d, nor is it listed.
Forgotten(d) ==
    /\ doc[d].st # "completed"
    /\ \A p \in Pub : row[p].doc # d
    /\ \A g \in Flow : flow[g].doc # d

Linked(d) == Live(doc[d].author) => row[doc[d].author].doc # None

DocumentOwned(d) ==
    doc[d].st # "absent" =>
        /\ doc[d].author \in Pub /\ row[doc[d].author].st # "absent"
        /\ Linked(d) \/ (\E f \in Flow : PrivateTo(f, d)) \/ Forgotten(d)

DocumentsOwned == crashes = 0 => \A d \in Doc : DocumentOwned(d)

\* Where the author and the status of a document come from.
Authors(f) ==
    \A d \in Doc :
        \/ doc'[d].st = "absent"
        \/ doc[d].st # "absent" /\ doc'[d].author = doc[d].author
        \/ /\ doc[d].st = "absent" /\ doc'[d].author = flow[f].pub /\ doc'[d].st = "processing"
           /\ flow[f].pc = "download" /\ flow'[f].pc = "merge" /\ flow'[f].pub = flow[f].pub
           /\ flow'[f].doc = d /\ ~flow'[f].locked

LEMMA StepsOnAuthors ==
    ASSUME TypeInv, DocsExist, NEW f \in Flow, UserRequest(f) \/ FlowStep(f)
    PROVE  Authors(f)
  <1> USE DEF TypeInv, TypeOK, Document, Authors, At
  <1>1. CASE UNCHANGED doc
    BY <1>1
  <1>2. CASE AcquireLock(f) \/ LoadTarget(f) \/ MergeFails(f) \/ MergeTopics(f)
    BY <1>2 DEF AcquireLock, LockFree, DocLive, LoadTarget, MergeFails, MergeTopics
  <1>3. ASSUME NEW e \in Doc, CreateDocument(f, e)
        PROVE  Authors(f)
    <2>1. /\ flow'[f].pc = "merge" /\ flow'[f].pub = flow[f].pub /\ flow'[f].doc = e /\ ~flow'[f].locked
          /\ flow[f].pc = "download"
      BY <1>3 DEF CreateDocument, FlowState
    <2>2. /\ doc[e].st = "absent" /\ doc'[e].author = flow[f].pub /\ doc'[e].st = "processing"
          /\ \A d \in Doc \ {e} : doc'[d] = doc[d]
      BY <1>3 DEF CreateDocument, NoDocument
    <2> QED
      BY <2>1, <2>2
  <1>4. CASE WipeEmpty(f) \/ EraseDocument(f)
    <2>1. flow[f].doc # None => doc[flow[f].doc].st # "absent"
      BY DEF DocsExist
    <2>2. flow[f].pc = "wipe" => flow[f].doc \in Doc
      BY DEF FlowShape, HasDocument
    <2> QED
      BY <1>4, <2>1, <2>2, PublishingAssumption DEF WipeEmpty, EraseDocument
  <1>5. CASE BumpVersion(f)
    BY <1>5 DEF BumpVersion, DocLive
  <1>6. CASE ReleaseEmpty(f) \/ ReleaseLock(f)
    BY <1>6 DEF ReleaseEmpty, ReleaseLock, Released, DocLive
  <1> QED
    BY <1>1, <1>2, <1>3, <1>4, <1>5, <1>6
       DEF FlowStep, UserRequest, Upload, ExtractRequest, ValidateRequest, DeleteRequest, CleanRequest,
           Request, StoreRaw, StoreFails, ReuseSave, ReuseStart, ReuseManifest, ReuseValidate, ReuseVerdict,
           AutoExtract, SaveExtracting, FinishExtract, WorkerFails, AutoValidate, SaveValidating,
           FinishValidation, ResolveTarget, LockRefused, MarkRefused, DownloadFails, MergeConflict,
           LinkDocument, EraseRead, EraseRow

\* The last steps of a first publish: what LinkDocument writes, and that a
\* publish that is given up leaves its document unlisted.
LEMMA LinkWrites ==
    ASSUME TypeInv, NEW f \in Flow, FlowStep(f), flow[f].pc = "link"
    PROVE  row'[flow[f].pub].st \notin {"absent", "deleted"} => row'[flow[f].pub].doc # None
  <1>0. LinkDocument(f)
    BY DEF FlowStep, StoreRaw, StoreFails, ReuseSave, ReuseStart, ReuseManifest, ReuseValidate, ReuseVerdict,
           AutoExtract, SaveExtracting, FinishExtract, WorkerFails, AutoValidate, SaveValidating,
           FinishValidation, ResolveTarget, AcquireLock, LockRefused, MarkRefused, DownloadFails,
           CreateDocument, LoadTarget, MergeFails, MergeConflict, MergeTopics, WipeEmpty, BumpVersion,
           ReleaseEmpty, ReleaseLock, EraseRead, EraseDocument, EraseRow, At
  <1>1. flow[f].doc \in Doc /\ flow[f].pub \in Pub /\ row[flow[f].pub] \in Row
    BY DEF TypeInv, TypeOK, FlowShape, HasDocument
  <1>2. CASE Live(flow[f].pub)
    <2>1. row'[flow[f].pub].doc = flow[f].doc
      BY <1>0, <1>1, <1>2 DEF LinkDocument, TypeInv, TypeOK, Row
    <2> QED
      BY <1>1, <2>1, PublishingAssumption
  <1>3. CASE ~Live(flow[f].pub)
    BY <1>0, <1>3 DEF LinkDocument, Live
  <1> QED
    BY <1>2, <1>3

LEMMA GivenUpUnlisted ==
    ASSUME TypeInv, NEW f \in Flow, FlowStep(f), flow'[f] = IdleFlow,
           \/ flow[f].pc = "merge" /\ doc[flow[f].doc].st # "completed"
           \/ flow[f].pc = "wipe"
    PROVE  doc'[flow[f].doc].st # "completed"
  <1>1. flow[f].doc \in Doc /\ flow[f] \in FlowState /\ doc[flow[f].doc] \in Document
    BY DEF TypeInv, TypeOK, FlowShape, HasDocument
  <1>2. WipeEmpty(f) \/ (doc[flow[f].doc].st # "completed" /\ (MergeFails(f) \/ MergeConflict(f) \/ MergeTopics(f)))
    <2>1. flow[f].pc = "merge" => MergeFails(f) \/ MergeConflict(f) \/ MergeTopics(f)
      BY DEF FlowStep, StoreRaw, StoreFails, ReuseSave, ReuseStart, ReuseManifest, ReuseValidate, ReuseVerdict,
             AutoExtract, SaveExtracting, FinishExtract, WorkerFails, AutoValidate, SaveValidating,
             FinishValidation, ResolveTarget, AcquireLock, LockRefused, MarkRefused, DownloadFails,
             CreateDocument, LoadTarget, LinkDocument, BumpVersion, WipeEmpty,
             ReleaseEmpty, ReleaseLock, EraseRead, EraseDocument, EraseRow, At
    <2>2. flow[f].pc = "wipe" => WipeEmpty(f)
      BY DEF FlowStep, StoreRaw, StoreFails, ReuseSave, ReuseStart, ReuseManifest, ReuseValidate, ReuseVerdict,
             AutoExtract, SaveExtracting, FinishExtract, WorkerFails, AutoValidate, SaveValidating,
             FinishValidation, ResolveTarget, AcquireLock, LockRefused, MarkRefused, DownloadFails,
             CreateDocument, LoadTarget, LinkDocument, BumpVersion, MergeFails, MergeConflict, MergeTopics,
             ReleaseEmpty, ReleaseLock, EraseRead, EraseDocument, EraseRow, At
    <2> QED
      BY <2>1, <2>2
  <1>3. ASSUME MergeFails(f), doc[flow[f].doc].st # "completed"
        PROVE  doc'[flow[f].doc].st # "completed"
    BY <1>1, <1>3 DEF MergeFails, TypeInv, TypeOK, Document
  <1>4. ASSUME MergeConflict(f), doc[flow[f].doc].st # "completed"
        PROVE  doc'[flow[f].doc].st # "completed"
    BY <1>4 DEF MergeConflict
  <1>5. CASE MergeTopics(f)
    <2>1. \E pc \in {"link", "release", "wipe"} : flow'[f] = [flow[f] EXCEPT !.pc = pc]
      BY <1>5, SavedUnmoved DEF MergeTopics
    <2>2. flow'[f].pc # "idle"
      BY <1>1, <2>1 DEF FlowState
    <2> QED
      BY <2>2 DEF IdleFlow
  <1>6. CASE WipeEmpty(f)
    BY <1>1, <1>6 DEF WipeEmpty, TypeInv, TypeOK, Document
  <1> QED
    BY <1>2, <1>3, <1>4, <1>5, <1>6

LEMMA StepsKeepDocumentsOwned ==
    ASSUME TypeInv, TypeInv', LockInv, LockInv', NEW f \in Flow, UserRequest(f) \/ FlowStep(f),
           NEW d \in Doc, DocumentOwned(d)
    PROVE  DocumentOwned(d)'
  <1> DEFINE a == doc[d].author
  <1>1. /\ RowSteps(f) /\ RowsPersist /\ RowDocuments(f) /\ OthersUnmoved(f) /\ OwnMove(f)
        /\ Statuses(f) /\ Authors(f)
    BY StepsOnRows, StepsKeepRows, StepsOnRowDocuments, OnlyOneFlowMoves, StepsMove, StepsOnStatuses,
       StepsOnAuthors DEF LockInv
  <1>2. /\ \A p \in Pub : row[p].doc # None => doc[row[p].doc].st # "absent"
        /\ \A g \in Flow : flow[g].doc # None => doc[flow[g].doc].st # "absent"
        /\ \A p \in Pub : row[p].replaces \in Pub \cup {None}
        /\ \A g \in Flow : flow[g].pc # "idle" => flow[g].pub \in Pub
        /\ d # None /\ None \notin Pub
    BY PublishingAssumption DEF LockInv, DocsExist, TypeInv, TypeOK, Row, FlowShape
  <1> SUFFICES ASSUME doc'[d].st # "absent"
               PROVE  /\ doc'[d].author \in Pub /\ row'[doc'[d].author].st # "absent"
                      /\ Linked(d)' \/ (\E g \in Flow : PrivateTo(g, d)') \/ Forgotten(d)'
    BY DEF DocumentOwned
  <1>3. CASE doc[d].st = "absent"
    <2>1. /\ doc'[d].author = flow[f].pub /\ doc'[d].st = "processing"
          /\ flow[f].pc = "download" /\ flow'[f].pc = "merge" /\ flow'[f].pub = flow[f].pub
          /\ flow'[f].doc = d /\ ~flow'[f].locked
      BY <1>1, <1>3 DEF Authors
    <2>2. flow[f].pub \in Pub /\ row'[flow[f].pub].st # "absent"
      BY <1>2, <2>1 DEF LockInv, Known
    <2>3. \A p \in Pub : row'[p].doc # d
      BY <1>1, <1>2, <1>3, <2>1 DEF RowDocuments
    <2>4. \A g \in Flow \ {f} : flow'[g].doc # d
      BY <1>1, <1>2, <1>3 DEF OthersUnmoved, Unmoved
    <2>5. PrivateTo(f, d)'
      BY <2>1, <2>3, <2>4 DEF PrivateTo
    <2> QED
      BY <2>1, <2>2, <2>5
  <1>4. CASE doc[d].st # "absent"
    <2>1. /\ doc'[d].author = a /\ a \in Pub /\ row[a].st # "absent" /\ row'[a].st # "absent"
          /\ Linked(d) \/ (\E g \in Flow : PrivateTo(g, d)) \/ Forgotten(d)
      BY <1>1, <1>4 DEF Authors, DocumentOwned, RowsPersist
    \* What no row names and f does not work on stays so, and is not listed by f.
    <2>2. ASSUME \A p \in Pub : row[p].doc # d, flow[f].doc # d
          PROVE  /\ \A p \in Pub : row'[p].doc # d
                 /\ flow'[f].doc # d
                 /\ doc'[d].st \in {doc[d].st, "deleted"}
      <3>1. \/ flow'[f].doc \in {flow[f].doc, None}
            \/ flow[f].pub \in Pub /\ flow'[f].doc = row[flow[f].pub].doc
            \/ row[flow[f].pub].replaces \in Pub /\ flow'[f].doc = row[row[flow[f].pub].replaces].doc
            \/ doc[flow'[f].doc].st = "absent"
        BY <1>1, <1>2 DEF OwnMove, IdleFlow
      <3> QED
        BY <1>1, <1>2, <1>4, <2>2, <3>1 DEF RowDocuments, Statuses
    <2>3. CASE Linked(d)
      <3>1. SUFFICES ASSUME row'[a].st # "deleted"
                     PROVE  row'[a].doc # None
        BY <2>1 DEF Linked, Live
      <3>2. row[a].doc # None
        BY <1>1, <2>1, <2>3, <3>1 DEF RowSteps, Linked, Live
      <3>3. CASE a = flow[f].pub /\ flow[f].pc = "link"
        <4>1. FlowStep(f)
          BY <3>3 DEF UserRequest, Upload, ExtractRequest, ValidateRequest, DeleteRequest, CleanRequest, Request, At
        <4> QED
          BY <2>1, <3>1, <3>3, <4>1, LinkWrites
      <3>4. CASE ~(a = flow[f].pub /\ flow[f].pc = "link")
        BY <1>1, <2>1, <3>1, <3>2, <3>4 DEF RowSteps
      <3> QED
        BY <3>3, <3>4
    <2>4. CASE Forgotten(d)
      <3>1. Forgotten(d)'
        BY <1>1, <2>2, <2>4 DEF Forgotten, OthersUnmoved, Unmoved
      <3> QED
        BY <2>1, <3>1
    <2>5. ASSUME NEW g \in Flow \ {f}, PrivateTo(g, d)
          PROVE  PrivateTo(g, d)'
      BY <1>1, <2>1, <2>2, <2>5 DEF PrivateTo, OthersUnmoved, Unmoved
    <2>6. CASE PrivateTo(f, d)
      <3>1. FlowStep(f)
        BY <2>6 DEF PrivateTo, UserRequest, Upload, ExtractRequest, ValidateRequest,
           DeleteRequest, CleanRequest, Request, At
      <3>2. \A g \in Flow \ {f} : flow'[g].doc # d
        BY <1>1, <2>6 DEF PrivateTo, OthersUnmoved, Unmoved
      <3>3. CASE flow[f].pc = "link"
        <4>1. Linked(d)'
          BY <2>1, <2>6, <3>1, <3>3, LinkWrites DEF PrivateTo, Linked, Live
        <4> QED
          BY <2>1, <4>1
      <3>4. CASE flow[f].pc # "link"
        <4>1. \A p \in Pub : row'[p].doc # d
          BY <1>1, <1>2, <2>6, <3>4 DEF PrivateTo, RowDocuments
        <4>2. CASE flow'[f] = IdleFlow
          <5>1. doc'[d].st # "completed"
            BY <2>6, <3>1, <3>4, <4>2, GivenUpUnlisted DEF PrivateTo
          <5>2. Forgotten(d)'
            BY <1>2, <3>2, <4>1, <4>2, <5>1 DEF Forgotten, IdleFlow
          <5> QED
            BY <2>1, <5>2
        <4>3. CASE flow'[f] # IdleFlow
          <5>1. /\ flow'[f].pub = flow[f].pub /\ flow'[f].doc = d /\ ~flow'[f].locked
                /\ flow'[f].pc \in {"link", "wipe"}
            BY <1>1, <2>6, <3>4, <4>3 DEF PrivateTo, OwnMove, Ingesting, HasDocument, AcquireLock, At
          <5>2. PrivateTo(f, d)'
            BY <2>1, <2>6, <3>2, <4>1, <5>1 DEF PrivateTo
          <5> QED
            BY <2>1, <5>2
        <4> QED
          BY <4>2, <4>3
      <3> QED
        BY <3>3, <3>4
    <2> QED
      BY <2>1, <2>3, <2>4, <2>5, <2>6
  <1> QED
    BY <1>3, <1>4

LEMMA NextDocumentsOwned == TypeInv /\ LockInv /\ DocumentsOwned /\ [Next]_vars => DocumentsOwned'
  <1> SUFFICES ASSUME TypeInv, LockInv, DocumentsOwned, [Next]_vars
               PROVE  DocumentsOwned'
    OBVIOUS
  <1>1. TypeInv' /\ LockInv'
    BY NextTyped, NextLockInv
  <1>2. CASE Crash
    BY <1>2 DEF Crash, DocumentsOwned, TypeInv, TypeOK
  <1>3. ASSUME NEW f \in Flow, UserRequest(f) \/ FlowStep(f)
        PROVE  DocumentsOwned'
    <2>1. crashes' = crashes
      BY <1>3, CrashesKept
    <2> QED
      BY <1>1, <1>3, <2>1, StepsKeepDocumentsOwned DEF DocumentsOwned
  <1>4. CASE UNCHANGED vars
    BY <1>4 DEF vars, DocumentsOwned, DocumentOwned, Linked, Live, PrivateTo, Forgotten
  <1> QED
    BY <1>2, <1>3, <1>4 DEF Next

\* Until the first crash, a listed document is reachable from the publication
\* that created it, or its ingest is about to link or to wipe it.
THEOREM ListedIsOwned == Spec => []PortalDocumentsOwned
  <1>1. Init => DocumentsOwned
    <2> SUFFICES ASSUME Init, NEW d \in Doc, doc[d].st # "absent"
                 PROVE  /\ doc[d].author \in Pub /\ row[doc[d].author].st # "absent"
                        /\ row[doc[d].author].doc # None
      BY DEF DocumentsOwned, DocumentOwned, Linked
    <2> DEFINE q == CHOOSE p \in DOMAIN LegacyDoc : LegacyDoc[p] = d
    <2>1. (\E p \in DOMAIN LegacyDoc : LegacyDoc[p] = d) /\ doc[d] = LegacyDocument(q)
      BY Zenon DEF Init, NoDocument
    <2>2. q \in DOMAIN LegacyDoc /\ LegacyDoc[q] = d
      BY <2>1
    <2>3. q \in Pub /\ row[q] = LegacyRow(d)
      BY <2>2, PublishingAssumption DEF Init
    <2>4. doc[d].author = q
      BY <2>1 DEF LegacyDocument, NoDocument
    <2>5. LegacyRow(d).st = "validated" /\ LegacyRow(d).doc = d
      BY DEF LegacyRow, NoRow
    <2> QED
      BY <2>3, <2>4, <2>5, PublishingAssumption
  <1>2. DocumentsOwned => PortalDocumentsOwned
    BY DEF DocumentsOwned, DocumentOwned, PortalDocumentsOwned, Linked, PrivateTo, Forgotten
  <1> QED
    BY <1>1, <1>2, NextDocumentsOwned, InitTypeInv, NextTyped, InitLockInv, NextLockInv, PTL DEF Spec
=============================================================================
