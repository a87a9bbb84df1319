---------------------------- MODULE EnrichProofs ----------------------------
(***************************************************************************)
(* Proofs about EnrichReprocess: type correctness, that only racing        *)
(* requests start two workers, and that the pending dot is honest.         *)
(***************************************************************************)
EXTENDS EnrichReprocess, TLAPS

-----------------------------------------------------------------------------
(* Type correctness                                                        *)

\* An ingest has a topic while it is at work.
HasTopic ==
    \A i \in Ingest :
        /\ ingest[i].pc \in {"idle", "done"} => ingest[i].topic = None
        /\ ingest[i].pc \notin {"idle", "done"} => ingest[i].topic \in Topic

TypeInv == TypeOK /\ HasTopic

LEMMA NewTyped == NewSave \in SaveState /\ NewIngest \in IngestState /\ NewJob \in JobState
  BY DEF NewSave, SaveState, NewIngest, IngestState, NewJob, JobState, RuleSets

LEMMA InitTypeInv == Init => TypeInv
  <1> SUFFICES ASSUME Init PROVE TypeInv
    OBVIOUS
  <1>1. rules \in RuleSets /\ applied \in [Topic -> RuleSets] /\ crashes \in 0..MaxCrashes
    BY EnrichAssumption DEF Init, RuleSets
  <1>2. /\ save \in [Save -> SaveState] /\ ingest \in [Ingest -> IngestState]
        /\ job \in [Job -> JobState]
    BY NewTyped DEF Init
  <1>3. HasTopic
    BY EnrichAssumption DEF Init, HasTopic, NewIngest
  <1> QED
    BY <1>1, <1>2, <1>3 DEF Init, TypeInv, TypeOK

LEMMA SaveStepTyped ==
    ASSUME TypeOK, NEW s \in Save, SaveStart(s) \/ SaveStep(s)
    PROVE  TypeOK'
  <1> USE DEF TypeOK
  <1>0. /\ save[s] \in SaveState /\ save[s].before \in RuleSets
        /\ {} \in RuleSets /\ {s} \in RuleSets
        /\ \A a, b \in RuleSets : a \cup b \in RuleSets
        /\ \A r : rules \ {r} \in RuleSets
    BY DEF SaveState, RuleSets
  <1>1. EndedSave(s) \in SaveState
    BY <1>0 DEF SaveState, EndedSave
  <1>2. ASSUME NEW new \in RuleSets, ChangeRule(s, new)
        PROVE  TypeOK'
    BY <1>0, <1>2 DEF ChangeRule, WriteRules, SaveState, cacheVars
  <1>3. CASE CreateRule(s) \/ UpdateRule(s) \/ DeleteRule(s)
    <2>1. PICK new \in RuleSets : ChangeRule(s, new)
      BY <1>0, <1>3 DEF CreateRule, UpdateRule, DeleteRule
    <2> QED
      BY <1>2, <2>1
  <1>4. CASE PutSnapshot(s)
    BY <1>4 DEF PutSnapshot, SaveState, cacheVars
  <1>5. CASE PutDelete(s)
    BY <1>0, <1>5 DEF PutDelete, SaveState, cacheVars
  <1>6. CASE PutInsert(s)
    <2> PICK list \in {{}, {s}} :
           /\ WriteRules(rules \cup list)
           /\ save' = [save EXCEPT ![s].pc = IF save[s].before # {} \/ list # {}
                                             THEN "flip" ELSE "bump"]
      BY <1>6 DEF PutInsert
    <2> QED
      BY <1>0, <1>6 DEF PutInsert, WriteRules, SaveState, cacheVars
  <1>7. CASE PutFails(s)
    BY <1>0, <1>1, <1>7 DEF PutFails, WriteRules, cacheVars
  <1>8. CASE FlipPending(s)
    BY <1>0, <1>8 DEF FlipPending, SaveState, cacheVars
  <1>9. CASE BumpRuleCache(s)
    BY <1>1, <1>9, EnrichAssumption DEF BumpRuleCache
  <1> QED
    BY <1>3, <1>4, <1>5, <1>6, <1>7, <1>8, <1>9 DEF SaveStart, SaveStep

LEMMA IngestStepTyped ==
    ASSUME TypeInv, NEW i \in Ingest, StartIngest(i) \/ IngestStep(i)
    PROVE  TypeOK'
  <1> USE DEF TypeOK, TypeInv
  <1>0. /\ ingest[i] \in IngestState /\ ingest[i].rows \in RuleSets /\ {} \in RuleSets
        /\ EndedIngest \in IngestState
    BY DEF IngestState, EndedIngest, NewIngest, RuleSets
  <1>1. CASE StartIngest(i)
    <2> PICK t \in Topic : /\ ingest' = [ingest EXCEPT ![i].pc = "load", ![i].topic = t]
                           /\ applied' = [applied EXCEPT ![t] = {}]
      BY <1>1 DEF StartIngest
    <2> QED
      BY <1>0, <1>1 DEF StartIngest, IngestState, adminVars, cacheVars
  <1>2. CASE ReadCache(i)
    <2>1. ASSUME NEW list \in cached, ingest' = [ingest EXCEPT ![i].pc = "apply", ![i].rows = list]
          PROVE  ingest' \in [Ingest -> IngestState]
      BY <1>0, <2>1 DEF IngestState
    <2>2. ASSUME ingest' = [ingest EXCEPT ![i].pc = "wait", ![i].load = inflight]
          PROVE  ingest' \in [Ingest -> IngestState]
      BY <1>0, <2>2 DEF IngestState
    <2>3. ASSUME ingest' = [ingest EXCEPT ![i].pc = "query"]
          PROVE  ingest' \in [Ingest -> IngestState]
      BY <1>0, <2>3 DEF IngestState
    <2>4. ingest' \in [Ingest -> IngestState]
      BY <1>2, <2>1, <2>2, <2>3 DEF ReadCache
    <2>5. inflight' \in Ingest \cup {None} /\ overtaken' \in BOOLEAN
      BY <1>2 DEF ReadCache
    <2> QED
      BY <1>2, <2>4, <2>5 DEF ReadCache, adminVars
  <1>3. CASE QueryRules(i)
    BY <1>0, <1>3 DEF QueryRules, IngestState, adminVars, cacheVars
  <1>4. CASE FillCache(i)
    <2>1. \A k \in Ingest : [ingest[k] EXCEPT !.pc = "apply", !.rows = ingest[i].rows] \in IngestState
      BY <1>0 DEF IngestState
    <2> QED
      BY <1>0, <1>4, <2>1 DEF FillCache, adminVars
  <1>5. CASE ApplyRules(i)
    <2>1. ingest[i].topic \in Topic
      BY <1>5 DEF ApplyRules, HasTopic
    <2>2. applied' \in [Topic -> RuleSets] /\ skipped' \subseteq Topic
      BY <1>0, <1>5, <2>1 DEF ApplyRules
    <2> QED
      BY <1>0, <1>5, <2>2 DEF ApplyRules, adminVars, cacheVars
  <1> QED
    BY <1>1, <1>2, <1>3, <1>4, <1>5 DEF IngestStep

\* What a step of a request or its worker does to the job itself.
JobEdges(j) ==
    LET o == job[j]
        n == job'[j] IN
    /\ job' = [job EXCEPT ![j] = n]
    /\ n \in JobState
    /\ \/ o.pc = "idle" /\ n = [o EXCEPT !.pc = "create"] /\ \A k \in Job : ~Unsettled(k)
       \/ o.pc = "create" /\ n = [o EXCEPT !.pc = "spawn", !.row = "queued"]
       \/ o.pc = "spawn" /\ n = [o EXCEPT !.pc = "load", !.writes = @ \cup {"running"}]
       \/ \E w \in o.writes : n = [o EXCEPT !.row = w, !.writes = @ \ {w}]
       \/ o.pc = "load" /\ n = [o EXCEPT !.pc = "scan", !.rows = rules]
       \/ o.pc = "scan" /\ \E t \in Topic : n = [o EXCEPT !.seen = @ \cup {t}]
       \/ o.pc = "scan" /\ n = [o EXCEPT !.pc = "report", !.rows = {}, !.seen = {}]
       \/ o.pc = "report" /\ n = [o EXCEPT !.pc = "write", !.writes = @ \cup {"done"}]
       \/ o.pc = "write" /\ n = [o EXCEPT !.pc = "done", !.row = "done"]
       \/ /\ o.pc \in {"spawn", "load", "scan", "report"}
          /\ n = [o EXCEPT !.pc = "done", !.rows = {}, !.seen = {}, !.writes = @ \cup {"failed"}]

LEMMA StepsOnJob ==
    ASSUME TypeOK, NEW j \in Job, RequestReprocess(j) \/ JobStep(j) \/ LandWrite(j)
    PROVE  JobEdges(j)
  <1> USE DEF TypeOK
  <1>0. /\ job[j] \in JobState /\ {} \in RuleSets /\ job \in [Job -> JobState]
    BY DEF JobState, RuleSets
  <1>1. CASE RequestReprocess(j)
    BY <1>0, <1>1 DEF RequestReprocess, JobEdges, JobState
  <1>2. CASE CreateJob(j)
    BY <1>0, <1>2 DEF CreateJob, JobEdges, JobState
  <1>3. CASE SpawnWorker(j)
    BY <1>0, <1>3 DEF SpawnWorker, JobEdges, JobState
  <1>4. CASE LandWrite(j)
    <2> PICK w \in job[j].writes : job' = [job EXCEPT ![j].row = w, ![j].writes = @ \ {w}]
      BY <1>4 DEF LandWrite
    <2> QED
      BY <1>0 DEF JobEdges, JobState
  <1>5. CASE LoadRules(j)
    BY <1>0, <1>5 DEF LoadRules, JobEdges, JobState
  <1>6. CASE ScanTopic(j)
    <2> PICK t \in Topic : job' = [job EXCEPT ![j].seen = @ \cup {t}]
      BY <1>6 DEF ScanTopic
    <2> QED
      BY <1>0, <1>6 DEF ScanTopic, JobEdges, JobState
  <1>7. CASE ClearPending(j)
    BY <1>0, <1>7 DEF ClearPending, JobEdges, JobState
  <1>8. CASE Report(j)
    BY <1>0, <1>8 DEF Report, JobEdges, JobState
  <1>9. CASE WriteDone(j)
    BY <1>0, <1>9 DEF WriteDone, JobEdges, JobState
  <1>10. CASE WorkerFails(j)
    BY <1>0, <1>10 DEF WorkerFails, JobEdges, JobState
  <1>11. CASE SpawnFails(j)
    BY <1>0, <1>11 DEF SpawnFails, JobEdges, JobState
  <1> QED
    BY <1>1, <1>2, <1>3, <1>4, <1>5, <1>6, <1>7, <1>8, <1>9, <1>10, <1>11 DEF JobStep

LEMMA JobStepTyped ==
    ASSUME TypeOK, NEW j \in Job, RequestReprocess(j) \/ JobStep(j) \/ LandWrite(j)
    PROVE  TypeOK'
  <1> USE DEF TypeOK
  <1>1. job' \in [Job -> JobState]
    BY StepsOnJob DEF JobEdges
  <1>2. CASE CreateJob(j)
    BY <1>1, <1>2 DEF CreateJob, adminVars, cacheVars
  <1>3. CASE LoadRules(j)
    BY <1>1, <1>3 DEF LoadRules, adminVars, cacheVars
  <1>4. CASE ScanTopic(j)
    <2>1. job[j].rows \in RuleSets
      BY DEF JobState
    <2> QED
      BY <1>1, <1>4, <2>1 DEF ScanTopic, adminVars, cacheVars
  <1>5. CASE ClearPending(j)
    BY <1>1, <1>5 DEF ClearPending, cacheVars
  <1>6. CASE RequestReprocess(j) \/ SpawnWorker(j) \/ SpawnFails(j) \/ LandWrite(j) \/ Report(j)
             \/ WriteDone(j) \/ WorkerFails(j)
    BY <1>1, <1>6 DEF RequestReprocess, SpawnWorker, SpawnFails, LandWrite, Report, WriteDone,
                      WorkerFails, adminVars, cacheVars
  <1> QED
    BY <1>2, <1>3, <1>4, <1>5, <1>6 DEF JobStep

LEMMA CrashTyped == TypeOK /\ Crash => TypeOK'
  <1> SUFFICES ASSUME TypeOK, Crash PROVE TypeOK'
    OBVIOUS
  <1>1. crashes' \in 0..MaxCrashes
    <2>1. crashes \in 0..MaxCrashes /\ crashes < MaxCrashes /\ crashes' = crashes + 1
      BY DEF TypeOK, Crash
    <2>2. MaxCrashes \in Nat
      BY EnrichAssumption
    <2> QED
      BY <2>1, <2>2
  <1> USE DEF TypeOK
  <1>2. \A s \in Save : EndedSave(s) \in SaveState
    <2> {} \in RuleSets
      BY DEF RuleSets
    <2> QED
      BY DEF EndedSave, SaveState
  <1>3. EndedIngest \in IngestState
    BY NewTyped DEF EndedIngest, IngestState
  <1>4. ASSUME NEW j \in Job
        PROVE  [NewJob EXCEPT !.pc = "done", !.row = job[j].row] \in JobState
    BY NewTyped DEF JobState
  <1>5. /\ save' \in [Save -> SaveState] /\ ingest' \in [Ingest -> IngestState]
        /\ job' \in [Job -> JobState]
    BY <1>2, <1>3, <1>4 DEF Crash
  <1> QED
    BY <1>1, <1>5, EnrichAssumption DEF Crash

LEMMA HasTopicKept == TypeInv /\ [Next]_vars => HasTopic'
  <1> SUFFICES ASSUME TypeInv, [Next]_vars PROVE HasTopic'
    OBVIOUS
  <1> USE DEF TypeInv, TypeOK, HasTopic
  <1>1. CASE ingest' = ingest
    BY <1>1
  <1>2. ASSUME NEW i \in Ingest, StartIngest(i)
        PROVE  HasTopic'
    <2> PICK t \in Topic : ingest' = [ingest EXCEPT ![i].pc = "load", ![i].topic = t]
      BY <1>2 DEF StartIngest
    <2> QED
      BY DEF IngestState
  <1>3. ASSUME NEW i \in Ingest, IngestStep(i)
        PROVE  HasTopic'
    <2>1. CASE ReadCache(i) \/ QueryRules(i)
      <3>1. \A k \in Ingest : /\ ingest'[k].topic = ingest[k].topic
                              /\ k # i => ingest'[k].pc = ingest[k].pc
        BY <2>1 DEF ReadCache, QueryRules, IngestState
      <3>2. ingest[i].topic \in Topic /\ ingest'[i].pc \notin {"idle", "done"}
        BY <2>1 DEF ReadCache, QueryRules, IngestState
      <3> QED
        BY <3>1, <3>2
    <2>2. CASE FillCache(i)
      <3>1. \A k \in Ingest : /\ ingest'[k].topic = ingest[k].topic
                              /\ \/ ingest'[k].pc = ingest[k].pc
                                 \/ ingest[k].pc \in {"fill", "wait"} /\ ingest'[k].pc = "apply"
        BY <2>2 DEF FillCache, IngestState
      <3> QED
        BY <3>1
    <2>3. CASE ApplyRules(i)
      BY <2>3 DEF ApplyRules, EndedIngest, NewIngest
    <2> QED
      BY <1>3, <2>1, <2>2, <2>3 DEF IngestStep
  <1>4. CASE Crash
    BY <1>4 DEF Crash, EndedIngest, NewIngest
  <1>5. CASE ~Crash /\ ingest' # ingest
    <2>1. \E i \in Ingest : StartIngest(i) \/ IngestStep(i)
      BY <1>5 DEF Next, vars, SaveStart, SaveStep, CreateRule, UpdateRule, DeleteRule, ChangeRule,
         PutSnapshot, PutDelete, PutInsert, PutFails, FlipPending, BumpRuleCache, ExpireCache,
         RequestReprocess, LandWrite, JobStep, CreateJob, SpawnWorker, SpawnFails, LoadRules, ScanTopic,
         ClearPending, Report, WriteDone, WorkerFails
    <2> QED
      BY <1>2, <1>3, <2>1
  <1> QED
    BY <1>1, <1>4, <1>5

LEMMA NextTyped == TypeInv /\ [Next]_vars => TypeInv'
  <1> SUFFICES ASSUME TypeInv, [Next]_vars PROVE TypeOK'
    BY HasTopicKept DEF TypeInv
  <1>1. CASE ExpireCache
    BY <1>1 DEF ExpireCache, TypeInv, TypeOK, adminVars
  <1>2. CASE UNCHANGED vars
    BY <1>2 DEF vars, adminVars, cacheVars, TypeInv, TypeOK
  <1> QED
    BY <1>1, <1>2, SaveStepTyped, IngestStepTyped, JobStepTyped, CrashTyped DEF Next, TypeInv

LEMMA TypeInvariant == Spec => []TypeInv
  BY InitTypeInv, NextTyped, PTL DEF Spec

\* Every reachable state is well typed, whatever the numbers of topics, rule
\* changes, ingests, reprocess requests and crashes.
THEOREM TypeCorrect == Spec => []TypeOK
  BY TypeInvariant, PTL DEF TypeInv

-----------------------------------------------------------------------------
(* One worker at a time, unless requests raced                             *)

Active(j) == job[j].pc \in {"spawn", "load", "scan", "report"}

\* What the program counter of a job says of its row, of the updates in flight
\* and of the topics its worker is done with.
JobShape(j) ==
    /\ job[j].pc \in {"idle", "create"} => job[j].row = "none" /\ job[j].writes = {}
    /\ job[j].pc = "spawn" => job[j].row = "queued" /\ job[j].writes = {}
    /\ Working(j) => Unsettled(j) /\ job[j].writes \subseteq {"running"}
    /\ job[j].pc \in {"idle", "create", "spawn", "load"} => job[j].seen = {}

\* A request about to create its job while another job is active has raced that
\* job, and so have, one way or the other, two active jobs.
RaceInv ==
    /\ \A j \in Job : JobShape(j)
    /\ \A j, k \in Job : j # k /\ Active(j) =>
         /\ job[k].pc = "create" => j \in raced[k]
         /\ Active(k) => j \in raced[k] \/ k \in raced[j]

LEMMA JobShapeKept ==
    ASSUME TypeOK, NEW j \in Job, RequestReprocess(j) \/ JobStep(j) \/ LandWrite(j), RaceInv
    PROVE  \A k \in Job : JobShape(k)'
  <1> DEFINE o == job[j]
             n == job'[j]
  <1>1. JobEdges(j) /\ JobShape(j) /\ o \in JobState /\ job \in [Job -> JobState]
    BY StepsOnJob DEF RaceInv, TypeOK
  <1>2. \A k \in Job \ {j} : job'[k] = job[k]
    BY <1>1 DEF JobEdges
  <1>3. JobShape(j)'
    <2> USE DEF JobShape, Working, Unsettled
    <2>1. CASE n = [o EXCEPT !.pc = "create"] /\ o.pc = "idle"
      BY <1>1, <2>1 DEF JobState
    <2>2. CASE o.pc = "create" /\ n = [o EXCEPT !.pc = "spawn", !.row = "queued"]
      BY <1>1, <2>2 DEF JobState
    <2>3. CASE o.pc = "spawn" /\ n = [o EXCEPT !.pc = "load", !.writes = @ \cup {"running"}]
      BY <1>1, <2>3 DEF JobState
    <2>4. CASE \E w \in o.writes : n = [o EXCEPT !.row = w, !.writes = @ \ {w}]
      BY <1>1, <2>4 DEF JobState
    <2>5. CASE o.pc = "load" /\ n = [o EXCEPT !.pc = "scan", !.rows = rules]
      BY <1>1, <2>5 DEF JobState
    <2>6. CASE o.pc = "scan" /\ \E t \in Topic : n = [o EXCEPT !.seen = @ \cup {t}]
      BY <1>1, <2>6 DEF JobState
    <2>7. CASE o.pc = "scan" /\ n = [o EXCEPT !.pc = "report", !.rows = {}, !.seen = {}]
      BY <1>1, <2>7 DEF JobState
    <2>8. CASE n.pc \in {"write", "done"}
      BY <1>1, <2>8 DEF JobState
    <2> QED
      BY <1>1, <2>1, <2>2, <2>3, <2>4, <2>5, <2>6, <2>7, <2>8 DEF JobEdges, JobState
  <1> QED
    BY <1>2, <1>3 DEF JobShape, Working, Unsettled, RaceInv

LEMMA RacedKept ==
    ASSUME TypeOK, NEW j \in Job, RequestReprocess(j) \/ JobStep(j) \/ LandWrite(j)
    PROVE  \/ raced' = raced
           \/ CreateJob(j)
  BY DEF RequestReprocess, JobStep, LandWrite, CreateJob, SpawnWorker, SpawnFails, LoadRules, ScanTopic,
         ClearPending, Report, WriteDone, WorkerFails

LEMMA JobStepKeepsRaceInv ==
    ASSUME TypeOK, NEW j \in Job, RequestReprocess(j) \/ JobStep(j) \/ LandWrite(j), RaceInv
    PROVE  RaceInv'
  <1>1. JobEdges(j) /\ job[j] \in JobState /\ job \in [Job -> JobState]
    BY StepsOnJob DEF TypeOK
  <1>2. /\ \A k \in Job \ {j} : job'[k] = job[k]
        /\ \A k \in Job : JobShape(k)
    BY <1>1 DEF JobEdges, RaceInv
  <1>3. CASE CreateJob(j)
    <2>1. /\ job[j].pc = "create" /\ job'[j].pc = "spawn"
          /\ \A k \in Job : /\ raced[k] \subseteq raced'[k]
                            /\ k # j /\ job[k].pc = "create" => j \in raced'[k]
      BY <1>1, <1>3 DEF CreateJob, TypeOK, JobState
    <2> QED
      BY <1>2, <2>1, JobShapeKept DEF RaceInv, Active
  <1>4. CASE ~CreateJob(j) /\ job[j].pc = "idle"
    <2>1. job'[j].pc = "create" /\ \A k \in Job : ~Unsettled(k)
      BY <1>1, <1>2, <1>4 DEF JobEdges, JobShape, JobState
    <2>2. \A k \in Job : ~Active(k)
      BY <1>2, <2>1 DEF JobShape, Active, Working, Unsettled
    <2> QED
      BY <1>2, <2>1, <2>2, JobShapeKept DEF RaceInv, Active
  <1>5. CASE ~CreateJob(j) /\ job[j].pc \notin {"idle", "create"}
    <2>1. job'[j].pc # "create" /\ (job'[j].pc \in {"spawn", "load", "scan", "report"} => Active(j))
      BY <1>1, <1>5 DEF JobEdges, JobState, Active
    <2>2. raced' = raced
      BY <1>5, RacedKept
    <2> QED
      BY <1>2, <2>1, <2>2, JobShapeKept DEF RaceInv, Active
  <1>6. CASE ~CreateJob(j) /\ job[j].pc = "create"
    \* There is no update of a row that does not exist, so nothing else can move.
    <2>1. job[j].writes = {}
      BY <1>2, <1>6 DEF JobShape
    <2> QED
      BY <1>6, <2>1 DEF RequestReprocess, JobStep, LandWrite, SpawnWorker, SpawnFails, LoadRules,
         ScanTopic, ClearPending, Report, WriteDone, WorkerFails
  <1> QED
    BY <1>3, <1>4, <1>5, <1>6

LEMMA NextRaceInv == TypeInv /\ RaceInv /\ [Next]_vars => RaceInv'
  <1> SUFFICES ASSUME TypeInv, RaceInv, [Next]_vars PROVE RaceInv'
    OBVIOUS
  <1>1. CASE Crash
    BY <1>1 DEF Crash, RaceInv, JobShape, Active, Working, Unsettled, NewJob, TypeInv, TypeOK
  <1>2. ASSUME NEW j \in Job, RequestReprocess(j) \/ JobStep(j) \/ LandWrite(j)
        PROVE  RaceInv'
    BY <1>2, JobStepKeepsRaceInv DEF TypeInv
  <1>3. CASE UNCHANGED <<job, raced>>
    BY <1>3 DEF RaceInv, JobShape, Active, Working, Unsettled
  <1> QED
    BY <1>1, <1>2, <1>3 DEF Next, vars, SaveStart, SaveStep, CreateRule, UpdateRule, DeleteRule, ChangeRule,
       PutSnapshot, PutDelete, PutInsert, PutFails, FlipPending, BumpRuleCache, ExpireCache,
       StartIngest, IngestStep, ReadCache, QueryRules, FillCache, ApplyRules

LEMMA RaceInvariant == Spec => [](TypeInv /\ RaceInv)
  <1>1. Init => RaceInv
    BY DEF Init, RaceInv, JobShape, Active, Working, Unsettled, NewJob
  <1> QED
    BY <1>1, InitTypeInv, NextTyped, NextRaceInv, PTL DEF Spec

\* Two workers run at once only when their requests raced, for any number of
\* requests and crashes and with status updates landing at any time.
THEOREM WorkersExclude == Spec => []OneWorkerUnlessRaced
  <1>1. RaceInv => OneWorkerUnlessRaced
    BY DEF RaceInv, OneWorkerUnlessRaced, Active, Working
  <1> QED
    BY <1>1, RaceInvariant, PTL

-----------------------------------------------------------------------------
(* The dot is honest                                                       *)

\* The rules as they will be if every replacement under way is rolled back: the
\* list topics have to agree with.
Target ==
    rules \cup {r \in Save \cup Initial : \E s \in Save : save[s].pc = "insert" /\ r \in save[s].before}

\* Topic t does not lag behind list, or something is still to happen to it.
UpToDate(t, list) == t \in skipped \/ Ingesting(t) \/ applied[t] = list

\* Whoever holds rules holds the current ones, nobody is replacing them, and a
\* worker has brought the topics it is done with up to date.
HoldersCurrent ==
    /\ HoldsRules => ~Emptied
    /\ \A i \in Ingest : ingest[i].pc \in {"fill", "apply"} => ingest[i].rows = rules
    /\ \A j \in Job : job[j].pc = "scan" =>
         /\ job[j].rows = rules
         /\ \A t \in job[j].seen : UpToDate(t, rules)

\* The dot is lit, or about to be, or every topic is up to date.
DotLit == pending \/ \E s \in Save : save[s].pc = "flip"

DotInv ==
    ~overtaken /\ crashes = 0 =>
        HoldersCurrent /\ (DotLit \/ \A t \in Topic : UpToDate(t, Target))

LEMMA InitDotInv == Init => DotInv
  BY DEF Init, DotInv, HoldersCurrent, HoldsRules, UpToDate, Target, NewSave, NewIngest, NewJob

\* With nobody replacing the list, the target is the list.
LEMMA TargetIsRules == ~Emptied => Target = rules
  BY DEF Emptied, Target

\* A rule change or a step of a save keeps the target or is about to light the
\* dot, and touches nothing that is current for somebody.
LEMMA SaveKeepsTarget ==
    ASSUME TypeInv, NEW s \in Save, SaveStart(s) \/ SaveStep(s), ~overtaken'
    PROVE  /\ ~overtaken
           /\ HoldsRules => rules' = rules /\ (Emptied' => Emptied)
           /\ Target' = Target \/ save'[s].pc = "flip"
           /\ DotLit => DotLit'
           /\ applied' = applied /\ skipped' = skipped /\ ingest' = ingest /\ job' = job
  <1> USE DEF TypeInv, TypeOK
  <1>1. /\ applied' = applied /\ skipped' = skipped /\ ingest' = ingest /\ job' = job
    BY DEF SaveStart, SaveStep, CreateRule, UpdateRule, DeleteRule, ChangeRule,
       PutSnapshot, PutDelete, PutInsert, PutFails, FlipPending, BumpRuleCache
  <1>2. save[s] \in SaveState /\ save \in [Save -> SaveState] /\ rules \in RuleSets
    OBVIOUS
  <1>3. ASSUME NEW new, ChangeRule(s, new)
        PROVE  ~overtaken /\ ~HoldsRules /\ save'[s].pc = "flip"
    BY <1>2, <1>3 DEF ChangeRule, WriteRules, SaveState
  <1>4. CASE CreateRule(s) \/ UpdateRule(s) \/ DeleteRule(s)
    BY <1>1, <1>3, <1>4 DEF CreateRule, UpdateRule, DeleteRule, DotLit
  <1>5. CASE PutSnapshot(s)
    <2>1. /\ save[s].pc = "idle" /\ save'[s].pc = "delete"
          /\ \A u \in Save \ {s} : save'[u] = save[u]
      BY <1>2, <1>5 DEF PutSnapshot
    <2> QED
      BY <1>1, <1>5, <2>1 DEF PutSnapshot, Target, Emptied, DotLit
  <1>6. CASE PutDelete(s)
    <2>1. /\ ~overtaken /\ ~HoldsRules /\ rules = save[s].before /\ rules' = {}
          /\ save[s].pc = "delete" /\ save'[s].pc = "insert" /\ save'[s].before = rules
          /\ \A u \in Save \ {s} : save'[u] = save[u]
      BY <1>2, <1>6 DEF PutDelete, SaveState
    <2>2. Target' = Target
      BY <1>2, <2>1 DEF Target, RuleSets
    <2> QED
      BY <1>1, <1>6, <2>1, <2>2 DEF PutDelete, DotLit
  <1>7. CASE PutInsert(s)
    <2> PICK list \in {{}, {s}} :
           /\ WriteRules(rules \cup list)
           /\ save' = [save EXCEPT ![s].pc = IF save[s].before # {} \/ list # {}
                                             THEN "flip" ELSE "bump"]
      BY <1>7 DEF PutInsert
    <2>0. ~overtaken /\ ~HoldsRules /\ rules' = rules \cup list /\ save[s].pc = "insert"
      BY <1>7 DEF PutInsert, WriteRules
    <2>1. /\ \A u \in Save \ {s} : save'[u] = save[u]
          /\ save'[s].before = save[s].before
          /\ \/ save'[s].pc = "flip"
             \/ save'[s].pc = "bump" /\ save[s].before = {} /\ list = {}
      BY <1>2 DEF SaveState
    <2>2. save'[s].pc = "bump" => Target' = Target
      BY <2>0, <2>1 DEF Target
    <2>3. DotLit => DotLit'
      BY <1>7, <2>0, <2>1 DEF PutInsert, DotLit
    <2> QED
      BY <1>1, <2>0, <2>1, <2>2, <2>3
  <1>8. CASE PutFails(s)
    <2>1. /\ ~overtaken /\ ~HoldsRules /\ save[s].pc = "insert" /\ save'[s].pc = "done"
          /\ \A u \in Save \ {s} : save'[u] = save[u]
          /\ rules' = rules \cup save[s].before /\ save[s].before \subseteq Save \cup Initial
      BY <1>2, <1>8 DEF PutFails, WriteRules, EndedSave, SaveState, RuleSets
    <2>2. Target' = Target
      BY <2>1 DEF Target
    <2> QED
      BY <1>1, <1>8, <2>1, <2>2 DEF PutFails, DotLit
  <1>9. CASE FlipPending(s) \/ BumpRuleCache(s)
    <2>1. /\ ~overtaken /\ rules' = rules /\ save'[s].pc \in {"bump", "done"}
          /\ save[s].pc \in {"flip", "bump"} /\ \A u \in Save \ {s} : save'[u] = save[u]
      <3>1. CASE FlipPending(s)
        BY <1>2, <3>1 DEF FlipPending, SaveState
      <3>2. CASE BumpRuleCache(s)
        BY <1>2, <3>2 DEF BumpRuleCache, EndedSave, SaveState
      <3> QED
        BY <1>9, <3>1, <3>2
    <2>2. Target' = Target /\ (Emptied' => Emptied)
      BY <2>1 DEF Target, Emptied
    <2>3. DotLit => DotLit'
      BY <1>9, <2>1 DEF FlipPending, BumpRuleCache, DotLit
    <2> QED
      BY <1>1, <2>1, <2>2, <2>3
  <1> QED
    BY <1>4, <1>5, <1>6, <1>7, <1>8, <1>9 DEF SaveStart, SaveStep

LEMMA SaveKeepsDotInv ==
    ASSUME TypeInv, DotInv, NEW s \in Save, SaveStart(s) \/ SaveStep(s)
    PROVE  DotInv'
  <1> SUFFICES ASSUME ~overtaken', crashes = 0
               PROVE  HoldersCurrent' /\ (DotLit' \/ \A t \in Topic : UpToDate(t, Target)')
    <2>1. crashes' = crashes
      BY DEF SaveStart, SaveStep, CreateRule, UpdateRule, DeleteRule, ChangeRule,
         PutSnapshot, PutDelete, PutInsert, PutFails, FlipPending, BumpRuleCache
    <2> QED
      BY <2>1 DEF DotInv
  <1>1. /\ ~overtaken
        /\ HoldsRules => rules' = rules /\ (Emptied' => Emptied)
        /\ Target' = Target \/ save'[s].pc = "flip"
        /\ DotLit => DotLit'
        /\ applied' = applied /\ skipped' = skipped /\ ingest' = ingest /\ job' = job
    BY SaveKeepsTarget
  <1>2. HoldersCurrent /\ (DotLit \/ \A t \in Topic : UpToDate(t, Target))
    BY <1>1 DEF DotInv
  <1>3. HoldersCurrent'
    BY <1>1, <1>2 DEF HoldersCurrent, HoldsRules, UpToDate, Ingesting
  <1>4. save'[s].pc = "flip" => DotLit'
    BY DEF DotLit
  <1>5. ASSUME NEW t \in Topic, Target' = Target, UpToDate(t, Target)
        PROVE  UpToDate(t, Target)'
    BY <1>1, <1>5 DEF UpToDate, Ingesting
  <1> QED
    BY <1>1, <1>2, <1>3, <1>4, <1>5

\* A step of an ingest leaves its topic ingesting, counted as an error, or
\* computed with the rules the ingest holds, and other topics alone.
LEMMA IngestStepTopics ==
    ASSUME TypeInv, HoldersCurrent, NEW i \in Ingest, StartIngest(i) \/ IngestStep(i), NEW t \in Topic
    PROVE  /\ UpToDate(t, rules) => UpToDate(t, rules)'
           /\ UpToDate(t, Target) => UpToDate(t, Target)'
  <1> USE DEF TypeInv, TypeOK, HasTopic
  <1>1. rules' = rules /\ Target' = Target /\ ingest \in [Ingest -> IngestState]
    BY DEF StartIngest, IngestStep, ReadCache, QueryRules, FillCache, ApplyRules, adminVars, Target
  <1>2. CASE StartIngest(i)
    <2> PICK u \in Topic : /\ ingest' = [ingest EXCEPT ![i].pc = "load", ![i].topic = u]
                           /\ applied' = [applied EXCEPT ![u] = {}]
      BY <1>2 DEF StartIngest
    <2>1. /\ Ingesting(u)' /\ skipped' = skipped
          /\ t # u => applied'[t] = applied[t]
      BY <1>1, <1>2 DEF StartIngest, Ingesting, IngestState
    <2>2. Ingesting(t) => Ingesting(t)'
      <3>1. ingest[i].topic # t
        BY <1>2, EnrichAssumption DEF StartIngest
      <3>2. \A k \in Ingest \ {i} : ingest'[k] = ingest[k]
        BY <1>1
      <3> QED
        BY <3>1, <3>2 DEF Ingesting
    <2> QED
      BY <1>1, <2>1, <2>2 DEF UpToDate
  <1>3. CASE ReadCache(i) \/ QueryRules(i) \/ FillCache(i)
    <2>1. applied' = applied /\ skipped' = skipped
      BY <1>3 DEF ReadCache, QueryRules, FillCache
    <2>2. \A k \in Ingest : /\ ingest'[k].topic = ingest[k].topic
                            /\ ingest'[k].pc = "done" => ingest[k].pc = "done"
      <3>1. CASE ReadCache(i)
        BY <1>1, <3>1 DEF ReadCache, IngestState
      <3>2. CASE QueryRules(i)
        BY <1>1, <3>2 DEF QueryRules, IngestState
      <3>3. CASE FillCache(i)
        BY <1>1, <3>3 DEF FillCache, IngestState
      <3> QED
        BY <1>3, <3>1, <3>2, <3>3
    <2> QED
      BY <1>1, <2>1, <2>2 DEF UpToDate, Ingesting
  <1>4. CASE ApplyRules(i)
    <2>1. ingest[i].rows = rules /\ Target = rules /\ ingest[i].topic \in Topic
      <3>1. ingest[i].pc = "apply"
        BY <1>4 DEF ApplyRules
      <3> QED
        BY <3>1, TargetIsRules DEF HoldersCurrent, HoldsRules
    <2>2. CASE t = ingest[i].topic
      <3>1. t \in skipped' \/ applied'[t] = rules
        BY <1>4, <2>1, <2>2 DEF ApplyRules
      <3> QED
        BY <1>1, <2>1, <3>1 DEF UpToDate
    <2>3. CASE t # ingest[i].topic
      <3>1. /\ applied'[t] = applied[t]
            /\ t \in skipped => t \in skipped'
            /\ \A k \in Ingest \ {i} : ingest'[k] = ingest[k]
        BY <1>1, <1>4, <2>3 DEF ApplyRules
      <3> QED
        BY <1>1, <2>3, <3>1 DEF UpToDate, Ingesting
    <2> QED
      BY <2>2, <2>3
  <1> QED
    BY <1>2, <1>3, <1>4 DEF IngestStep

LEMMA IngestKeepsDotInv ==
    ASSUME TypeInv, DotInv, NEW i \in Ingest, StartIngest(i) \/ IngestStep(i)
    PROVE  DotInv'
  <1> USE DEF TypeInv, TypeOK
  <1>1. /\ crashes' = crashes /\ rules' = rules /\ job' = job /\ (overtaken => overtaken')
        /\ Emptied' = Emptied /\ DotLit' = DotLit /\ ingest \in [Ingest -> IngestState]
    BY DEF StartIngest, IngestStep, ReadCache, QueryRules, FillCache, ApplyRules, adminVars,
       Emptied, DotLit
  <1> SUFFICES ASSUME ~overtaken', crashes = 0
               PROVE  HoldersCurrent' /\ (DotLit' \/ \A t \in Topic : UpToDate(t, Target)')
    BY <1>1 DEF DotInv
  <1>2. HoldersCurrent /\ (DotLit \/ \A t \in Topic : UpToDate(t, Target))
    BY <1>1 DEF DotInv
  <1> DEFINE holds(k) == ingest[k].pc \in {"fill", "apply"}
  <1>3. ASSUME NEW k \in Ingest, holds(k)'
        PROVE  ~Emptied /\ ingest'[k].rows = rules
    <2>1. CASE ingest'[k] = ingest[k]
      BY <1>2, <1>3, <2>1 DEF HoldersCurrent, HoldsRules
    <2>2. CASE StartIngest(i) \/ ApplyRules(i)
      <3>1. k # i => ingest'[k] = ingest[k]
        BY <1>1, <2>2 DEF StartIngest, ApplyRules
      <3>2. ~holds(i)'
        BY <1>1, <2>2 DEF StartIngest, ApplyRules, EndedIngest, NewIngest, IngestState
      <3> QED
        BY <1>3, <2>1, <3>1, <3>2
    <2>3. CASE ReadCache(i) \/ QueryRules(i)
      <3>1. k # i => ingest'[k] = ingest[k]
        BY <1>1, <2>3 DEF ReadCache, QueryRules
      <3>2. holds(i)' => ~Emptied /\ ingest'[i].rows = rules
        BY <1>1, <2>3 DEF ReadCache, QueryRules, IngestState
      <3> QED
        BY <1>3, <2>1, <3>1, <3>2
    <2>4. CASE FillCache(i)
      <3>1. ~Emptied /\ ingest[i].rows = rules
        BY <1>2, <2>4 DEF FillCache, HoldersCurrent, HoldsRules
      <3>2. ingest'[k] = ingest[k] \/ ingest'[k].rows = ingest[i].rows
        BY <1>1, <2>4 DEF FillCache, IngestState
      <3> QED
        BY <2>1, <3>1, <3>2
    <2> QED
      BY <2>2, <2>3, <2>4 DEF IngestStep
  <1>4. HoldersCurrent'
    <2>1. \A t \in Topic : UpToDate(t, rules) => UpToDate(t, rules)'
      BY <1>2, IngestStepTopics
    <2>2. \A j \in Job : job[j].seen \subseteq Topic
      BY DEF JobState
    <2>3. \A j \in Job : job'[j].pc = "scan" =>
            ~Emptied /\ job'[j].rows = rules /\ \A t \in job'[j].seen : UpToDate(t, rules)'
      BY <1>1, <1>2, <2>1, <2>2 DEF HoldersCurrent, HoldsRules
    <2> QED
      BY <1>1, <1>3, <2>3 DEF HoldersCurrent, HoldsRules
  <1>5. \A t \in Topic : UpToDate(t, Target) => UpToDate(t, Target)'
    BY <1>2, IngestStepTopics
  <1> QED
    BY <1>1, <1>2, <1>4, <1>5

\* A step of a request or its worker leaves topics up to date that were, and the
\* topic a worker is done with is up to date.
LEMMA JobStepTopics ==
    ASSUME TypeInv, HoldersCurrent,
           NEW j \in Job, RequestReprocess(j) \/ JobStep(j) \/ LandWrite(j), NEW t \in Topic
    PROVE  /\ UpToDate(t, rules) => UpToDate(t, rules)'
           /\ UpToDate(t, Target) => UpToDate(t, Target)'
           /\ ScanTopic(j) /\ t \in job'[j].seen \ job[j].seen => UpToDate(t, rules)'
  <1> USE DEF TypeInv, TypeOK
  <1>1. rules' = rules /\ Target' = Target /\ ingest' = ingest
    BY DEF RequestReprocess, JobStep, LandWrite, CreateJob, SpawnWorker, SpawnFails, LoadRules,
       ScanTopic, ClearPending, Report, WriteDone, WorkerFails, adminVars, Target
  <1>2. CASE ScanTopic(j)
    <2> PICK u \in Topic \ job[j].seen :
           /\ job' = [job EXCEPT ![j].seen = @ \cup {u}]
           /\ \/ applied' = [applied EXCEPT ![u] = job[j].rows] /\ skipped' = skipped \ {u}
              \/ UNCHANGED applied /\ skipped' = skipped \cup {u}
      BY <1>2 DEF ScanTopic
    <2>1. job[j].rows = rules /\ Target = rules
      <3>1. job[j].pc = "scan"
        BY <1>2 DEF ScanTopic
      <3> QED
        BY <3>1, TargetIsRules DEF HoldersCurrent, HoldsRules
    <2>2. u \in skipped' \/ applied'[u] = rules
      BY <2>1
    <2>3. t # u => /\ applied'[t] = applied[t]
                   /\ t \in skipped => t \in skipped'
      OBVIOUS
    <2>4. job'[j].seen = job[j].seen \cup {u}
      BY DEF JobState
    <2> QED
      BY <1>1, <2>1, <2>2, <2>3, <2>4 DEF UpToDate, Ingesting
  <1>3. CASE ~ScanTopic(j)
    <2>1. applied' = applied /\ skipped' = skipped
      BY <1>3 DEF RequestReprocess, JobStep, LandWrite, CreateJob, SpawnWorker, SpawnFails, LoadRules,
         ClearPending, Report, WriteDone, WorkerFails
    <2> QED
      BY <1>1, <1>3, <2>1 DEF UpToDate, Ingesting
  <1> QED
    BY <1>2, <1>3

LEMMA JobKeepsDotInv ==
    ASSUME TypeInv, RaceInv, DotInv, NEW j \in Job, RequestReprocess(j) \/ JobStep(j) \/ LandWrite(j)
    PROVE  DotInv'
  <1> USE DEF TypeInv, TypeOK
  <1>1. /\ crashes' = crashes /\ rules' = rules /\ save' = save /\ ingest' = ingest
        /\ overtaken => overtaken'
        /\ pending' = pending \/ ClearPending(j)
    BY DEF RequestReprocess, JobStep, LandWrite, CreateJob, SpawnWorker, SpawnFails, LoadRules,
       ScanTopic, ClearPending, Report, WriteDone, WorkerFails, adminVars
  <1> SUFFICES ASSUME ~overtaken', crashes = 0
               PROVE  HoldersCurrent' /\ (DotLit' \/ \A t \in Topic : UpToDate(t, Target)')
    BY <1>1 DEF DotInv
  <1>2. HoldersCurrent /\ (DotLit \/ \A t \in Topic : UpToDate(t, Target))
    BY <1>1 DEF DotInv
  <1>3. Emptied' = Emptied
    BY <1>1 DEF Emptied
  <1>4. JobEdges(j) /\ JobShape(j) /\ job[j] \in JobState /\ job \in [Job -> JobState]
    BY StepsOnJob DEF RaceInv
  <1>5. \A k \in Job \ {j} : job'[k] = job[k]
    BY <1>4 DEF JobEdges
  <1>6. \A t \in Topic : /\ UpToDate(t, rules) => UpToDate(t, rules)'
                         /\ UpToDate(t, Target) => UpToDate(t, Target)'
                         /\ ScanTopic(j) /\ t \in job'[j].seen \ job[j].seen => UpToDate(t, rules)'
    BY <1>2, JobStepTopics
  <1>7. job'[j].pc = "scan" =>
          ~Emptied /\ job'[j].rows = rules /\ \A t \in job'[j].seen : UpToDate(t, rules)'
    <2>1. CASE LoadRules(j)
      <3>1. ~Emptied /\ job'[j].rows = rules /\ job'[j].seen = job[j].seen /\ job[j].pc = "load"
        BY <1>4, <2>1 DEF LoadRules, JobState
      <3> QED
        BY <1>4, <3>1 DEF JobShape
    <2>2. CASE ScanTopic(j)
      <3>1. /\ job[j].pc = "scan" /\ job'[j].rows = job[j].rows
            /\ job'[j].seen \subseteq Topic
        BY <1>4, <2>2 DEF ScanTopic, JobState
      <3>2. ~Emptied /\ job[j].rows = rules /\ \A t \in job[j].seen : UpToDate(t, rules)
        BY <1>2, <3>1 DEF HoldersCurrent, HoldsRules
      <3> QED
        BY <1>6, <2>2, <3>1, <3>2
    <2>3. CASE LandWrite(j)
      <3>1. job'[j].pc = job[j].pc /\ job'[j].rows = job[j].rows /\ job'[j].seen = job[j].seen
        <4> PICK w \in job[j].writes : job' = [job EXCEPT ![j].row = w, ![j].writes = @ \ {w}]
          BY <2>3 DEF LandWrite
        <4> QED
          BY <1>4 DEF JobState
      <3>2. job[j].seen \subseteq Topic
        BY <1>4 DEF JobState
      <3> QED
        BY <1>2, <1>6, <3>1, <3>2 DEF HoldersCurrent, HoldsRules
    <2>4. CASE ~LoadRules(j) /\ ~ScanTopic(j) /\ ~LandWrite(j)
      <3>1. job'[j].pc # "scan"
        BY <1>4, <2>4 DEF RequestReprocess, JobStep, CreateJob, SpawnWorker, SpawnFails,
           ClearPending, Report, WriteDone, WorkerFails, JobState
      <3> QED
        BY <3>1
    <2> QED
      BY <2>1, <2>2, <2>3, <2>4
  <1>8. HoldersCurrent'
    <2>1. \A k \in Job : job[k].seen \subseteq Topic
      BY DEF JobState
    <2>2. \A k \in Job : job'[k].pc = "scan" =>
            ~Emptied /\ job'[k].rows = rules /\ \A t \in job'[k].seen : UpToDate(t, rules)'
      BY <1>2, <1>5, <1>6, <1>7, <2>1 DEF HoldersCurrent, HoldsRules
    <2>3. HoldsRules' => ~Emptied'
      BY <1>1, <1>2, <1>3, <2>2 DEF HoldersCurrent, HoldsRules
    <2> QED
      BY <1>1, <1>2, <2>2, <2>3 DEF HoldersCurrent
  <1>9. DotLit' \/ \A t \in Topic : UpToDate(t, Target)'
    <2>1. CASE ClearPending(j)
      \* The worker is done with every topic, and nobody is replacing the list.
      <3>1. job[j].pc = "scan" /\ job[j].seen = Topic
        BY <2>1 DEF ClearPending
      <3>2. Target = rules /\ \A t \in Topic : UpToDate(t, rules)
        BY <1>2, <3>1, TargetIsRules DEF HoldersCurrent, HoldsRules
      <3> QED
        BY <1>6, <3>2
    <2>2. CASE pending' = pending
      BY <1>1, <1>2, <1>6, <2>2 DEF DotLit
    <2> QED
      BY <1>1, <2>1, <2>2
  <1> QED
    BY <1>8, <1>9

LEMMA NextDotInv == TypeInv /\ RaceInv /\ DotInv /\ [Next]_vars => DotInv'
  <1> SUFFICES ASSUME TypeInv, RaceInv, DotInv, [Next]_vars PROVE DotInv'
    OBVIOUS
  <1>1. CASE Crash
    <2>1. crashes \in 0..MaxCrashes /\ crashes' = crashes + 1
      BY <1>1 DEF Crash, TypeInv, TypeOK
    <2>2. crashes' # 0
      BY <2>1
    <2> QED
      BY <2>2 DEF DotInv
  <1>2. CASE ExpireCache \/ UNCHANGED vars
    BY <1>2 DEF ExpireCache, vars, adminVars, DotInv, HoldersCurrent, HoldsRules, Emptied, DotLit,
       Target, UpToDate, Ingesting
  <1> QED
    BY <1>1, <1>2, SaveKeepsDotInv, IngestKeepsDotInv, JobKeepsDotInv DEF Next

LEMMA DotInvIsHonest == DotInv => DotIsHonest
  <1> SUFFICES ASSUME DotInv, ~pending, ~Saving, ~overtaken, crashes = 0, NEW t \in Topic \ skipped
               PROVE  Ingesting(t) \/ applied[t] = rules
    BY DEF DotIsHonest
  <1>1. ~DotLit /\ Target = rules
    BY TargetIsRules DEF Saving, DotLit, Emptied
  <1> QED
    BY <1>1 DEF DotInv, UpToDate

\* When the dot is out, every topic was computed with the rules as they are, is
\* being written, or was counted as an error, for any number of rule changes,
\* ingests and reprocesses, unless somebody read rules that were changing.
THEOREM DotStaysHonest == Spec => []DotIsHonest
  BY InitTypeInv, InitDotInv, NextDotInv, RaceInvariant, DotInvIsHonest, PTL DEF Spec

=============================================================================
