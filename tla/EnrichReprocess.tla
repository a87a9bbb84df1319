--------------------------- MODULE EnrichReprocess ---------------------------
(***************************************************************************)
(* The enrich-and-clean rules of the knowledge hub, and how they reach the *)
(* topics: rules are saved by admins (services/enrich/enrichService.js),   *)
(* applied to new content by ingests through a cache in the server         *)
(* process, and applied to all content by the reprocess worker             *)
(* (workers/reprocessEnrichCleanWorker.js), which a request to             *)
(* routes/enrichRules.js starts.  EnrichConfig.pendingReprocess, the dot   *)
(* next to the Reprocess button, tells whether topics lag behind the rules.*)
(*                                                                         *)
(* Rules are the enabled ones of scope 'all'; what a rule does to a value  *)
(* is abstracted to the set of rules a topic was last computed with.  The  *)
(* worker is a thread with a module cache of its own, so it reads the      *)
(* rules from the database.                                                *)
(***************************************************************************)
EXTENDS Naturals

CONSTANTS
    Topic,       \* topics
    Save,        \* requests that change rules; also the rule such a request writes
    Initial,     \* rules in the table at the start
    Job,         \* reprocess requests; also the job such a request creates
    Ingest,      \* ingests that write a topic
    None,        \* no topic, no load in flight
    MaxCrashes   \* bound: crashes of the server process

ASSUME EnrichAssumption ==
    /\ None \notin Topic \cup Ingest
    /\ Save \cap Initial = {}
    /\ MaxCrashes \in Nat

VARIABLES
    rules,     \* the EnrichRule collection
    pending,   \* EnrichConfig.pendingReprocess
    applied,   \* the rules each topic's metadata.custom was computed with
    skipped,   \* topics whose last computation failed; they are only counted
    save,      \* the program state of each rule change
    cached,    \* cachedRules of the server process: no list, or one
    inflight,  \* the ingest whose load `inflight` is
    ingest,    \* the program state of each ingest
    job,       \* the program state of each reprocess request, its worker and its row
    overtaken, \* history: somebody read rules that a save was still changing,
               \* or that changed before that reader was finished
    raced,     \* history: jobs created since a request looked for one
    crashes    \* number of crashes so far

adminVars == <<rules, pending, save>>
cacheVars == <<cached, inflight>>
vars == <<adminVars, cacheVars, applied, skipped, ingest, job, overtaken, raced, crashes>>

-----------------------------------------------------------------------------
(* State                                                                   *)

RuleSets == SUBSET (Save \cup Initial)

\* before: beforeRows; put: the change is a replacement of the whole list.
SaveState == [pc     : {"idle", "delete", "insert", "flip", "bump", "done"},
              before : RuleSets,
              put    : BOOLEAN]

IngestState == [pc    : {"idle", "load", "query", "wait", "fill", "apply", "done"},
                topic : Topic \cup {None},
                load  : Ingest \cup {None},
                rows  : RuleSets]

\* row: the status of the job row, "none" before it is created; writes: updates
\* of it the server has sent and not waited for; seen: topics the worker is done
\* with.
JobState == [pc     : {"idle", "create", "spawn", "load", "scan", "report", "write", "done"},
             row    : {"none", "queued", "running", "done", "failed"},
             writes : SUBSET {"running", "done", "failed"},
             rows   : RuleSets,
             seen   : SUBSET Topic]

TypeOK ==
    /\ rules \in RuleSets
    /\ pending \in BOOLEAN
    /\ applied \in [Topic -> RuleSets]
    /\ skipped \subseteq Topic
    /\ save \in [Save -> SaveState]
    /\ cached \subseteq RuleSets
    /\ inflight \in Ingest \cup {None}
    /\ ingest \in [Ingest -> IngestState]
    /\ job \in [Job -> JobState]
    /\ overtaken \in BOOLEAN
    /\ raced \in [Job -> SUBSET Job]
    /\ crashes \in 0..MaxCrashes

NewSave == [pc |-> "idle", before |-> {}, put |-> FALSE]
NewIngest == [pc |-> "idle", topic |-> None, load |-> None, rows |-> {}]
EndedSave(s) == [save[s] EXCEPT !.pc = "done", !.before = {}]
EndedIngest == [NewIngest EXCEPT !.pc = "done"]
NewJob == [pc |-> "idle", row |-> "none", writes |-> {}, rows |-> {}, seen |-> {}]

Init ==
    /\ rules = Initial
    /\ pending = FALSE
    /\ applied = [t \in Topic |-> Initial]
    /\ skipped = {}
    /\ save = [s \in Save |-> NewSave]
    /\ cached = {}
    /\ inflight = None
    /\ ingest = [i \in Ingest |-> NewIngest]
    /\ job = [j \in Job |-> NewJob]
    /\ overtaken = FALSE
    /\ raced = [j \in Job |-> {}]
    /\ crashes = 0

-----------------------------------------------------------------------------
(* Rule changes                                                            *)

\* A worker or an ingest has read the rules and not yet finished with them.
HoldsRules ==
    \/ \E j \in Job : job[j].pc = "scan"
    \/ \E i \in Ingest : ingest[i].pc \in {"fill", "apply"}

\* A list is being replaced: the table is empty for the moment.
Emptied == \E s \in Save : save[s].pc = "insert"

WriteRules(new) ==
    /\ rules' = new
    /\ overtaken' = (overtaken \/ HoldsRules)

\* createRule, updateRule and deleteRule: one write, then flip and bump.
ChangeRule(s, new) ==
    /\ save[s].pc = "idle"
    /\ WriteRules(new)
    /\ save' = [save EXCEPT ![s].pc = "flip"]
    /\ UNCHANGED <<pending, cacheVars, applied, skipped, ingest, job, raced, crashes>>

CreateRule(s) == ChangeRule(s, rules \cup {s})

\* Also disabling, enabling and a change of scope: before or after is 'all'.
UpdateRule(s) == \E r \in rules : ChangeRule(s, (rules \ {r}) \cup {s})

\* Slip: only what a rule becomes is looked at, not what it was.
DeleteRuleQuietly(s) ==
    /\ save[s].pc = "idle"
    /\ \E r \in rules : WriteRules(rules \ {r})
    /\ save' = [save EXCEPT ![s].pc = "bump"]
    /\ UNCHANGED <<pending, cacheVars, applied, skipped, ingest, job, raced, crashes>>

DeleteRule(s) == \E r \in rules : ChangeRule(s, rules \ {r})

\* replaceAllRules: the snapshot, then delete all, then insert all.
PutSnapshot(s) ==
    /\ save[s].pc = "idle"
    /\ save' = [save EXCEPT ![s] = [pc |-> "delete", before |-> rules, put |-> TRUE]]
    /\ UNCHANGED <<rules, pending, cacheVars, applied, skipped, ingest, job, overtaken, raced, crashes>>

PutDelete(s) ==
    /\ save[s].pc = "delete"
    /\ rules' = {}
    /\ overtaken' = (overtaken \/ HoldsRules \/ rules # save[s].before)
    /\ save' = [save EXCEPT ![s].pc = "insert"]
    /\ UNCHANGED <<pending, cacheVars, applied, skipped, ingest, job, raced, crashes>>

\* batchTouchesScopeAll: no inserted row is given its _id, so any is a new one.
PutInsert(s) ==
    /\ save[s].pc = "insert"
    /\ \E list \in {{}, {s}} :
         /\ WriteRules(rules \cup list)
         /\ save' = [save EXCEPT ![s].pc = IF save[s].before # {} \/ list # {}
                                           THEN "flip" ELSE "bump"]
    /\ UNCHANGED <<pending, cacheVars, applied, skipped, ingest, job, raced, crashes>>

\* The insert throws: the snapshot is put back, and that is all.
PutFails(s) ==
    /\ save[s].pc = "insert"
    /\ WriteRules(rules \cup save[s].before)
    /\ save' = [save EXCEPT ![s] = EndedSave(s)]
    /\ UNCHANGED <<pending, cacheVars, applied, skipped, ingest, job, raced, crashes>>

FlipPending(s) ==
    /\ save[s].pc = "flip"
    /\ pending' = TRUE
    /\ save' = [save EXCEPT ![s].pc = "bump"]
    /\ UNCHANGED <<rules, cacheVars, applied, skipped, ingest, job, overtaken, raced, crashes>>

BumpRuleCache(s) ==
    /\ save[s].pc = "bump"
    /\ cached' = {}
    /\ inflight' = None
    /\ save' = [save EXCEPT ![s] = EndedSave(s)]
    /\ UNCHANGED <<rules, pending, applied, skipped, ingest, job, overtaken, raced, crashes>>

-----------------------------------------------------------------------------
(* Ingests and the rule cache                                              *)

\* An ingest writes a topic with its raw values; nothing is computed yet.
StartIngest(i) ==
    /\ ingest[i].pc = "idle"
    /\ \E t \in Topic :
         /\ ingest' = [ingest EXCEPT ![i].pc = "load", ![i].topic = t]
         /\ applied' = [applied EXCEPT ![t] = {}]
    /\ UNCHANGED <<adminVars, cacheVars, skipped, job, overtaken, raced, crashes>>

\* getActiveRulesCached: the cached list, or the load in flight, or a new load.
ReadCache(i) ==
    /\ ingest[i].pc = "load"
    /\ \/ \E list \in cached :
            /\ ingest' = [ingest EXCEPT ![i].pc = "apply", ![i].rows = list]
            /\ overtaken' = (overtaken \/ list # rules \/ Emptied)
            /\ UNCHANGED inflight
       \/ /\ cached = {} /\ inflight # None
          /\ ingest' = [ingest EXCEPT ![i].pc = "wait", ![i].load = inflight]
          /\ UNCHANGED <<inflight, overtaken>>
       \/ /\ cached = {} /\ inflight = None
          /\ ingest' = [ingest EXCEPT ![i].pc = "query"]
          /\ inflight' = i
          /\ UNCHANGED overtaken
    /\ UNCHANGED <<adminVars, cached, applied, skipped, job, raced, crashes>>

QueryRules(i) ==
    /\ ingest[i].pc = "query"
    /\ ingest' = [ingest EXCEPT ![i].pc = "fill", ![i].rows = rules]
    /\ overtaken' = (overtaken \/ Emptied)
    /\ UNCHANGED <<adminVars, cacheVars, applied, skipped, job, raced, crashes>>

\* The query's answer: into the cache and to everybody who awaits this load.
FillCache(i) ==
    /\ ingest[i].pc = "fill"
    /\ cached' = {ingest[i].rows}
    /\ inflight' = None
    /\ ingest' = [k \in Ingest |->
                    IF k = i \/ (ingest[k].pc = "wait" /\ ingest[k].load = i)
                    THEN [ingest[k] EXCEPT !.pc = "apply", !.rows = ingest[i].rows]
                    ELSE ingest[k]]
    /\ UNCHANGED <<adminVars, applied, skipped, job, overtaken, raced, crashes>>

\* reprojectTopicsForDocument; an error in a topic is counted and forgotten.
ApplyRules(i) ==
    LET t == ingest[i].topic IN
    /\ ingest[i].pc = "apply"
    /\ \/ applied' = [applied EXCEPT ![t] = ingest[i].rows] /\ skipped' = skipped \ {t}
       \/ UNCHANGED applied /\ skipped' = skipped \cup {t}
    /\ ingest' = [ingest EXCEPT ![i] = EndedIngest]
    /\ UNCHANGED <<adminVars, cacheVars, job, overtaken, raced, crashes>>

\* The cached list is 30 seconds old.
ExpireCache ==
    /\ cached # {}
    /\ cached' = {}
    /\ UNCHANGED <<adminVars, inflight, applied, skipped, ingest, job, overtaken, raced, crashes>>

-----------------------------------------------------------------------------
(* Reprocess requests, the worker and the job row                          *)

Unsettled(j) == job[j].row \in {"queued", "running"}

\* Slip: a job that is still queued is not seen.
RequestIfNoneRuns(j) ==
    /\ job[j].pc = "idle"
    /\ \A k \in Job : job[k].row # "running"
    /\ job' = [job EXCEPT ![j].pc = "create"]
    /\ UNCHANGED <<adminVars, cacheVars, applied, skipped, ingest, overtaken, raced, crashes>>

\* POST /reprocess looks for a job; if there is one, the request returns it.
RequestReprocess(j) ==
    /\ job[j].pc = "idle"
    /\ \A k \in Job : ~Unsettled(k)
    /\ job' = [job EXCEPT ![j].pc = "create"]
    /\ UNCHANGED <<adminVars, cacheVars, applied, skipped, ingest, overtaken, raced, crashes>>

\* It counts topics, reads the rules for the record, and creates the row.
CreateJob(j) ==
    /\ job[j].pc = "create"
    /\ job' = [job EXCEPT ![j].pc = "spawn", ![j].row = "queued"]
    /\ raced' = [k \in Job |-> IF job[k].pc = "create" /\ k # j THEN raced[k] \cup {j} ELSE raced[k]]
    /\ UNCHANGED <<adminVars, cacheVars, applied, skipped, ingest, overtaken, crashes>>

\* spawnReprocessWorker: the update to running is sent, not awaited.
SpawnWorker(j) ==
    /\ job[j].pc = "spawn"
    /\ job' = [job EXCEPT ![j].pc = "load", ![j].writes = @ \cup {"running"}]
    /\ UNCHANGED <<adminVars, cacheVars, applied, skipped, ingest, overtaken, raced, crashes>>

SpawnFails(j) ==
    /\ job[j].pc = "spawn"
    /\ job' = [job EXCEPT ![j].pc = "done", ![j].rows = {}, ![j].seen = {},
                          ![j].writes = @ \cup {"failed"}]
    /\ UNCHANGED <<adminVars, cacheVars, applied, skipped, ingest, overtaken, raced, crashes>>

\* An update the server sent takes effect; those in flight are in no order.
LandWrite(j) ==
    /\ \E w \in job[j].writes :
         job' = [job EXCEPT ![j].row = w, ![j].writes = @ \ {w}]
    /\ UNCHANGED <<adminVars, cacheVars, applied, skipped, ingest, overtaken, raced, crashes>>

\* The worker connects and reads the rules, once.
LoadRules(j) ==
    /\ job[j].pc = "load"
    /\ job' = [job EXCEPT ![j].pc = "scan", ![j].rows = rules]
    /\ overtaken' = (overtaken \/ Emptied)
    /\ UNCHANGED <<adminVars, cacheVars, applied, skipped, ingest, raced, crashes>>

ScanTopic(j) ==
    /\ job[j].pc = "scan"
    /\ \E t \in Topic \ job[j].seen :
         /\ job' = [job EXCEPT ![j].seen = @ \cup {t}]
         /\ \/ applied' = [applied EXCEPT ![t] = job[j].rows] /\ skipped' = skipped \ {t}
            \/ UNCHANGED applied /\ skipped' = skipped \cup {t}
    /\ UNCHANGED <<adminVars, cacheVars, ingest, overtaken, raced, crashes>>

\* Every topic is done: the dot goes out.
ClearPending(j) ==
    /\ job[j].pc = "scan"
    /\ job[j].seen = Topic
    /\ pending' = FALSE
    /\ job' = [job EXCEPT ![j].pc = "report", ![j].rows = {}, ![j].seen = {}]
    /\ UNCHANGED <<rules, save, cacheVars, applied, skipped, ingest, overtaken, raced, crashes>>

\* The worker posts its result, on which the server sends an update ...
Report(j) ==
    /\ job[j].pc = "report"
    /\ job' = [job EXCEPT ![j].pc = "write", ![j].writes = @ \cup {"done"}]
    /\ UNCHANGED <<adminVars, cacheVars, applied, skipped, ingest, overtaken, raced, crashes>>

\* ... and writes it itself too.
WriteDone(j) ==
    /\ job[j].pc = "write"
    /\ job' = [job EXCEPT ![j].pc = "done", ![j].row = "done"]
    /\ UNCHANGED <<adminVars, cacheVars, applied, skipped, ingest, overtaken, raced, crashes>>

\* The worker cannot connect, read the rules or walk the topics, or it dies: an
\* error message, an error event or an exit code, each of which fails the row.
WorkerFails(j) ==
    /\ job[j].pc \in {"load", "scan", "report"}
    /\ job' = [job EXCEPT ![j].pc = "done", ![j].rows = {}, ![j].seen = {},
                          ![j].writes = @ \cup {"failed"}]
    /\ UNCHANGED <<adminVars, cacheVars, applied, skipped, ingest, overtaken, raced, crashes>>

-----------------------------------------------------------------------------
(* The server process dies, its worker threads and updates in flight with it. *)
Crash ==
    /\ crashes < MaxCrashes
    /\ crashes' = crashes + 1
    /\ cached' = {}
    /\ inflight' = None
    /\ save' = [s \in Save |-> IF save[s].pc = "idle" THEN save[s] ELSE EndedSave(s)]
    /\ ingest' = [i \in Ingest |-> IF ingest[i].pc = "idle" THEN ingest[i]
                                   ELSE EndedIngest]
    /\ job' = [j \in Job |-> IF job[j].pc = "idle" THEN job[j]
                             ELSE [NewJob EXCEPT !.pc = "done", !.row = job[j].row]]
    /\ UNCHANGED <<rules, pending, applied, skipped, overtaken, raced>>

\* What admins and publishers start.
SaveStart(s) == CreateRule(s) \/ UpdateRule(s) \/ DeleteRule(s) \/ PutSnapshot(s)

\* What goes on by itself once started.
SaveStep(s) == PutDelete(s) \/ PutInsert(s) \/ PutFails(s) \/ FlipPending(s) \/ BumpRuleCache(s)

IngestStep(i) == ReadCache(i) \/ QueryRules(i) \/ FillCache(i) \/ ApplyRules(i)

JobStep(j) ==
    \/ CreateJob(j) \/ SpawnWorker(j) \/ SpawnFails(j)
    \/ LoadRules(j) \/ ScanTopic(j) \/ ClearPending(j) \/ Report(j) \/ WriteDone(j)
    \/ WorkerFails(j)

Next ==
    \/ \E s \in Save : SaveStart(s) \/ SaveStep(s)
    \/ \E i \in Ingest : StartIngest(i) \/ IngestStep(i)
    \/ \E j \in Job : RequestReprocess(j) \/ JobStep(j) \/ LandWrite(j)
    \/ ExpireCache
    \/ Crash

Spec == Init /\ [][Next]_vars

-----------------------------------------------------------------------------
(* Safety                                                                  *)

\* A save has changed the rules and not yet lit the dot.
Saving == \E s \in Save : save[s].pc \in {"insert", "flip"}

Ingesting(t) == \E i \in Ingest : ingest[i].topic = t /\ ingest[i].pc # "done"

\* The dot is honest: when it is out, every topic was computed with the rules as
\* they are, or was counted as an error.  This holds however saves, reprocesses
\* and ingests overlap, as long as nobody read rules that a save was replacing
\* or that changed before the reader was finished, and the server did not crash.
DotIsHonest ==
    ~pending /\ ~Saving /\ ~overtaken /\ crashes = 0 =>
        \A t \in Topic \ skipped : Ingesting(t) \/ applied[t] = rules

Working(j) == job[j].pc \in {"load", "scan", "report"}

\* Two workers run at once only when the second of their requests looked for a
\* job before the first had created its own: the row of a job says queued or
\* running for as long as its worker is at work, whatever writes are in flight.
OneWorkerUnlessRaced ==
    \A j, k \in Job : Working(j) /\ Working(k) /\ j # k => j \in raced[k] \/ k \in raced[j]
=============================================================================
