------------------------------ MODULE PrettyUrls ------------------------------
(***************************************************************************)
(* Pretty URL templates and the URLs rendered from them (routes/prettyUrls,  *)
(* prettyUrlService, reprocessPrettyUrlsWorker): rows that are active or     *)
(* drafts, replaced by activate and save-and-activate in several writes; the *)
(* settings row with the pendingReprocess flag; the server's cache of the    *)
(* active set; ingests that render with the cache and workers that render    *)
(* with a set loaded once; the job rows, which decide whether a request      *)
(* starts a worker, and which worker and server both close.                  *)
(*                                                                         *)
(* A template is its body.  One document stands for all of them, and one     *)
(* topic for its topics.  A write of several rows is one step.  Left out:    *)
(* requirements (Fits says which bodies resolve), notes, progress messages,  *)
(* the configuration history.                                                *)
(***************************************************************************)
EXTENDS Naturals, FiniteSets, Sequences, SequencesExt

CONSTANTS
    DocBody, TopicBody, \* templates of either scope
    Fits,               \* bodies whose variables all resolve
    Nested,             \* topic bodies that contain the URL of the document
    Prio,               \* priorities
    MaxRows,            \* bound: rows ever inserted
    Request, Ingest, Worker,
    None,
    MaxCalls,           \* bound: requests of the admin page
    MaxEvents           \* bound: ingests, failures and crashes

Body == DocBody \cup TopicBody
Scope == {"document", "topic"}
State == {"active", "draft"}
ScopeOf(b) == IF b \in DocBody THEN "document" ELSE "topic"
Row == [state : State, body : Body, prio : Prio]
Id == 1..MaxRows
Runner == Ingest \cup Worker

VARIABLES
    row,     \* the PrettyUrlTemplate rows
    born,    \* ids given to rows so far
    cfg,     \* PrettyUrlConfig: the normalisation, and pendingReprocess
    cached,  \* activeCache of the server
    run,     \* calls of regenerateForDocument
    job,     \* PrettyUrlReprocessJob of each worker
    reply,   \* what the server has still to do about the end of a worker
    doc,     \* the URL of the document, and that of its topic
    req,     \* the program state of each request
    calls, events,
    missed   \* history: URLs were left behind without the flag

bounds == <<calls, events>>
vars == <<row, born, cfg, cached, run, job, reply, doc, req, bounds, missed>>

\* The set a runner has loaded: bodies in the order in which they are tried.
Set == [document : Seq(DocBody), topic : Seq(TopicBody), style : BOOLEAN]
NoSet == [document |-> <<>>, topic |-> <<>>, style |-> FALSE]
DocUrl == [body : DocBody, style : BOOLEAN]
TopicUrl == [body : TopicBody, style : BOOLEAN, under : {None} \cup DocUrl]
Url == [document : {None} \cup DocUrl, topic : {None} \cup TopicUrl]

\* left: queries of loadActiveSet not answered yet; found: the document's URL as
\* loaded; stale: the active set has changed since.
Run == [pc : {"idle", "load", "find", "save", "bulk", "job", "clear"}, left : SUBSET (Scope \cup {"style"}),
        set : Set, found : {None} \cup DocUrl, stale : BOOLEAN]
NoRun == [pc |-> "idle", left |-> {}, set |-> NoSet, found |-> None, stale |-> FALSE]

\* loaded: the row or settings in memory; new: what the request asks for;
\* goal: the rows it is to put into force; alone: no other request changed rows.
Call == [pc : {"patch", "mark", "config", "actives", "copy", "flip", "insert", "settings", "settled",
               "drop", "find", "spawn"},
         op : {"edit", "config", "reset", "activate", "save", "reprocess"}, id : Id,
         loaded : {None} \cup Row \cup [style : BOOLEAN, pending : BOOLEAN],
         new : {None} \cup Row, style : BOOLEAN, goal : SUBSET Row, alone : BOOLEAN]

ASSUME PrettyUrlAssumption ==
    /\ None \notin Body \cup Row \cup Call \cup DocUrl \cup TopicUrl
    /\ DocBody \cap TopicBody = {} /\ Fits \subseteq Body /\ Nested \subseteq TopicBody
    /\ Prio \subseteq Nat /\ 0 \in Prio
    /\ Ingest \cap Worker = {}
    /\ MaxRows \in Nat \ {0} /\ MaxCalls \in Nat /\ MaxEvents \in Nat

TypeOK ==
    /\ row \in [Id -> {None} \cup Row]
    /\ born \in 0..MaxRows
    /\ cfg \in [style : BOOLEAN, pending : BOOLEAN]
    /\ cached = None \/ cached \in Set
    /\ run \in [Runner -> Run]
    /\ job \in [Worker -> {"none", "running", "done", "failed"}]
    /\ reply \in [Worker -> {"none", "job", "clear", "drop"}]
    /\ doc \in Url
    /\ req \in [Request -> {None} \cup Call]
    /\ calls \in 0..MaxCalls /\ events \in 0..MaxEvents
    /\ missed \in BOOLEAN

Init ==
    /\ row = [i \in Id |-> None] /\ born = 0
    /\ cfg = [style |-> FALSE, pending |-> FALSE]
    /\ cached = None
    /\ run = [x \in Runner |-> NoRun]
    /\ job = [w \in Worker |-> "none"] /\ reply = [w \in Worker |-> "none"]
    /\ doc = [document |-> None, topic |-> None]
    /\ req = [r \in Request |-> None]
    /\ calls = 0 /\ events = 0 /\ missed = FALSE

-----------------------------------------------------------------------------
(* Templates and what is rendered from them                                *)

Exists(i) == row[i] # None
InState(s) == {i \in Id : Exists(i) /\ row[i].state = s}
Fresh(n) == born + n <= MaxRows

Section(s, scope) == {i \in InState(s) : ScopeOf(row[i].body) = scope}

\* Ids grow with createdAt, so they break ties.
Before(t, u) == \/ t.of.prio < u.of.prio
                \/ t.of.prio = u.of.prio /\ t.id < u.id
Sorted(S) == CHOOSE s \in SetToSeqs(S) : \A j, k \in DOMAIN s : j < k => Before(s[j], s[k])
Live(scope) ==
    LET order == Sorted({[id |-> i, of |-> row[i]] : i \in Section("active", scope)})
    IN  [k \in DOMAIN order |-> order[k].of.body]
ActiveSet == [document |-> Live("document"), topic |-> Live("topic"), style |-> cfg.style]

\* renderForDocument and renderForTopic: the first template that resolves.
Picked(bodies, url) ==
    LET k == SelectInSeq(bodies, LAMBDA b : b \in Fits /\ (b \in Nested => url # None))
    IN  IF k = 0 THEN None ELSE bodies[k]
DocumentUrl(set) ==
    LET b == Picked(set.document, None)
    IN  IF b = None THEN None ELSE [body |-> b, style |-> set.style]
TopicUrlUnder(set, url) ==
    LET b == Picked(set.topic, url)
    IN  IF b = None THEN None
        ELSE [body |-> b, style |-> set.style, under |-> IF b \in Nested THEN url ELSE None]
Follows(set) ==
    doc = [document |-> DocumentUrl(set), topic |-> TopicUrlUnder(set, DocumentUrl(set))]

-----------------------------------------------------------------------------
(* Requests                                                                *)

At(r, pc) == req[r] # None /\ req[r].pc = pc
Goto(r, pc) == req' = [req EXCEPT ![r].pc = pc]
Return(r) == req' = [req EXCEPT ![r] = None]
Begin(r) == req[r] = None /\ calls < MaxCalls /\ calls' = calls + 1 /\ UNCHANGED events
Fault == events < MaxEvents /\ events' = events + 1 /\ UNCHANGED calls
Start(pc, op) == [pc |-> pc, op |-> op, id |-> 1, loaded |-> None, new |-> None, style |-> FALSE,
                  goal |-> {}, alone |-> TRUE]

\* Request r goes on as c after it has changed rows that others may be replacing.
Touch(r, c) ==
    req' = [q \in Request |-> IF q = r THEN c
                              ELSE IF req[q] # None /\ req[q].op \in {"activate", "save"}
                              THEN [req[q] EXCEPT !.alone = FALSE] ELSE req[q]]

\* History: a set that a runner has begun to load is no longer the active one.
Running(x) == run[x].pc # "idle" \/ (x \in Worker /\ reply[x] # "none")
Overtake == run' = [x \in Runner |-> IF Running(x) /\ ActiveSet' # ActiveSet
                                     THEN [run[x] EXCEPT !.stale = TRUE] ELSE run[x]]

Apart == UNCHANGED <<cfg, cached, job, reply, doc, missed>>
Changed == Apart /\ Overtake
Untouched == UNCHANGED run /\ Apart

\* The page sends the place at the end of the section for a priority.
Create(r) ==
    /\ Begin(r) /\ Fresh(1)
    /\ \E s \in State, b \in Body :
          LET last == Cardinality(Section(s, ScopeOf(b)))
          IN  last \in Prio /\ row' = [row EXCEPT ![born + 1] = [state |-> s, body |-> b, prio |-> last]]
    /\ born' = born + 1
    /\ Touch(r, Start("mark", "edit"))
    /\ Changed

\* A request edits one field.
PatchFind(r) ==
    /\ Begin(r)
    /\ \E i \in Id, new \in Row :
          /\ Exists(i) /\ ScopeOf(new.body) = ScopeOf(row[i].body)
          /\ \E f \in DOMAIN new : new = [row[i] EXCEPT ![f] = new[f]]
          /\ req' = [req EXCEPT ![r] = [Start("patch", "edit") EXCEPT !.id = i, !.loaded = row[i], !.new = new]]
    /\ UNCHANGED <<row, born>> /\ Untouched

\* save() writes the fields that differ from the row as loaded, and fails when it
\* is gone.
Patched(old, c) ==
    [f \in DOMAIN old |-> IF c.new[f] # c.loaded[f] THEN c.new[f] ELSE old[f]]

PatchSave(r) ==
    LET c == req[r]
    IN  /\ At(r, "patch")
        /\ IF Exists(c.id)
           THEN /\ row' = [row EXCEPT ![c.id] = Patched(@, c)]
                /\ Touch(r, Start("mark", "edit"))
           ELSE Return(r) /\ UNCHANGED row
        /\ UNCHANGED <<born, bounds>> /\ Changed

Delete(r) ==
    /\ Begin(r)
    /\ \E i \in Id : Exists(i) /\ row' = [row EXCEPT ![i] = None]
    /\ Touch(r, Start("mark", "edit"))
    /\ UNCHANGED born /\ Changed

\* The page sends all ids of a section in their new order.
Reorder(r) ==
    /\ Begin(r)
    /\ \E s \in State, scope \in Scope :
          LET ids == Section(s, scope)
          IN  /\ Cardinality(ids) > 1
              /\ \E p \in [ids -> {n \in Prio : n < Cardinality(ids)}] :
                    /\ \A i, j \in ids : p[i] = p[j] => i = j
                    /\ row' = [i \in Id |-> IF i \in ids THEN [row[i] EXCEPT !.prio = p[i]] ELSE row[i]]
    /\ Touch(r, Start("mark", "edit"))
    /\ UNCHANGED born /\ Changed

\* markPendingReprocess.
Mark(r) ==
    /\ At(r, "mark")
    /\ cfg' = [cfg EXCEPT !.pending = TRUE]
    /\ Goto(r, "drop")
    /\ UNCHANGED <<row, born, cached, run, job, reply, doc, bounds, missed>>

\* invalidateCache: a load that is under way goes on, and will fill the cache.
Invalidate == cached' = None

Drop(r) ==
    /\ At(r, "drop")
    /\ Invalidate
    /\ IF req[r].op \in {"activate", "save"} THEN Goto(r, "find") ELSE Return(r)
    /\ UNCHANGED <<row, born, cfg, run, job, reply, doc, bounds, missed>>

ConfigFind(r) ==
    /\ Begin(r)
    /\ \E s \in BOOLEAN :
          req' = [req EXCEPT ![r] = [Start("config", "config") EXCEPT !.loaded = cfg, !.style = s]]
    /\ UNCHANGED <<row, born>> /\ Untouched

\* cfg.save() writes what differs from the settings as loaded: no flag when it was
\* set then, although a worker may have cleared it since.
\* Slip: the flag is left to the worker that is started next.
SettledUnmarked(c) ==
    [cfg EXCEPT !.style = IF c.style # c.loaded.style THEN c.style ELSE @]
Settled(c) ==
    [style |-> IF c.style # c.loaded.style THEN c.style ELSE cfg.style,
     pending |-> cfg.pending \/ ~c.loaded.pending]

SaveSettings(r) ==
    /\ req[r] # None /\ req[r].pc \in {"config", "settled"}
    /\ cfg' = Settled(req[r])
    /\ missed' = (missed \/ (req[r].loaded.pending /\ ~cfg.pending))
    /\ req' = [req EXCEPT ![r] = [@ EXCEPT !.pc = "drop", !.loaded = None, !.style = FALSE]]
    /\ UNCHANGED <<row, born, cached, job, reply, doc, bounds>>
    /\ Overtake

ResetDelete(r) ==
    /\ Begin(r)
    /\ row' = [i \in Id |-> IF i \in InState("draft") THEN None ELSE row[i]]
    /\ Touch(r, Start("actives", "reset"))
    /\ UNCHANGED born /\ Changed

ResetFind(r) ==
    /\ At(r, "actives")
    /\ req' = [req EXCEPT ![r].pc = "insert",
                          ![r].goal = {[row[i] EXCEPT !.state = "draft"] : i \in InState("active")}]
    /\ UNCHANGED <<row, born, bounds>> /\ Untouched

\* What a section holds that an activate puts into force.
Promoted == {[row[i] EXCEPT !.state = "active"] : i \in InState("draft")}

\* Slip: the drafts are promoted first.
PromoteFirst == [i \in Id |-> IF i \in InState("draft") THEN [row[i] EXCEPT !.state = "active"] ELSE row[i]]
ClearActive == [i \in Id |-> IF i \in InState("active") THEN None ELSE row[i]]

ActivateDelete(r) ==
    /\ Begin(r)
    /\ row' = ClearActive
    /\ Touch(r, [Start("flip", "activate") EXCEPT !.goal = Promoted])
    /\ UNCHANGED born /\ Changed

ActivateFlip(r) ==
    /\ At(r, "flip")
    /\ row' = [i \in Id |-> IF i \in InState("draft") THEN [row[i] EXCEPT !.state = "active"] ELSE row[i]]
    /\ Touch(r, [req[r] EXCEPT !.pc = "settings"])
    /\ UNCHANGED <<born, bounds>> /\ Changed

\* save-and-activate replaces drafts and actives by the two lists of the page,
\* with their indexes for priorities.
Listed(rows) ==
    \A scope \in Scope :
        LET mine == {w \in rows : ScopeOf(w.body) = scope}
        IN  {w.prio : w \in mine} = 0..(Cardinality(mine) - 1)
Payload == {rows \in SUBSET [state : {"active"}, body : Body, prio : Prio] :
                IsFiniteSet(rows) /\ Listed(rows)}

SaveDelete(r) ==
    /\ Begin(r)
    /\ \E goal \in Payload, s \in BOOLEAN :
          /\ Fresh(Cardinality(goal))
          /\ Touch(r, [Start("insert", "save") EXCEPT !.goal = goal, !.style = s])
    /\ row' = [i \in Id |-> None]
    /\ UNCHANGED born /\ Changed

\* insertMany, of a reset or a save.
Insert(r) ==
    LET goal == req[r].goal
        new == SetToSeq(goal)
    IN  /\ At(r, "insert") /\ Fresh(Len(new))
        /\ row' = [i \in Id |-> IF i - born \in DOMAIN new THEN new[i - born] ELSE row[i]]
        /\ born' = born + Len(new)
        /\ Touch(r, IF req[r].op = "reset" THEN Start("drop", "reset") ELSE [req[r] EXCEPT !.pc = "settings"])
        /\ UNCHANGED bounds /\ Changed

FindSettings(r) ==
    /\ At(r, "settings")
    /\ req' = [req EXCEPT ![r].pc = "settled", ![r].loaded = cfg,
                          ![r].style = IF req[r].op = "activate" THEN cfg.style ELSE @]
    /\ UNCHANGED <<row, born, bounds>> /\ Untouched

\* queueReprocessJob: a job that has not ended answers for this request too.
Reprocess(r) ==
    /\ Begin(r)
    /\ req' = [req EXCEPT ![r] = Start("find", "reprocess")]
    /\ UNCHANGED <<row, born>> /\ Untouched

FindJob(r) ==
    /\ At(r, "find")
    /\ IF \E w \in Worker : job[w] = "running" THEN Return(r) ELSE Goto(r, "spawn")
    /\ UNCHANGED <<row, born, bounds>> /\ Untouched

Spawn(r) ==
    /\ At(r, "spawn")
    /\ \E w \in Worker :
          /\ job[w] # "running" /\ run[w].pc = "idle" /\ reply[w] = "none"
          /\ job' = [job EXCEPT ![w] = "running"]
          /\ run' = [run EXCEPT ![w] = [NoRun EXCEPT !.pc = "load", !.left = Scope \cup {"style"}]]
    /\ Return(r)
    /\ UNCHANGED <<row, born, cfg, cached, reply, doc, bounds, missed>>

\* A database call of a request fails: it ends with what it has done so far.
Unmarked(r) == \/ req[r] # None /\ req[r].pc \in {"mark", "flip", "settings", "settled"}
               \/ At(r, "insert") /\ req[r].op = "save"

Fail(r) ==
    /\ req[r] # None /\ req[r].pc # "drop" /\ Fault
    /\ Return(r)
    /\ missed' = (missed \/ Unmarked(r))
    /\ UNCHANGED <<row, born, cfg, cached, run, job, reply, doc>>

-----------------------------------------------------------------------------
(* Rendering                                                               *)

\* A stale set is written while the flag is out, or while a worker that may have
\* passed the document is going to take it in.
Leaves(x) == run[x].stale /\ (~cfg.pending \/ \E w \in Worker : Running(w))

IngestStart(i) ==
    /\ run[i].pc = "idle" /\ Fault
    /\ run' = [run EXCEPT ![i] = IF cached # None
                                 THEN [NoRun EXCEPT !.pc = "find", !.set = cached, !.stale = cached # ActiveSet]
                                 ELSE [NoRun EXCEPT !.pc = "load", !.left = Scope \cup {"style"}]]
    /\ UNCHANGED <<row, born, cfg, cached, job, reply, doc, req, missed>>

\* Promise.all: three queries whose answers come in any order.
ReadPart(x) ==
    /\ run[x].pc = "load"
    /\ \E p \in run[x].left :
          run' = [run EXCEPT ![x].left = @ \ {p}, ![x].set[p] = ActiveSet[p]]
    /\ UNCHANGED <<row, born, cfg, cached, job, reply, doc, req, bounds, missed>>

\* The set is stored even when the cache was invalidated meanwhile.  A worker has
\* a cache of its own, which it does not use again.
Loaded(x) ==
    /\ run[x].pc = "load" /\ run[x].left = {}
    /\ run' = [run EXCEPT ![x].pc = "find"]
    /\ IF x \in Ingest THEN cached' = run[x].set ELSE UNCHANGED cached
    /\ UNCHANGED <<row, born, cfg, job, reply, doc, req, bounds, missed>>

FindDocument(x) ==
    /\ run[x].pc = "find"
    /\ run' = [run EXCEPT ![x].pc = "save", ![x].found = doc.document]
    /\ UNCHANGED <<row, born, cfg, cached, job, reply, doc, req, bounds, missed>>

\* save() writes the URL only if it differs from the one loaded.
SaveDocument(x) ==
    LET url == DocumentUrl(run[x].set)
    IN  /\ run[x].pc = "save"
        /\ doc' = [doc EXCEPT !.document = IF url # run[x].found THEN url ELSE @]
        /\ missed' = (missed \/ Leaves(x))
        /\ run' = [run EXCEPT ![x].pc = "bulk"]
        /\ UNCHANGED <<row, born, cfg, cached, job, reply, req, bounds>>

\* The topics were rendered before the URL of the document was replaced.
After(x) == IF x \in Worker THEN [run[x] EXCEPT !.pc = "job", !.found = None] ELSE NoRun
Answer(x) == reply' = [w \in Worker |-> IF w = x THEN "job" ELSE reply[w]]

WriteTopics(x) ==
    /\ run[x].pc = "bulk"
    /\ doc' = [doc EXCEPT !.topic = TopicUrlUnder(run[x].set, run[x].found)]
    /\ missed' = (missed \/ Leaves(x))
    /\ run' = [run EXCEPT ![x] = After(x)]
    /\ Answer(x)
    /\ UNCHANGED <<row, born, cfg, cached, job, req, bounds>>

\* The error of one document is logged and counted, and the run goes on.
DocumentFails(x) ==
    /\ run[x].pc \in {"find", "save", "bulk"} /\ Fault
    /\ missed' = TRUE
    /\ run' = [run EXCEPT ![x] = After(x)]
    /\ Answer(x)
    /\ UNCHANGED <<row, born, cfg, cached, job, doc, req>>

\* The worker closes its job and clears the flag, whatever was set meanwhile.
WorkerJob(w) ==
    /\ run[w].pc = "job"
    /\ job' = [job EXCEPT ![w] = "done"]
    /\ run' = [run EXCEPT ![w].pc = "clear"]
    /\ UNCHANGED <<row, born, cfg, cached, reply, doc, req, bounds, missed>>

WorkerClear(w) ==
    /\ run[w].pc = "clear"
    /\ cfg' = [cfg EXCEPT !.pending = FALSE]
    /\ missed' = (missed \/ run[w].stale)
    /\ run' = [run EXCEPT ![w] = IF reply[w] = "none" THEN NoRun ELSE [@ EXCEPT !.pc = "idle"]]
    /\ UNCHANGED <<row, born, cached, job, reply, doc, req, bounds>>

\* The server does the same when the worker's message arrives.
ServerJob(w) ==
    /\ reply[w] = "job"
    /\ job' = [job EXCEPT ![w] = "done"]
    /\ reply' = [reply EXCEPT ![w] = "clear"]
    /\ UNCHANGED <<row, born, cfg, cached, run, doc, req, bounds, missed>>

ServerClear(w) ==
    /\ reply[w] = "clear"
    /\ cfg' = [cfg EXCEPT !.pending = FALSE]
    /\ missed' = (missed \/ run[w].stale)
    /\ reply' = [reply EXCEPT ![w] = "drop"]
    /\ UNCHANGED <<row, born, cached, run, job, doc, req, bounds>>

ServerDrop(w) ==
    /\ reply[w] = "drop"
    /\ Invalidate
    /\ reply' = [reply EXCEPT ![w] = "none"]
    /\ run' = [run EXCEPT ![w] = IF @.pc = "idle" THEN NoRun ELSE @]
    /\ UNCHANGED <<row, born, cfg, job, doc, req, bounds, missed>>

\* The templates cannot be loaded: the job fails and the flag stays.
WorkerFails(w) ==
    /\ run[w].pc = "load" /\ Fault
    /\ run' = [run EXCEPT ![w] = NoRun]
    /\ job' = [job EXCEPT ![w] = "failed"]
    /\ UNCHANGED <<row, born, cfg, cached, reply, doc, req, missed>>

\* The time to live of the cache ends.
Expire ==
    /\ cached # None
    /\ cached' = None
    /\ UNCHANGED <<row, born, cfg, run, job, reply, doc, req, bounds, missed>>

\* The workers are threads of the server.  Their jobs stay running.
Crash ==
    /\ Fault
    /\ req' = [r \in Request |-> None]
    /\ run' = [x \in Runner |-> NoRun]
    /\ reply' = [w \in Worker |-> "none"]
    /\ cached' = None
    /\ missed' = (missed \/ \E r \in Request : Unmarked(r))
    /\ UNCHANGED <<row, born, cfg, job, doc>>

Next ==
    \/ \E r \in Request :
          \/ Create(r) \/ PatchFind(r) \/ PatchSave(r) \/ Delete(r) \/ Reorder(r)
          \/ Mark(r) \/ Drop(r) \/ ConfigFind(r) \/ SaveSettings(r)
          \/ ResetDelete(r) \/ ResetFind(r) \/ Insert(r)
          \/ ActivateDelete(r) \/ ActivateFlip(r) \/ SaveDelete(r) \/ FindSettings(r)
          \/ Reprocess(r) \/ FindJob(r) \/ Spawn(r) \/ Fail(r)
    \/ \E i \in Ingest : IngestStart(i)
    \/ \E x \in Runner :
          \/ ReadPart(x) \/ Loaded(x) \/ FindDocument(x) \/ SaveDocument(x) \/ WriteTopics(x)
          \/ DocumentFails(x)
    \/ \E w \in Worker :
          \/ WorkerJob(w) \/ WorkerClear(w) \/ WorkerFails(w)
          \/ ServerJob(w) \/ ServerClear(w) \/ ServerDrop(w)
    \/ Expire \/ Crash

Spec == Init /\ [][Next]_vars

-----------------------------------------------------------------------------
(* Properties                                                              *)

Quiet == /\ \A r \in Request : req[r] = None
         /\ \A x \in Runner : run[x].pc = "idle"
         /\ \A w \in Worker : reply[w] = "none"

\* Invariant.  When nothing is under way and pendingReprocess is out, the URLs are
\* those of the active templates, unless a change overtook a run or a render.
PendingIsHonest == Quiet /\ ~cfg.pending /\ ~missed => Follows(ActiveSet)

\* Invariant.  An activate or a save that nobody interfered with has put into force
\* just what it was asked to by the time it calls for a reprocess.
ActivatedIsLive ==
    \A r \in Request : At(r, "find") /\ req[r].op \in {"activate", "save"} /\ req[r].alone =>
        {row[i] : i \in InState("active")} = req[r].goal
=============================================================================
