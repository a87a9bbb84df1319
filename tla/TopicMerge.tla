------------------------------ MODULE TopicMerge ------------------------------
(***************************************************************************)
(* The topics of a document and how a published zip is merged into them     *)
(* (services/ingestion/diffIngest.js), the post-passes that rewrite links   *)
(* and pretty URLs (ingestZipForTarget in ingestionService.js,              *)
(* prettyUrlService.js), and the deletion of a document.                    *)
(*                                                                         *)
(* A candidate of a zip is matched with an existing topic by its stable id. *)
(* The merge reads the existing topics once and then writes in passes, each *)
(* of several round trips; merges of other documents, a deletion and the    *)
(* end of the process fall between them.  Merges of one document exclude    *)
(* each other (PublishingProofs).                                           *)
(*                                                                         *)
(* text stands for everything contentHash covers: html, text, custom        *)
(* metadata, order and level.  The title, the slug and the parent are not    *)
(* among these.                                                            *)
(***************************************************************************)
EXTENDS Naturals, Sequences, FiniteSets, SequencesExt

CONSTANTS
    Doc,         \* documents
    Sid,         \* stable ids of topics
    Text,        \* contents, which contentHash tells apart
    Title,       \* titles; one of a topic's two slugs and its URL derive from it
    Upload,      \* zips: [paligo, cands]
    UrlOf,       \* the URL that the active templates give a title
    None,        \* no stable id, no parent, no link
    MaxTopics,   \* bound: topics ever inserted
    MaxMerges,   \* bound: merges started
    MaxFaults    \* bound: failed writes and crashes

Candidate == [sid : Sid, text : Text, title : Title, parent : Sid \cup {None}, link : Sid \cup {None}]

\* None is told from what it stands beside: a stable id, an id, and what a merge
\* wants of each topic (Asked).
ASSUME TopicAssumption ==
    /\ None \notin Sid \cup 1..MaxTopics \cup [Sid -> SUBSET Text]
    /\ Upload \subseteq [paligo : BOOLEAN, cands : Seq(Candidate)] /\ Upload # {}
    /\ UrlOf \in [Title -> Seq(Title \cup Nat)]
    /\ MaxTopics \in Nat /\ MaxMerges \in Nat /\ MaxFaults \in Nat

VARIABLES
    topics,    \* the Topic collection: ids to topics
    nextId,    \* the next id, ids are never used again
    docs,      \* Document.status, "none" before it is created, "gone" once deleted
    run,       \* the program state of the merge of each document
    leaving,   \* documents whose topics are deleted, and they not yet
    merges,    \* merges started so far
    faults     \* failed writes and crashes so far

vars == <<topics, nextId, docs, run, leaving, merges, faults>>

TopicId == 1..MaxTopics

\* slug: the title of a Paligo topic, whose slug is made of title and stable id
\* (buildPaligoCandidates); None for other zips, whose slugs carry the time.
\* link: the topic that the link of the text leads to once it is rewritten.
Topic == [doc : Doc, sid : Sid \cup {None}, text : Text, title : Title,
          slug : Title \cup {None}, parent : TopicId \cup {None},
          children : SUBSET TopicId, link : TopicId \cup {None}, url : Seq(Title \cup Nat)]

\* old: the topics found when the merge began; ids: stableToId; todo: the
\* candidates to come; touched: out.added and out.updated; ok: no error so far.
\* History: result, how the last merge ended; spoiled, whether the topics were
\* deleted since it began.
MergeState ==
    [pc      : {"idle", "read", "apply", "parents", "children", "sweep",
                "finish", "links", "urls"},
     zip     : Upload,
     old     : SUBSET [id : TopicId, sid : Sid \cup {None}, text : Text],
     ids     : [Sid -> TopicId \cup {None}],
     todo    : Nat,
     touched : SUBSET TopicId,
     ok      : BOOLEAN,
     result  : {"none", "clean", "partial"},
     spoiled : BOOLEAN]

TypeOK ==
    /\ nextId \in 1..MaxTopics + 1
    /\ DOMAIN topics \subseteq 1..nextId - 1
    /\ \A t \in DOMAIN topics : topics[t] \in Topic
    /\ docs \in [Doc -> {"none", "processing", "completed", "failed", "gone"}]
    /\ run \in [Doc -> MergeState]
    /\ leaving \subseteq Doc
    /\ merges \in 0..MaxMerges
    /\ faults \in 0..MaxFaults

NoIds == [s \in Sid |-> None]
Idle(result, spoiled) == [pc |-> "idle", zip |-> CHOOSE z \in Upload : TRUE, old |-> {}, ids |-> NoIds,
                          todo |-> 1, touched |-> {}, ok |-> TRUE, result |-> result,
                          spoiled |-> spoiled]

Init ==
    /\ topics = << >>
    /\ nextId = 1
    /\ docs = [d \in Doc |-> "none"]
    /\ run = [d \in Doc |-> Idle("none", FALSE)]
    /\ leaving = {}
    /\ merges = 0
    /\ faults = 0

TopicsOf(d) == {t \in DOMAIN topics : topics[t].doc = d}
Without(ids) == [t \in DOMAIN topics \ ids |-> topics[t]]
Elements(z) == {z.cands[i] : i \in DOMAIN z.cands}
SidsOf(z) == {c.sid : c \in Elements(z)}
At(d, pc) == run[d].pc = pc
Step(d, pc) == run' = [run EXCEPT ![d].pc = pc]

-----------------------------------------------------------------------------
(* The merge of a zip                                                      *)

\* ingestZipForTarget resolves or creates the document and parses the zip.
StartMerge(d) ==
    /\ At(d, "idle") /\ docs[d] # "gone"
    /\ merges < MaxMerges
    /\ merges' = merges + 1
    /\ docs' = [docs EXCEPT ![d] = "processing"]
    /\ \E z \in Upload : run' = [run EXCEPT ![d] = 
                       [Idle(run[d].result, FALSE) EXCEPT !.pc = "read", !.zip = z]]
    /\ UNCHANGED <<topics, nextId, leaving, faults>>

\* Of two topics with one stable id the one found last stands for it.
Find(d, s) ==
    LET found == {t \in TopicsOf(d) : topics[t].sid = s}
    IN  IF found = {} THEN None ELSE CHOOSE t \in found : \A u \in found : u <= t

ReadExisting(d) ==
    /\ At(d, "read")
    /\ run' = [run EXCEPT
           ![d].pc = "apply",
           ![d].old = {[id |-> t, sid |-> topics[t].sid, text |-> topics[t].text] : t \in TopicsOf(d)},
           ![d].ids = [s \in Sid |-> Find(d, s)]]
    /\ UNCHANGED <<topics, nextId, docs, leaving, merges, faults>>

\* A zip without candidates removes every topic, those without a stable id too.
RemoveAll(d) ==
    /\ At(d, "apply") /\ Len(run[d].zip.cands) = 0
    /\ topics' = Without({o.id : o \in run[d].old})
    /\ Step(d, "finish")
    /\ UNCHANGED <<nextId, docs, leaving, merges, faults>>

\* The topic that had the stable id when the merge began, and its text then.
\* Slip: a topic counts as the same only while its text is.
HasPriorAlike(d, s) ==
    \E o \in run[d].old : o.sid = s /\ \E c \in Elements(run[d].zip) : c.sid = s /\ c.text = o.text
HasPrior(d, s) == \E o \in run[d].old : o.sid = s
Prior(d, s) ==
    LET found == {o \in run[d].old : o.sid = s}
    IN  CHOOSE o \in found : \A q \in found : q.id <= o.id

Applying(d) == At(d, "apply") /\ run[d].todo \in DOMAIN run[d].zip.cands
Current(d) == run[d].zip.cands[run[d].todo]
Advance(r) == [r EXCEPT !.todo = @ + 1, !.pc = IF r.todo = Len(r.zip.cands) THEN "parents" ELSE @]

SlugOf(z, c) == IF z.paligo THEN c.title ELSE None

\* The unique index on slug spans the documents.
SlugTaken(z, c, t) ==
    z.paligo /\ \E u \in DOMAIN topics \ {t} : topics[u].sid = c.sid /\ topics[u].slug = c.title

Insert(d) ==
    LET c == Current(d)
        z == run[d].zip
    IN  /\ Applying(d)
        /\ ~HasPrior(d, c.sid) /\ ~SlugTaken(z, c, None)
        /\ nextId <= MaxTopics
        /\ topics' = [t \in DOMAIN topics \cup {nextId} |->
               IF t # nextId THEN topics[t]
               ELSE [doc |-> d, sid |-> c.sid, text |-> c.text, title |-> c.title,
                     slug |-> SlugOf(z, c), parent |-> None, children |-> {},
                     link |-> None, url |-> << >>]]
        /\ nextId' = nextId + 1
        /\ run' = [run EXCEPT ![d] = Advance([run[d] EXCEPT !.touched = @ \cup {nextId},
                                                            !.ids[c.sid] = nextId])]
        /\ UNCHANGED <<docs, leaving, merges, faults>>

\* Slip: the stable id decides, the hashes are not compared.
UnchangedById(d, c) == TRUE
Unchanged(d, c) == c.text = Prior(d, c.sid).text

\* Nothing is written, whatever the title and the slug of the candidate are.
Keep(d) ==
    /\ Applying(d)
    /\ HasPrior(d, Current(d).sid) /\ Unchanged(d, Current(d))
    /\ run' = [run EXCEPT ![d] = Advance(@)]
    /\ UNCHANGED <<topics, nextId, docs, leaving, merges, faults>>

\* updateOne changes nothing, and does not fail, when the topic is gone.
Update(d) ==
    LET c == Current(d)
        z == run[d].zip
        t == Prior(d, c.sid).id
    IN  /\ Applying(d)
        /\ HasPrior(d, c.sid) /\ ~Unchanged(d, c)
        /\ t \in DOMAIN topics => ~SlugTaken(z, c, t)
        /\ topics' = [u \in DOMAIN topics |->
               IF u # t THEN topics[u]
               ELSE [topics[u] EXCEPT !.text = c.text, !.title = c.title, !.slug = SlugOf(z, c),
                                      !.children = {}, !.link = None]]
        /\ run' = [run EXCEPT ![d] = Advance([run[d] EXCEPT !.touched = @ \cup {t}])]
        /\ UNCHANGED <<nextId, docs, leaving, merges, faults>>

\* A topic whose slug is taken or whose write fails is recorded and passed over.
FailTopic(d) ==
    LET c == Current(d)
        z == run[d].zip
        taken == IF HasPrior(d, c.sid)
                 THEN Prior(d, c.sid).id \in DOMAIN topics /\ SlugTaken(z, c, Prior(d, c.sid).id)
                 ELSE SlugTaken(z, c, None)
    IN  /\ Applying(d)
        /\ HasPrior(d, c.sid) => ~Unchanged(d, c)
        /\ IF taken THEN UNCHANGED faults ELSE faults < MaxFaults /\ faults' = faults + 1
        /\ run' = [run EXCEPT ![d] = Advance([@ EXCEPT !.ok = FALSE])]
        /\ UNCHANGED <<topics, nextId, docs, leaving, merges>>

-----------------------------------------------------------------------------
(* Wiring and removal.  The writes of a pass are separate; when one fails   *)
(* the error is recorded and some of the others are done.                   *)

\* A pass that is to write to the topics in ids has written to those in done.
Pass(d, ids, done, next) ==
    /\ IF done = ids THEN UNCHANGED faults ELSE faults < MaxFaults /\ faults' = faults + 1
    /\ run' = [run EXCEPT ![d].pc = next, ![d].ok = @ /\ done = ids]
    /\ UNCHANGED <<nextId, docs, leaving, merges>>

IdOf(d, s) == IF s = None THEN None ELSE run[d].ids[s]

\* The last candidate of a stable id prevails.
LastOf(z, s) == LET at == {i \in DOMAIN z.cands : z.cands[i].sid = s}
                IN  z.cands[CHOOSE i \in at : \A j \in at : j <= i]

Wired(d) == {run[d].ids[s] : s \in SidsOf(run[d].zip)} \ {None}
SidOf(d, t) == CHOOSE s \in SidsOf(run[d].zip) : run[d].ids[s] = t

\* Slip: only stable ids that the document had before are resolved.
ParentBefore(d, t) ==
    LET s == LastOf(run[d].zip, SidOf(d, t)).parent
    IN  IF HasPrior(d, s) THEN IdOf(d, s) ELSE None
ParentOf(d, t) == IdOf(d, LastOf(run[d].zip, SidOf(d, t)).parent)

ChildrenOf(d, t) == {run[d].ids[c.sid] : c \in {c \in Elements(run[d].zip) : IdOf(d, c.parent) = t}} \ {None}

WireParents(d) ==
    /\ At(d, "parents")
    /\ \E done \in SUBSET Wired(d) :
          /\ topics' = [t \in DOMAIN topics |->
                 IF t \in done THEN [topics[t] EXCEPT !.parent = ParentOf(d, t)] ELSE topics[t]]
          /\ Pass(d, Wired(d), done, "children")

Listed(d) == {t \in Wired(d) : ChildrenOf(d, t) # {}}

WireChildren(d) ==
    /\ At(d, "children")
    /\ \E done \in SUBSET Listed(d) :
          /\ topics' = [t \in DOMAIN topics |->
                 IF t \in done THEN [topics[t] EXCEPT !.children = ChildrenOf(d, t)] ELSE topics[t]]
          /\ Pass(d, Listed(d), done, "sweep")

\* Slip: a topic goes when this merge has not written it.
RemovedUntouched(d) == {o.id : o \in {o \in run[d].old : o.sid # None}} \ run[d].touched
Removed(d) ==
    {Prior(d, s).id : s \in {o.sid : o \in run[d].old} \ ({None} \cup SidsOf(run[d].zip))}

SweepRemoved(d) ==
    /\ At(d, "sweep")
    /\ \E done \in SUBSET Removed(d) : topics' = Without(done) /\ Pass(d, Removed(d), done, "finish")

-----------------------------------------------------------------------------
(* After the merge                                                         *)

\* topicIds are refreshed and the document saved, which throws when it is gone.
Finish(d) ==
    /\ At(d, "finish")
    /\ IF docs[d] = "gone"
       THEN run' = [run EXCEPT ![d] = Idle("partial", @.spoiled)] /\ UNCHANGED docs
       ELSE /\ docs' = [docs EXCEPT ![d] = "completed"]
            /\ run' = [run EXCEPT ![d].pc = "links",
                                  ![d].result = IF run[d].ok THEN "clean" ELSE "partial"]
    /\ UNCHANGED <<topics, nextId, leaving, merges, faults>>

\* A read, the removal of every topic or the save fails: the catch of
\* ingestZipForTarget.
FailMerge(d) ==
    /\ \/ At(d, "read") \/ At(d, "finish")
       \/ At(d, "apply") /\ Len(run[d].zip.cands) = 0
    /\ faults < MaxFaults
    /\ faults' = faults + 1
    /\ docs' = [docs EXCEPT ![d] = IF @ = "gone" THEN @ ELSE "failed"]
    /\ run' = [run EXCEPT ![d] = Idle("partial", @.spoiled)]
    /\ UNCHANGED <<topics, nextId, leaving, merges>>

\* The topic that a link leads to: of any document when the zip is from Paligo,
\* whose lookup names stable ids only.
\* Slip: the topics are those that the merge read.
LinkTargetRead(d, s) ==
    LET found == {o.id : o \in {o \in run[d].old : o.sid = s}}
    IN  IF found = {} THEN None ELSE CHOOSE t \in found : \A u \in found : u <= t
LinkTarget(d, s) ==
    LET found == {t \in DOMAIN topics : topics[t].sid = s /\ (run[d].zip.paligo \/ topics[t].doc = d)}
    IN  IF found = {} THEN None ELSE CHOOSE t \in found : \A u \in found : u <= t

\* The links of the topics that were written are rewritten, or some when a
\* write fails.
RewriteLinks(d) ==
    LET here == run[d].touched \cap DOMAIN topics
    IN  /\ At(d, "links")
        /\ \E done \in SUBSET here :
               /\ IF done = here THEN UNCHANGED faults ELSE faults < MaxFaults /\ faults' = faults + 1
               /\ topics' = [t \in DOMAIN topics |->
                      IF t \in done
                      THEN [topics[t] EXCEPT !.link = LinkTarget(d, LastOf(run[d].zip, topics[t].sid).link)]
                      ELSE topics[t]]
        /\ run' = [run EXCEPT ![d].pc = "urls", ![d].ok = @ /\ faults' = faults]
        /\ UNCHANGED <<nextId, docs, leaving, merges>>

\* orderTopicsHierarchically: depth first from the roots, topics that no root
\* reaches at the end.  Of siblings, only the order is abstracted.
Reached(d) ==
    LET down[k \in 0..MaxTopics] ==
            IF k = 0 THEN {t \in TopicsOf(d) : topics[t].parent = None}
            ELSE down[k - 1] \cup {t \in TopicsOf(d) : topics[t].parent \in down[k - 1]}
    IN  down[MaxTopics]

Orders(d) ==
    LET reached == Reached(d)
    IN  {o \in SetToSeqs(TopicsOf(d)) : \A i, j \in DOMAIN o :
            o[i] \in reached /\ (o[j] \notin reached \/ topics[o[j]].parent = o[i]) => i < j}

\* The n-th topic with a URL gets it with the suffix n.
Deduplicate(urls) ==
    [i \in DOMAIN urls |->
        LET n == Cardinality({j \in 1..i : urls[j] = urls[i]})
        IN  IF urls[i] = << >> \/ n = 1 THEN urls[i] ELSE Append(urls[i], n)]

\* regenerateForDocument, whose failure is only logged.
RegenerateUrls(d) ==
    /\ At(d, "urls")
    /\ \/ /\ docs[d] # "gone"
          /\ \E o \in Orders(d) :
                LET urls == Deduplicate([i \in DOMAIN o |-> UrlOf[topics[o[i]].title]])
                IN  topics' = [t \in DOMAIN topics |->
                        IF \E i \in DOMAIN o : o[i] = t
                        THEN [topics[t] EXCEPT !.url = urls[CHOOSE i \in DOMAIN o : o[i] = t]]
                        ELSE topics[t]]
          /\ UNCHANGED faults
       \/ docs[d] = "gone" /\ UNCHANGED <<topics, faults>>
       \/ faults < MaxFaults /\ faults' = faults + 1 /\ UNCHANGED topics
    /\ run' = [run EXCEPT ![d] = Idle(@.result, @.spoiled)]
    /\ UNCHANGED <<nextId, docs, leaving, merges>>

-----------------------------------------------------------------------------
(* Deletion, and the end of the process                                    *)

\* deletePublication removes the topics of its document, then the document.
DeleteTopics(d) ==
    /\ docs[d] \notin {"none", "gone"} /\ d \notin leaving
    /\ topics' = Without(TopicsOf(d))
    /\ leaving' = leaving \cup {d}
    /\ run' = [run EXCEPT ![d].spoiled = TRUE]
    /\ UNCHANGED <<nextId, docs, merges, faults>>

DeleteDocument(d) ==
    /\ d \in leaving
    /\ docs' = [docs EXCEPT ![d] = "gone"]
    /\ leaving' = leaving \ {d}
    /\ UNCHANGED <<topics, nextId, run, merges, faults>>

Crash ==
    /\ faults < MaxFaults
    /\ faults' = faults + 1
    /\ run' = [d \in Doc |->
           Idle(IF run[d].pc \in {"idle", "links", "urls"} THEN run[d].result ELSE "partial",
                run[d].spoiled)]
    /\ leaving' = {}
    /\ UNCHANGED <<topics, nextId, docs, merges>>

Next ==
    \/ \E d \in Doc :
          \/ StartMerge(d) \/ ReadExisting(d) \/ RemoveAll(d)
          \/ Insert(d) \/ Keep(d) \/ Update(d) \/ FailTopic(d)
          \/ WireParents(d) \/ WireChildren(d) \/ SweepRemoved(d)
          \/ Finish(d) \/ FailMerge(d) \/ RewriteLinks(d) \/ RegenerateUrls(d)
          \/ DeleteTopics(d) \/ DeleteDocument(d)
    \/ Crash

Spec == Init /\ [][Next]_vars

-----------------------------------------------------------------------------
(* Properties                                                              *)

\* Two topics of one file with headings have its path as their stable id, so
\* that not every zip has distinct ones (stableIdentity.js 41-42).
DistinctIds == \A z \in Upload : \A i, j \in DOMAIN z.cands : z.cands[i].sid = z.cands[j].sid => i = j

\* A topic's parent is one of the same file or table of contents
\* (ingestionService.js 763-773, 881-885).
ParentsThere == \A z \in Upload : \A c \in Elements(z) : c.parent \in SidsOf(z) \cup {None}

\* Invariant.  A document has one topic for each stable id, over any number of
\* merges, failed or interrupted ones among them: what hangs on a topic's id
\* (bookmarks, ratings) has one place to be.
OneTopicPerId ==
    \A t, u \in DOMAIN topics :
        topics[t].doc = topics[u].doc /\ topics[t].sid = topics[u].sid /\ topics[t].sid # None => t = u

\* Invariant.  After a merge without errors each topic of the zip hangs under the
\* topic that the zip says, its parent lists it, and a topic that was written
\* lists no others; whatever was left wired wrongly by a merge that failed.
MergedTree ==
    \A d \in Doc : run[d].pc \in {"links", "urls"} /\ run[d].ok /\ ~run[d].spoiled =>
        \A c \in Elements(run[d].zip) : \E t \in TopicsOf(d) :
            /\ topics[t].sid = c.sid
            /\ IF c.parent = None THEN topics[t].parent = None
               ELSE \E p \in TopicsOf(d) :
                       topics[p].sid = c.parent /\ topics[t].parent = p /\ t \in topics[p].children
            /\ t \in run[d].touched => topics[t].children = {u \in TopicsOf(d) : topics[u].parent = t}

\* Invariant.  The rewritten link of a topic that the merge wrote leads to the
\* topic that the zip names, although other merges insert and remove topics
\* meanwhile.  (A kept topic's link is not looked at: README.)
TouchedLinksLead ==
    \A d \in Doc : run[d].pc = "urls" /\ run[d].ok /\ ~run[d].spoiled =>
        \A t \in run[d].touched :
            LET s == LastOf(run[d].zip, topics[t].sid).link
            IN  s \in SidsOf(run[d].zip) =>
                    /\ topics[t].link # None
                    /\ topics[t].link \in DOMAIN topics => topics[topics[t].link].sid = s

\* Action property.  A merge never removes a topic whose stable id is in the zip,
\* nor one without a stable id, unless the zip is empty.
IdentityKept ==
    [][\A t \in DOMAIN topics : t \notin DOMAIN topics' =>
          LET d == topics[t].doc
          IN  \/ d \in leaving'
              \/ run[d].zip.cands = << >>
              \/ topics[t].sid \notin SidsOf(run[d].zip) \cup {None}]_vars

\* The promise of TopicSync.
Asked(z) == [s \in Sid |-> {c.text : c \in {c \in Elements(z) : c.sid = s}}]
Shown == [d \in Doc |-> [s \in Sid |-> {topics[t].text : t \in {t \in TopicsOf(d) : topics[t].sid = s}}]]
Merging(d) == run[d].pc \notin {"idle", "links", "urls"}

Sync == INSTANCE TopicSync WITH
            Target <- {Asked(z) : z \in Upload},
            NoGoal <- None,
            shown <- Shown,
            goal <- [d \in Doc |-> IF Merging(d) THEN Asked(run[d].zip) ELSE None],
            result <- [d \in Doc |-> run[d].result],
            spoiled <- {d \in Doc : run[d].spoiled}

\* Property.  Whatever fails or ends on the way, every step changes a topic only
\* into what the zip asks or removes it because the zip lacks it, and a merge
\* that reports no error has left exactly the topics of the zip.
Synchronises == Sync!Spec
=============================================================================
