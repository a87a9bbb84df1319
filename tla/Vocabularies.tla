----------------------------- MODULE Vocabularies -----------------------------
(***************************************************************************)
(* The vocabularies whose synonyms widen what a topic is found by            *)
(* (vocabularyService.js, synonymProjector.js, reprocessVocabulariesWorker): *)
(* a header row, its terms and the uploaded file in S3, written one after    *)
(* the other without transactions by create, update and delete requests that *)
(* overlap; the synonym index and its cache; the ingests that use the cache  *)
(* and the reprocess worker that reads the rows; the pendingReprocess flag.  *)
(*                                                                         *)
(* A file stands for its bytes, for its S3 key, which is new for each upload, *)
(* and for the terms parsed from it; one topic stands for all.  Left out: the *)
(* wait for a load of the cache that another ingest has started, display     *)
(* names, updatedSinceReprocess, the jobs (EnrichReprocess).                 *)
(***************************************************************************)
EXTENDS Naturals, FiniteSets

CONSTANTS
    Vocab,      \* ids of vocabularies
    Name,       \* their names
    File,       \* uploaded files
    LanguageOf, \* the languages of the terms of each file
    Request,    \* requests under way
    Ingest,     \* ingests that expand the values of topics
    None,
    MaxCalls,   \* bound: requests
    MaxEvents   \* bound: ingests, runs of the worker, failed calls and crashes

VARIABLES
    row,       \* the Vocabulary rows
    terms,     \* VocabularyTerm: the files whose terms are stored for each id
    store,     \* the raw bucket: uploaded files
    pending,   \* VocabularyConfig.pendingReprocess
    topic,     \* the files whose synonyms the topics were expanded with
    cached,    \* the synonym index of the server, None or a set of files
    ingest,    \* ingests
    worker,    \* the reprocess worker
    req,       \* the program state of each request
    used,      \* files and ids that were taken
    calls, events,
    raced,     \* history: ids with requests that overlapped, or a lost delete
    unswapped, \* history: ids whose s3Key, or removal, could not be saved
    behind,    \* history: the cache was filled or kept with terms that had changed
    missed     \* history: topics were left behind without the flag (see below)

bounds == <<calls, events>>
history == <<raced, unswapped, behind, missed>>
vars == <<row, terms, store, pending, topic, cached, ingest, worker, req, used, bounds, history>>

Language == {LanguageOf[f] : f \in File}
Row == [name : Name, inSearch : BOOLEAN, ready : BOOLEAN, file : File, key : File,
        language : Language, version : Nat]
Exists(v) == row[v] # None

\* loaded: the document in memory; file: the new file; inSearch: the new value.
Step == {"create", "save", "wipe", "insert", "fail", "swap", "previous",
         "unterms", "unrow", "unfile", "flag"}
Call == [pc : Step, op : {"create", "update", "delete"}, vocab : Vocab, loaded : {None} \cup Row,
         name : Name \cup {None}, file : File \cup {None}, inSearch : BOOLEAN, failed : BOOLEAN]

ASSUME VocabularyAssumption ==
    /\ None \notin Vocab \cup Name \cup File \cup Row \cup Call
    /\ File \subseteq DOMAIN LanguageOf
    /\ MaxCalls \in Nat /\ MaxEvents \in Nat

\* old: the cache was invalidated after the load began.
Expansion == [pc : {"idle", "terms", "write"}, ids : SUBSET Vocab, index : SUBSET File, old : BOOLEAN]
Run == [pc : {"idle", "terms", "topics", "clear"}, ids : SUBSET Vocab, index : SUBSET File]

TypeOK ==
    /\ row \in [Vocab -> {None} \cup Row]
    /\ terms \in [Vocab -> SUBSET File]
    /\ store \subseteq File
    /\ pending \in BOOLEAN
    /\ topic \subseteq File
    /\ cached = None \/ cached \subseteq File
    /\ ingest \in [Ingest -> Expansion]
    /\ worker \in Run
    /\ req \in [Request -> {None} \cup Call]
    /\ used \subseteq File \cup Vocab
    /\ calls \in 0..MaxCalls /\ events \in 0..MaxEvents
    /\ raced \subseteq Vocab /\ unswapped \subseteq Vocab
    /\ behind \in BOOLEAN /\ missed \in BOOLEAN

NoExpansion == [pc |-> "idle", ids |-> {}, index |-> {}, old |-> FALSE]
NoRun == [pc |-> "idle", ids |-> {}, index |-> {}]

Init ==
    /\ row = [v \in Vocab |-> None]
    /\ terms = [v \in Vocab |-> {}]
    /\ store = {} /\ pending = FALSE /\ topic = {} /\ cached = None
    /\ ingest = [i \in Ingest |-> NoExpansion]
    /\ worker = NoRun
    /\ req = [r \in Request |-> None]
    /\ used = {} /\ calls = 0 /\ events = 0
    /\ raced = {} /\ unswapped = {} /\ behind = FALSE /\ missed = FALSE

At(r, pc) == req[r] # None /\ req[r].pc = pc
Goto(r, pc) == req' = [req EXCEPT ![r].pc = pc]
Return(r) == req' = [req EXCEPT ![r] = None]
On(r) == req[r].vocab
Busy(v) == \E r \in Request : req[r] # None /\ req[r].vocab = v
Called == calls < MaxCalls /\ calls' = calls + 1 /\ UNCHANGED events
Read == events < MaxEvents /\ events' = events + 1 /\ UNCHANGED calls
Fault == Read

ActiveIds == {v \in Vocab : Exists(v) /\ row[v].inSearch /\ row[v].ready}
Index(ids) == UNION {terms[v] : v \in ids}

\* A request that fails half way leaves the cache as it is, up to its time to live.
LeaveBehind ==
    /\ behind' = TRUE /\ missed' = TRUE
    /\ ingest' = [i \in Ingest |-> [ingest[i] EXCEPT !.old = TRUE]]

files == <<store, used>>
readers == <<topic, cached, worker>>

-----------------------------------------------------------------------------
(* Requests                                                                *)

\* createVocabulary: the name is looked up, then the file is parsed and uploaded
\* under a key that nobody else knows.  A failure up to here changes nothing.
BeginCreate(r) ==
    /\ req[r] = None /\ Called
    /\ \E v \in Vocab \ used, n \in Name, f \in File \ used, s \in BOOLEAN :
          /\ \A w \in Vocab : Exists(w) => row[w].name # n
          /\ req' = [req EXCEPT ![r] = [pc |-> "create", op |-> "create", vocab |-> v, loaded |-> None,
                                        name |-> n, file |-> f, inSearch |-> s, failed |-> FALSE]]
          /\ used' = used \cup {v, f}
          /\ store' = store \cup {f}
    /\ UNCHANGED <<row, terms, pending, readers, ingest, history>>

\* updateVocabulary and deleteVocabulary work on the document they load.
BeginUpdate(r) ==
    /\ req[r] = None /\ Called
    /\ \E v \in Vocab, f \in {None} \cup (File \ used), s \in BOOLEAN :
          /\ Exists(v)
          /\ req' = [req EXCEPT ![r] = [pc |-> "save", op |-> "update", vocab |-> v,
                                        loaded |-> row[v], name |-> None, file |-> f,
                                        inSearch |-> s, failed |-> FALSE]]
          /\ used' = used \cup ({f} \ {None})
          /\ store' = store \cup ({f} \ {None})
          /\ raced' = raced \cup IF Busy(v) THEN {v} ELSE {}
    /\ UNCHANGED <<row, terms, pending, readers, ingest, unswapped, behind, missed>>

BeginDelete(r) ==
    /\ req[r] = None /\ Called
    /\ \E v \in Vocab :
          /\ Exists(v)
          /\ req' = [req EXCEPT ![r] = [pc |-> "unterms", op |-> "delete", vocab |-> v,
                                        loaded |-> row[v], name |-> None, file |-> row[v].key,
                                        inSearch |-> row[v].inSearch, failed |-> FALSE]]
          /\ raced' = raced \cup IF Busy(v) THEN {v} ELSE {}
    /\ UNCHANGED <<row, terms, store, pending, readers, ingest, used, unswapped, behind, missed>>

\* The unique index on the name decides a race; the loser removes its file.
CreateRow(r) ==
    LET c == req[r]
    IN  /\ At(r, "create")
        /\ \/ /\ \A v \in Vocab : Exists(v) => row[v].name # c.name
              /\ row' = [row EXCEPT ![c.vocab] =
                     [name |-> c.name, inSearch |-> c.inSearch, ready |-> TRUE, file |-> c.file,
                      key |-> c.file, language |-> LanguageOf[c.file], version |-> 0]]
              /\ Goto(r, "insert")
              /\ UNCHANGED bounds
           \/ /\ \/ (\E v \in Vocab : Exists(v) /\ row[v].name = c.name) /\ UNCHANGED bounds
                 \/ Fault
              /\ req' = [req EXCEPT ![r].pc = "unfile", ![r].failed = TRUE]
              /\ UNCHANGED row
        /\ UNCHANGED <<terms, store, pending, readers, ingest, used, history>>

\* header.save() writes what differs from the document as loaded.  A new list of
\* languages makes it check the version; a row that is gone makes it throw.
Relabels(c) == c.file # None /\ LanguageOf[c.file] # c.loaded.language
Stale(r) == LET c == req[r] IN
    Exists(c.vocab) => Relabels(c) /\ row[c.vocab].version # c.loaded.version

Saved(old, c) ==
    [old EXCEPT !.inSearch = IF c.inSearch # c.loaded.inSearch THEN c.inSearch ELSE @,
                !.file = IF c.file # None THEN c.file ELSE @,
                !.language = IF Relabels(c) THEN LanguageOf[c.file] ELSE @,
                !.version = IF Relabels(c) THEN @ + 1 ELSE @]

\* willAffectSearch.  Slip: only what a new file brings is seen.
AffectsByFile(c) == c.file # None
Affects(c) == c.file # None \/ c.inSearch # c.loaded.inSearch

SaveHeader(r) ==
    LET c == req[r]
    IN  /\ At(r, "save")
        /\ \/ /\ ~Stale(r)
              /\ row' = [row EXCEPT ![c.vocab] = Saved(@, c)]
              /\ IF c.file # None THEN Goto(r, "wipe") ELSE IF Affects(c) THEN Goto(r, "flag") ELSE Return(r)
              /\ UNCHANGED bounds
           \/ /\ \/ Stale(r) /\ UNCHANGED bounds
                 \/ Fault
              /\ IF c.file = None THEN Return(r)
                 ELSE req' = [req EXCEPT ![r].pc = "unfile", ![r].failed = TRUE]
              /\ UNCHANGED row
        /\ UNCHANGED <<terms, store, pending, readers, ingest, used, history>>

\* replaceTerms: the old terms go first.  Slip: the new ones are added to them.
WipeNothing(v) == terms
Wipe(v) == [terms EXCEPT ![v] = {}]

WipeTerms(r) ==
    /\ At(r, "wipe")
    /\ \/ terms' = Wipe(On(r)) /\ Goto(r, "insert") /\ UNCHANGED bounds
       \/ Fault /\ Goto(r, "fail") /\ UNCHANGED terms
    /\ UNCHANGED <<row, store, pending, readers, ingest, used, history>>

\* A failed insert may leave some of the terms.
InsertTerms(r) ==
    LET c == req[r]
        added == [terms EXCEPT ![c.vocab] = @ \cup {c.file}]
    IN  /\ At(r, "insert")
        /\ \/ /\ terms' = added
              /\ Goto(r, IF c.op = "create" THEN "flag" ELSE "swap")
              /\ UNCHANGED bounds
           \/ /\ Fault
              /\ terms' \in {terms, added}
              /\ req' = [req EXCEPT ![r].pc = IF c.op = "create" THEN "unterms" ELSE "fail",
                                    ![r].failed = TRUE]
        /\ UNCHANGED <<row, store, pending, readers, ingest, used, history>>

\* A row that has not got its terms is taken out of the synonym index.
\* Slip: it stays ready.
StaysReady(r) == row[On(r)].ready
Ready(r) == FALSE

MarkFailed(r) ==
    /\ At(r, "fail")
    /\ \/ /\ row' = [row EXCEPT ![On(r)] = IF Exists(On(r)) THEN [@ EXCEPT !.ready = Ready(r)] ELSE @]
          /\ UNCHANGED <<bounds, raced>>
       \/ Fault /\ raced' = raced \cup {On(r)} /\ UNCHANGED row
    /\ Return(r) /\ LeaveBehind
    /\ UNCHANGED <<terms, store, pending, readers, used, unswapped>>

\* The save of the new key may fail without notice; the previous file goes anyway.
SwapKey(r) ==
    LET c == req[r]
    IN  /\ At(r, "swap")
        /\ \/ /\ row' = [row EXCEPT ![c.vocab] = IF Exists(c.vocab) THEN [@ EXCEPT !.key = c.file] ELSE @]
              /\ UNCHANGED <<bounds, unswapped>>
           \/ Fault /\ unswapped' = unswapped \cup {c.vocab} /\ UNCHANGED row
        /\ Goto(r, "previous")
        /\ UNCHANGED <<terms, store, pending, readers, ingest, used, raced, behind, missed>>

\* Slip: the row is read again for the previous key.
PreviousReread(r) == row[On(r)].key
Previous(r) == req[r].loaded.key

DropPrevious(r) ==
    /\ At(r, "previous")
    /\ \/ store' = store \ {Previous(r)} /\ UNCHANGED bounds
       \/ Fault /\ UNCHANGED store
    /\ Goto(r, "flag")
    /\ UNCHANGED <<row, terms, pending, readers, ingest, used, history>>

\* A delete, and a create whose terms could not be inserted: the terms, the row
\* and the file go in this order, and errors of the first and last are swallowed.
RemoveTerms(r) ==
    /\ At(r, "unterms")
    /\ \/ terms' = [terms EXCEPT ![On(r)] = {}] /\ UNCHANGED <<bounds, raced>>
       \/ Fault /\ raced' = raced \cup {On(r)} /\ UNCHANGED terms
    /\ Goto(r, "unrow")
    /\ UNCHANGED <<row, store, pending, readers, ingest, used, unswapped, behind, missed>>

RemoveRow(r) ==
    /\ At(r, "unrow")
    /\ \/ /\ row' = [row EXCEPT ![On(r)] = None]
          /\ Goto(r, "unfile")
          /\ UNCHANGED <<bounds, raced, unswapped>>
       \/ /\ Fault
          /\ raced' = raced \cup {On(r)}
          /\ unswapped' = unswapped \cup {On(r)}
          /\ IF req[r].op = "create" THEN Goto(r, "unfile") ELSE Return(r)
          /\ UNCHANGED row
    /\ IF req'[r] = None \/ req[r].op = "create" THEN LeaveBehind ELSE UNCHANGED <<ingest, behind, missed>>
    /\ UNCHANGED <<terms, store, pending, readers, used>>

RemoveFile(r) ==
    /\ At(r, "unfile")
    /\ \/ store' = store \ {req[r].file} /\ UNCHANGED bounds
       \/ Fault /\ UNCHANGED store
    /\ IF req[r].failed THEN Return(r) ELSE Goto(r, "flag")
    /\ UNCHANGED <<row, terms, pending, readers, ingest, used, history>>

\* flagPendingReprocessIfActive looks at the document in memory, which holds the
\* new value: taking a vocabulary out of search does not set the flag, nor does a
\* request that has loaded the row before another put it into search.
\* Slip: it looks at the row as it was.
FlagsOld(c) == c.loaded # None /\ c.loaded.inSearch
Flags(c) == c.inSearch

WasInSearch(r) == \/ Exists(On(r)) /\ row[On(r)].inSearch
                  \/ req[r].loaded # None /\ req[r].loaded.inSearch
                  \/ On(r) \in raced

\* Then bumpSynonymCache: a load that is under way goes on, and will fill the
\* cache.  A delete of a vocabulary that was not in search leaves the cache.
Flag(r) ==
    /\ At(r, "flag")
    /\ Return(r)
    /\ \/ /\ pending' = (pending \/ Flags(req[r]))
          /\ missed' = (missed \/ (~req[r].inSearch /\ WasInSearch(r)))
          /\ IF req[r].op = "delete" /\ ~req[r].inSearch
             THEN /\ behind' = (behind \/ WasInSearch(r))
                  /\ ingest' = [i \in Ingest |-> [ingest[i] EXCEPT !.old = @ \/ WasInSearch(r)]]
                  /\ UNCHANGED cached
             ELSE /\ cached' = None /\ behind' = FALSE
                  /\ ingest' = [i \in Ingest |-> [ingest[i] EXCEPT !.old = TRUE]]
          /\ UNCHANGED bounds
       \/ Fault /\ LeaveBehind /\ UNCHANGED <<pending, cached>>
    /\ UNCHANGED <<row, terms, store, topic, worker, used, raced, unswapped>>

-----------------------------------------------------------------------------
(* Readers of the synonym index                                            *)

\* getActiveSynonymIndexCached, in an ingest: the vocabularies, then their terms.
ReadCache(i) ==
    /\ ingest[i].pc = "idle"
    /\ Read
    /\ IF cached # None
       THEN ingest' = [ingest EXCEPT ![i] = [NoExpansion EXCEPT !.pc = "write", !.index = cached]]
       ELSE /\ \A j \in Ingest : ingest[j].pc = "terms" => ingest[j].old
            /\ ingest' = [ingest EXCEPT ![i] = [NoExpansion EXCEPT !.pc = "terms", !.ids = ActiveIds]]
    /\ UNCHANGED <<row, terms, files, pending, readers, req, history>>

\* The index is stored even when the cache was invalidated meanwhile.
LoadTerms(i) ==
    /\ ingest[i].pc = "terms"
    /\ cached' = Index(ingest[i].ids)
    /\ behind' = ingest[i].old
    /\ ingest' = [ingest EXCEPT ![i].pc = "write", ![i].index = Index(ingest[i].ids)]
    /\ UNCHANGED <<row, terms, files, pending, topic, worker, req, bounds, raced, unswapped, missed>>

\* Topics expanded with an index that changed meanwhile stay so, unless a request
\* that is under way has yet to set the flag.
WriteTopic(i) ==
    /\ ingest[i].pc = "write"
    /\ topic' = ingest[i].index
    /\ missed' = (missed \/ ingest[i].index # Index(ActiveIds))
    /\ ingest' = [ingest EXCEPT ![i] = NoExpansion]
    /\ UNCHANGED <<row, terms, files, pending, cached, worker, req, bounds, raced, unswapped, behind>>

\* The time to live of the cache ends.
Expire ==
    /\ cached # None
    /\ cached' = None /\ behind' = FALSE
    /\ UNCHANGED <<row, terms, files, pending, topic, ingest, worker, req, bounds, raced, unswapped, missed>>

WorkerIds ==
    /\ worker.pc = "idle"
    /\ Read
    /\ worker' = [NoRun EXCEPT !.pc = "terms", !.ids = ActiveIds]
    /\ UNCHANGED <<row, terms, files, pending, topic, cached, ingest, req, history>>

WorkerTerms ==
    /\ worker.pc = "terms"
    /\ worker' = [worker EXCEPT !.pc = "topics", !.index = Index(worker.ids)]
    /\ UNCHANGED <<row, terms, files, pending, topic, cached, ingest, req, bounds, history>>

WorkerTopics ==
    /\ worker.pc = "topics"
    /\ topic' = worker.index
    /\ worker' = [worker EXCEPT !.pc = "clear"]
    /\ UNCHANGED <<row, terms, files, pending, cached, ingest, req, bounds, history>>

\* The flag goes whether or not it was set again during the run.
WorkerClear ==
    /\ worker.pc = "clear"
    /\ pending' = FALSE
    /\ missed' = (missed \/ topic # Index(ActiveIds))
    /\ worker' = NoRun
    /\ UNCHANGED <<row, terms, files, topic, cached, ingest, req, bounds, raced, unswapped, behind>>

WorkerFails ==
    /\ worker.pc # "idle"
    /\ Fault
    /\ worker' = NoRun
    /\ UNCHANGED <<row, terms, files, pending, topic, cached, ingest, req, history>>

Crash ==
    /\ Fault
    /\ req' = [r \in Request |-> None]
    /\ ingest' = [i \in Ingest |-> NoExpansion]
    /\ worker' = NoRun
    /\ cached' = None /\ behind' = FALSE
    /\ raced' = raced \cup {v \in Vocab : Busy(v)}
    /\ missed' = (missed \/ \E v \in Vocab : Busy(v))
    /\ UNCHANGED <<row, terms, files, pending, topic, unswapped>>

Next ==
    \/ \E r \in Request :
          \/ BeginCreate(r) \/ BeginUpdate(r) \/ BeginDelete(r)
          \/ CreateRow(r) \/ SaveHeader(r)
          \/ WipeTerms(r) \/ InsertTerms(r) \/ MarkFailed(r) \/ SwapKey(r) \/ DropPrevious(r)
          \/ RemoveTerms(r) \/ RemoveRow(r) \/ RemoveFile(r) \/ Flag(r)
    \/ \E i \in Ingest : ReadCache(i) \/ LoadTerms(i) \/ WriteTopic(i)
    \/ Expire
    \/ WorkerIds \/ WorkerTerms \/ WorkerTopics \/ WorkerClear \/ WorkerFails
    \/ Crash

Spec == Init /\ [][Next]_vars

-----------------------------------------------------------------------------
(* Properties                                                              *)

\* Invariant.  Between requests a vocabulary in use has exactly the terms of the
\* file its row describes, however its updates ended, and one that is gone has
\* none, unless requests on it overlapped, a crash cut one short or a swallowed
\* error lost a delete.
TermsMatchFile ==
    \A v \in Vocab \ raced : ~Busy(v) =>
        /\ Exists(v) /\ row[v].ready => terms[v] = {row[v].file}
        /\ ~Exists(v) => terms[v] = {}

\* Invariant.  The file that a row names for download is in the bucket at every
\* moment, also while requests on it overlap, unless an error in the save of a new
\* key, or in the removal of the row, was swallowed.
FileThere ==
    \A v \in Vocab \ unswapped : Exists(v) => row[v].key \in store

\* Invariant.  When no request is under way the cached index is that of the rows,
\* apart from a load that an invalidation did not stop and requests that gave up.
CacheFollows ==
    cached # None /\ (\A r \in Request : req[r] = None) => behind \/ cached = Index(ActiveIds)

\* Invariant.  When nothing is under way and the synonyms of topics are not those
\* of the vocabularies in search, the page asks for a reprocess.  The exceptions:
\* a vocabulary taken out of search, a run or an ingest that a change overtook,
\* requests that gave up or that worked on a stale row.
PendingIsHonest ==
    LET quiet == /\ \A r \in Request : req[r] = None
                 /\ \A i \in Ingest : ingest[i].pc = "idle"
                 /\ worker.pc = "idle"
    IN  quiet /\ topic # Index(ActiveIds) => pending \/ missed
=============================================================================
