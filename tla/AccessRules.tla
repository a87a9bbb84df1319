------------------------------ MODULE AccessRules ------------------------------
(***************************************************************************)
(* The access rules of the knowledge hub: who may read a document and its   *)
(* topics (services/accessRules/accessRulesService.js), and how admins      *)
(* change, apply and replace the rules (routes/accessRules.js).             *)
(*                                                                         *)
(* A saved rule is pending until "Apply and reprocess" promotes it.  A hub  *)
(* in legacy mode can also stage drafts, the set that the one-way switch to *)
(* enhanced mode puts in the place of the legacy rules.  Each handler loads *)
(* a row, awaits something else and saves the paths it modified, so two     *)
(* handlers can overlap on one row; the process may end at every await.     *)
(*                                                                         *)
(* What a rule requires and grants is abstracted to a content: the items    *)
(* (a document, its topics) it matches and the users it grants.  Users that *)
(* bypass the rules are left out.                                           *)
(***************************************************************************)
EXTENDS Naturals

CONSTANTS
    Rule,        \* ids of rule rows
    Request,     \* requests to routes/accessRules.js
    User,        \* readers, the anonymous one included
    Doc,         \* a document
    Topic,       \* its topics
    Parent,      \* hierarchy.parent of each topic, or None
    Content,     \* what rules say: [topics, items, users]
    Defaults,    \* the users a default rule admits: public, none, a group
    None,        \* no rule, no parent, no content
    MaxDepth,    \* topics looked at on the way up, 25 in the code
    MaxCrashes   \* bound: crashes of the server process

ASSUME AccessAssumption ==
    /\ None \notin Rule \cup Topic \cup Content
    /\ Parent \in [Topic -> Topic \cup {None}]
    /\ Content \subseteq [topics : BOOLEAN, items : SUBSET (Topic \cup {Doc}), users : SUBSET User]
    /\ Defaults \subseteq SUBSET User /\ Defaults # {}
    /\ MaxDepth \in Nat \ {0}
    /\ MaxCrashes \in Nat

VARIABLES
    row,        \* the AccessRule collection
    cfg,        \* the AccessRulesConfig row
    req,        \* the program state of each request
    promoted,   \* history: what each rule said when an apply last made it active
    overtaken,  \* history: rules saved from a copy that was no longer current
    touched,    \* history: rules that others wrote since an apply began
    late,       \* history: legacy rules inserted when the wipe was over
    hurried,    \* history: drafts were promoted in legacy mode, or a second
                \* switch wiped what the first had promoted
    crashes     \* number of crashes so far

history == <<promoted, overtaken, touched, late, hurried>>
vars == <<row, cfg, req, history, crashes>>

-----------------------------------------------------------------------------
(* State                                                                   *)

\* 'Processing' and 'Inactive' are never written.  born: how the row came
\* about, which the collection does not tell.
Row == [status  : {"New", "Modified", "Active", "Deleted"},
        draft   : BOOLEAN,
        content : Content,
        born    : {"legacy", "draft", "enhanced"}]
NoRow == [status |-> "none", draft |-> FALSE, content |-> None, born |-> "enhanced"]
GoneRow == [NoRow EXCEPT !.status = "gone"]
Rows == Row \cup {NoRow, GoneRow}

Config == [mode       : {"legacy", "enhanced"},
           default    : Defaults,
           legacy     : Defaults,
           topicLevel : BOOLEAN]

\* mode: cfg.mode as read; copy: the rows as loaded; todo: rows still to save.
RequestState ==
    [pc   : {"idle", "insert", "edit", "delete", "config", "wipe", "flip",
             "drafts", "draft", "pending", "promote", "purge", "applied", "done"},
     rule : Rule \cup {None},
     cfg  : Config,
     copy : [Rule -> Rows],
     todo : SUBSET Rule]

TypeOK ==
    /\ row \in [Rule -> Rows]
    /\ cfg \in Config
    /\ req \in [Request -> RequestState]
    /\ promoted \in [Rule -> Content \cup {None}]
    /\ overtaken \subseteq Rule
    /\ touched \in [Request -> SUBSET Rule]
    /\ late \subseteq Rule
    /\ hurried \in BOOLEAN
    /\ crashes \in 0..MaxCrashes

NoRows == [r \in Rule |-> NoRow]
AnyDefault == CHOOSE d \in Defaults : TRUE
AnyConfig == [mode |-> "enhanced", default |-> AnyDefault, legacy |-> AnyDefault, topicLevel |-> FALSE]
Idle == [pc |-> "idle", rule |-> None, cfg |-> AnyConfig, copy |-> NoRows, todo |-> {}]
Ended(pc) == [Idle EXCEPT !.pc = pc]

\* The rows at the start are active rules of the mode the hub is in.  No code
\* writes mode 'legacy': a hub is in it when its configuration row is old.
Init ==
    /\ cfg \in Config
    /\ row \in [Rule -> {NoRow} \cup {[status |-> "Active", draft |-> FALSE,
                                       content |-> c, born |-> cfg.mode] : c \in Content}]
    /\ req = [q \in Request |-> Idle]
    /\ promoted = [r \in Rule |-> row[r].content]
    /\ overtaken = {}
    /\ touched = [q \in Request |-> {}]
    /\ late = {}
    /\ hurried = FALSE
    /\ crashes = 0

Exists(r) == row[r] \notin {NoRow, GoneRow}

-----------------------------------------------------------------------------
(* Who may read                                                            *)

Live == {r \in Rule : row[r].status = "Active" /\ ~row[r].draft}

TopicRules == {r \in Live : cfg.mode = "enhanced" /\ cfg.topicLevel /\ row[r].content.topics}
DocumentRules == Live \ TopicRules

Matching(rules, item) == {r \in rules : item \in row[r].content.items}
Grants(rules, u) == \E r \in rules : u \in row[r].content.users

DefaultAllows(u) == u \in IF cfg.mode = "legacy" THEN cfg.legacy ELSE cfg.default

CanAccessDocument(u) ==
    LET matching == Matching(DocumentRules, Doc)
    IN  IF matching = {} THEN DefaultAllows(u) ELSE Grants(matching, u)

\* The topics from t upwards that are looked at, nearest first.
Ancestors(t) ==
    LET up[k \in 0..MaxDepth - 1] ==
            IF k = 0 THEN t ELSE IF up[k - 1] = None THEN None ELSE Parent[up[k - 1]]
    IN  up

\* Slip: a topic without rules of its own is open.
OwnTopicDecides(u, t) ==
    LET matching == Matching(TopicRules, t)
    IN  matching = {} \/ Grants(matching, u)

NearestTopicDecides(u, t) ==
    LET up == Ancestors(t)
        ruled == {k \in DOMAIN up : up[k] # None /\ Matching(TopicRules, up[k]) # {}}
    IN  \/ ruled = {}
        \/ \E k \in ruled : (\A j \in ruled : k <= j) /\ Grants(Matching(TopicRules, up[k]), u)

CanAccessTopic(u, t) == CanAccessDocument(u) /\ NearestTopicDecides(u, t)

-----------------------------------------------------------------------------
(* Rule changes                                                            *)

Go(q, pc) == req' = [req EXCEPT ![q].pc = pc]
End(q) == req' = [req EXCEPT ![q] = Ended("done")]

\* A request other than q's own apply is told that r was written.
Touch(q, rules) == touched' = [a \in Request |-> IF a = q THEN touched[a] ELSE touched[a] \cup rules]

\* q saves r, which it loaded earlier.
SaveCopy(q, r, new) ==
    /\ row' = [row EXCEPT ![r] = new]
    /\ overtaken' = IF row[r] = req[q].copy[r] THEN overtaken ELSE overtaken \cup {r}
    /\ Touch(q, {r})

\* POST /rules: the mode is read, and the row inserted some awaits later.
CreateRead(q) ==
    /\ req[q].pc = "idle"
    /\ req' = [req EXCEPT ![q] = [Idle EXCEPT !.pc = "insert", !.cfg = cfg]]
    /\ UNCHANGED <<row, cfg, history, crashes>>

Wiping == \E s \in Request : req[s].pc = "flip"

CreateInsert(q) ==
    /\ req[q].pc = "insert"
    /\ \E r \in Rule, c \in Content, draftSet \in BOOLEAN :
         LET draft == req[q].cfg.mode = "legacy" /\ draftSet
             born == IF draft THEN "draft" ELSE req[q].cfg.mode
         IN  /\ row[r] = NoRow
             /\ row' = [row EXCEPT ![r] =
                          [status |-> "New", draft |-> draft, content |-> c, born |-> born]]
             /\ late' = IF born = "legacy" /\ (Wiping \/ cfg.mode = "enhanced")
                        THEN late \cup {r} ELSE late
             /\ Touch(q, {r})
    /\ End(q)
    /\ UNCHANGED <<cfg, promoted, overtaken, hurried, crashes>>

LoadRule(q, r, pc) ==
    /\ req[q].pc = "idle"
    /\ Exists(r)
    /\ req' = [req EXCEPT ![q] = [Idle EXCEPT !.pc = pc, !.rule = r,
                                              !.copy = [NoRows EXCEPT ![r] = row[r]]]]
    /\ UNCHANGED <<row, cfg, history, crashes>>

EditLoad(q) == \E r \in Rule : LoadRule(q, r, "edit")
DeleteLoad(q) == \E r \in Rule : LoadRule(q, r, "delete")

\* Slip: an edit of an active rule leaves it active.
EditKeepsStatus(copy) == copy.status

\* The status an edit leaves behind; a tombstone becomes a rule again.
EditedStatus(copy) ==
    CASE copy.draft -> copy.status
      [] ~copy.draft /\ copy.status = "New" -> "New"
      [] OTHER -> "Modified"

\* What save() writes of a status: nothing when it is the one that was loaded.
SavedStatus(q, r, status) == IF status = req[q].copy[r].status THEN row[r].status ELSE status

EditSave(q) ==
    LET r == req[q].rule
    IN  /\ req[q].pc = "edit"
        /\ Exists(r)
        /\ \E c \in Content :
             SaveCopy(q, r, [row[r] EXCEPT !.content = c,
                               !.status = SavedStatus(q, r, EditedStatus(req[q].copy[r]))])
        /\ End(q)
        /\ UNCHANGED <<cfg, promoted, late, hurried, crashes>>

\* The row is gone, or its lists were replaced since it was loaded and this edit
\* replaces them too: save() throws.
EditRefused(q) ==
    LET r == req[q].rule
    IN  /\ req[q].pc = "edit"
        /\ row[r].content # req[q].copy[r].content
        /\ End(q)
        /\ UNCHANGED <<row, cfg, history, crashes>>

\* DELETE /rules/:id: drafts and new rules go, others become tombstones.
DeleteRow(q) ==
    LET r == req[q].rule
    IN  /\ req[q].pc = "delete"
        /\ req[q].copy[r].draft \/ req[q].copy[r].status = "New"
        /\ SaveCopy(q, r, GoneRow)
        /\ End(q)
        /\ UNCHANGED <<cfg, promoted, late, hurried, crashes>>

\* Also when the row is gone: save() throws.
DeleteMark(q) ==
    LET r == req[q].rule
    IN  /\ req[q].pc = "delete"
        /\ ~req[q].copy[r].draft /\ req[q].copy[r].status # "New"
        /\ IF Exists(r)
           THEN SaveCopy(q, r, [row[r] EXCEPT !.status = SavedStatus(q, r, "Deleted")])
           ELSE UNCHANGED <<row, overtaken, touched>>
        /\ End(q)
        /\ UNCHANGED <<cfg, promoted, late, hurried, crashes>>

\* PUT /config: the fields of the body that differ from the loaded row are saved.
ConfigLoad(q) ==
    /\ req[q].pc = "idle"
    /\ req' = [req EXCEPT ![q] = [Idle EXCEPT !.pc = "config", !.cfg = cfg]]
    /\ UNCHANGED <<row, cfg, history, crashes>>

ConfigSave(q) ==
    /\ req[q].pc = "config"
    /\ \E new \in Config :
         cfg' = [f \in DOMAIN cfg |->
                   IF f = "mode" \/ new[f] = req[q].cfg[f] THEN cfg[f] ELSE new[f]]
    /\ End(q)
    /\ UNCHANGED <<row, history, crashes>>

-----------------------------------------------------------------------------
(* Apply and reprocess, and the switch to enhanced mode                    *)

\* q loads the rules it is going to save, one after the other.
LoadAll(q, pc, rules) ==
    req' = [req EXCEPT ![q].pc = pc, ![q].todo = rules,
                       ![q].copy = [r \in Rule |-> IF r \in rules THEN row[r] ELSE NoRow]]

ApplyRequest(q) ==
    /\ req[q].pc = "idle"
    /\ Go(q, "drafts")
    /\ touched' = [touched EXCEPT ![q] = {}]
    /\ UNCHANGED <<row, cfg, promoted, overtaken, late, hurried, crashes>>

FindDrafts(q) ==
    LET drafts == {r \in Rule : row[r].draft}
    IN  /\ req[q].pc = "drafts"
        /\ LoadAll(q, "draft", drafts)
        /\ hurried' = (hurried \/ (cfg.mode = "legacy" /\ drafts # {}))
        /\ UNCHANGED <<row, cfg, promoted, overtaken, touched, late, crashes>>

Pending(r) == row[r].status \in {"New", "Modified"} /\ ~row[r].draft

\* Slip: edited rules are left out.
FindNew(q) ==
    /\ req[q].pc = "draft" /\ req[q].todo = {}
    /\ LoadAll(q, "promote", {r \in Rule : Pending(r) /\ row[r].status = "New"})
    /\ UNCHANGED <<row, cfg, history, crashes>>

FindPending(q) ==
    /\ req[q].pc = "draft" /\ req[q].todo = {}
    /\ LoadAll(q, "promote", {r \in Rule : Pending(r)})
    /\ UNCHANGED <<row, cfg, history, crashes>>

\* A draft also leaves the draft set.
Promote(q) ==
    /\ req[q].pc \in {"draft", "promote"}
    /\ \E r \in req[q].todo :
         /\ Exists(r)
         /\ SaveCopy(q, r, [row[r] EXCEPT !.status = "Active",
                              !.draft = @ /\ req[q].pc = "promote"])
         /\ promoted' = [promoted EXCEPT ![r] = row[r].content]
         /\ req' = [req EXCEPT ![q].todo = @ \ {r}]
    /\ UNCHANGED <<cfg, late, hurried, crashes>>

\* A rule was deleted since the query: save() throws and the apply stops there.
PromoteFails(q) ==
    /\ req[q].pc \in {"draft", "promote"}
    /\ \E r \in req[q].todo : ~Exists(r)
    /\ End(q)
    /\ UNCHANGED <<row, cfg, history, crashes>>

Purge(q) ==
    LET dead == {r \in Rule : row[r].status = "Deleted"}
    IN  /\ req[q].pc = "promote" /\ req[q].todo = {}
        /\ row' = [r \in Rule |-> IF r \in dead THEN GoneRow ELSE row[r]]
        /\ Touch(q, dead)
        /\ req' = [req EXCEPT ![q] = Ended("applied")]
        /\ UNCHANGED <<cfg, promoted, overtaken, late, hurried, crashes>>

\* activateEnhanced: a hub that is enhanced already is left alone.
SwitchRead(q) ==
    /\ req[q].pc = "idle"
    /\ IF cfg.mode = "enhanced" THEN End(q) ELSE Go(q, "wipe")
    /\ UNCHANGED <<row, cfg, history, crashes>>

\* Slip: the drafts are wiped as well.
WipeAll(q) ==
    /\ req[q].pc = "wipe"
    /\ row' = [r \in Rule |-> IF Exists(r) THEN GoneRow ELSE row[r]]
    /\ Touch(q, Rule)
    /\ late' = {}
    /\ Go(q, "flip")
    /\ UNCHANGED <<cfg, promoted, overtaken, hurried, crashes>>

\* Slip: only the live rules are wiped.
WipeLive(q) ==
    /\ req[q].pc = "wipe"
    /\ row' = [r \in Rule |-> IF r \in Live THEN GoneRow ELSE row[r]]
    /\ Touch(q, Live)
    /\ late' = late \ Live
    /\ Go(q, "flip")
    /\ UNCHANGED <<cfg, promoted, overtaken, hurried, crashes>>

Wipe(q) ==
    LET wiped == {r \in Rule : Exists(r) /\ ~row[r].draft}
    IN  /\ req[q].pc = "wipe"
        /\ row' = [r \in Rule |-> IF r \in wiped THEN GoneRow ELSE row[r]]
        /\ Touch(q, wiped)
        /\ late' = late \ wiped
        /\ hurried' = (hurried \/ cfg.mode = "enhanced")
        /\ Go(q, "flip")
        /\ UNCHANGED <<cfg, promoted, overtaken, crashes>>

\* Then the apply, within the same request.
SaveMode(q) ==
    /\ req[q].pc = "flip"
    /\ cfg' = [cfg EXCEPT !.mode = "enhanced"]
    /\ Go(q, "drafts")
    /\ touched' = [touched EXCEPT ![q] = {}]
    /\ UNCHANGED <<row, promoted, overtaken, late, hurried, crashes>>

\* The process ends: requests are forgotten, the collections stay.
Crash ==
    /\ crashes < MaxCrashes
    /\ crashes' = crashes + 1
    /\ req' = [q \in Request |-> IF req[q].pc \in {"idle", "applied"} THEN req[q] ELSE Ended("done")]
    /\ UNCHANGED <<row, cfg, history>>

RuleStep(q) == CreateRead(q) \/ CreateInsert(q) \/ EditLoad(q) \/ EditSave(q) \/ EditRefused(q)
                \/ DeleteLoad(q) \/ DeleteRow(q) \/ DeleteMark(q) \/ ConfigLoad(q) \/ ConfigSave(q)
ApplyStep(q) == ApplyRequest(q) \/ FindDrafts(q) \/ FindPending(q) \/ Promote(q)
                \/ PromoteFails(q) \/ Purge(q)
SwitchStep(q) == SwitchRead(q) \/ Wipe(q) \/ SaveMode(q)

Next == Crash \/ \E q \in Request : RuleStep(q) \/ ApplyStep(q) \/ SwitchStep(q)

Spec == Init /\ [][Next]_vars

-----------------------------------------------------------------------------
(* Properties                                                              *)

\* What a live rule says is what an apply promoted (PUT /rules/:id against
\* applyReprocess).  An edit loaded before the apply and saved after it may
\* write no status, since it found the rule Modified and leaves it so, and goes
\* live unapplied: such rules are in overtaken.
LiveWasApplied == \A r \in Live \ overtaken : row[r].content = promoted[r]

\* When an apply has ended well (applyReprocess, three writes of many rows), no
\* rule that nobody else wrote meanwhile is pending, a tombstone or a draft.
AppliedNothingLeft ==
    \A q \in Request : req[q].pc = "applied" =>
        \A r \in Rule \ touched[q] : Exists(r) => r \in Live

\* "Once enhanced Access rules are active, Fluid Topics deletes all the previous
\* rules" (routes/accessRules.js:311-315): none is left but those whose request
\* had read the old mode and inserted them after the wipe.
LegacyRulesGone ==
    cfg.mode = "enhanced" => \A r \in Rule \ late : Exists(r) => row[r].born # "legacy"

\* activateEnhanced drops no rule that was staged for it, wherever it stops and
\* is repeated, unless two switches overlap or an apply came before the switch.
StagedSetKept ==
    [][~hurried' => \A q \in Request, r \in Rule :
            Wipe(q) /\ row[r].born = "draft" => row'[r] = row[r]]_vars

\* "Children topics inherit Access rules from their parent unless defined
\* otherwise" (accessRulesService.js:9-10), if the root is near enough.
Rooted(t) == LET up == Ancestors(t) IN \E k \in DOMAIN up : up[k] # None /\ Parent[up[k]] = None

ChildrenInherit ==
    \A t \in Topic : Parent[t] # None /\ Rooted(t) /\ Matching(TopicRules, t) = {} =>
        \A u \in User : CanAccessTopic(u, t) = CanAccessTopic(u, Parent[t])
=============================================================================
