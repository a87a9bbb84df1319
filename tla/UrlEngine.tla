------------------------------ MODULE UrlEngine ------------------------------
(***************************************************************************)
(* How a pretty URL is made from a template (prettyUrlEngine.js): which of   *)
(* the active templates of a scope is taken for a document or a topic, where  *)
(* each variable is read, and how the pieces become a path.                  *)
(*                                                                         *)
(* The engine is pure.  The state is its input, which edits of the metadata   *)
(* and of the templates change; Url is what it answers.  A fragment is what    *)
(* is left of a text by slugifyFragment; a segment is the sequence of the       *)
(* fragments that "-" joins, and a path is a sequence of segments.             *)
(***************************************************************************)
EXTENDS Naturals, Sequences, SequencesExt

CONSTANTS
    Literal,    \* the texts of templates
    Bare,       \* metadata keys
    Fragment,   \* values of metadata
    Blank,      \* a text of which slugifyFragment leaves nothing
    Segment,    \* fragments that are segments of the URL the document has
    Template,   \* templates: sequences of segments, which are sequences of tokens
    MaxRows,    \* bound: active templates of a scope
    Guarded,    \* bound: keys that get a requirement
    None        \* no value

Title == "$title"                      \* reserved, topics and documents have one
OwnPath == "$ft:prettyUrl"             \* reserved; topics are loaded without theirs
DocPath == "$document.ft:prettyUrl"    \* reserved, and always the document's
Path == {OwnPath, DocPath}
Key == Bare \cup {Title} \cup Path

\* What is asked of the constants.
Given ==
    /\ MaxRows \in Nat /\ Guarded \subseteq Key
    /\ Template \subseteq Seq(Seq(Literal \cup Key))
    /\ Literal \cap Key = {} /\ Bare \cap ({Title} \cup Path) = {}
    /\ None \notin Fragment \cup {Blank}

Source == {"document", "topic"}
Text == Fragment \cup {Blank, None}

\* A row's requirements, by key.
Requirement == [required : BOOLEAN, topicSource : BOOLEAN]

VARIABLES
    scope,     \* what is rendered
    document,  \* the value of each key
    topic,     \* of the topic that is rendered, or the first one of the document
    rows       \* the active templates of the scope, in their order

vars == <<scope, document, topic, rows>>

-----------------------------------------------------------------------------
(* resolveVariable                                                         *)

OrElse(a, b) == IF a = None THEN b ELSE a

\* renderForDocument passes no topic.
OfTopic(k) == IF scope = "topic" THEN topic[k] ELSE None

\* Slip: reserved fields are read off the document first.
DocumentFirst(k, source) ==
    IF k \in Bare /\ source = "topic" THEN OfTopic(k) ELSE OrElse(document[k], OfTopic(k))
Value(k, source) ==
    IF k \in Bare THEN IF source = "topic" THEN OfTopic(k) ELSE document[k]
    ELSE IF source = "topic" /\ k # DocPath THEN OrElse(OfTopic(k), document[k])
    ELSE OrElse(document[k], OfTopic(k))

-----------------------------------------------------------------------------
(* tryRender                                                               *)

\* A row says where its key is read; a key without one is read off the topic when
\* there is one.
SourceOf(row, k) ==
    IF k \in DOMAIN row.requirements
    THEN IF row.requirements[k].topicSource THEN "topic" ELSE "document"
    ELSE scope

Read(row, k) == Value(k, SourceOf(row, k))
Variables(row) == {k \in Key : \E n \in DOMAIN row.template : Contains(row.template[n], k)}

\* Without any requirement every variable is required.
Required(row, k) ==
    IF DOMAIN row.requirements = {} THEN TRUE
    ELSE k \in DOMAIN row.requirements /\ row.requirements[k].required

Missing(row) == {k \in Variables(row) : Required(row, k) /\ Read(row, k) = None}

Slug(text) == IF text \in {Blank, None} THEN <<>> ELSE <<text>>

\* What a token adds to the segment it stands in ...
Fragments(row, t) ==
    IF t \in Literal THEN Slug(t) ELSE IF t \in Path THEN <<>> ELSE Slug(Read(row, t))
\* ... and to the path, in front of that segment.
Segments(row, t) ==
    IF t \in Path /\ Read(row, t) # None
    THEN [n \in DOMAIN Read(row, t) |-> <<Read(row, t)[n]>>] ELSE <<>>

\* joinPath.
NonEmpty(segment) == IF segment = <<>> THEN <<>> ELSE <<segment>>

\* Slip: the URL of the document goes to the end of the path.
PathsLast(row) ==
    FlattenSeq([n \in DOMAIN row.template |-> NonEmpty(FlattenSeq(
        [m \in DOMAIN row.template[n] |-> Fragments(row, row.template[n][m])]))])
    \o FlattenSeq([n \in DOMAIN row.template |-> FlattenSeq(
        [m \in DOMAIN row.template[n] |-> Segments(row, row.template[n][m])])])
Rendered(row) ==
    FlattenSeq([n \in DOMAIN row.template |->
        LET tokens == row.template[n]
        IN  FlattenSeq([m \in DOMAIN tokens |-> Segments(row, tokens[m])])
            \o NonEmpty(FlattenSeq([m \in DOMAIN tokens |-> Fragments(row, tokens[m])]))])

\* renderForDocument, renderForTopic: the first row of which nothing is missing, 0
\* if there is none.
Pick == SelectInSeq(rows, LAMBDA row : Missing(row) = {})
Url == IF Pick = 0 THEN <<>> ELSE Rendered(rows[Pick])

-----------------------------------------------------------------------------
Value0 == [k \in Key |-> None]

Init ==
    /\ scope \in Source
    /\ document = Value0 /\ topic = Value0
    /\ rows = <<>>

\* The metadata of the document changes, or its URL by a run before this one.
EditDocument ==
    /\ \/ \E k \in Bare \cup {Title}, v \in Text : document' = [document EXCEPT ![k] = v]
       \/ \E p \in {<<s, t>> : s, t \in Segment} \cup {None} :
             document' = [k \in Key |-> IF k \in Path THEN p ELSE document[k]]
    /\ UNCHANGED <<scope, topic, rows>>

EditTopic ==
    /\ \E k \in Bare \cup {Title}, v \in Text : topic' = [topic EXCEPT ![k] = v]
    /\ UNCHANGED <<scope, document, rows>>

\* A template with requirements on some keys, which need not be its variables,
\* becomes the last one of the scope.
ActivateRow ==
    /\ Len(rows) < MaxRows
    /\ \E t \in Template, ks \in SUBSET Guarded :
          \E r \in [ks -> Requirement] :
             rows' = Append(rows, [template |-> t, requirements |-> r])
    /\ UNCHANGED <<scope, document, topic>>

ClearRows ==
    /\ rows # <<>>
    /\ rows' = <<>>
    /\ UNCHANGED <<scope, document, topic>>

Next == EditDocument \/ EditTopic \/ ActivateRow \/ ClearRows
Spec == Init /\ [][Next]_vars

-----------------------------------------------------------------------------
(* Properties                                                              *)

\* The fragments of a row, token after token.
Reading(row) ==
    FlattenSeq([n \in DOMAIN row.template |->
        FlattenSeq([m \in DOMAIN row.template[n] |->
            Fragments(row, row.template[n][m])
            \o FlattenSeq(Segments(row, row.template[n][m]))])])

\* Invariant.  A URL reads like its template, left to right, if a variable that
\* stands for a path has a segment to itself (tryRender).
ReadsLikeTemplate ==
    \A n \in DOMAIN rows :
        (\A s \in DOMAIN rows[n].template :
            \A m \in DOMAIN rows[n].template[s] :
                rows[n].template[s][m] \in Path => Len(rows[n].template[s]) = 1)
        => FlattenSeq(Rendered(rows[n])) = Reading(rows[n])

\* A topic with a title does not take the title of its document, nor any other
\* value but a path: an edit of the document leaves its URL (resolveVariable).
\* Except for templates with requirements, whose rows say "document" by default.
TopicKeepsItsOwn ==
    [][(/\ scope = "topic" /\ topic' = topic /\ rows' = rows /\ topic[Title] # None
        /\ \A n \in DOMAIN rows : DOMAIN rows[n].requirements = {}
        /\ \A k \in Path : document'[k] = document[k])
       => Url' = Url]_vars
=============================================================================
