--------------------------------- MODULE Urls ---------------------------------
(***************************************************************************)
(* The two pure parts of the pretty URLs under one roof: UrlEngine, which    *)
(* makes a URL from a template, and UrlNames, which puts the topics of a      *)
(* document in order and tells their URLs apart.  They share no state.        *)
(***************************************************************************)
EXTENDS Naturals, Sequences, SequencesExt

CONSTANTS
    Literal, Bare, Fragment, Blank, Segment, Template, MaxTemplates, Guarded, \* UrlEngine
    Member, Stranger, Position, Heading, Word, Raw,                           \* UrlNames
    Unset

VARIABLES
    subject, ofDocument, ofTopic, templates, \* UrlEngine: what is rendered, from what
    members, visited, names                  \* UrlNames: topics, their order and URLs

Engine == INSTANCE UrlEngine WITH
    MaxRows <- MaxTemplates, None <- Unset,
    scope <- subject, document <- ofDocument, topic <- ofTopic, rows <- templates

Names == INSTANCE UrlNames WITH
    Topic <- Member, Order <- Position, Title <- Heading, None <- Unset,
    topics <- members, order <- visited, urls <- names

ASSUME UrlAssumption == Engine!Given /\ Names!Given

-----------------------------------------------------------------------------
\* Invariant.  A URL reads like its template, left to right (UrlEngine, for tryRender).
ReadsLikeTemplate == Engine!ReadsLikeTemplate

\* A topic with a title keeps its URL when its document is edited (UrlEngine, for
\* resolveVariable).
TopicKeepsItsOwn == Engine!TopicKeepsItsOwn

\* Invariant.  Every topic of a document has one place, and a tree is in document
\* order (UrlNames, for orderTopicsHierarchically).
DocumentOrder == Names!DocumentOrder

\* Invariant.  Topics of a document have URLs of their own as long as none was
\* rendered with a number at its end (UrlNames, for deduplicateWithinDoc).
DistinctUnlessNumbered == Names!DistinctUnlessNumbered
=============================================================================
