--------------------------- MODULE TopicMergeClaims ---------------------------
(* What a comment says of merging the same zip again, for a zip whose topics   *)
(* do not have distinct stable ids: a file with two headings.                  *)
EXTENDS MCTopicMerge

\* Claim of Topic.js 118-122 ("an identical re-publish is a true no-op"), for an
\* instance with one zip: once a merge has ended without an error no topic's
\* text changes.
\* Refuted: both topics of the file are matched with the row inserted last, which
\* takes the first one's text; the second one's text is in no topic afterwards.
IdenticalIsNoop ==
    [][\A t \in DOMAIN topics :
          run[topics[t].doc].result = "clean" /\ topics[t].doc \notin leaving' =>
              t \in DOMAIN topics' /\ topics'[t].text = topics[t].text]_vars
=============================================================================
