-------------------------------- MODULE MCUrls --------------------------------
(* Urls for TLC.  UrlEngine and UrlNames are two machines side by side: a         *)
(* behaviour either edits what the engine reads or lets topics come into a       *)
(* document.  For the engine there is a template for each thing a template can   *)
(* do; for the names, the URLs "a" and "a-2" and topics without one.             *)
EXTENDS Urls, TLC

CONSTANTS k, docs, x, part, a

Templates == {
    <<<<docs, k>>, <<"$title">>>>,                    \* /docs-{$k}/{$title}
    <<<<"$document.ft:prettyUrl">>, <<"$title">>>>,   \* /{$document.ft:prettyUrl}/{$title}
    <<<<docs, "$ft:prettyUrl">>>>}                    \* /docs-{$ft:prettyUrl}

Raws == {<<a>>, <<a, 2>>}
TwoPositions == {1, 2}
TwoHeadings == {1, 2}

Symmetry == Permutations(Member)

InitBoth == Engine!Init /\ Names!Init

NextEither ==
    \/ members = <<>> /\ Engine!Next /\ UNCHANGED <<members, visited, names>>
    \/ Engine!Init /\ Names!Next /\ UNCHANGED <<subject, ofDocument, ofTopic, templates>>

EitherSpec == InitBoth /\ [][NextEither]_<<Engine!vars, Names!vars>>
=============================================================================
