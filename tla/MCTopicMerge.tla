---------------------------- MODULE MCTopicMerge ----------------------------
(* TopicMerge for TLC: versions of one Paligo publication, which two documents *)
(* can carry at once, of a zip of another format and of an empty one.          *)
EXTENDS TopicMerge, TLC

CONSTANTS intro, setup, extra, page, old, new, guide, guide2

Cand(s, t, x, p, l) == [sid |-> s, text |-> t, title |-> x, parent |-> p, link |-> l]
Of(paligo, cands) == [paligo |-> paligo, cands |-> cands]

Uploads ==
    {Of(TRUE, <<Cand(intro, old, guide, None, setup), Cand(setup, old, guide, intro, intro)>>),
     Of(TRUE, <<Cand(setup, old, guide2, None, None), Cand(intro, new, guide, setup, setup),
                Cand(extra, new, guide, None, None)>>),
     Of(FALSE, <<Cand(page, old, guide, None, None)>>),
     Of(FALSE, <<Cand(page, new, guide, None, None)>>),
     Of(TRUE, << >>)}

\* A file with two headings: two topics with one path.
Sections ==
    {Of(FALSE, <<Cand(intro, old, guide, None, None), Cand(intro, new, guide2, None, None)>>)}

Urls == (guide :> <<guide>>) @@ (guide2 :> <<guide, 2>>)

Symmetry == Permutations(Doc)
=============================================================================
