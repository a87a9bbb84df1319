---------------------------- MODULE MCPublishing ----------------------------
(* Publishing for TLC: publications, documents, requests and clean or dirty   *)
(* zips are interchangeable within their kind.                                *)
EXTENDS Publishing, TLC

CONSTANTS p1, d1

\* No publication yet, or one published before the lock word existed.
NoLegacy == << >>
OneLegacy == p1 :> d1

Symmetry == Permutations(Pub) \cup Permutations(Doc) \cup Permutations(Flow)

LegacySymmetry == Permutations(Pub \ {p1}) \cup Permutations(Doc \ {d1}) \cup Permutations(Flow)
=============================================================================
