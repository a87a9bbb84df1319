-------------------------- MODULE MCEnrichReprocess --------------------------
(* EnrichReprocess for TLC: topics, saves, jobs and ingests are each           *)
(* interchangeable.                                                           *)
EXTENDS EnrichReprocess, TLC

Symmetry == Permutations(Topic) \cup Permutations(Save) \cup Permutations(Job)
                \cup Permutations(Ingest)
=============================================================================
