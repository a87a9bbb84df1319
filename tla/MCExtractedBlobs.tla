-------------------------- MODULE MCExtractedBlobs --------------------------
(* ExtractedBlobs for TLC: two zips that share a file, which one of them has   *)
(* under another extension too.                                               *)
EXTENDS ExtractedBlobs, TLC

CONSTANTS z1, z2, h1, png, jpg

Files == (z1 :> <<png>>) @@ (z2 :> <<png, jpg>>)
Hashing == [k \in Key |-> h1]

Symmetry == Permutations(Pub) \cup Permutations(Deleter)
=============================================================================
