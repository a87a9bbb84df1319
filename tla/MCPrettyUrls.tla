----------------------------- MODULE MCPrettyUrls -----------------------------
(* PrettyUrls for TLC: two rows, and a template for each scope.               *)
EXTENDS PrettyUrls, TLC

Symmetry == Permutations(Request) \cup Permutations(Worker) \cup Permutations(DocBody)
=============================================================================
