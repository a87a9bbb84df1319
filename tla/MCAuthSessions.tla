--------------------------- MODULE MCAuthSessions ---------------------------
(* AuthSessions for TLC: users, tabs and calls are each interchangeable.      *)
EXTENDS AuthSessions, TLC

Symmetry == Permutations(User) \cup Permutations(Tab) \cup Permutations(Request)
=============================================================================
