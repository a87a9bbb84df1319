---------------------------- MODULE MCAccessRules ----------------------------
(* AccessRules for TLC: a root topic with a child and a grandchild, of which   *)
(* the last is too deep to reach the root; a rule on the document and topic    *)
(* rules that grant different readers.                                        *)
EXTENDS AccessRules, TLC

CONSTANTS anon, ann, t1, t2, t3

Chain == (t1 :> None) @@ (t2 :> t1) @@ (t3 :> t2)
Open == [topics |-> FALSE, items |-> {Doc}, users |-> {ann}]
OnRoot == [topics |-> TRUE, items |-> {t1}, users |-> {ann}]
OnLeaf == [topics |-> TRUE, items |-> {t2}, users |-> {anon}]
Contents == {Open, OnRoot, OnLeaf}
PublicOrNone == {User, {}}

Symmetry == Permutations(Request) \cup Permutations(Rule)
=============================================================================
