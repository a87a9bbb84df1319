---------------------------- MODULE MCVocabularies ----------------------------
(* Vocabularies for TLC: two ids that may contend for a name, three files of    *)
(* which one is in another language.                                          *)
EXTENDS Vocabularies, TLC

CONSTANTS f1, f2, f3

Languages == (f1 :> "en") @@ (f2 :> "en") @@ (f3 :> "fr")

Symmetry == Permutations(Vocab) \cup Permutations(Request) \cup Permutations({f1, f2})
=============================================================================
