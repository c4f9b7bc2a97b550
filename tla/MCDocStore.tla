----------------------------- MODULE MCDocStore -----------------------------
(* Ids and contents are interchangeable: every property is one of safety.    *)
EXTENDS DocStore, TLC

Symmetry == Permutations(Ids) \union Permutations(Texts)
=============================================================================
