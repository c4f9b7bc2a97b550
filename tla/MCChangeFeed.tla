------------------------------ MODULE MCChangeFeed -----------------------------
(* Documents 1 and 2 of different types, one client; calls are alike.          *)
EXTENDS ChangeFeed, TLC

MCDocs    == {1, 2}
MCFilters == {{1, 2}, {1}}
Symmetry  == Permutations(Calls)
===============================================================================
