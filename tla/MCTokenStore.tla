---------------------------- MODULE MCTokenStore ----------------------------
(* Two admin tools of one server, or one and a command line beside it. The  *)
(* tool calls are alike, and no property tells them apart.                   *)
EXTENDS TokenStore, TLC

Symmetry == Permutations(Calls)
=============================================================================
