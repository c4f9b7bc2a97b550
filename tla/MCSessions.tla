---------------------------- MODULE MCSessions ----------------------------
(* One session (sessions only share the instance), two projects, a token   *)
(* for one of them that claims more than its global role, and a token for  *)
(* all of them with a lower cap on the first.                              *)
EXTENDS Sessions, TLC

CONSTANTS p, q, s1

MCProjects == {p, q}
MCSids == {s1}

WriterOfOne ==
  [role |-> 1, projects |-> (p :> 2 @@ q :> NoRole @@ Wildcard :> NoRole)]
AdminReadingOne ==
  [role |-> 2, projects |-> (p :> 0 @@ q :> NoRole @@ Wildcard :> Inherit)]

MCTokens == {WriterOfOne, AdminReadingOne}
=============================================================================
