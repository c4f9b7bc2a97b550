---------------------------- MODULE MCEnginePool ----------------------------
(* Two calls, and two reloads that can overlap.                              *)
EXTENDS EnginePool
=============================================================================
