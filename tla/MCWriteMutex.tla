---------------------------- MODULE MCWriteMutex ----------------------------
(* Three callers: an owner, a waiter, and a newcomer that must not overtake. *)
EXTENDS WriteMutex
=============================================================================
