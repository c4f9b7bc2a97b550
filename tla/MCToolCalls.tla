---------------------------- MODULE MCToolCalls ----------------------------
(* Two calls over two sessions, one of them with a token, one key.         *)
EXTENDS ToolCalls
=============================================================================
