------------------------- MODULE MCSessionCheckpoint -------------------------
(* SessionCheckpoint for TLC: a session, its operations and a crash.          *)
EXTENDS SessionCheckpoint
==============================================================================
