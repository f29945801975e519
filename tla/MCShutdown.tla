----------------------------- MODULE MCShutdown -----------------------------
(***************************************************************************)
(* Small instances of Shutdown for TLC: two loops and one API request.      *)
(***************************************************************************)
EXTENDS Shutdown

CONSTANTS l1, l2, r1
=============================================================================
