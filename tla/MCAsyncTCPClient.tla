-------------------------- MODULE MCAsyncTCPClient --------------------------
(* A small instance of AsyncTCPClient for TLC. *)
EXTENDS AsyncTCPClient

CONSTANTS r1, r2, t1, t2
============================================================================
