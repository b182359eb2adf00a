-------------------------- MODULE MCAsyncTCPServer --------------------------
(* A small instance of AsyncTCPServer for TLC. *)
EXTENDS AsyncTCPServer

CONSTANTS c1, c2, t1, t2
============================================================================
