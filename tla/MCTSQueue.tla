----------------------------- MODULE MCTSQueue -----------------------------
(* A small instance of TSQueue for TLC. *)
EXTENDS TSQueue

CONSTANTS p1, p2
============================================================================
