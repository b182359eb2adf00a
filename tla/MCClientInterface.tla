------------------------- MODULE MCClientInterface -------------------------
(* A small instance of ClientInterface for TLC. *)
EXTENDS ClientInterface
============================================================================
