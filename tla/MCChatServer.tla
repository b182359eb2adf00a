---------------------------- MODULE MCChatServer ----------------------------
(* A small instance of ChatServer for TLC. *)
EXTENDS ChatServer, TLC

CONSTANTS c1, c2

\* The first client may type ahead, a line before the other was read.
Typed == c1 :> 2 @@ c2 :> 1
============================================================================
