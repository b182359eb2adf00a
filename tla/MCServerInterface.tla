------------------------- MODULE MCServerInterface -------------------------
(* Small instances of ServerInterface for TLC. *)
EXTENDS ServerInterface, TLC

CONSTANTS c1, c2

\* Connections are interchangeable.
Symmetry == Permutations({c1, c2})
============================================================================
