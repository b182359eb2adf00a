---------------------------- MODULE MCConnection ----------------------------
(* Small instances of Connection for TLC. *)
EXTENDS Connection

\* A ping carries a time, eight bytes; MessageAll carries nothing.
Ping == [id |-> "ping", size |-> 1, body |-> <<"time">>]
All == [id |-> "all", size |-> 0, body |-> << >>]

PingAll == {Ping, All}
Pings == {"ping"}
MessageIds == {"ping", "all"}
Times == {"time"}
============================================================================
