------------------------------ MODULE ChatRoom ------------------------------
(***************************************************************************)
(* What the chat server promises its clients: everybody in the room reads    *)
(* one and the same log, from the point where they joined, with nothing      *)
(* missing, repeated or out of order.                                        *)
(***************************************************************************)
EXTENDS Naturals, Sequences

CONSTANTS Clients, Entry

VARIABLES log,     \* everything that was broadcast
          joined,  \* [client -> length of the log when it joined]
          read     \* [client -> entries it has read]

vars == <<log, joined, read>>

Init == /\ log = << >>
        /\ joined = [c \in Clients |-> 0]
        /\ read = [c \in Clients |-> << >>]

\* Several entries may be broadcast at once, and c may join at the end of them.
Broadcast == /\ \E m \in Entry : log' = Append(log, m)
             /\ UNCHANGED <<joined, read>>

Join(c) == /\ read[c] = << >>
           /\ \E m \in Entry : log' = Append(log, m)
           /\ joined' = [joined EXCEPT ![c] = Len(log')]
           /\ UNCHANGED read

Read(c) == LET next == joined[c] + Len(read[c]) + 1 IN
           /\ next <= Len(log)
           /\ read' = [read EXCEPT ![c] = Append(@, log[next])]
           /\ UNCHANGED <<log, joined>>

Next == Broadcast \/ \E c \in Clients : Join(c) \/ Read(c)

Spec == Init /\ [][Next]_vars
=============================================================================
