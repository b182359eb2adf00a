--------------------------- MODULE MessageChannel ---------------------------
(***************************************************************************)
(* What a pair of connections promises to the two applications: in each      *)
(* direction the messages arrive whole, once, and in the order they were     *)
(* queued.  A connection may stop delivering at any time (it may be lost).   *)
(***************************************************************************)
EXTENDS Sequences, Naturals

CONSTANTS Endpoints, Message, Peer(_)

VARIABLES sent,      \* [endpoint -> messages it queued for its peer]
          delivered  \* [endpoint -> messages that arrived at it]

vars == <<sent, delivered>>

Init == /\ sent = [e \in Endpoints |-> << >>]
        /\ delivered = [e \in Endpoints |-> << >>]

Send(e, m) == /\ sent' = [sent EXCEPT ![e] = Append(@, m)]
              /\ UNCHANGED delivered

Deliver(e) ==
    LET next == Len(delivered[e]) + 1 IN
    /\ next <= Len(sent[Peer(e)])
    /\ delivered' = [delivered EXCEPT ![e] = Append(@, sent[Peer(e)][next])]
    /\ UNCHANGED sent

Next == \E e \in Endpoints : Deliver(e) \/ \E m \in Message : Send(e, m)

Spec == Init /\ [][Next]_vars
=============================================================================
