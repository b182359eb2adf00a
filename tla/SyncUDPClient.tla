---------------------------- MODULE SyncUDPClient ----------------------------
(***************************************************************************)
(* SyncUDPClient (asio-cookbook/ch3_client/sync_udp_client.cpp): main asks   *)
(* two servers, one after the other, through one socket that is shut down    *)
(* after the first answer.  Datagrams may be lost or duplicated, and anybody *)
(* may send one to the socket.                                              *)
(***************************************************************************)
EXTENDS Naturals

CONSTANT MaxReplies   \* bound: datagrams sent to the client by one sender

ASSUME RepliesAssumption == MaxReplies \in Nat \ {0}

Servers == {1, 2}   \* in the order in which main asks them
Stranger == 0       \* anybody who was not asked for what he sends
Senders == Servers \cup {Stranger}

VARIABLES udpPc,     \* "send", "receive", "shutdown", then "done" or "thrown"
          server,    \* the one that is being asked
          m_sock,    \* "open" or "shut"
          requests,  \* servers to which a request is on its way
          replies,   \* [sender -> its datagrams on their way to the client]
          sent,      \* [sender -> datagrams it has sent]
          lost,      \* a request or an answer to one has been lost
          asked,     \* history: the servers that send_to has addressed
          answers    \* history: <<server asked, sender of what was taken for its answer>>

udpVars == <<udpPc, server, m_sock, requests, replies, sent, lost, asked, answers>>

UDPInit == /\ udpPc = "send"
           /\ server = 1
           /\ m_sock = "open"
           /\ requests = {}
           /\ replies = [s \in Senders |-> 0]
           /\ sent = [s \in Senders |-> 0]
           /\ lost = FALSE
           /\ asked = {}
           /\ answers = {}
----------------------------------------------------------------------------
\* Mutant of Datagram: send_to reports an error that is ignored.
MutDatagramNone(s) == {}
Datagram(s) == {s}

\* send_to, which throws on a socket that has been shut down.
SendRequest ==
    /\ udpPc = "send"
    /\ IF m_sock = "open"
         THEN /\ udpPc' = "receive"
              /\ asked' = asked \cup {server}
              /\ requests' = requests \cup Datagram(server)
         ELSE udpPc' = "thrown" /\ UNCHANGED <<asked, requests>>
    /\ UNCHANGED <<server, m_sock, replies, sent, lost, answers>>

\* receive_from takes a datagram from anybody: ep is only written.
ReceiveResponse(s) ==
    /\ udpPc = "receive"
    /\ replies[s] > 0
    /\ replies' = [replies EXCEPT ![s] = @ - 1]
    /\ answers' = answers \cup {<<server, s>>}
    /\ udpPc' = "shutdown"
    /\ UNCHANGED <<server, m_sock, requests, sent, lost, asked>>

\* Mutant of AfterShutdown: the socket is as before.
MutAfterShutdownOpen == "open"
AfterShutdown == "shut"

\* shutdown(shutdown_both) of a socket without a peer: on most systems an error,
\* which is thrown; on others main goes on to the second server.
Shutdown ==
    /\ udpPc = "shutdown"
    /\ m_sock' = AfterShutdown
    /\ \/ udpPc' = "thrown" /\ UNCHANGED server
       \/ IF server = 1 THEN udpPc' = "send" /\ server' = 2
                        ELSE udpPc' = "done" /\ UNCHANGED server
    /\ UNCHANGED <<requests, replies, sent, lost, asked, answers>>
----------------------------------------------------------------------------
(* The servers and the network                                             *)

\* A server gets a request, and answers.  (It may get the request again.)
Answer(s) ==
    /\ s \in requests
    /\ sent[s] < MaxReplies
    /\ \E again \in BOOLEAN : requests' = IF again THEN requests ELSE requests \ {s}
    /\ sent' = [sent EXCEPT ![s] = @ + 1]
    /\ replies' = [replies EXCEPT ![s] = @ + 1]
    /\ UNCHANGED <<udpPc, server, m_sock, lost, asked, answers>>

\* A datagram that is no answer; it arrives once the first send_to has bound the
\* socket to a port.
Intrude ==
    /\ asked # {}
    /\ sent[Stranger] < MaxReplies
    /\ sent' = [sent EXCEPT ![Stranger] = @ + 1]
    /\ replies' = [replies EXCEPT ![Stranger] = @ + 1]
    /\ UNCHANGED <<udpPc, server, m_sock, requests, lost, asked, answers>>

Lose(s) ==
    /\ \/ s \in requests /\ requests' = requests \ {s} /\ UNCHANGED replies
       \/ replies[s] > 0 /\ replies' = [replies EXCEPT ![s] = @ - 1] /\ UNCHANGED requests
    /\ lost' = (lost \/ s # Stranger)
    /\ UNCHANGED <<udpPc, server, m_sock, sent, asked, answers>>

UDPClient == SendRequest \/ Shutdown \/ \E s \in Senders : ReceiveResponse(s)

Network == (\E s \in Servers : Answer(s)) \/ Intrude

UDPNext == UDPClient \/ Network \/ \E s \in Senders : Lose(s)

UDPSpec == UDPInit /\ [][UDPNext]_udpVars
----------------------------------------------------------------------------
(* Properties                                                              *)

UDPTypeOK == /\ udpPc \in {"send", "receive", "shutdown", "done", "thrown"}
             /\ server \in Servers
             /\ m_sock \in {"open", "shut"}
             /\ requests \subseteq Servers
             /\ replies \in [Senders -> 0 .. MaxReplies]
             /\ sent \in [Senders -> 0 .. MaxReplies]
             /\ lost \in BOOLEAN
             /\ asked \subseteq Servers
             /\ answers \subseteq Servers \X Senders

\* "This one class can talk to several servers" (sync_udp_client.cpp:18), and main
\* asks two through one object of it (:72, :80): when main ends, both have been asked.
TalksToSeveralServers == udpPc \in {"done", "thrown"} => asked = Servers

\* receive_from (:49) looks at no sender: what it takes for the answer of a server may
\* come from a stranger, but never is the answer of another server, given late or
\* twice, whatever the network loses and repeats.  (The socket is shut down, :52,
\* before anybody else can be asked through it.)
AnswersAreNotMixedUp ==
    /\ UDPTypeOK
    /\ \A a \in answers : a[2] \in {a[1], Stranger}

\* receive_from has no timeout (:49): a call waits for ever only if its request or an
\* answer to it has been lost.
WaitsOnlyForLost == udpPc = "receive" ~> udpPc # "receive" \/ lost
============================================================================
