----------------------------- MODULE SyncServer -----------------------------
(***************************************************************************)
(* The synchronous TCP servers of asio-cookbook/ch4_server: the iterative    *)
(* one (sync_iterative_tcp_server.cpp) serves a client on the server's       *)
(* thread, the parallel one (sync_parallel_tcp_server.cpp) on a detached     *)
(* thread of its own.  They share Server and the loop of Run; which of the    *)
(* two a behaviour is of is chosen in Init.  Their clients are programs like  *)
(* SyncTCPClient (ch3_client/sync_tcp_client.cpp), which connects, sends a     *)
(* request, blocks in read_until, and closes; but a client may also stay      *)
(* silent, or leave, at any time.                                            *)
(***************************************************************************)
CONSTANT Clients   \* each connects at most once

VARIABLES parallel, \* which of the two servers; never changes
          mainPc,   \* main: "running", "join" in Stop, "stopped", "exited"
          m_stop,
          pc,       \* the server's thread
          peer,     \* [client -> "away", "connected", "waiting" for its answer,
                    \*            or gone: "answered", "failed", "left"]
          request,  \* [client -> it has sent a request, up to the '\n']
          service   \* [client -> "none", "read", "process", "answered" or "failed"]

vars == <<parallel, mainPc, m_stop, pc, peer, request, service>>

Here(c) == peer[c] \in {"connected", "waiting"}

\* c waits in the acceptor's backlog, whether or not it is still there.
Queued(c) == peer[c] # "away" /\ service[c] = "none"
InService(c) == service[c] \in {"read", "process"}

Init == /\ parallel \in BOOLEAN
        /\ mainPc = "running"
        /\ m_stop = FALSE
        /\ pc = "construct"
        /\ peer = [c \in Clients |-> "away"]
        /\ request = [c \in Clients |-> FALSE]
        /\ service = [c \in Clients |-> "none"]
----------------------------------------------------------------------------
(* Server::Run                                                             *)

\* Acceptor's constructor: binds and listens.
Listen == /\ pc = "construct"
          /\ pc' = "test"
          /\ UNCHANGED <<parallel, mainPc, m_stop, peer, request, service>>

\* ... or throws, as accept() may: nothing on this thread catches it.
AcceptorThrows == /\ pc \in {"construct", "accept"}
                  /\ pc' = "terminated"
                  /\ UNCHANGED <<parallel, mainPc, m_stop, peer, request, service>>

\* Mutant of LoopTest: the loop does not look at m_stop.
MutLoopTestForever ==
    /\ pc = "test"
    /\ pc' = "accept"
    /\ UNCHANGED <<parallel, mainPc, m_stop, peer, request, service>>

LoopTest == /\ pc = "test"
            /\ pc' = IF m_stop THEN "returned" ELSE "accept"
            /\ UNCHANGED <<parallel, mainPc, m_stop, peer, request, service>>

\* Acceptor::Accept of the iterative server stays in HandleClient.
AcceptIterative(c) ==
    /\ ~parallel
    /\ pc = "accept"
    /\ Queued(c)
    /\ service' = [service EXCEPT ![c] = "read"]
    /\ pc' = "handle"
    /\ UNCHANGED <<parallel, mainPc, m_stop, peer, request>>

\* Mutant of AcceptParallel: the service's thread is joined.
MutAcceptParallelJoins(c) ==
    /\ parallel
    /\ pc = "accept"
    /\ Queued(c)
    /\ service' = [service EXCEPT ![c] = "read"]
    /\ pc' = "handle"
    /\ UNCHANGED <<parallel, mainPc, m_stop, peer, request>>

\* Acceptor::Accept of the parallel server: HandleClient runs on a detached thread.
AcceptParallel(c) ==
    /\ parallel
    /\ pc = "accept"
    /\ Queued(c)
    /\ service' = [service EXCEPT ![c] = "read"]
    /\ pc' = "test"
    /\ UNCHANGED <<parallel, mainPc, m_stop, peer, request>>
----------------------------------------------------------------------------
(* Service::HandleClient                                                   *)

\* The process has neither returned from main nor called std::terminate.
Alive == mainPc # "exited" /\ pc # "terminated"

\* read_until returns: the service goes on to process the request.
ReadRequest(c) ==
    /\ Alive
    /\ service[c] = "read"
    /\ request[c]
    /\ service' = [service EXCEPT ![c] = "process"]
    /\ UNCHANGED <<parallel, mainPc, m_stop, pc, peer, request>>

\* HandleClient returns, in the iterative server to the loop.
Return(c, outcome) ==
    /\ service' = [service EXCEPT ![c] = outcome]
    /\ pc' = IF pc = "handle" THEN "test" ELSE pc
    /\ UNCHANGED <<parallel, mainPc, m_stop, peer, request>>

\* Mutant of HandleFails: the exception is not caught.
MutHandleFailsUncaught(c) ==
    /\ Alive
    /\ InService(c)
    /\ ~Here(c)
    /\ service' = [service EXCEPT ![c] = "failed"]
    /\ pc' = "terminated"
    /\ UNCHANGED <<parallel, mainPc, m_stop, peer, request>>

\* read_until or write throws, since the client is gone; the exception is caught.
HandleFails(c) ==
    /\ Alive
    /\ InService(c)
    /\ ~Here(c)
    /\ Return(c, "failed")

\* write takes the response, even if the client has just gone.
Respond(c) ==
    /\ Alive
    /\ service[c] = "process"
    /\ Return(c, "answered")
----------------------------------------------------------------------------
(* main                                                                    *)

\* Stop: m_stop is set ...
Stop == /\ mainPc = "running"
        /\ Alive
        /\ m_stop' = TRUE
        /\ mainPc' = "join"
        /\ UNCHANGED <<parallel, pc, peer, request, service>>

\* ... and the thread joined.
Join == /\ mainPc = "join"
        /\ pc = "returned"
        /\ mainPc' = "stopped"
        /\ UNCHANGED <<parallel, m_stop, pc, peer, request, service>>

\* srv is destroyed, and main returns.
Exit == /\ mainPc = "stopped"
        /\ mainPc' = "exited"
        /\ UNCHANGED <<parallel, m_stop, pc, peer, request, service>>
----------------------------------------------------------------------------
(* The clients                                                             *)

\* Connect.  (One that is refused ends the client and changes nothing here.)
ClientConnects(c) ==
    /\ pc \in {"test", "accept", "handle"}
    /\ peer[c] = "away"
    /\ peer' = [peer EXCEPT ![c] = "connected"]
    /\ UNCHANGED <<parallel, mainPc, m_stop, pc, request, service>>

\* SendRequest: the client goes on to ReceiveResponse.
ClientSends(c) ==
    /\ peer[c] = "connected"
    /\ peer' = [peer EXCEPT ![c] = "waiting"]
    /\ request' = [request EXCEPT ![c] = TRUE]
    /\ UNCHANGED <<parallel, mainPc, m_stop, pc, service>>

\* ReceiveResponse returns with the line of the answer, and Close follows.
ClientReads(c) ==
    /\ peer[c] = "waiting"
    /\ service[c] = "answered"
    /\ peer' = [peer EXCEPT ![c] = "answered"]
    /\ UNCHANGED <<parallel, mainPc, m_stop, pc, request, service>>

\* The connection is reset: its server is gone, or its acceptor with c unserved.
Lost(c) == ~Alive \/ (pc = "returned" /\ service[c] = "none")

\* SendRequest or ReceiveResponse throws, and main reports it.
ClientFails(c) ==
    /\ Here(c)
    /\ Lost(c)
    /\ service[c] # "answered"
    /\ peer' = [peer EXCEPT ![c] = "failed"]
    /\ UNCHANGED <<parallel, mainPc, m_stop, pc, request, service>>

ClientGoes(c) ==
    /\ Here(c)
    /\ peer' = [peer EXCEPT ![c] = "left"]
    /\ UNCHANGED <<parallel, mainPc, m_stop, pc, request, service>>
----------------------------------------------------------------------------
ServerThread == \/ Listen \/ LoopTest
                \/ \E c \in Clients : AcceptIterative(c) \/ AcceptParallel(c)

HandleClient(c) == ReadRequest(c) \/ HandleFails(c) \/ Respond(c)

Main == Stop \/ Join \/ Exit

Next == \/ ServerThread \/ AcceptorThrows
        \/ Main
        \/ \E c \in Clients : \/ HandleClient(c)
                              \/ ClientConnects(c) \/ ClientSends(c) \/ ClientGoes(c)
                              \/ ClientReads(c) \/ ClientFails(c)

Spec == Init /\ [][Next]_vars
----------------------------------------------------------------------------
(* Properties                                                              *)

\* Every variable stays in its range.
TypeOK == /\ parallel \in BOOLEAN
          /\ mainPc \in {"running", "join", "stopped", "exited"}
          /\ m_stop \in BOOLEAN
          /\ pc \in {"construct", "test", "accept", "handle", "returned", "terminated"}
          /\ peer \in [Clients -> {"away", "connected", "waiting", "answered", "failed", "left"}]
          /\ request \in [Clients -> BOOLEAN]
          /\ service \in [Clients -> {"none", "read", "process", "answered", "failed"}]

\* The iterative server's thread is in HandleClient exactly while a client is being
\* served, and never serves two ("iterative", sync_iterative_tcp_server.cpp:6).
OneAtATime == ~parallel => /\ (\E c \in Clients : InService(c)) <=> pc = "handle"
                           /\ \A c, d \in Clients : InService(c) /\ InService(d) => c = d

\* Whoever has connected sends its request or leaves.
ClientsGoOn == \A c \in Clients : WF_vars(ClientSends(c) \/ (peer[c] = "connected" /\ ClientGoes(c)))

\* "If asio throws, the function handles the exception ... so the server goes on
\* even when serving fails" (sync_iterative_tcp_server.cpp:31-32): after every
\* client, however it fared, the iterative server is back in its loop.
FailuresAreContained == ClientsGoOn => (pc = "handle" ~> pc = "test")

\* Once a client is waiting to be accepted Stop returns
\* (sync_iterative_tcp_server.cpp:113-118): it does not wait for a second one.
StopReturnsOnConnection ==
    ClientsGoOn => ((mainPc = "join" /\ \E c \in Clients : Queued(c))
                        ~> (mainPc # "join" \/ pc = "terminated"))

\* EmulateLongComputationOp (sync_tcp_client.cpp:32) comes back, with the answer
\* or an exception: from the parallel server, which serves "several clients at
\* the same time" (docs/asio-cookbook/4_server.md:9), even if others are silent;
\* from the iterative one if the clients before it go on.
EveryCallReturns ==
    /\ \A c \in Clients : (parallel /\ peer[c] = "waiting") ~> peer[c] # "waiting"
    /\ ClientsGoOn => \A c \in Clients : peer[c] = "waiting" ~> peer[c] # "waiting"
============================================================================
