--------------------------- MODULE AsyncTCPServer ---------------------------
(***************************************************************************)
(* The asynchronous parallel TCP server (asio-cookbook/ch4_server/           *)
(* async_parallel_tcp_server.cpp): an Acceptor and one Service per client,   *)
(* whose handlers run on a pool of threads, and main, which stops the server *)
(* and destroys it.                                                          *)
(***************************************************************************)
EXTENDS Naturals

CONSTANTS Clients,     \* each connects at most once
          Pool,        \* m_thread_pool
          MaxFailures, \* bound: accepts that fail
          NoClient

ASSUME PoolAssumption == Pool # {}  \* assert(thread_pool_size > 0)
ASSUME FailuresAssumption == MaxFailures \in Nat
ASSUME NoClientAssumption == NoClient \notin Clients

VARIABLES mainPc,        \* main: "running", "stop", "join", "stopped", "destroyed"
          m_is_stopped,
          stopped,       \* m_ioc has been stopped
          accepting,     \* the async_accept: "none", "pending", "accepted" or "failed"
          accepted,      \* the client it has accepted
          acceptorOpen,
          failures,
          peer,          \* [client -> "away", "here" or "gone"]
          service,       \* [client -> its Service is "none", "live" or "freed"]
          op,            \* [client -> the operation of its Service]
          pc, client     \* [thread -> where in a handler it is, and for whom]

acceptor == <<accepting, accepted, acceptorOpen, failures>>
main == <<mainPc, m_is_stopped, stopped>>
vars == <<main, acceptor, peer, service, op, pc, client>>

NoOp == [kind |-> "none", state |-> "none"]
Pending(kind) == [kind |-> kind, state |-> "pending"]

\* Server::Start: the Acceptor has been started, and so have the threads.
Init == /\ mainPc = "running"
        /\ m_is_stopped = FALSE
        /\ stopped = FALSE
        /\ accepting = "pending"
        /\ accepted = NoClient
        /\ acceptorOpen = TRUE
        /\ failures = 0
        /\ peer = [c \in Clients |-> "away"]
        /\ service = [c \in Clients |-> "none"]
        /\ op = [c \in Clients |-> NoOp]
        /\ pc = [t \in Pool |-> "idle"]
        /\ client = [t \in Pool |-> NoClient]
----------------------------------------------------------------------------
(* Handlers                                                                *)

\* Thread t may take a handler from m_ioc.
Takes(t) == pc[t] = "idle" /\ ~stopped

\* Mutant of OnAccept: an error ends the handler.
MutOnAcceptReturns(t) ==
    /\ Takes(t)
    /\ accepting \in {"accepted", "failed"}
    /\ IF accepting = "accepted"
         THEN /\ service' = [service EXCEPT ![accepted] = "live"]
              /\ op' = [op EXCEPT ![accepted] = Pending("read")]
              /\ pc' = [pc EXCEPT ![t] = "accepted"]
         ELSE UNCHANGED <<service, op, pc>>
    /\ accepting' = "none"
    /\ accepted' = NoClient
    /\ UNCHANGED <<main, acceptorOpen, failures, peer, client>>

\* OnAccept: a Service is made for the client and starts to read ...
OnAccept(t) ==
    /\ Takes(t)
    /\ accepting \in {"accepted", "failed"}
    /\ \/ /\ accepting = "accepted"
          /\ service' = [service EXCEPT ![accepted] = "live"]
          /\ op' = [op EXCEPT ![accepted] = Pending("read")]
       \/ /\ accepting = "failed"
          /\ UNCHANGED <<service, op>>
    /\ accepting' = "none"
    /\ accepted' = NoClient
    /\ pc' = [pc EXCEPT ![t] = "accepted"]
    /\ UNCHANGED <<main, acceptorOpen, failures, peer, client>>

\* ... and then the next accept is initiated, or the acceptor closed.
InitAccept(t) ==
    /\ pc[t] = "accepted"
    /\ \/ /\ ~m_is_stopped
          /\ accepting' = "pending"
          /\ UNCHANGED acceptorOpen
       \/ /\ m_is_stopped
          /\ acceptorOpen' = FALSE
          /\ UNCHANGED accepting
    /\ pc' = [pc EXCEPT ![t] = "idle"]
    /\ UNCHANGED <<main, accepted, failures, peer, service, op, client>>

\* OnFinish: delete this.
OnFinish(c) == service' = [service EXCEPT ![c] = "freed"]

\* Mutant of OnRequestReceived: it does not return after OnFinish.
MutOnRequestReceivedFallsThrough(t, c) ==
    /\ Takes(t)
    /\ op[c].kind = "read" /\ op[c].state \in {"done", "failed"}
    /\ op' = [op EXCEPT ![c] = NoOp]
    /\ IF op[c].state = "failed" THEN OnFinish(c) ELSE UNCHANGED service
    /\ pc' = [pc EXCEPT ![t] = "process"]
    /\ client' = [client EXCEPT ![t] = c]
    /\ UNCHANGED <<main, acceptor, peer>>

\* OnRequestReceived: the Service ends, or begins ProcessRequest, which blocks
\* its thread ...
OnRequestReceived(t, c) ==
    /\ Takes(t)
    /\ op[c].kind = "read"
    /\ op' = [op EXCEPT ![c] = NoOp]
    /\ \/ /\ op[c].state = "failed"
          /\ OnFinish(c)
          /\ UNCHANGED <<pc, client>>
       \/ /\ op[c].state = "done"
          /\ pc' = [pc EXCEPT ![t] = "process"]
          /\ client' = [client EXCEPT ![t] = c]
          /\ UNCHANGED service
    /\ UNCHANGED <<main, acceptor, peer>>

\* ... and then sends the response.
SendResponse(t) ==
    /\ pc[t] = "process"
    /\ op' = [op EXCEPT ![client[t]] = Pending("write")]
    /\ pc' = [pc EXCEPT ![t] = "idle"]
    /\ client' = [client EXCEPT ![t] = NoClient]
    /\ UNCHANGED <<main, acceptor, peer, service>>

\* Mutant of OnResponseSent: an error is reported and the Service left.
MutOnResponseSentLeaks(t, c) ==
    /\ Takes(t)
    /\ op[c].kind = "write" /\ op[c].state \in {"done", "failed"}
    /\ op' = [op EXCEPT ![c] = NoOp]
    /\ IF op[c].state = "done" THEN OnFinish(c) ELSE UNCHANGED service
    /\ UNCHANGED <<main, acceptor, peer, pc, client>>

\* OnResponseSent: the Service ends, whatever the result.
OnResponseSent(t, c) ==
    /\ Takes(t)
    /\ op[c].kind = "write" /\ op[c].state \in {"done", "failed"}
    /\ op' = [op EXCEPT ![c] = NoOp]
    /\ OnFinish(c)
    /\ UNCHANGED <<main, acceptor, peer, pc, client>>

\* run() returns only when stopped: m_work keeps it from running out of work.
RunReturns(t) ==
    /\ stopped
    /\ pc[t] = "idle"
    /\ pc' = [pc EXCEPT ![t] = "exited"]
    /\ UNCHANGED <<main, acceptor, peer, service, op, client>>
----------------------------------------------------------------------------
(* Server::Stop, and the end of main                                       *)

StopAcceptor ==
    /\ mainPc = "running"
    /\ m_is_stopped' = TRUE
    /\ mainPc' = "stop"
    /\ UNCHANGED <<stopped, acceptor, peer, service, op, pc, client>>

StopContext ==
    /\ mainPc = "stop"
    /\ stopped' = TRUE
    /\ mainPc' = "join"
    /\ UNCHANGED <<m_is_stopped, acceptor, peer, service, op, pc, client>>

Join ==
    /\ mainPc = "join"
    /\ \A t \in Pool : pc[t] = "exited"
    /\ mainPc' = "stopped"
    /\ UNCHANGED <<m_is_stopped, stopped, acceptor, peer, service, op, pc, client>>

\* ~Server: the acceptor goes, and then m_ioc with the handlers it still holds.
Destroy ==
    /\ mainPc = "stopped"
    /\ mainPc' = "destroyed"
    /\ acceptorOpen' = FALSE
    /\ accepting' = "none"
    /\ accepted' = NoClient
    /\ op' = [c \in Clients |-> NoOp]
    /\ UNCHANGED <<m_is_stopped, stopped, failures, peer, service, pc, client>>
----------------------------------------------------------------------------
(* The network and the clients                                             *)

NetAccept(c) ==
    /\ accepting = "pending"
    /\ peer[c] # "away" /\ service[c] = "none"
    /\ accepting' = "accepted"
    /\ accepted' = c
    /\ UNCHANGED <<main, acceptorOpen, failures, peer, service, op, pc, client>>

NetAcceptFails ==
    /\ accepting = "pending"
    /\ failures < MaxFailures
    /\ accepting' = "failed"
    /\ failures' = failures + 1
    /\ UNCHANGED <<main, accepted, acceptorOpen, peer, service, op, pc, client>>

\* A read completes with a request, a write with the response sent ...
NetDone(c) ==
    /\ op[c].state = "pending"
    /\ peer[c] = "here" \/ op[c].kind = "write"
    /\ op' = [op EXCEPT ![c].state = "done"]
    /\ UNCHANGED <<main, acceptor, peer, service, pc, client>>

\* ... or either fails, since the client is gone.
NetFails(c) ==
    /\ op[c].state = "pending"
    /\ peer[c] = "gone"
    /\ op' = [op EXCEPT ![c].state = "failed"]
    /\ UNCHANGED <<main, acceptor, peer, service, pc, client>>

ClientConnects(c) ==
    /\ acceptorOpen
    /\ peer[c] = "away"
    /\ peer' = [peer EXCEPT ![c] = "here"]
    /\ UNCHANGED <<main, acceptor, service, op, pc, client>>

ClientGoes(c) ==
    /\ peer[c] = "here"
    /\ peer' = [peer EXCEPT ![c] = "gone"]
    /\ UNCHANGED <<main, acceptor, service, op, pc, client>>
----------------------------------------------------------------------------
Thread(t) == \/ OnAccept(t) \/ InitAccept(t) \/ SendResponse(t) \/ RunReturns(t)
             \/ \E c \in Clients : OnRequestReceived(t, c) \/ OnResponseSent(t, c)

Main == StopAcceptor \/ StopContext \/ Join \/ Destroy

Network(c) == NetAccept(c) \/ NetDone(c) \/ NetFails(c)

Next == \/ \E t \in Pool : Thread(t)
        \/ Main
        \/ NetAcceptFails
        \/ \E c \in Clients : Network(c) \/ ClientConnects(c) \/ ClientGoes(c)

Spec == Init /\ [][Next]_vars

\* Threads run; what the network holds arrives, and each client in the end sends
\* its request or leaves.  Main need not stop the server.
Fairness == /\ \A t \in Pool : WF_vars(Thread(t))
            /\ WF_vars(StopContext \/ Join)
            /\ \A c \in Clients : WF_vars(Network(c))
FairSpec == Spec /\ Fairness
----------------------------------------------------------------------------
(* Properties                                                              *)

\* Every variable stays in its range; a thread has a client exactly while it
\* processes a request, and the acceptor one exactly when it has accepted it.
TypeOK == /\ mainPc \in {"running", "stop", "join", "stopped", "destroyed"}
          /\ m_is_stopped \in BOOLEAN
          /\ stopped \in BOOLEAN
          /\ accepting \in {"none", "pending", "accepted", "failed"}
          /\ accepted \in Clients \cup {NoClient}
          /\ acceptorOpen \in BOOLEAN
          /\ failures \in 0 .. MaxFailures
          /\ peer \in [Clients -> {"away", "here", "gone"}]
          /\ service \in [Clients -> {"none", "live", "freed"}]
          /\ op \in [Clients -> [kind : {"none", "read", "write"},
                                 state : {"none", "pending", "done", "failed"}]]
          /\ pc \in [Pool -> {"idle", "accepted", "process", "exited"}]
          /\ client \in [Pool -> Clients \cup {NoClient}]
          /\ accepting = "accepted" <=> accepted # NoClient
          /\ \A t \in Pool : pc[t] = "process" <=> client[t] # NoClient

\* As long as it is live a Service has one operation outstanding or one thread
\* working for it, so that it is never left behind; once it has deleted itself it has
\* neither, so that no handler uses what is freed.
Users(c) == {t \in Pool : client[t] = c}
UsedWhileLive ==
    \A c \in Clients :
        /\ service[c] = "live" /\ mainPc # "destroyed" => op[c] # NoOp \/ Users(c) # {}
        /\ service[c] # "live" => op[c] = NoOp /\ Users(c) = {}
        /\ op[c] # NoOp => Users(c) = {}
        /\ \A t, u \in Users(c) : t = u

\* Until the server is stopped one accept is outstanding, or its handler is
\* about to initiate the next, whether or not the last one failed.
Accepters == {t \in Pool : pc[t] = "accepted"}
KeepsListening ==
    /\ \A t, u \in Accepters : t = u
    /\ accepting # "none" => Accepters = {}
    /\ ~m_is_stopped => accepting # "none" \/ Accepters # {}

\* What has been begun ends.  A Service: its request is answered, or its client is
\* found to have left, or the server is stopped.  And Stop returns, whatever the clients
\* do: each thread is at most in the middle of one handler when m_ioc is stopped.
WorkEnds ==
    /\ \A c \in Clients : service[c] = "live" ~> (service[c] = "freed" \/ stopped)
    /\ mainPc = "stop" ~> mainPc = "stopped"
============================================================================
