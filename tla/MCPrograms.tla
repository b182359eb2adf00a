----------------------------- MODULE MCPrograms -----------------------------
(* Small instances, for TLC, of the modules whose programs are complete in     *)
(* themselves: in every behaviour one of them runs, under its own fairness.    *)
EXTENDS SyncServer, StreamPrograms, SyncUDPClient, CancelPrograms, SimpleExample1

CONSTANTS c1, c2, c3

VARIABLE module   \* the one whose programs run; never changes

\* What does not run has no choice of programs either.
MCInit == /\ module \in {"sync", "stream", "udp", "cancel", "read"}
          /\ Init /\ StreamInit /\ UDPInit /\ CancelInit /\ ReadInit
          /\ parallel => module = "sync"
          /\ program # "shutdown" => module = "stream"
          /\ example # "repeat" => module = "cancel"

MCNext ==
    /\ \/ module = "sync" /\ Next /\ UNCHANGED <<streamVars, udpVars, cancelVars, readVars>>
       \/ module = "stream" /\ StreamNext /\ UNCHANGED <<vars, udpVars, cancelVars, readVars>>
       \/ module = "udp" /\ UDPNext /\ UNCHANGED <<vars, streamVars, cancelVars, readVars>>
       \/ module = "cancel" /\ CancelNext /\ UNCHANGED <<vars, streamVars, udpVars, readVars>>
       \/ module = "read" /\ ReadNext /\ UNCHANGED <<vars, streamVars, udpVars, cancelVars>>
    /\ UNCHANGED module

\* Threads that can run do, and nothing has to fail; main need not stop the
\* server, but a Stop goes on.  A client need not send anything, but one that is
\* blocked in a read notices what has arrived.
Fairness == LET on == module = "sync" IN
            /\ WF_vars(on /\ ServerThread)
            /\ WF_vars(on /\ (Join \/ Exit))
            /\ \A c \in Clients : /\ WF_vars(on /\ HandleClient(c))
                                  /\ WF_vars(on /\ (ClientReads(c) \/ ClientFails(c)))

\* The processes run and TCP delivers.  Nobody has to start the server; the peer
\* of the reader need not write, but goes in the end.
StreamFairness == LET on == module = "stream" IN
                  /\ WF_streamVars(on /\ Client)
                  /\ \A e \in End : WF_streamVars(on /\ Process(e))

\* The client runs, and a server that gets a request answers.
UDPFairness == LET on == module = "udp" IN
               /\ WF_udpVars(on /\ UDPClient)
               /\ \A s \in Servers : WF_udpVars(on /\ Answer(s))

\* Both threads run, and every operation completes in the end.
CancelFairness == LET on == module = "cancel" IN
                  /\ WF_cancelVars(on /\ Cancel)
                  /\ WF_cancelVars(on /\ (Handler \/ WaitAgain \/ RunReturns))
                  /\ \A o \in 1 .. 2 : WF_cancelVars(on /\ Completes(o))

MCSpec == /\ MCInit /\ [][MCNext]_<<module, vars, streamVars, udpVars, cancelVars, readVars>>
          /\ Fairness /\ StreamFairness /\ UDPFairness /\ CancelFairness
============================================================================
