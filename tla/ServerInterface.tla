--------------------------- MODULE ServerInterface ---------------------------
(***************************************************************************)
(* server_interface<T> (net_server.h) as simple_server.cpp runs it: the asio *)
(* thread accepts clients and runs the handlers of their connections, the    *)
(* main thread calls Update, and both use m_deqConnections, which no mutex   *)
(* guards.  A connection lives as long as a shared_ptr to it; its handlers   *)
(* and posted tasks hold only a raw pointer.                                 *)
(*                                                                         *)
(* A connection is reduced to its socket and the asynchronous work it has    *)
(* outstanding (see Connection for the rest).                                *)
(***************************************************************************)
EXTENDS Naturals, Sequences, FiniteSets, SequencesExt

CONSTANTS Conns,              \* connections, each accepted at most once
          Null,               \* a shared_ptr that has been reset
          MaxMessages         \* bound: messages a client sends

ASSUME ConnsAssumption == Null \notin Conns
ASSUME BoundsAssumption == MaxMessages \in Nat

VARIABLES made,             \* connections that have been constructed
          m_deqConnections, \* [entries are connections or Null]
          m_qMessagesIn,    \* [owned messages: remote and kind]
          open,             \* [connection -> its socket is open]
          posted,           \* [connection -> tasks of Send not yet run]
          queued,           \* [connection -> length of m_qMessagesOut]
          write, read,      \* [connection -> its asynchronous write and read]
          got,              \* [connection -> messages received so far]
          ioPc, ioConn,     \* the asio thread; newconn of the accept handler
          mainPc, msg,      \* the main thread; local of Update
          pos, end,         \* iterators of MessageAllClients
          bInvalidClientExists,
          reportedByAll,    \* history: [connection -> times OnClientDisconnect has been
          reportedByClient  \* called with it, by MessageAllClients and by MessageClient]

connection == <<open, posted, queued, write, read, got>>
io == <<ioPc, ioConn>>
reports == <<reportedByAll, reportedByClient>>
main == <<mainPc, msg, pos, end, bInvalidClientExists, reports>>
vars == <<made, m_deqConnections, m_qMessagesIn, connection, io, main>>

NoMessage == [remote |-> Null, kind |-> "none"]
Kinds == {"ping", "all"}

Init == /\ made = {}
        /\ m_deqConnections = << >>
        /\ m_qMessagesIn = << >>
        /\ open = [c \in Conns |-> FALSE]
        /\ posted = [c \in Conns |-> 0]
        /\ queued = [c \in Conns |-> 0]
        /\ write = [c \in Conns |-> "none"]
        /\ read = [c \in Conns |-> "none"]
        /\ got = [c \in Conns |-> 0]
        /\ ioPc = "run"
        /\ ioConn = Null
        /\ mainPc = "update"
        /\ msg = NoMessage
        /\ pos = 0
        /\ end = 0
        /\ bInvalidClientExists = FALSE
        /\ reportedByAll = [c \in Conns |-> 0]
        /\ reportedByClient = [c \in Conns |-> 0]

\* Somebody holds a shared_ptr to c.
Held(c) == \/ ioConn = c
           \/ msg.remote = c
           \/ c \in ToSet(m_deqConnections)
           \/ \E i \in 1 .. Len(m_qMessagesIn) : m_qMessagesIn[i].remote = c

Destroyed(c) == c \in made /\ ~Held(c)

\* std::terminate ends every thread.
Running == ioPc # "terminated"

\* erase(std::remove(..., nullptr), end): the entries that are not Null, in their order.
\* (SelectSeq, written without recursion.)
WithoutNull(s) ==
    LET kept == {i \in 1 .. Len(s) : s[i] # Null}
        Place(i) == Cardinality({j \in kept : j <= i})
    IN [k \in 1 .. Cardinality(kept) |-> s[CHOOSE i \in kept : Place(i) = k]]

OpState(isOpen) == IF isOpen THEN "pending" ELSE "error"
Abort(state) == IF state = "pending" THEN "error" ELSE state
----------------------------------------------------------------------------
(* The asio thread: accepting                                              *)

\* The handler of async_accept up to OnClientConnect, which posts a message to
\* the new client (simple_server.cpp:29) and may refuse it, though
\* simple_server's does not.  A refused connection is dropped.
Accept(c) ==
    /\ ioPc = "run"
    /\ c \notin made
    /\ made' = made \cup {c}
    /\ posted' = [posted EXCEPT ![c] = 1]
    /\ \/ /\ ioPc' = "push"
          /\ ioConn' = c
          /\ open' = [open EXCEPT ![c] = TRUE]
       \/ UNCHANGED <<io, open>>
    /\ UNCHANGED <<m_deqConnections, m_qMessagesIn, queued, write, read, got, main>>

\* A failed async_accept changes nothing: the acceptor is primed again.  But
\* socket.remote_endpoint() throws when the client has reset the connection it
\* has just made, and nothing in the thread of the context catches it.
AcceptThrows ==
    /\ ioPc = "run"
    /\ Conns \ made # {}
    /\ ioPc' = "terminated"
    /\ UNCHANGED <<made, m_deqConnections, m_qMessagesIn, connection, ioConn, main>>

\* push_back: from here on the main thread finds the connection in the container.
AcceptPush ==
    /\ ioPc = "push"
    /\ m_deqConnections' = Append(m_deqConnections, ioConn)
    /\ ioPc' = "connect"
    /\ ioConn' = Null
    /\ UNCHANGED <<made, m_qMessagesIn, connection, main>>

\* ConnectToClient of what is now the back of the container, which starts the first
\* read; then the acceptor is primed again.
AcceptConnect ==
    LET c == Last(m_deqConnections) IN
    /\ ioPc = "connect"
    /\ read' = [read EXCEPT ![c] = IF open[c] THEN "pending" ELSE @]
    /\ ioPc' = "run"
    /\ UNCHANGED <<made, m_deqConnections, m_qMessagesIn, open, posted, queued, write, got,
                   ioConn, main>>
----------------------------------------------------------------------------
(* The asio thread: handlers of the connections                            *)

\* A handler of a destroyed connection uses memory that has been freed; here
\* it has no effect but to be over.
RunSend(c) ==
    /\ ioPc = "run"
    /\ posted[c] > 0
    /\ posted' = [posted EXCEPT ![c] = @ - 1]
    /\ IF Destroyed(c)
         THEN UNCHANGED <<queued, write>>
         ELSE /\ queued' = [queued EXCEPT ![c] = @ + 1]
              /\ write' = [write EXCEPT ![c] = IF queued[c] = 0 THEN OpState(open[c]) ELSE @]
    /\ UNCHANGED <<made, m_deqConnections, m_qMessagesIn, open, read, got, io, main>>

OnWrite(c) ==
    /\ ioPc = "run"
    /\ \/ /\ write[c] = "done" /\ ~Destroyed(c)
          /\ queued' = [queued EXCEPT ![c] = @ - 1]
          /\ write' = [write EXCEPT ![c] = IF queued[c] > 1 THEN OpState(open[c]) ELSE "none"]
          /\ UNCHANGED <<open, read>>
       \/ /\ write[c] = "error" /\ ~Destroyed(c)
          /\ open' = [open EXCEPT ![c] = FALSE]
          /\ write' = [write EXCEPT ![c] = "none"]
          /\ read' = [read EXCEPT ![c] = Abort(@)]
          /\ UNCHANGED queued
       \/ /\ write[c] \in {"done", "error"} /\ Destroyed(c)
          /\ write' = [write EXCEPT ![c] = "none"]
          /\ UNCHANGED <<open, read, queued>>
    /\ UNCHANGED <<made, m_deqConnections, m_qMessagesIn, posted, got, io, main>>

OnRead(c) ==
    /\ ioPc = "run"
    /\ \/ /\ read[c] \in Kinds /\ ~Destroyed(c)
          /\ m_qMessagesIn' = Append(m_qMessagesIn, [remote |-> c, kind |-> read[c]])
          /\ read' = [read EXCEPT ![c] = OpState(open[c])]
          /\ UNCHANGED <<open, write>>
       \/ /\ read[c] = "error" /\ ~Destroyed(c)
          /\ open' = [open EXCEPT ![c] = FALSE]
          /\ read' = [read EXCEPT ![c] = "none"]
          /\ write' = [write EXCEPT ![c] = Abort(@)]
          /\ UNCHANGED m_qMessagesIn
       \/ /\ read[c] \in Kinds \cup {"error"} /\ Destroyed(c)
          /\ read' = [read EXCEPT ![c] = "none"]
          /\ UNCHANGED <<open, write, m_qMessagesIn>>
    /\ UNCHANGED <<made, m_deqConnections, posted, queued, got, io, main>>

\* The network: a write or a read ends, well or not.  The destructor of a
\* connection closes its socket, which aborts both.
NetWrite(c) ==
    /\ Running
    /\ write[c] = "pending"
    /\ \E s \in (IF Destroyed(c) THEN {"error"} ELSE {"done", "error"}) : write' = [write EXCEPT ![c] = s]
    /\ UNCHANGED <<made, m_deqConnections, m_qMessagesIn, open, posted, queued, read, got, io, main>>

NetRead(c) ==
    /\ Running
    /\ read[c] = "pending"
    /\ \/ /\ ~Destroyed(c)
          /\ got[c] < MaxMessages
          /\ got' = [got EXCEPT ![c] = @ + 1]
          /\ \E k \in Kinds : read' = [read EXCEPT ![c] = k]
       \/ /\ read' = [read EXCEPT ![c] = "error"]
          /\ UNCHANGED got
    /\ UNCHANGED <<made, m_deqConnections, m_qMessagesIn, open, posted, queued, write, io, main>>
----------------------------------------------------------------------------
(* The main thread                                                         *)

\* Update: the front message, and OnMessage of simple_server.
PopFront ==
    /\ Running
    /\ mainPc = "update"
    /\ m_qMessagesIn # << >>
    /\ msg' = Head(m_qMessagesIn)
    /\ m_qMessagesIn' = Tail(m_qMessagesIn)
    /\ mainPc' = msg'.kind
    /\ UNCHANGED <<made, m_deqConnections, connection, io, pos, end, bInvalidClientExists, reports>>

Done == /\ mainPc' = "update"
        /\ msg' = NoMessage

\* A ping is answered with client->Send(msg), as simple_server does, ...
Ping ==
    /\ Running
    /\ mainPc = "ping"
    /\ posted' = [posted EXCEPT ![msg.remote] = @ + 1]
    /\ Done
    /\ UNCHANGED <<made, m_deqConnections, m_qMessagesIn, open, queued, write, read, got, io,
                   pos, end, bInvalidClientExists, reports>>

\* ... or with MessageClient(client, msg), which reports a client that is gone.  client
\* is reset before std::remove looks for it, so that the entries removed are those
\* that are Null, and the client's own stays.
MessageClient ==
    /\ Running
    /\ mainPc = "ping"
    /\ IF open[msg.remote]
         THEN /\ posted' = [posted EXCEPT ![msg.remote] = @ + 1]
              /\ UNCHANGED <<m_deqConnections, reportedByClient>>
         ELSE /\ reportedByClient' = [reportedByClient EXCEPT ![msg.remote] = @ + 1]
              /\ m_deqConnections' = WithoutNull(m_deqConnections)
              /\ UNCHANGED posted
    /\ Done
    /\ UNCHANGED <<made, m_qMessagesIn, open, queued, write, read, got, io,
                   pos, end, bInvalidClientExists, reportedByAll>>

\* MessageAllClients(msg, client): the range-for ...
AllBegin ==
    /\ Running
    /\ mainPc = "all"
    /\ mainPc' = "iterate"
    /\ pos' = 1
    /\ end' = Len(m_deqConnections)
    /\ bInvalidClientExists' = FALSE
    /\ UNCHANGED <<made, m_deqConnections, m_qMessagesIn, connection, io, msg, reports>>

\* Mutant of AllNext: the dead client's pointer is not reset.
MutAllNextNoReset ==
    LET c == m_deqConnections[pos] IN
    /\ Running
    /\ mainPc = "iterate"
    /\ pos <= end
    /\ pos' = pos + 1
    /\ IF c # Null /\ open[c]
         THEN /\ posted' = IF c = msg.remote THEN posted ELSE [posted EXCEPT ![c] = @ + 1]
              /\ UNCHANGED <<bInvalidClientExists, reportedByAll>>
         ELSE /\ reportedByAll' = IF c = Null THEN reportedByAll ELSE [reportedByAll EXCEPT ![c] = @ + 1]
              /\ bInvalidClientExists' = TRUE
              /\ UNCHANGED posted
    /\ UNCHANGED <<made, m_deqConnections, m_qMessagesIn, open, queued, write, read, got, io,
                   mainPc, msg, end, reportedByClient>>

AllNext ==
    LET c == m_deqConnections[pos] IN
    /\ Running
    /\ mainPc = "iterate"
    /\ pos <= end
    /\ pos' = pos + 1
    /\ IF c # Null /\ open[c]
         THEN /\ posted' = IF c = msg.remote THEN posted ELSE [posted EXCEPT ![c] = @ + 1]
              /\ UNCHANGED <<m_deqConnections, bInvalidClientExists, reportedByAll>>
         ELSE /\ reportedByAll' = IF c = Null THEN reportedByAll ELSE [reportedByAll EXCEPT ![c] = @ + 1]
              /\ m_deqConnections' = [m_deqConnections EXCEPT ![pos] = Null]
              /\ bInvalidClientExists' = TRUE
              /\ UNCHANGED posted
    /\ UNCHANGED <<made, m_qMessagesIn, open, queued, write, read, got, io, mainPc, msg, end, reportedByClient>>

\* Mutant of AllEnd: the dead clients stay in the container.
MutAllEndKeepsDead ==
    /\ Running
    /\ mainPc = "iterate"
    /\ pos > end
    /\ Done
    /\ UNCHANGED <<made, m_deqConnections, m_qMessagesIn, connection, io, pos, end,
                   bInvalidClientExists, reports>>

\* ... and the removal of dead clients, all in one go.
AllEnd ==
    /\ Running
    /\ mainPc = "iterate"
    /\ pos > end
    /\ m_deqConnections' = IF bInvalidClientExists
                             THEN WithoutNull(m_deqConnections)
                             ELSE m_deqConnections
    /\ Done
    /\ UNCHANGED <<made, m_qMessagesIn, connection, io, pos, end, bInvalidClientExists, reports>>
----------------------------------------------------------------------------
Asio == \/ \E c \in Conns : \/ Accept(c) \/ RunSend(c) \/ OnWrite(c) \/ OnRead(c)
        \/ AcceptPush \/ AcceptConnect \/ AcceptThrows

Main == PopFront \/ Ping \/ MessageClient \/ AllBegin \/ AllNext \/ AllEnd

Next == Asio \/ Main \/ \E c \in Conns : NetWrite(c) \/ NetRead(c)

Spec == Init /\ [][Next]_vars
----------------------------------------------------------------------------
(* Properties                                                              *)

OpStates == {"none", "pending", "error"}

\* Every variable stays in its range; the outgoing queue is never popped more
\* often than it was pushed.
TypeOK == /\ made \subseteq Conns
          /\ m_deqConnections \in Seq(Conns \cup {Null})
          /\ m_qMessagesIn \in Seq([remote : Conns, kind : Kinds])
          /\ open \in [Conns -> BOOLEAN]
          /\ posted \in [Conns -> Nat]
          /\ queued \in [Conns -> Nat]
          /\ write \in [Conns -> OpStates \cup {"done"}]
          /\ read \in [Conns -> OpStates \cup Kinds]
          /\ got \in [Conns -> 0 .. MaxMessages]
          /\ ioPc \in {"run", "push", "connect", "terminated"}
          /\ ioConn \in Conns \cup {Null}
          /\ mainPc \in {"update", "iterate"} \cup Kinds
          /\ msg \in [remote : Conns, kind : Kinds] \cup {NoMessage}
          /\ pos \in Nat /\ end \in Nat
          /\ bInvalidClientExists \in BOOLEAN
          /\ reportedByAll \in [Conns -> Nat]
          /\ reportedByClient \in [Conns -> Nat]

Reported(c) == reportedByAll[c] > 0 \/ reportedByClient[c] > 0

\* Broadcasts report a client (net_server.h:168) once between them, however many
\* follow and whatever is accepted meanwhile: the pass that reports it also takes it
\* out.  And neither they nor MessageClient (:139) report one whose socket is open.
\* How often MessageClient does it has no bound: see ReportedIsRemoved.
BroadcastsReportOnce ==
    \A c \in Conns : /\ reportedByAll[c] <= 1
                     /\ Reported(c) => ~open[c]

\* The container of connections, whatever the two threads do to it.  The reset pointers
\* of a broadcast are gone when it is over (simple_server's OnClientDisconnect would
\* dereference one that was left).  A client in it whose socket is open is being read
\* from, but for the last one while the accept handler is between push_back and
\* ConnectToClient (net_server.h:101-105); and there back() is that client, connected
\* and not yet read from, whatever the main thread has sent, reset and erased.
ContainerInv ==
    /\ TypeOK
    /\ mainPc # "iterate" => Null \notin ToSet(m_deqConnections)
    /\ \A c \in ToSet(m_deqConnections) \ {Null} :
          open[c] /\ read[c] = "none" => ioPc = "connect" /\ c = Last(m_deqConnections)
    /\ ioPc = "connect" => /\ m_deqConnections # << >>
                           /\ Last(m_deqConnections) # Null
                           /\ open[Last(m_deqConnections)]
                           /\ read[Last(m_deqConnections)] = "none"

\* "Then physically remove it from the container" (net_server.h:144): once
\* OnClientDisconnect has been called with a client, by MessageClient or by a
\* broadcast, Update finds it in the container no more, and so reports it no more.
ReportedIsRemoved ==
    mainPc = "update" => \A c \in ToSet(m_deqConnections) \ {Null} : ~Reported(c)

\* "This way, we dont invalidate the container as we iterated through it"
\* (net_server.h:176): while the main thread iterates, nobody adds or removes.
ContainerStableWhileIterated ==
    [][mainPc = "iterate" /\ mainPc' = "iterate" => Len(m_deqConnections') = Len(m_deqConnections)]_vars
============================================================================
