--------------------------- MODULE ClientInterface ---------------------------
(***************************************************************************)
(* client_interface<T> (net_client.h): the application's thread connects,    *)
(* sends and disconnects, the context thread runs m_context.  The object     *)
(* that m_connection points to is reduced to its socket and the message it    *)
(* reads into; each call of Connect makes a new one.  The application is the   *)
(* main loop of simple_client.cpp, the messages those of simple_server.cpp.   *)
(***************************************************************************)
EXTENDS Message

CONSTANTS MaxConnects,  \* bound: calls of Connect
          MaxSends,     \* bound: messages sent
          MaxQueued     \* bound: messages in the incoming queue

ASSUME BoundsAssumption == MaxConnects \in Nat /\ MaxSends \in Nat /\ MaxQueued \in Nat

\* A uint32_t and a size_t can hold the length of every message below.
ASSUME WidthAssumption == HeaderModulus > 8 /\ SizeModulus > 8

Connections == 1 .. MaxConnects
NoConnection == 0

\* What main pops from a message of each kind: the eight bytes of a time_point,
\* the four of a client's id.
Data == [ServerAccept |-> << >>,
         ServerPing |-> [b \in 1 .. 8 |-> "time"],
         ServerMessage |-> [b \in 1 .. 4 |-> "id"]]

\* What simple_server sends: a ping comes back as PingServer made it.
FromServer == {Blank("ServerAccept"),
               Push(Blank("ServerPing"), Data.ServerPing),
               Push(Blank("ServerMessage"), Data.ServerMessage)}

VARIABLES m_connection,  \* the connection, or NoConnection
          socket,        \* [connection -> state of its socket]
          stopped,       \* m_context has been stopped
          thrContext,    \* "none", "running", or "returned" and not joined
          tasks,         \* posted to m_context, in order: "send" and "close"
          pc,            \* where the application's thread stands
          m_msgTemporaryIn, \* the message that the connection reads into
          m_qMessagesIn,    \* the incoming queue
          connects, sends,
          sentOut        \* history: [connection -> messages its tasks have queued]

incoming == <<m_msgTemporaryIn, m_qMessagesIn>>
vars == <<m_connection, socket, stopped, thrContext, tasks, pc, incoming, connects, sends, sentOut>>

\* m_socket.is_open(): asio::async_connect opens the socket at once, and a
\* failed one leaves it open.
Open(k) == socket[k] \in {"connecting", "connected", "failed"}

IsConnected == m_connection # NoConnection /\ Open(m_connection)

Init == /\ m_connection = NoConnection
        /\ socket = [k \in Connections |-> "none"]
        /\ stopped = FALSE
        /\ thrContext = "none"
        /\ tasks = << >>
        /\ pc = "idle"
        /\ m_msgTemporaryIn = Blank("ServerAccept")
        /\ m_qMessagesIn = << >>
        /\ connects = 0
        /\ sends = 0
        /\ sentOut = [k \in Connections |-> 0]
----------------------------------------------------------------------------
(* The application's thread                                                *)

\* Mutant of Connect: the thread polls the context instead of running it, and
\* leaves with the attempt outstanding.
MutConnectPolls ==
    /\ pc = "idle"
    /\ connects < MaxConnects
    /\ thrContext = "none"
    /\ connects' = connects + 1
    /\ m_connection' = connects'
    /\ m_msgTemporaryIn' = Blank("ServerAccept")
    /\ socket' = [socket EXCEPT ![connects'] = "connecting"]
    /\ thrContext' = "returned"
    /\ UNCHANGED <<stopped, tasks, pc, sends, sentOut, m_qMessagesIn>>

\* Connect, called when there is no context thread to overwrite: the connection
\* is given work before the thread is started.  (A host name that cannot be
\* resolved changes nothing.)
Connect ==
    /\ pc = "idle"
    /\ connects < MaxConnects
    /\ thrContext = "none"
    /\ connects' = connects + 1
    /\ m_connection' = connects'
    /\ m_msgTemporaryIn' = Blank("ServerAccept")
    /\ socket' = [socket EXCEPT ![connects'] = "connecting"]
    /\ thrContext' = "running"
    /\ UNCHANGED <<stopped, tasks, pc, sends, sentOut, m_qMessagesIn>>

Send ==
    /\ pc = "idle"
    /\ sends < MaxSends
    /\ IsConnected
    /\ sends' = sends + 1
    /\ tasks' = Append(tasks, "send")
    /\ UNCHANGED <<m_connection, socket, stopped, thrContext, pc, connects, sentOut, incoming>>

\* main's loop pops the next message, and its data from that.
HandleMessage ==
    /\ pc = "idle"
    /\ IsConnected
    /\ m_qMessagesIn # << >>
    /\ m_qMessagesIn' = Tail(m_qMessagesIn)
    /\ UNCHANGED <<m_connection, socket, stopped, thrContext, tasks, pc, m_msgTemporaryIn,
                   connects, sends, sentOut>>

\* Disconnect: the close of an open socket is posted ...
DisconnectPost ==
    /\ pc = "idle"
    /\ pc' = "stop"
    /\ tasks' = IF IsConnected THEN Append(tasks, "close") ELSE tasks
    /\ UNCHANGED <<m_connection, socket, stopped, thrContext, connects, sends, sentOut, incoming>>

\* ... m_context.stop() ...
DisconnectStop ==
    /\ pc = "stop"
    /\ pc' = "join"
    /\ stopped' = TRUE
    /\ UNCHANGED <<m_connection, socket, thrContext, tasks, connects, sends, sentOut, incoming>>

\* ... thrContext.join(), if there is one, and m_connection.release(), which
\* gives the object up without destroying it.
DisconnectRelease ==
    /\ pc = "join"
    /\ thrContext # "running"
    /\ thrContext' = "none"
    /\ m_connection' = NoConnection
    /\ pc' = "idle"
    /\ UNCHANGED <<socket, stopped, tasks, connects, sends, sentOut, incoming>>
----------------------------------------------------------------------------
(* The context thread, and the network                                     *)

Runs == thrContext = "running" /\ ~stopped

\* The connect handler: on success ReadHeader, on an error nothing.
ConnectDone(k) ==
    /\ Runs
    /\ socket[k] = "connecting"
    /\ \E s \in {"connected", "failed"} : socket' = [socket EXCEPT ![k] = s]
    /\ UNCHANGED <<m_connection, stopped, thrContext, tasks, pc, connects, sends, sentOut, incoming>>

\* The server closes: the read fails and the handler closes the socket.
ServerGone(k) ==
    /\ Runs
    /\ socket[k] = "connected"
    /\ socket' = [socket EXCEPT ![k] = "closed"]
    /\ UNCHANGED <<m_connection, stopped, thrContext, tasks, pc, connects, sends, sentOut, incoming>>

\* A message of the server's has been read: a header with size 0 leaves the body of
\* the one before.
Arrives(k) ==
    /\ Runs
    /\ socket[k] = "connected"
    /\ Len(m_qMessagesIn) < MaxQueued
    /\ \E m \in FromServer :
          m_msgTemporaryIn' = [m EXCEPT !.body = IF m.size > 0 THEN @ ELSE m_msgTemporaryIn.body]
    /\ m_qMessagesIn' = Append(m_qMessagesIn, m_msgTemporaryIn')
    /\ UNCHANGED <<m_connection, socket, stopped, thrContext, tasks, pc, connects, sends, sentOut>>

\* A posted task.  While the context runs its tasks are those of m_connection.
RunTask ==
    /\ Runs
    /\ tasks # << >>
    /\ tasks' = Tail(tasks)
    /\ \/ /\ Head(tasks) = "send"
          /\ sentOut' = [sentOut EXCEPT ![m_connection] = @ + 1]
          /\ UNCHANGED socket
       \/ /\ Head(tasks) = "close"
          /\ socket' = [socket EXCEPT ![m_connection] = "closed"]
          /\ UNCHANGED sentOut
    /\ UNCHANGED <<m_connection, stopped, thrContext, pc, connects, sends, incoming>>

\* Connection k waits for a write that its failed connect has doomed.
WriteDoomed(k) == socket[k] = "failed" /\ sentOut[k] > 0

\* WriteHeader's handler, with the error: it closes the socket.
WriteFails(k) ==
    /\ Runs
    /\ WriteDoomed(k)
    /\ socket' = [socket EXCEPT ![k] = "closed"]
    /\ UNCHANGED <<m_connection, stopped, thrContext, tasks, pc, connects, sends, sentOut, incoming>>

\* run() returns once the context is stopped, or has nothing left to wait for,
\* which stops it too.
RunReturns ==
    /\ thrContext = "running"
    /\ \/ stopped
       \/ /\ tasks = << >>
          /\ \A k \in Connections : /\ socket[k] \in {"none", "failed", "closed"}
                                    /\ ~WriteDoomed(k)
    /\ thrContext' = "returned"
    /\ stopped' = TRUE
    /\ UNCHANGED <<m_connection, socket, tasks, pc, connects, sends, sentOut, incoming>>
----------------------------------------------------------------------------
Application == Connect \/ Send \/ HandleMessage \/ DisconnectPost \/ DisconnectStop \/ DisconnectRelease

Context == \/ \E k \in Connections : ConnectDone(k) \/ ServerGone(k) \/ Arrives(k) \/ WriteFails(k)
           \/ RunTask
           \/ RunReturns

Next == Application \/ Context

Spec == Init /\ [][Next]_vars

\* The context thread runs what is ready, a connection attempt succeeds or
\* fails, and a call of Disconnect that has begun goes on.
Fairness == /\ WF_vars(RunTask)
            /\ WF_vars(RunReturns)
            /\ \A k \in Connections : WF_vars(ConnectDone(k)) /\ WF_vars(WriteFails(k))
            /\ WF_vars(DisconnectStop \/ DisconnectRelease)
FairSpec == Spec /\ Fairness
----------------------------------------------------------------------------
(* Properties                                                              *)

\* Every variable stays in its range; the application never goes on with a
\* context thread that it has not joined.
TypeOK == /\ m_connection \in Connections \cup {NoConnection}
          /\ socket \in [Connections -> {"none", "connecting", "connected", "failed", "closed"}]
          /\ stopped \in BOOLEAN
          /\ thrContext \in {"none", "running", "returned"}
          /\ tasks \in Seq({"send", "close"})
          /\ pc \in {"idle", "stop", "join"}
          /\ connects \in 0 .. MaxConnects
          /\ sends \in 0 .. MaxSends
          /\ sentOut \in [Connections -> 0 .. MaxSends]
          /\ m_connection = NoConnection => thrContext = "none"

\* What main pops from a message in its queue is there, whatever the connection
\* had read before (net_message.h:95 would wrap round), and is what was pushed.
PopsWhatWasPushed ==
    /\ TypeOK
    /\ \A i \in 1 .. Len(m_qMessagesIn) :
          LET m == m_qMessagesIn[i]
              n == Len(Data[m.id])
          IN n > 0 => PopDefined(m, n) /\ Popped(m, n) = Data[m.id]

\* Connection k is being made, and the application is not disconnecting.
Attempt(k) == m_connection = k /\ socket[k] = "connecting" /\ pc = "idle"

\* What the application starts comes to an end.  Disconnect returns even if the
\* server says nothing: m_context.stop() makes run() return with reads and writes
\* still outstanding (net_client.h:67).  An attempt to connect on a context that has
\* not been stopped ends, unless it is given up: async_connect is given to the
\* context before its thread starts, so run() cannot return without having waited.
CallsEnd ==
    /\ pc = "stop" ~> pc = "idle"
    /\ \A k \in Connections : (Attempt(k) /\ ~stopped) ~> ~Attempt(k)
============================================================================
