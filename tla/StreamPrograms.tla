--------------------------- MODULE StreamPrograms ---------------------------
(***************************************************************************)
(* The stream programs of asio-cookbook/ch2_io.  One of five clients, chosen  *)
(* in StreamInit, talks to socket_shutdown_server.cpp:                       *)
(*   "shutdown"  socket_shutdown_client.cpp: writes, half-closes, reads       *)
(*   "retry"     socket_shutdown_client1.cpp: the same once it has connected  *)
(*   "loop"      write_to_tcp_sync.cpp: a loop of write_some, then exits      *)
(*   "callbacks" write_to_tcp_async.cpp: a chain of async_write_some          *)
(*   "reader"    read_from_tcp_sync.cpp: a loop of read_some; its server is   *)
(*               some process that writes and goes as it likes               *)
(* Reads and writes may be partial, the connection may break, and either     *)
(* process may be killed, which its peer sees as the end of the stream.      *)
(***************************************************************************)
EXTENDS Naturals, Sequences

CONSTANTS RequestLength, ResponseLength, \* bytes in the buffers
          WantedLength,                  \* MESSAGE_SIZE of the reader
          Window                         \* bytes TCP holds for a slow reader

ASSUME LengthAssumption == /\ RequestLength \in Nat \ {0} /\ ResponseLength \in Nat \ {0}
                           /\ WantedLength \in Nat \ {0} /\ Window \in Nat \ {0}

End == {"client", "server"}
Peer(e) == IF e = "client" THEN "server" ELSE "client"
Length(e) == IF e = "client" THEN RequestLength ELSE ResponseLength

VARIABLES program,     \* never changes
          at,          \* [end -> where its process stands]
          link,        \* the connection: "none", "up" or "broken"
          wire,        \* [end -> bytes on their way to it]
          fin,         \* ends that will send nothing more
          total,       \* [end -> total_bytes_written]
          transferred, \* bytes of the async_write_some whose handler is queued
          got          \* [end -> bytes it has read]

streamVars == <<program, at, link, wire, fin, total, transferred, got>>

Exchange == program \in {"shutdown", "retry"}

StreamInit == /\ program \in {"shutdown", "retry", "loop", "callbacks", "reader"}
              /\ at = [e \in End |-> "start"]
              /\ link = "none"
              /\ wire = [e \in End |-> << >>]
              /\ fin = {}
              /\ total = [e \in End |-> 0]
              /\ transferred = 0
              /\ got = [e \in End |-> << >>]

Goto(e, l) == at' = [at EXCEPT ![e] = l]

Gone(e) == at[e] \in {"done", "thrown", "killed"}
----------------------------------------------------------------------------
(* Connecting                                                              *)

\* The acceptor of socket_shutdown_server binds and listens.
ServerListens == /\ at["server"] = "start"
                 /\ Goto("server", "accept")
                 /\ UNCHANGED <<program, link, wire, fin, total, transferred, got>>

\* What each client does once it is connected.
FirstStep == CASE program = "reader" -> "read"
               [] program = "callbacks" -> "pending"
               [] OTHER -> "write"

\* connect or async_connect succeeds, and so does accept.
Connect ==
    /\ at["client"] = "start"
    /\ at["server"] = "accept"
    /\ link' = "up"
    /\ at' = [client |-> FirstStep,
              server |-> IF program = "reader" THEN "write" ELSE "read"]
    /\ UNCHANGED <<program, wire, fin, total, transferred, got>>

\* ... or is refused: connect throws, ConnCallback sleeps and tries again.
Refused ==
    /\ at["client"] = "start"
    /\ at["server"] = "start"
    /\ Goto("client", IF program = "retry" THEN "sleep" ELSE "thrown")
    /\ UNCHANGED <<program, link, wire, fin, total, transferred, got>>

RetryConnect == /\ at["client"] = "sleep"
                /\ Goto("client", "start")
                /\ UNCHANGED <<program, link, wire, fin, total, transferred, got>>
----------------------------------------------------------------------------
(* Writing                                                                 *)

\* Mutant of Piece: every write begins at the start of the buffer.
MutPieceFromStart(e, n) == [i \in 1 .. n |-> i]

\* The next n bytes of the buffer.  A byte is its place in the buffer.
Piece(e, n) == [i \in 1 .. n |-> total[e] + i]

\* write_some takes some of the rest of the buffer, as much as there is room for;
\* what is sent to a process that has gone is dropped.
Sends(e, n) ==
    /\ link = "up"
    /\ n <= Length(e) - total[e]
    /\ \/ /\ Gone(Peer(e))
          /\ UNCHANGED wire
       \/ /\ ~Gone(Peer(e))
          /\ Len(wire[Peer(e)]) + n <= Window
          /\ wire' = [wire EXCEPT ![Peer(e)] = @ \o Piece(e, n)]

\* One round of the loop of WriteToSocket, or of asio::write.
WriteSome(e) ==
    /\ at[e] = "write"
    /\ \E n \in 1 .. Length(e) : Sends(e, n) /\ total' = [total EXCEPT ![e] = @ + n]
    /\ UNCHANGED <<program, at, link, fin, transferred, got>>

\* async_write_some of WriteToSocket or Callback completes.
NetWrite ==
    /\ at["client"] = "pending"
    /\ \E n \in 1 .. Length("client") : Sends("client", n) /\ transferred' = n
    /\ Goto("client", "handler")
    /\ UNCHANGED <<program, link, fin, total, got>>

\* Callback adds up, and starts another write or lets run() return.
Callback ==
    /\ at["client"] = "handler"
    /\ total' = [total EXCEPT !["client"] = @ + transferred]
    /\ transferred' = 0
    /\ Goto("client", IF total'["client"] = Length("client") THEN "finish" ELSE "pending")
    /\ UNCHANGED <<program, link, wire, fin, got>>

\* Mutant of Written: the loop ends one byte early.
MutWrittenEarly(e) == total[e] + 1 >= Length(e)

Written(e) == total[e] = Length(e)

\* The loop ends: next is shutdown_send, or the end of main.
WriteEnds(e) ==
    /\ at[e] = "write"
    /\ Written(e)
    /\ Goto(e, IF Exchange \/ (e = "server" /\ program # "reader") THEN "shutdown" ELSE "finish")
    /\ UNCHANGED <<program, link, wire, fin, total, transferred, got>>

\* Mutant of ShutdownSend: the socket is not shut down.
MutShutdownSendNot(e) ==
    /\ at[e] = "shutdown"
    /\ link = "up"
    /\ Goto(e, IF e = "client" THEN "read" ELSE "finish")
    /\ UNCHANGED <<program, link, wire, fin, total, transferred, got>>

\* shutdown(shutdown_send), after which the client reads the response.
ShutdownSend(e) ==
    /\ at[e] = "shutdown"
    /\ link = "up"
    /\ fin' = fin \cup {e}
    /\ Goto(e, IF e = "client" THEN "read" ELSE "finish")
    /\ UNCHANGED <<program, link, wire, total, transferred, got>>
----------------------------------------------------------------------------
(* Reading                                                                 *)

Wants(e) == IF program = "reader" THEN WantedLength - Len(got[e]) ELSE Window

ReadSome(e) ==
    /\ at[e] = "read"
    /\ \E n \in 1 .. Len(wire[e]) :
          /\ n <= Wants(e)
          /\ got' = [got EXCEPT ![e] = @ \o SubSeq(wire[e], 1, n)]
          /\ wire' = [wire EXCEPT ![e] = SubSeq(@, n + 1, Len(@))]
    /\ UNCHANGED <<program, at, link, fin, total, transferred>>

\* ReadFromSocket has all it wants.
ReadEnds == /\ at["client"] = "read"
            /\ program = "reader"
            /\ Wants("client") = 0
            /\ Goto("client", "finish")
            /\ UNCHANGED <<program, link, wire, fin, total, transferred, got>>

\* The end of the stream: for both sides of an exchange the end of the message,
\* for the reader an exception.
ReadEof(e) ==
    /\ at[e] = "read"
    /\ link = "up"
    /\ wire[e] = << >>
    /\ Peer(e) \in fin
    /\ ~(program = "reader" /\ Wants(e) = 0)
    /\ Goto(e, CASE program = "reader" -> "thrown"
                 [] e = "server" -> "write"
                 [] OTHER -> "finish")
    /\ fin' = IF program = "reader" THEN fin \cup {e} ELSE fin
    /\ UNCHANGED <<program, link, wire, total, transferred, got>>
----------------------------------------------------------------------------
(* How a process ends, and the connection                                  *)

\* The socket is closed.  Bytes that have not been read turn the close into a reset.
Close(e) ==
    /\ fin' = fin \cup {e}
    /\ IF wire[e] = << >> THEN UNCHANGED <<link, wire>>
       ELSE link' = "broken" /\ wire' = [d \in End |-> << >>]

\* main returns.
Finish(e) ==
    /\ at[e] = "finish" \/ (program = "reader" /\ e = "server" /\ at[e] = "write")
    /\ Goto(e, "done")
    /\ Close(e)
    /\ UNCHANGED <<program, total, transferred, got>>

\* A read, a write or a shutdown throws; Callback reports the error instead.
Throws(e) ==
    /\ link = "broken"
    /\ at[e] \in {"write", "pending", "shutdown", "read"}
    /\ Goto(e, "thrown")
    /\ UNCHANGED <<program, link, wire, fin, total, transferred, got>>

\* The connection breaks: what was on its way is lost.
NetBreak ==
    /\ link = "up"
    /\ link' = "broken"
    /\ wire' = [e \in End |-> << >>]
    /\ UNCHANGED <<program, at, fin, total, transferred, got>>

\* Somebody ends the process: the system closes its socket.
Kill(e) ==
    /\ link = "up"
    /\ ~Gone(e)
    /\ Goto(e, "killed")
    /\ Close(e)
    /\ UNCHANGED <<program, total, transferred, got>>
----------------------------------------------------------------------------
Client == \/ Connect \/ Refused \/ RetryConnect
          \/ NetWrite \/ Callback \/ ReadEnds

Process(e) == \/ WriteSome(e) \/ WriteEnds(e) \/ ShutdownSend(e)
              \/ ReadSome(e) \/ ReadEof(e) \/ Finish(e) \/ Throws(e)

StreamNext == ServerListens \/ Client \/ NetBreak \/ \E e \in End : Process(e) \/ Kill(e)

StreamSpec == StreamInit /\ [][StreamNext]_streamVars
----------------------------------------------------------------------------
(* Properties                                                              *)

StreamTypeOK == /\ program \in {"shutdown", "retry", "loop", "callbacks", "reader"}
                /\ at["client"] \in {"start", "sleep", "write", "pending", "handler", "shutdown",
                                     "read", "finish", "done", "thrown", "killed"}
                /\ at["server"] \in {"start", "accept", "read", "write", "shutdown", "finish",
                                     "done", "thrown", "killed"}
                /\ link \in {"none", "up", "broken"}
                /\ fin \subseteq End
                /\ \A e \in End : total[e] \in 0 .. Length(e) /\ Len(wire[e]) <= Window
                /\ transferred \in 0 .. Length("client")

\* Bytes are neither lost, repeated nor reordered by the loops and the callbacks,
\* however small the pieces: what has been read, and is still to be read, is the
\* buffer of the sender from its first byte on, as far as total_bytes_written says
\* (write_to_tcp_async.cpp:43, write_to_tcp_sync.cpp:31, read_from_tcp_sync.cpp:50).
BytesInOrder ==
    /\ StreamTypeOK
    /\ \A e \in End :
          LET stream == got[Peer(e)] \o wire[Peer(e)]
              sent == total[e] + IF e = "client" THEN transferred ELSE 0
          IN /\ stream = [i \in 1 .. Len(stream) |-> i]
             /\ Len(stream) <= sent
             /\ link = "up" /\ ~Gone(Peer(e)) => Len(stream) = sent

\* "Whole request", "whole response" (socket_shutdown_server.cpp:43,
\* socket_shutdown_client.cpp:43): who takes the end of the stream for the end of
\* the message has all of it, unless the other process was killed before it had
\* written all: then a part passes for the whole.
EndMeansWhole ==
    /\ program # "reader" /\ at["server"] \in {"write", "shutdown", "finish", "done"} =>
          Len(got["server"]) = RequestLength \/ at["client"] = "killed"
    /\ Exchange /\ at["client"] \in {"finish", "done"} =>
          Len(got["client"]) = ResponseLength \/ at["server"] = "killed"

\* Neither side waits for ever for the other to half-close, and every process
\* ends, provided the server was started; a client that retries does not give up.
ExchangeEnds ==
    /\ \A e \in End : link = "up" ~> Gone(e)
    /\ (program = "retry" /\ at["server"] = "accept") ~> link # "none"
============================================================================
