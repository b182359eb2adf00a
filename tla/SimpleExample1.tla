--------------------------- MODULE SimpleExample1 ---------------------------
(***************************************************************************)
(* one_lone_coder/simple_example1.cpp: the handler of a read prints what has  *)
(* been read, byte by byte, and starts another read after every byte.  All     *)
(* reads share one buffer and may be outstanding together.  A byte is its     *)
(* place in the stream.                                                      *)
(***************************************************************************)
EXTENDS Naturals, Sequences

CONSTANT MaxBytes   \* bound: bytes the server sends

ASSUME BytesAssumption == MaxBytes \in Nat \ {0}

VARIABLES readPc,    \* "connect", "grab", "write", "sleep", "join", "done" or "terminated"
          stopped,   \* context.stop() has been called
          thrContext,\* the context's thread: "runs" or "returned"
          closed,    \* nothing more will arrive: end of stream, or never connected
          arrived,   \* bytes that have reached the socket
          consumed,  \* bytes that reads have taken from it
          vBuffer,   \* [1 .. MaxBytes -> the byte there, 0 at first]
          reads,     \* reads that are waiting for data
          completed, \* lengths for the handlers that are queued; 0 is an error
          length, i, \* of the handler that is running; length = 0 if none is
          printed,   \* what has been printed
          widest     \* history: the greatest length of a read

readVars == <<readPc, stopped, thrContext, closed, arrived, consumed, vBuffer, reads,
              completed, length, i, printed, widest>>

ReadInit == /\ readPc = "connect"
            /\ stopped = FALSE
            /\ thrContext = "runs"
            /\ closed = FALSE
            /\ arrived = 0
            /\ consumed = 0
            /\ vBuffer = [k \in 1 .. MaxBytes |-> 0]
            /\ reads = 0
            /\ completed = << >>
            /\ length = 0
            /\ i = 0
            /\ printed = << >>
            /\ widest = 0

reading == <<consumed, vBuffer, reads, completed, widest>>
----------------------------------------------------------------------------
(* Reads.  A read takes what has arrived, at once if no other is waiting.    *)

Readable == arrived > consumed \/ closed

\* A read puts n bytes at the start of the buffer and queues its handler behind queue.
Fill(n, queue) ==
    /\ vBuffer' = [k \in 1 .. MaxBytes |-> IF k <= n THEN consumed + k ELSE vBuffer[k]]
    /\ consumed' = consumed + n
    /\ completed' = Append(queue, n)
    /\ widest' = IF n > widest THEN n ELSE widest

GrabSomeData ==
    IF reads = 0 /\ Readable
      THEN Fill(arrived - consumed, completed) /\ UNCHANGED reads
      ELSE reads' = reads + 1 /\ UNCHANGED <<consumed, vBuffer, completed, widest>>

\* The context's thread, between two handlers, performs a read that was waiting.
NetRead ==
    /\ thrContext = "runs"
    /\ length = 0
    /\ reads > 0
    /\ Readable
    /\ reads' = reads - 1
    /\ Fill(arrived - consumed, completed)
    /\ UNCHANGED <<readPc, stopped, thrContext, closed, arrived, length, i, printed>>

HandlerBegin ==
    /\ thrContext = "runs"
    /\ ~stopped
    /\ length = 0
    /\ completed # << >>
    /\ length' = Head(completed)
    /\ i' = IF length' = 0 THEN 0 ELSE 1
    /\ completed' = Tail(completed)
    /\ UNCHANGED <<readPc, stopped, thrContext, closed, arrived, consumed, vBuffer, reads,
                   printed, widest>>

\* Mutant of PrintNext: the next read is started before the byte is printed.
MutPrintNextAfterRead ==
    /\ length > 0
    /\ GrabSomeData
    /\ printed' = Append(printed, vBuffer'[i])
    /\ IF i = length THEN length' = 0 /\ i' = 0 ELSE i' = i + 1 /\ UNCHANGED length
    /\ UNCHANGED <<readPc, stopped, thrContext, closed, arrived>>

\* One round of the loop: a byte is printed, and a read started.
PrintNext ==
    /\ length > 0
    /\ printed' = Append(printed, vBuffer[i])
    /\ GrabSomeData
    /\ IF i = length THEN length' = 0 /\ i' = 0 ELSE i' = i + 1 /\ UNCHANGED length
    /\ UNCHANGED <<readPc, stopped, thrContext, closed, arrived>>

\* After stop() no other handler is begun.
ThreadEnds ==
    /\ thrContext = "runs"
    /\ stopped
    /\ length = 0
    /\ thrContext' = "returned"
    /\ UNCHANGED <<readPc, stopped, closed, arrived, length, i, printed, reading>>

Context == NetRead \/ HandlerBegin \/ PrintNext \/ ThreadEnds
----------------------------------------------------------------------------
(* main                                                                    *)

\* connect succeeds; it fails with the socket open, which is read all the same; or
\* the socket could not be opened, and main returns from a thread it has not joined.
ConnectSocket ==
    /\ readPc = "connect"
    /\ \/ readPc' = "grab" /\ closed' \in BOOLEAN
       \/ readPc' = "terminated" /\ UNCHANGED closed
    /\ UNCHANGED <<stopped, thrContext, arrived, length, i, printed, reading>>

FirstGrab ==
    /\ readPc = "grab"
    /\ readPc' = "write"
    /\ GrabSomeData
    /\ UNCHANGED <<stopped, thrContext, closed, arrived, length, i, printed>>

\* write_some sends the request, its error is not looked at; main sleeps and stops
\* the context; and joins its thread.
WriteRequest ==
    /\ readPc = "write"
    /\ readPc' = "sleep"
    /\ UNCHANGED <<stopped, thrContext, closed, arrived, length, i, printed, reading>>
StopContext ==
    /\ readPc = "sleep"
    /\ readPc' = "join"
    /\ stopped' = TRUE
    /\ UNCHANGED <<thrContext, closed, arrived, length, i, printed, reading>>
JoinContext ==
    /\ readPc = "join"
    /\ thrContext = "returned"
    /\ readPc' = "done"
    /\ UNCHANGED <<stopped, thrContext, closed, arrived, length, i, printed, reading>>

\* The server's answer arrives, in pieces, and ends.
Arrives ==
    /\ readPc \in {"sleep", "join"}
    /\ ~closed
    /\ \/ \E n \in 1 .. MaxBytes - arrived : arrived' = arrived + n /\ UNCHANGED closed
       \/ closed' = TRUE /\ UNCHANGED arrived
    /\ UNCHANGED <<readPc, stopped, thrContext, length, i, printed, reading>>

ReadNext == \/ readPc # "terminated" /\ Context
            \/ ConnectSocket \/ FirstGrab \/ WriteRequest \/ StopContext \/ JoinContext
            \/ Arrives

ReadSpec == ReadInit /\ [][ReadNext]_readVars
----------------------------------------------------------------------------
(* Properties                                                              *)

ReadTypeOK ==
    /\ readPc \in {"connect", "grab", "write", "sleep", "join", "done", "terminated"}
    /\ thrContext \in {"runs", "returned"}
    /\ {stopped, closed} \subseteq BOOLEAN
    /\ consumed <= arrived /\ arrived <= MaxBytes
    /\ vBuffer \in [1 .. MaxBytes -> 0 .. MaxBytes]
    /\ reads \in 0 .. MaxBytes + 1
    /\ length \in 0 .. MaxBytes /\ i \in 0 .. length
    /\ Len(printed) <= MaxBytes

\* simple_example1.cpp:34: reads that overlap in one buffer neither lose nor add a
\* byte, but may print a later byte in the place of an earlier one; never an
\* earlier one or none, and never the wrong one while each read brings one byte.
\* Bytes that were read are left unprinted only by stop().
PrintedAsRead ==
    /\ ReadTypeOK
    /\ \A k \in DOMAIN printed : printed[k] \in k .. consumed
    /\ widest <= 1 => \A k \in DOMAIN printed : printed[k] = k
    /\ completed = << >> /\ length = 0 => Len(printed) = consumed
============================================================================
