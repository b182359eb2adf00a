----------------------------- MODULE ChatServer -----------------------------
(***************************************************************************)
(* dens_simple_chat_server.cpp: class server with its set of sessions.  One  *)
(* thread runs the io_context, so a completion handler is one step.  What a  *)
(* client types is a stream of lines of two pieces each, its text and its    *)
(* newline; a message is the range of pieces that one read has found.        *)
(***************************************************************************)
EXTENDS Naturals, Sequences, FiniteSets

CONSTANTS Clients,       \* those who ever connect, each once
          MaxLines,      \* bound: [client -> lines it types]
          AcceptFails    \* async_accept may complete with an error

ASSUME BoundsAssumption == MaxLines \in [Clients -> Nat] /\ AcceptFails \in BOOLEAN

VARIABLES peer,      \* [client -> "away", "here" or "gone"]
          clients,   \* the server's set of sessions
          open,      \* [client -> the session's socket is open]
          outgoing,  \* [client -> queue of its session]
          writes,    \* [client -> states of the async_writes under way]
          read,      \* [client -> state of its async_read_until]
          consumed,  \* [client -> pieces passed to on_message so far]
          buffered,  \* [client -> pieces read into the streambuf so far]
          log,       \* history: what server::post has sent, in order
          joined,    \* history: [client -> length of log when it was inserted]
          seen       \* history: [client -> what has been written to it]

vars == <<peer, clients, open, outgoing, writes, read, consumed, buffered, log, joined, seen>>

Welcome == [kind |-> "welcome"]
Newcomer(c) == [kind |-> "newcomer", who |-> c]
OneLess(c) == [kind |-> "less", who |-> c]
Line(c, first, last) == [kind |-> "line", who |-> c, first |-> first, last |-> last]

Pieces(c) == 0 .. 2 * MaxLines[c]
Entry == {Newcomer(c) : c \in Clients} \cup {OneLess(c) : c \in Clients}
           \cup UNION {{Line(c, i, j) : i, j \in Pieces(c)} : c \in Clients}

Init == /\ peer = [c \in Clients |-> "away"]
        /\ clients = {}
        /\ open = [c \in Clients |-> FALSE]
        /\ outgoing = [c \in Clients |-> << >>]
        /\ writes = [c \in Clients |-> << >>]
        /\ read = [c \in Clients |-> "none"]
        /\ consumed = [c \in Clients |-> 0]
        /\ buffered = [c \in Clients |-> 0]
        /\ log = << >>
        /\ joined = [c \in Clients |-> 0]
        /\ seen = [c \in Clients |-> << >>]
----------------------------------------------------------------------------
(* server::post, session::post and the operations they start               *)

\* An operation on a closed socket fails at once.
OpState(isOpen) == IF isOpen THEN "pending" ELSE "error"

Abort(state) == IF state = "pending" THEN "error" ELSE state
AbortAll(states) == [i \in 1 .. Len(states) |-> Abort(states[i])]

\* Mutant of Post: the sender of a line is not told.
MutPostSkipsSender(m, members, out, wr, isOpen) ==
    LET to == members \ (IF m.kind = "line" THEN {m.who} ELSE {}) IN
    /\ log' = Append(log, m)
    /\ outgoing' = [c \in Clients |-> IF c \in to THEN Append(out[c], m) ELSE out[c]]
    /\ writes' = [c \in Clients |-> IF c \in to /\ out[c] = << >>
                                      THEN Append(wr[c], OpState(isOpen[c])) ELSE wr[c]]

\* server::post: every session in members queues m, and writes it if it was
\* idle.  The other arguments are the queues, the writes and the sockets as
\* the calling handler has left them.
Post(m, members, out, wr, isOpen) ==
    /\ log' = Append(log, m)
    /\ outgoing' = [c \in Clients |-> IF c \in members THEN Append(out[c], m) ELSE out[c]]
    /\ writes' = [c \in Clients |-> IF c \in members /\ out[c] = << >>
                                      THEN Append(wr[c], OpState(isOpen[c])) ELSE wr[c]]

\* The handler of async_accept; it does not look at its error.  The welcome is
\* written to the new session, the others hear of it, then it is inserted and
\* begins to read.
Accept(c, ok) ==
    /\ peer[c] = "away"
    /\ peer' = [peer EXCEPT ![c] = IF ok THEN "here" ELSE "gone"]
    /\ open' = [open EXCEPT ![c] = ok]
    /\ Post(Newcomer(c), clients,
            [outgoing EXCEPT ![c] = <<Welcome>>], [writes EXCEPT ![c] = <<OpState(ok)>>], open')
    /\ clients' = clients \cup {c}
    /\ joined' = [joined EXCEPT ![c] = Len(log')]
    /\ read' = [read EXCEPT ![c] = OpState(ok)]
    /\ UNCHANGED <<consumed, buffered, seen>>

\* Mutant of Leave: the socket is closed, but on_error is not called.
MutLeaveSilently(c, wr, rd) ==
    /\ open' = [open EXCEPT ![c] = FALSE]
    /\ read' = [read EXCEPT ![c] = Abort(rd)]
    /\ writes' = [writes EXCEPT ![c] = AbortAll(wr)]
    /\ UNCHANGED <<clients, outgoing, log>>

\* socket.close and on_error: the first error of a session takes it out of the
\* set and tells the others; wr and rd are its operations without the one that
\* has failed.
Leave(c, wr, rd) ==
    /\ open' = [open EXCEPT ![c] = FALSE]
    /\ clients' = clients \ {c}
    /\ read' = [read EXCEPT ![c] = Abort(rd)]
    /\ IF c \in clients
         THEN Post(OneLess(c), clients', outgoing, [writes EXCEPT ![c] = AbortAll(wr)], open')
         ELSE /\ writes' = [writes EXCEPT ![c] = AbortAll(wr)]
              /\ UNCHANGED <<outgoing, log>>

\* Mutant of OnRead: the streambuf is copied into the message and then only
\* its first line is consumed.
MutOnReadConsumesLine(c) ==
    /\ \/ /\ read[c] = "done"
          /\ Post(Line(c, consumed[c] + 1, buffered[c]), clients, outgoing, writes, open)
          /\ consumed' = [consumed EXCEPT ![c] = 2 * (@ \div 2) + 2]
          /\ read' = [read EXCEPT ![c] = OpState(open[c])]
          /\ UNCHANGED <<open, clients>>
       \/ /\ read[c] = "error"
          /\ Leave(c, writes[c], "none")
          /\ UNCHANGED consumed
    /\ UNCHANGED <<peer, buffered, joined, seen>>

\* on_read: everything in the streambuf becomes the message, then the session
\* reads on, on whatever is left of its socket.
OnRead(c) ==
    /\ \/ /\ read[c] = "done"
          /\ Post(Line(c, consumed[c] + 1, buffered[c]), clients, outgoing, writes, open)
          /\ consumed' = [consumed EXCEPT ![c] = buffered[c]]
          /\ read' = [read EXCEPT ![c] = OpState(open[c])]
          /\ UNCHANGED <<open, clients>>
       \/ /\ read[c] = "error"
          /\ Leave(c, writes[c], "none")
          /\ UNCHANGED consumed
    /\ UNCHANGED <<peer, buffered, joined, seen>>

Remove(s, i) == SubSeq(s, 1, i - 1) \o SubSeq(s, i + 1, Len(s))

\* Mutants of OnWrite: the rest of the queue is forgotten; every error is
\* announced, the first and the later ones.
MutOnWriteStops(c) ==
    \E i \in 1 .. Len(writes[c]) :
        LET rest == Remove(writes[c], i) IN
        /\ writes[c][i] = "done"
        /\ outgoing' = [outgoing EXCEPT ![c] = Tail(@)]
        /\ seen' = [seen EXCEPT ![c] = Append(@, Head(outgoing[c]))]
        /\ writes' = [writes EXCEPT ![c] = rest]
        /\ UNCHANGED <<peer, open, clients, read, log, consumed, buffered, joined>>
MutOnWriteAnnouncesAgain(c) ==
    \E i \in 1 .. Len(writes[c]) :
        /\ writes[c][i] = "error"
        /\ open' = [open EXCEPT ![c] = FALSE]
        /\ clients' = clients \ {c}
        /\ read' = [read EXCEPT ![c] = Abort(@)]
        /\ Post(OneLess(c), clients', outgoing,
                [writes EXCEPT ![c] = AbortAll(Remove(@, i))], open')
        /\ UNCHANGED <<peer, seen, consumed, buffered, joined>>

\* on_write.
OnWrite(c) ==
    \E i \in 1 .. Len(writes[c]) :
        LET rest == Remove(writes[c], i) IN
        /\ \/ /\ writes[c][i] = "done"
              /\ outgoing' = [outgoing EXCEPT ![c] = Tail(@)]
              /\ seen' = [seen EXCEPT ![c] = Append(@, Head(outgoing[c]))]
              /\ writes' = [writes EXCEPT ![c] = IF Tail(outgoing[c]) = << >> THEN rest
                                                 ELSE Append(rest, OpState(open[c]))]
              /\ UNCHANGED <<open, clients, read, log>>
           \/ /\ writes[c][i] = "error"
              /\ Leave(c, rest, read[c])
              /\ UNCHANGED seen
        /\ UNCHANGED <<peer, consumed, buffered, joined>>
----------------------------------------------------------------------------
(* The clients and the network                                             *)

\* async_read_until completes once a newline has come; it may have read more.
Newlines(from, to) == to \div 2 - from \div 2

NetRead(c) ==
    /\ read[c] = "pending"
    /\ \E n \in Pieces(c) : /\ Newlines(consumed[c], n) > 0
                         /\ buffered' = [buffered EXCEPT ![c] = n]
    /\ read' = [read EXCEPT ![c] = "done"]
    /\ UNCHANGED <<peer, clients, open, outgoing, writes, consumed, log, joined, seen>>

NetWrite(c) ==
    \E i \in 1 .. Len(writes[c]) :
        /\ writes[c][i] = "pending"
        /\ writes' = [writes EXCEPT ![c][i] = "done"]
        /\ UNCHANGED <<peer, clients, open, outgoing, read, consumed, buffered, log, joined, seen>>

\* A client leaves, or its connection breaks ...
PeerGoes(c) ==
    /\ peer[c] = "here"
    /\ peer' = [peer EXCEPT ![c] = "gone"]
    /\ UNCHANGED <<clients, open, outgoing, writes, read, consumed, buffered, log, joined, seen>>

\* ... which fails its read, and a write now or later.
NetReadFails(c) ==
    /\ peer[c] = "gone"
    /\ read[c] = "pending"
    /\ read' = [read EXCEPT ![c] = "error"]
    /\ UNCHANGED <<peer, clients, open, outgoing, writes, consumed, buffered, log, joined, seen>>

NetWriteFails(c) ==
    /\ peer[c] = "gone"
    /\ \E i \in 1 .. Len(writes[c]) : /\ writes[c][i] = "pending"
                                      /\ writes' = [writes EXCEPT ![c][i] = "error"]
    /\ UNCHANGED <<peer, clients, open, outgoing, read, consumed, buffered, log, joined, seen>>
----------------------------------------------------------------------------
Handler(c) == OnRead(c) \/ OnWrite(c)

Next == \E c \in Clients : \/ \E ok \in {TRUE, ~AcceptFails} : Accept(c, ok)
                           \/ Handler(c)
                           \/ NetRead(c) \/ NetWrite(c) \/ PeerGoes(c)
                           \/ NetReadFails(c) \/ NetWriteFails(c)

Spec == Init /\ [][Next]_vars

\* The io_context runs every handler; a write to a client that is there, and
\* the end of file of one that has gone, come through in the end.
Fairness == \A c \in Clients : /\ WF_vars(Handler(c))
                               /\ WF_vars(NetWrite(c) \/ NetWriteFails(c))
                               /\ WF_vars(NetReadFails(c))
FairSpec == Spec /\ Fairness
----------------------------------------------------------------------------
(* Properties                                                              *)

OpStates == {"pending", "done", "error"}

\* Every variable stays in its range, and never is more than one write of a
\* session under way, as async_write demands.
TypeOK == /\ peer \in [Clients -> {"away", "here", "gone"}]
          /\ clients \subseteq Clients
          /\ open \in [Clients -> BOOLEAN]
          /\ outgoing \in [Clients -> Seq(Entry \cup {Welcome})]
          /\ writes \in [Clients -> Seq(OpStates)]
          /\ \A c \in Clients : Len(writes[c]) <= 1
          /\ read \in [Clients -> OpStates \cup {"none"}]
          /\ \A c \in Clients : consumed[c] \in Pieces(c) /\ buffered[c] \in Pieces(c)
          /\ log \in Seq(Entry)
          /\ joined \in [Clients -> Nat]
          /\ seen \in [Clients -> Seq(Entry \cup {Welcome})]

\* "We are one less" is announced once for every session that has left, though
\* its read and its write may both fail (clients.erase returns a count).
OneLessOnce ==
    /\ TypeOK
    /\ \A c \in Clients :
          Cardinality({i \in 1 .. Len(log) : log[i] = OneLess(c)})
              = IF peer[c] # "away" /\ c \notin clients THEN 1 ELSE 0

\* The room: what a session has written to its client, the welcome aside, is
\* the part of the one log that begins where the session was inserted.
WithoutWelcome == [c \in Clients |-> SubSeq(seen[c], 2, Len(seen[c]))]
Room == INSTANCE ChatRoom WITH read <- WithoutWelcome
RoomSpec == Room!Spec

\* Whatever is broadcast while a client is in the set reaches it, or the client
\* leaves the set.
MembersHearAll ==
    \A c \in Clients : (c \in clients /\ outgoing[c] # << >>) ~> (outgoing[c] = << >> \/ c \notin clients)

\* A client that has gone is taken out of the set.
GoneAreRemoved == \A c \in Clients : peer[c] = "gone" ~> c \notin clients

\* Where the lines of c are in the log.
Lines(c) == {i \in 1 .. Len(log) : log[i].kind = "line" /\ log[i].who = c}

\* Lines are not lost or repeated on their way into the log: every message of
\* a client begins where its previous one ended.
LinesInOrder ==
    \A c \in Clients : \A j \in Lines(c) :
        LET earlier == {i \in Lines(c) : i < j} IN
        /\ \A i \in earlier : log[i].last < log[j].first
        /\ log[j].first = 1 \/ \E i \in earlier : log[i].last + 1 = log[j].first
============================================================================
