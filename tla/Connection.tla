----------------------------- MODULE Connection -----------------------------
(***************************************************************************)
(* Two objects of class connection<T> (net_connection.h), the client's and   *)
(* the server's, joined by a TCP connection that is already established.     *)
(* Each endpoint has one asio thread, so a completion handler or a posted    *)
(* task is one step; the applications call Send from other threads.          *)
(*                                                                         *)
(* Bytes are counted in units of eight: a header (id and size) is one unit   *)
(* and a body is as many as its size says.                                   *)
(***************************************************************************)
EXTENDS Naturals, Sequences

CONSTANTS Client, Server,  \* the two endpoints
          Ids, Bytes,      \* what an id is, and eight bytes of a body
          Fresh,           \* messages the applications construct
          MaxClientSends,  \* bound: fresh messages the client sends
          MaxServerSends,  \* bound: fresh messages the server sends
          Bounced,         \* ids of the messages the server sends back
          MayClose,        \* connections are closed or broken
          MaxSize          \* bound: the size a header can be misread to have

Endpoints == {Client, Server}
Peer(e) == IF e = Client THEN Server ELSE Client
MaxSends(e) == IF e = Client THEN MaxClientSends ELSE MaxServerSends

\* message<T>: operator<< keeps header.size equal to the length of the body.
WellFormed(m) == m.size = Len(m.body)

ASSUME EndpointsAssumption == Client # Server
ASSUME FreshAssumption ==
    /\ Fresh \subseteq [id : Ids, size : 0 .. MaxSize, body : Seq(Bytes)]
    /\ \A m \in Fresh : WellFormed(m)
\* simple_server sends pings back, and a ping has a body, the time that PingServer
\* has pushed (simple_client.cpp:34): a received one has no stale body.
ASSUME BouncedAssumption == \A m \in Fresh : m.id \in Bounced => m.size > 0
ASSUME BoundsAssumption == /\ MaxClientSends \in Nat /\ MaxServerSends \in Nat
                           /\ MaxSize \in Nat
                           /\ MayClose \in BOOLEAN

VARIABLES open,            \* [endpoint -> m_socket.is_open()]
          primed,          \* [endpoint -> its accept or connect handler has run]
          posted,          \* [endpoint -> tasks given to asio::post, in order]
          m_qMessagesOut,
          writeOps,        \* [endpoint -> asynchronous writes under way]
          readOp,          \* [endpoint -> the asynchronous read under way]
          m_msgTemporaryIn,
          m_qMessagesIn,
          wire,            \* [endpoint -> units on their way to it]
          sends,           \* [endpoint -> fresh messages sent so far]
          sent,            \* history: [endpoint -> messages it queued]
          received,        \* history: [endpoint -> messages put in m_qMessagesIn]
          misread          \* history: a body was read as a header, or the reverse

writer == <<m_qMessagesOut, writeOps, sent>>
reader == <<readOp, m_msgTemporaryIn, m_qMessagesIn, received, misread>>
vars == <<open, primed, posted, writer, reader, wire, sends>>

NoRead == [part |-> "none", state |-> "none", got |-> << >>]
NoMessage == [id |-> "none", size |-> 0, body |-> << >>]
CloseTask == [task |-> "close", msg |-> NoMessage]

Init == /\ open = [e \in Endpoints |-> TRUE]
        /\ primed = [e \in Endpoints |-> FALSE]
        /\ posted = [e \in Endpoints |-> << >>]
        /\ m_qMessagesOut = [e \in Endpoints |-> << >>]
        /\ writeOps = [e \in Endpoints |-> << >>]
        /\ readOp = [e \in Endpoints |-> NoRead]
        /\ m_msgTemporaryIn = [e \in Endpoints |-> NoMessage]
        /\ m_qMessagesIn = [e \in Endpoints |-> << >>]
        /\ wire = [e \in Endpoints |-> << >>]
        /\ sends = [e \in Endpoints |-> 0]
        /\ sent = [e \in Endpoints |-> << >>]
        /\ received = [e \in Endpoints |-> << >>]
        /\ misread = FALSE
----------------------------------------------------------------------------
(* The applications, on threads of their own                               *)

\* Send only posts a task.
Post(e, task) == posted' = [posted EXCEPT ![e] = Append(@, task)]

Send(e, m) ==
    /\ sends[e] < MaxSends(e)
    /\ sends' = [sends EXCEPT ![e] = @ + 1]
    /\ Post(e, [task |-> "send", msg |-> m])
    /\ UNCHANGED <<open, primed, writer, reader, wire>>

\* The application takes a received message; simple_server sends that very
\* object back if it is a ping.
HandleMessage(e) ==
    /\ m_qMessagesIn[e] # << >>
    /\ m_qMessagesIn' = [m_qMessagesIn EXCEPT ![e] = Tail(@)]
    /\ IF e = Server /\ Head(m_qMessagesIn[e]).id \in Bounced
         THEN Post(e, [task |-> "send", msg |-> Head(m_qMessagesIn[e])])
         ELSE UNCHANGED posted
    /\ UNCHANGED <<open, primed, writer, readOp, m_msgTemporaryIn, received, misread,
                   wire, sends>>

\* Disconnect posts the close of an open socket, once in this model.
Disconnect(e) ==
    /\ MayClose
    /\ open[e]
    /\ \A i \in 1 .. Len(posted[e]) : posted[e][i] # CloseTask
    /\ Post(e, CloseTask)
    /\ UNCHANGED <<open, primed, writer, reader, wire, sends>>
----------------------------------------------------------------------------
(* Starting and aborting asynchronous operations                           *)

\* An operation on a closed socket fails at once.
OpState(e) == IF open[e] THEN "pending" ELSE "error"

\* The write of WriteHeader or WriteBody, of the first message of queue q.
WriteOp(e, part, q) ==
    [part |-> part, state |-> OpState(e),
     left |-> IF part = "header" THEN <<[header |-> TRUE, id |-> Head(q).id, size |-> Head(q).size]>>
              ELSE [i \in 1 .. Len(Head(q).body) |->
                        [header |-> FALSE, id |-> Head(q).body[i], size |-> 0]]]

ReadOp(e, part) == [part |-> part, state |-> OpState(e), got |-> << >>]

\* m_socket.close(): what waits for the network is aborted, what has completed
\* keeps its result.
AbortWrites(ops) == [i \in 1 .. Len(ops) |-> IF ops[i].state = "pending"
                                              THEN [ops[i] EXCEPT !.state = "error"]
                                              ELSE ops[i]]
AbortRead(op) == IF op.state = "pending" THEN [op EXCEPT !.state = "error"] ELSE op
----------------------------------------------------------------------------
(* The asio thread of an endpoint                                          *)

\* The accept handler (ConnectToClient) or the connect handler: ReadHeader.
Prime(e) ==
    /\ ~primed[e]
    /\ primed' = [primed EXCEPT ![e] = TRUE]
    /\ readOp' = [readOp EXCEPT ![e] = IF e = Server /\ ~open[e] THEN @ ELSE ReadOp(e, "header")]
    /\ UNCHANGED <<open, posted, writer, m_msgTemporaryIn, m_qMessagesIn, received, misread,
                   wire, sends>>

\* Mutant of RunSend: the message is put at the front of the queue.
MutRunSendPushFront(e) ==
    LET m == Head(posted[e]).msg
        q == <<m>> \o m_qMessagesOut[e]
    IN
    /\ posted[e] # << >>
    /\ Head(posted[e]).task = "send"
    /\ posted' = [posted EXCEPT ![e] = Tail(@)]
    /\ m_qMessagesOut' = [m_qMessagesOut EXCEPT ![e] = q]
    /\ sent' = [sent EXCEPT ![e] = Append(@, m)]
    /\ writeOps' = [writeOps EXCEPT ![e] =
                        IF m_qMessagesOut[e] = << >> THEN Append(@, WriteOp(e, "header", q)) ELSE @]
    /\ UNCHANGED <<open, primed, reader, wire, sends>>

\* The task of Send.
RunSend(e) ==
    LET m == Head(posted[e]).msg
        q == Append(m_qMessagesOut[e], m)
    IN
    /\ posted[e] # << >>
    /\ Head(posted[e]).task = "send"
    /\ posted' = [posted EXCEPT ![e] = Tail(@)]
    /\ m_qMessagesOut' = [m_qMessagesOut EXCEPT ![e] = q]
    /\ sent' = [sent EXCEPT ![e] = Append(@, m)]
    /\ writeOps' = [writeOps EXCEPT ![e] =
                        IF m_qMessagesOut[e] = << >> THEN Append(@, WriteOp(e, "header", q)) ELSE @]
    /\ UNCHANGED <<open, primed, reader, wire, sends>>

\* The task of Disconnect.
RunClose(e) ==
    /\ posted[e] # << >>
    /\ Head(posted[e]) = CloseTask
    /\ posted' = [posted EXCEPT ![e] = Tail(@)]
    /\ open' = [open EXCEPT ![e] = FALSE]
    /\ writeOps' = [writeOps EXCEPT ![e] = AbortWrites(@)]
    /\ readOp' = [readOp EXCEPT ![e] = AbortRead(@)]
    /\ UNCHANGED <<primed, m_qMessagesOut, sent, m_msgTemporaryIn, m_qMessagesIn, received,
                   misread, wire, sends>>

\* A handler of a failed read or write closes the socket and starts nothing.
CloseAfter(e, ops, rop) ==
    /\ open' = [open EXCEPT ![e] = FALSE]
    /\ writeOps' = [writeOps EXCEPT ![e] = AbortWrites(ops)]
    /\ readOp' = [readOp EXCEPT ![e] = AbortRead(rop)]
    /\ UNCHANGED <<m_qMessagesOut, sent, m_msgTemporaryIn, m_qMessagesIn, received, misread>>

Remove(s, i) == SubSeq(s, 1, i - 1) \o SubSeq(s, i + 1, Len(s))

\* The message at the front is done: the next header, if there is one.
Finish(e, ops) ==
    LET q == Tail(m_qMessagesOut[e]) IN
    /\ m_qMessagesOut' = [m_qMessagesOut EXCEPT ![e] = q]
    /\ writeOps' = [writeOps EXCEPT ![e] =
                        IF q = << >> THEN ops ELSE Append(ops, WriteOp(e, "header", q))]

\* Mutant of OnWriteHeader: the body is not written.
MutOnWriteHeaderNoBody(e) ==
    \E i \in 1 .. Len(writeOps[e]) :
        LET op == writeOps[e][i]
            ops == Remove(writeOps[e], i)
        IN
        /\ op.part = "header"
        /\ \/ /\ op.state = "done"
              /\ Finish(e, ops)
              /\ UNCHANGED <<open, sent, reader>>
           \/ /\ op.state = "error"
              /\ CloseAfter(e, ops, readOp[e])
        /\ UNCHANGED <<primed, posted, wire, sends>>

\* The handler of WriteHeader.
OnWriteHeader(e) ==
    \E i \in 1 .. Len(writeOps[e]) :
        LET op == writeOps[e][i]
            ops == Remove(writeOps[e], i)
        IN
        /\ op.part = "header"
        /\ \/ /\ op.state = "done"
              /\ IF Len(Head(m_qMessagesOut[e]).body) > 0
                   THEN /\ writeOps' = [writeOps EXCEPT ![e] =
                                            Append(ops, WriteOp(e, "body", m_qMessagesOut[e]))]
                        /\ UNCHANGED m_qMessagesOut
                   ELSE Finish(e, ops)
              /\ UNCHANGED <<open, sent, reader>>
           \/ /\ op.state = "error"
              /\ CloseAfter(e, ops, readOp[e])
        /\ UNCHANGED <<primed, posted, wire, sends>>

\* Mutant of OnWriteBody: the next header is not written.
MutOnWriteBodyStops(e) ==
    \E i \in 1 .. Len(writeOps[e]) :
        LET op == writeOps[e][i]
            ops == Remove(writeOps[e], i)
        IN
        /\ op.part = "body"
        /\ \/ /\ op.state = "done"
              /\ m_qMessagesOut' = [m_qMessagesOut EXCEPT ![e] = Tail(@)]
              /\ writeOps' = [writeOps EXCEPT ![e] = ops]
              /\ UNCHANGED <<open, sent, reader>>
           \/ /\ op.state = "error"
              /\ CloseAfter(e, ops, readOp[e])
        /\ UNCHANGED <<primed, posted, wire, sends>>

\* The handler of WriteBody.
OnWriteBody(e) ==
    \E i \in 1 .. Len(writeOps[e]) :
        LET op == writeOps[e][i]
            ops == Remove(writeOps[e], i)
        IN
        /\ op.part = "body"
        /\ \/ /\ op.state = "done"
              /\ Finish(e, ops)
              /\ UNCHANGED <<open, sent, reader>>
           \/ /\ op.state = "error"
              /\ CloseAfter(e, ops, readOp[e])
        /\ UNCHANGED <<primed, posted, wire, sends>>

\* AddToIncomingMessageQueue: m_msgTemporaryIn is copied, never cleared, and
\* the next header is read.
AddToIncomingMessageQueue(e, m) ==
    /\ m_qMessagesIn' = [m_qMessagesIn EXCEPT ![e] = Append(@, m)]
    /\ received' = [received EXCEPT ![e] = Append(@, m)]
    /\ readOp' = [readOp EXCEPT ![e] = ReadOp(e, "header")]

\* vector::resize keeps what the vector held and appends zeros.
Resize(body, n) == [i \in 1 .. n |-> IF i <= Len(body) THEN body[i] ELSE "zero"]

\* A header: its bytes are what was written as one, or else anything at all.
HeaderOf(unit) ==
    IF unit.header THEN {[id |-> unit.id, size |-> unit.size]}
                   ELSE {[id |-> unit.id, size |-> n] : n \in 0 .. MaxSize}

\* Mutant of OnReadHeader: an error does not close the socket.
MutOnReadHeaderIgnoresError(e) ==
    /\ readOp[e].part = "header"
    /\ \/ /\ readOp[e].state = "done"
          /\ misread' = (misread \/ ~readOp[e].got[1].header)
          /\ \E h \in HeaderOf(readOp[e].got[1]) :
                LET body == IF h.size > 0 THEN Resize(m_msgTemporaryIn[e].body, h.size)
                                          ELSE m_msgTemporaryIn[e].body
                    m == [id |-> h.id, size |-> h.size, body |-> body]
                IN
                /\ m_msgTemporaryIn' = [m_msgTemporaryIn EXCEPT ![e] = m]
                /\ IF h.size > 0
                     THEN /\ readOp' = [readOp EXCEPT ![e] = ReadOp(e, "body")]
                          /\ UNCHANGED <<m_qMessagesIn, received>>
                     ELSE AddToIncomingMessageQueue(e, m)
          /\ UNCHANGED <<open, writer>>
       \/ /\ readOp[e].state = "error"
          /\ readOp' = [readOp EXCEPT ![e] = NoRead]
          /\ UNCHANGED <<open, writer, m_msgTemporaryIn, m_qMessagesIn, received, misread>>
    /\ UNCHANGED <<primed, posted, wire, sends>>

\* The handler of ReadHeader.
OnReadHeader(e) ==
    /\ readOp[e].part = "header"
    /\ \/ /\ readOp[e].state = "done"
          /\ misread' = (misread \/ ~readOp[e].got[1].header)
          /\ \E h \in HeaderOf(readOp[e].got[1]) :
                LET body == IF h.size > 0 THEN Resize(m_msgTemporaryIn[e].body, h.size)
                                          ELSE m_msgTemporaryIn[e].body
                    m == [id |-> h.id, size |-> h.size, body |-> body]
                IN
                /\ m_msgTemporaryIn' = [m_msgTemporaryIn EXCEPT ![e] = m]
                /\ IF h.size > 0
                     THEN /\ readOp' = [readOp EXCEPT ![e] = ReadOp(e, "body")]
                          /\ UNCHANGED <<m_qMessagesIn, received>>
                     ELSE AddToIncomingMessageQueue(e, m)
          /\ UNCHANGED <<open, writer>>
       \/ /\ readOp[e].state = "error"
          /\ CloseAfter(e, writeOps[e], NoRead)
    /\ UNCHANGED <<primed, posted, wire, sends>>

\* The handler of ReadBody.
OnReadBody(e) ==
    /\ readOp[e].part = "body"
    /\ \/ /\ readOp[e].state = "done"
          /\ misread' = (misread \/ \E i \in 1 .. Len(readOp[e].got) : readOp[e].got[i].header)
          /\ LET m == [m_msgTemporaryIn[e] EXCEPT !.body =
                          [i \in 1 .. Len(readOp[e].got) |-> readOp[e].got[i].id]] IN
             /\ m_msgTemporaryIn' = [m_msgTemporaryIn EXCEPT ![e] = m]
             /\ AddToIncomingMessageQueue(e, m)
          /\ UNCHANGED <<open, writer>>
       \/ /\ readOp[e].state = "error"
          /\ CloseAfter(e, writeOps[e], NoRead)
    /\ UNCHANGED <<primed, posted, wire, sends>>
----------------------------------------------------------------------------
(* TCP and the asynchronous operations that wait for it                    *)

\* One unit of a write goes out; to a closed peer it goes nowhere.
NetWrite(e) ==
    \E i \in 1 .. Len(writeOps[e]) :
        LET op == writeOps[e][i] IN
        /\ op.state = "pending"
        /\ writeOps' = [writeOps EXCEPT ![e][i] =
                            [op EXCEPT !.left = Tail(@),
                                       !.state = IF Len(op.left) = 1 THEN "done" ELSE @]]
        /\ wire' = IF open[Peer(e)] THEN [wire EXCEPT ![Peer(e)] = Append(@, Head(op.left))]
                                    ELSE wire
        /\ UNCHANGED <<open, primed, posted, m_qMessagesOut, sent, reader, sends>>

\* How many units the read under way has asked for.
Wanted(e) == IF readOp[e].part = "header" THEN 1 ELSE m_msgTemporaryIn[e].size

NetRead(e) ==
    /\ readOp[e].state = "pending"
    /\ wire[e] # << >>
    /\ wire' = [wire EXCEPT ![e] = Tail(@)]
    /\ LET got == Append(readOp[e].got, Head(wire[e])) IN
       readOp' = [readOp EXCEPT ![e].got = got,
                                ![e].state = IF Len(got) = Wanted(e) THEN "done" ELSE @]
    /\ UNCHANGED <<open, primed, posted, writer, m_msgTemporaryIn, m_qMessagesIn, received,
                   misread, sends>>

\* End of file, once everything the closed peer had sent has been read.
NetEof(e) ==
    /\ readOp[e].state = "pending"
    /\ ~open[Peer(e)]
    /\ wire[e] = << >>
    /\ readOp' = [readOp EXCEPT ![e].state = "error"]
    /\ UNCHANGED <<open, primed, posted, writer, m_msgTemporaryIn, m_qMessagesIn, received,
                   misread, wire, sends>>

\* A closed peer may also reset the connection: what was under way is lost.
NetReset(e) ==
    /\ ~open[Peer(e)]
    /\ wire[e] # << >>
    /\ wire' = [wire EXCEPT ![e] = << >>]
    /\ UNCHANGED <<open, primed, posted, writer, reader, sends>>

\* The network fails a write or a read.
NetBreak(e) ==
    /\ MayClose
    /\ \/ /\ \E i \in 1 .. Len(writeOps[e]) :
                /\ writeOps[e][i].state = "pending"
                /\ writeOps' = [writeOps EXCEPT ![e][i].state = "error"]
          /\ UNCHANGED readOp
       \/ /\ readOp[e].state = "pending"
          /\ readOp' = [readOp EXCEPT ![e].state = "error"]
          /\ UNCHANGED writeOps
    /\ UNCHANGED <<open, primed, posted, m_qMessagesOut, sent, m_msgTemporaryIn,
                   m_qMessagesIn, received, misread, wire, sends>>
----------------------------------------------------------------------------
App(e) == (\E m \in Fresh : Send(e, m)) \/ HandleMessage(e) \/ Disconnect(e)

Asio(e) == \/ Prime(e) \/ RunSend(e) \/ RunClose(e)
           \/ OnWriteHeader(e) \/ OnWriteBody(e) \/ OnReadHeader(e) \/ OnReadBody(e)

Delivery(e) == NetWrite(e) \/ NetRead(e) \/ NetEof(e)

Next == \E e \in Endpoints : App(e) \/ Asio(e) \/ Delivery(e) \/ NetReset(e) \/ NetBreak(e)

Spec == Init /\ [][Next]_vars

\* The asio threads run what is ready, and TCP delivers while both ends are
\* open.  The applications need not do anything.
Fairness == \A e \in Endpoints : /\ WF_vars(Asio(e))
                                 /\ WF_vars(NetWrite(e))
                                 /\ WF_vars(NetRead(e) \/ NetEof(e))
FairSpec == Spec /\ Fairness
----------------------------------------------------------------------------
(* Properties                                                              *)

Parts == {"none", "header", "body"}
States == {"none", "pending", "done", "error"}

\* Every variable stays in its range, and never is more than one write of a
\* socket under way, as async_write demands.
TypeOK == /\ open \in [Endpoints -> BOOLEAN]
          /\ primed \in [Endpoints -> BOOLEAN]
          /\ \A e \in Endpoints : sends[e] \in 0 .. MaxSends(e)
          /\ misread \in BOOLEAN
          /\ \A e \in Endpoints :
                /\ \A i \in 1 .. Len(posted[e]) : posted[e][i].task \in {"send", "close"}
                /\ Len(writeOps[e]) <= 1
                /\ \A i \in 1 .. Len(writeOps[e]) :
                      /\ writeOps[e][i].part \in Parts \ {"none"}
                      /\ writeOps[e][i].state \in States \ {"none"}
                /\ readOp[e].part \in Parts
                /\ readOp[e].state \in States
                /\ readOp[e].part = "none" <=> readOp[e].state = "none"

\* The writer neither writes from a message that has been popped nor stops
\* while an open connection has messages queued: the queue is empty exactly
\* when no write is under way.
WriterBusyIffQueued ==
    \A e \in Endpoints :
        /\ writeOps[e] # << >> => m_qMessagesOut[e] # << >>
        /\ m_qMessagesOut[e] # << >> /\ open[e] => writeOps[e] # << >>

\* An open connection always has a read under way, so that it notices when the
\* other side is gone.
AlwaysReading ==
    \A e \in Endpoints : open[e] /\ primed[e] => readOp[e].part # "none"

\* Neither chain of handlers of an open connection, the writer's and the
\* reader's, ever breaks off, and neither is ever doubled.
ChainsGoOn == TypeOK /\ WriterBusyIffQueued /\ AlwaysReading

\* The two ends agree on where a header ends and a body begins, whatever is
\* closed or broken in the middle of a message.
NeverMisread == ~misread

\* A message with a body arrives with that body.  One without "a body to read"
\* (net_connection.h:195) may arrive with the whole body of the message before it,
\* which m_msgTemporaryIn still holds (:197), and with nothing else.
BodyIsOwnOrStale ==
    \A e \in Endpoints : \A i \in 1 .. Len(received[e]) :
        LET m == received[e][i] IN
        IF m.size > 0 THEN m = sent[Peer(e)][i]
        ELSE m.body = << >> \/ (i > 1 /\ m.body = received[e][i - 1].body)

\* What is read is what was written, but for the stale body of a message without one.
ReadAsSent == NeverMisread /\ BodyIsOwnOrStale

\* What a receiver that trusts header.size finds in a message.
Payload(m) == [m EXCEPT !.body = SubSeq(@, 1, m.size)]

Delivered == [e \in Endpoints |-> [i \in 1 .. Len(received[e]) |-> Payload(received[e][i])]]

\* The connections implement a message channel: in each direction the messages
\* arrive whole, once and in order.
Channel == INSTANCE MessageChannel WITH Message <- Fresh, delivered <- Delivered
ChannelSpec == Channel!Spec

\* Every message queued for writing arrives, unless the connection ends: the
\* chain of handlers on either side never just stops.
EverySentArrives ==
    \A e \in Endpoints : \A k \in 1 .. MaxClientSends + MaxServerSends :
        Len(sent[e]) >= k ~> \/ Len(received[Peer(e)]) >= k
                             \/ ~open[e] \/ ~open[Peer(e)]

\* When one end of a connection is closed, for whatever reason, the other end
\* closes too.
CloseSpreads == \A e \in Endpoints : ~open[e] ~> ~open[Peer(e)]
============================================================================
