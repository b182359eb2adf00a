--------------------------- MODULE ProgramProofs ---------------------------
(***************************************************************************)
(* Safety of the small programs, for every value of the constants: the       *)
(* synchronous servers (SyncServer), the UDP client (SyncUDPClient), the     *)
(* cancelled operations (CancelPrograms), partial input and output           *)
(* (StreamPrograms) and the overlapping reads of simple_example1.cpp          *)
(* (SimpleExample1).  The programs do not interact: each part below is about *)
(* one module and its specification.                                         *)
(***************************************************************************)
EXTENDS SyncServer, SyncUDPClient, CancelPrograms, StreamPrograms, SimpleExample1,
        SequenceTheorems, TLAPS


----------------------------------------------------------------------------
(**************************************************************************)
(* SyncServer                                                             *)
(**************************************************************************)

\* A client is answered by a service of its own, which has had its request.
AnsweredIfAsked ==
    \A c \in Clients : /\ service[c] \in {"process", "answered"} => request[c]
                       /\ peer[c] = "answered" => service[c] = "answered"

\* main is past Join only if the server's thread has returned from Run.
StoppedThread == /\ mainPc # "running" => m_stop
                 /\ mainPc \in {"stopped", "exited"} => pc = "returned"

\* Once Stop has returned the iterative server serves nobody.  (The detached threads
\* of the parallel one may go on: sync_parallel_tcp_server.cpp:33.)
NoServiceAfterStop ==
    ~parallel /\ mainPc \in {"stopped", "exited"} => \A c \in Clients : ~InService(c)

\* The inductive invariant.
SyncIInv == TypeOK /\ OneAtATime /\ AnsweredIfAsked /\ StoppedThread
----------------------------------------------------------------------------
\* It holds when the server has been started.
LEMMA InitIInv == Init => SyncIInv
  BY DEF Init, SyncIInv, TypeOK, OneAtATime, AnsweredIfAsked, StoppedThread, InService

\* The server's thread.
LEMMA ServerThreadIInv == ASSUME SyncIInv, ServerThread \/ AcceptorThrows PROVE SyncIInv'
<1> USE DEF SyncIInv
<1>1. CASE Listen \/ LoopTest \/ AcceptorThrows
  BY <1>1 DEF Listen, LoopTest, AcceptorThrows, TypeOK, OneAtATime, AnsweredIfAsked,
              StoppedThread, InService
<1>2. ASSUME NEW c \in Clients, AcceptIterative(c) \/ AcceptParallel(c) PROVE SyncIInv'
  <2> USE <1>2 DEF AcceptIterative, AcceptParallel, Queued
  <2>1. TypeOK' /\ StoppedThread'
    BY DEF TypeOK, StoppedThread
  <2>2. OneAtATime'
    BY DEF TypeOK, OneAtATime, InService
  <2>3. AnsweredIfAsked'
    BY DEF TypeOK, AnsweredIfAsked
  <2> QED  BY <2>1, <2>2, <2>3
<1> QED  BY <1>1, <1>2 DEF ServerThread

\* Service::HandleClient.
LEMMA HandleClientIInv == ASSUME SyncIInv, NEW c \in Clients, HandleClient(c) PROVE SyncIInv'
<1> USE DEF SyncIInv, HandleClient, ReadRequest, HandleFails, Respond, Return, Alive
<1>1. TypeOK' /\ StoppedThread'
  BY DEF TypeOK, StoppedThread
<1>2. OneAtATime'
  BY DEF TypeOK, OneAtATime, InService
<1>3. AnsweredIfAsked'
  BY DEF TypeOK, AnsweredIfAsked, InService
<1> QED  BY <1>1, <1>2, <1>3

\* main, and the clients.
LEMMA MainIInv == ASSUME SyncIInv, Main PROVE SyncIInv'
  BY DEF SyncIInv, Main, Stop, Join, Exit, TypeOK, OneAtATime, AnsweredIfAsked, StoppedThread,
         InService

LEMMA ClientIInv ==
  ASSUME SyncIInv, NEW c \in Clients,
         \/ ClientConnects(c) \/ ClientSends(c) \/ ClientGoes(c)
         \/ ClientReads(c) \/ ClientFails(c)
  PROVE  SyncIInv'
<1> USE DEF SyncIInv, ClientConnects, ClientSends, ClientGoes, ClientReads, ClientFails
<1>1. TypeOK' /\ StoppedThread' /\ OneAtATime'
  BY DEF TypeOK, StoppedThread, OneAtATime, InService
<1>2. AnsweredIfAsked'
  BY DEF TypeOK, AnsweredIfAsked
<1> QED  BY <1>1, <1>2

\* A step that changes nothing.
LEMMA StutterIInv == ASSUME SyncIInv, UNCHANGED vars PROVE SyncIInv'
  BY DEF SyncIInv, vars, TypeOK, OneAtATime, AnsweredIfAsked, StoppedThread, InService

\* The inductive invariant always holds.
LEMMA AlwaysIInv == Spec => []SyncIInv
<1>1. SyncIInv /\ [Next]_vars => SyncIInv'
  <2> SUFFICES ASSUME SyncIInv, [Next]_vars PROVE SyncIInv'
    OBVIOUS
  <2>1. CASE ServerThread \/ AcceptorThrows
    BY <2>1, ServerThreadIInv
  <2>2. CASE Main
    BY <2>2, MainIInv
  <2>3. ASSUME NEW c \in Clients, HandleClient(c) PROVE SyncIInv'
    BY <2>3, HandleClientIInv
  <2>4. ASSUME NEW c \in Clients,
               \/ ClientConnects(c) \/ ClientSends(c) \/ ClientGoes(c)
               \/ ClientReads(c) \/ ClientFails(c)
        PROVE  SyncIInv'
    BY <2>4, ClientIInv
  <2>5. CASE UNCHANGED vars
    BY <2>5, StutterIInv
  <2> QED  BY <2>1, <2>2, <2>3, <2>4, <2>5 DEF Next
<1> QED  BY <1>1, InitIInv, PTL DEF Spec

\* Every variable of the model stays in its range, for every set of clients.
THEOREM SyncTypeCorrect == Spec => []TypeOK
<1>1. SyncIInv => TypeOK
  BY DEF SyncIInv
<1> QED  BY <1>1, AlwaysIInv, PTL

\* The iterative server is in HandleClient exactly while it serves one client, however
\* many are waiting (sync_iterative_tcp_server.cpp:80).
THEOREM ServesOneAtATime == Spec => []OneAtATime
<1>1. SyncIInv => OneAtATime
  BY DEF SyncIInv
<1> QED  BY <1>1, AlwaysIInv, PTL

\* Nobody is answered whose request has not been read (sync_iterative_tcp_server.cpp:38).
THEOREM AnswersAreToRequests == Spec => []AnsweredIfAsked
<1>1. SyncIInv => AnsweredIfAsked
  BY DEF SyncIInv
<1> QED  BY <1>1, AlwaysIInv, PTL

\* When Stop has returned the iterative server serves nobody
\* (sync_iterative_tcp_server.cpp:121).
THEOREM NothingAfterStop == Spec => []NoServiceAfterStop
<1>1. SyncIInv => NoServiceAfterStop
  BY DEF SyncIInv, NoServiceAfterStop, OneAtATime, StoppedThread
<1> QED  BY <1>1, AlwaysIInv, PTL

----------------------------------------------------------------------------
(**************************************************************************)
(* SyncUDPClient                                                          *)
(**************************************************************************)

\* While the second server is asked the socket is shut down, and until a request has been
\* sent nobody answers.  No more datagrams are on their way than have been sent.
UDPIInv ==
    /\ UDPTypeOK
    /\ asked \subseteq {1} /\ requests \subseteq asked
    /\ \A s \in Senders : replies[s] <= sent[s]
    /\ \A s \in Servers : replies[s] > 0 => s \in asked
    /\ \A a \in answers : a[1] = 1 /\ a[2] \in {1, Stranger}
    /\ \A a, b \in answers : a = b
    /\ m_sock = "open" => server = 1
    /\ udpPc = "send" /\ m_sock = "open" => answers = {}
    /\ udpPc = "receive" => server = 1 /\ m_sock = "open" /\ answers = {}
    /\ udpPc = "shutdown" => server = 1
    /\ udpPc # "done"

LEMMA UDPInitGood == UDPInit => UDPIInv
<1> SUFFICES ASSUME UDPInit PROVE UDPIInv
  OBVIOUS
<1>1. 0 \in 0 .. MaxReplies
  BY RepliesAssumption
<1>2. UDPTypeOK
  BY <1>1 DEF UDPInit, UDPTypeOK, Servers
<1> QED  BY <1>2 DEF UDPInit, UDPIInv, Servers, Senders

LEMMA UDPClientKeeps == ASSUME UDPIInv, UDPClient PROVE UDPIInv'
<1>1. CASE SendRequest
  BY <1>1 DEF SendRequest, Datagram, Servers, UDPIInv, UDPTypeOK
<1>2. CASE Shutdown
  BY <1>2 DEF Shutdown, AfterShutdown, Servers, UDPIInv, UDPTypeOK
<1>3. ASSUME NEW s \in Senders, ReceiveResponse(s) PROVE UDPIInv'
  <2>1. /\ replies \in [Senders -> 0 .. MaxReplies] /\ replies[s] > 0
        /\ replies' = [replies EXCEPT ![s] = @ - 1]
    BY <1>3 DEF ReceiveResponse, UDPIInv, UDPTypeOK
  <2>2. replies[s] - 1 \in 0 .. MaxReplies
    BY <2>1, RepliesAssumption
  <2>3. /\ replies' \in [Senders -> 0 .. MaxReplies]
        /\ \A t \in Senders : replies'[t] \in Int /\ replies[t] \in Int /\ replies'[t] <= replies[t]
    BY <2>1, <2>2, RepliesAssumption
  <2>4. /\ server = 1 /\ answers = {} /\ asked \subseteq {1} /\ m_sock = "open"
        /\ s \in Servers => s \in asked
    BY <1>3, <2>1 DEF ReceiveResponse, UDPIInv
  <2>5. s \in {1, Stranger} /\ 1 \in Servers
    BY <2>4 DEF Senders, Servers
  <2>6. answers' = {<<1, s>>}
    BY <1>3, <2>4 DEF ReceiveResponse
  <2>7. /\ \A a \in answers' : a[1] = 1 /\ a[2] \in {1, Stranger}
        /\ \A a, b \in answers' : a = b
        /\ answers' \subseteq Servers \X Senders
    BY <2>5, <2>6
  <2>8. udpPc' = "shutdown" /\ UNCHANGED <<server, m_sock, requests, sent, lost, asked>>
    BY <1>3 DEF ReceiveResponse
  <2>9. /\ sent \in [Senders -> 0 .. MaxReplies] /\ requests \subseteq asked
        /\ \A t \in Senders : sent[t] \in Int /\ replies[t] <= sent[t]
        /\ \A t \in Servers : t \in Senders /\ (replies[t] > 0 => t \in asked)
    BY RepliesAssumption DEF UDPIInv, UDPTypeOK, Senders
  <2>10. /\ \A t \in Senders : replies'[t] <= sent'[t]
         /\ \A t \in Servers : replies'[t] > 0 => t \in asked'
    BY <2>3, <2>8, <2>9
  <2>11. UDPTypeOK'
    BY <2>3, <2>7, <2>8 DEF UDPIInv, UDPTypeOK
  <2> QED  BY <2>4, <2>7, <2>8, <2>9, <2>10, <2>11 DEF UDPIInv
<1> QED  BY <1>1, <1>2, <1>3 DEF UDPClient

LEMMA NetworkKeeps ==
  ASSUME UDPIInv,
         \/ Intrude
         \/ \E s \in Servers : Answer(s)
         \/ \E s \in Senders : Lose(s)
  PROVE  UDPIInv'
<1>1. /\ replies \in [Senders -> 0 .. MaxReplies] /\ sent \in [Senders -> 0 .. MaxReplies]
      /\ MaxReplies \in Nat /\ requests \subseteq asked /\ asked \subseteq {1} /\ lost \in BOOLEAN
      /\ \A t \in Senders : replies[t] <= sent[t]
      /\ \A t \in Servers : replies[t] > 0 => t \in asked
      /\ Servers \subseteq Senders /\ Stranger \in Senders /\ Stranger \notin Servers
  BY RepliesAssumption DEF UDPIInv, UDPTypeOK, Senders, Servers, Stranger
<1> DEFINE Good ==
          /\ requests' \subseteq requests
          /\ replies' \in [Senders -> 0 .. MaxReplies] /\ sent' \in [Senders -> 0 .. MaxReplies]
          /\ \A t \in Senders : replies'[t] <= sent'[t]
          /\ \A t \in Servers : replies'[t] > 0 => t \in asked
          /\ lost' \in BOOLEAN /\ UNCHANGED <<udpPc, server, m_sock, asked, answers>>
<1>2. Good
  <2>1. ASSUME NEW s \in Servers, Answer(s) PROVE Good
    <3>1. requests' \subseteq requests /\ s \in asked /\ s \in Senders /\ sent[s] < MaxReplies
      BY <1>1, <2>1 DEF Answer
    <3>2. replies' = [replies EXCEPT ![s] = @ + 1] /\ sent' = [sent EXCEPT ![s] = @ + 1]
      BY <2>1 DEF Answer
    <3>3. lost' \in BOOLEAN /\ UNCHANGED <<udpPc, server, m_sock, asked, answers>>
      BY <1>1, <2>1 DEF Answer
    <3> QED  BY <1>1, <3>1, <3>2, <3>3
  <2>2. ASSUME NEW s \in Senders, Lose(s) PROVE Good
    <3>1. /\ requests' \subseteq requests /\ sent' = sent
          /\ \/ replies' = replies
             \/ (replies[s] > 0 /\ replies' = [replies EXCEPT ![s] = @ - 1])
      BY <2>2 DEF Lose
    <3>2. lost' \in BOOLEAN /\ UNCHANGED <<udpPc, server, m_sock, asked, answers>>
      BY <2>2 DEF Lose
    <3> QED  BY <1>1, <3>1, <3>2
  <2>3. CASE Intrude
    <3>1. /\ requests' = requests /\ sent[Stranger] < MaxReplies
          /\ lost' = lost /\ UNCHANGED <<udpPc, server, m_sock, asked, answers>>
      BY <2>3 DEF Intrude
    <3>2. /\ replies' = [replies EXCEPT ![Stranger] = @ + 1]
          /\ sent' = [sent EXCEPT ![Stranger] = @ + 1]
      BY <2>3 DEF Intrude
    <3> QED  BY <1>1, <3>1, <3>2
  <2> QED  BY <2>1, <2>2, <2>3
<1> QED  BY <1>1, <1>2 DEF UDPIInv, UDPTypeOK

LEMMA UDPStep == UDPIInv /\ [UDPNext]_udpVars => UDPIInv'
<1>1. ASSUME UDPIInv, UNCHANGED udpVars PROVE UDPIInv'
  BY <1>1 DEF UDPIInv, UDPTypeOK, udpVars
<1> QED  BY <1>1, UDPClientKeeps, NetworkKeeps DEF UDPNext, Network

\* AnswersAreNotMixedUp: what receive_from (sync_udp_client.cpp:49) takes for the answer of
\* a server comes from it or from a stranger, for any number of datagrams from either.
THEOREM NotMixedUp == UDPSpec => []AnswersAreNotMixedUp
<1>1. UDPIInv => AnswersAreNotMixedUp
  BY DEF UDPIInv, AnswersAreNotMixedUp
<1> QED  BY <1>1, UDPStep, UDPInitGood, PTL DEF UDPSpec

\* The second server is never sent a request, at most one datagram is taken, for the
\* answer of the first, and main never gets to its end.
OneExchange == /\ asked \subseteq {1}
               /\ \A a, b \in answers : a = b
               /\ \A a \in answers : a[1] = 1
               /\ udpPc # "done"

\* One object of the class is good for one exchange with one server: the shutdown of its
\* socket (sync_udp_client.cpp:52) throws, or the next send_to does.
THEOREM OneAnswer == UDPSpec => []OneExchange
<1>1. UDPIInv => OneExchange
  BY DEF UDPIInv, OneExchange
<1> QED  BY <1>1, UDPStep, UDPInitGood, PTL DEF UDPSpec

\* A server that has not been asked has sent nothing, and what it has sent to a client
\* that waits for its answer is there, or the request still is, unless one was lost.
Accounted ==
    /\ \A s \in Servers : s \notin asked => sent[s] = 0
    /\ udpPc = "send" /\ server = 1 => asked = {}
    /\ udpPc = "receive" /\ ~lost => replies[1] = sent[1] /\ (1 \in requests \/ sent[1] > 0)

AnswerOutstanding ==
    udpPc = "receive" /\ ~lost => \/ server \in requests /\ sent[server] < MaxReplies
                                  \/ replies[server] > 0

LEMMA AccountedKeeps == UDPIInv /\ Accounted /\ [UDPNext]_udpVars => Accounted'
<1> SUFFICES ASSUME UDPIInv, Accounted, [UDPNext]_udpVars PROVE Accounted'
  OBVIOUS
<1>1. /\ Servers = {1, 2} /\ server \in Servers /\ asked \subseteq {1} /\ requests \subseteq asked
      /\ \A s \in Servers : s \in Senders /\ s # Stranger
      /\ replies \in [Senders -> 0 .. MaxReplies] /\ sent \in [Senders -> 0 .. MaxReplies]
      /\ \A s \in Senders : replies[s] <= sent[s] /\ sent[s] \in Nat /\ replies[s] \in Nat
      /\ m_sock = "open" => server = 1
  BY RepliesAssumption DEF UDPIInv, UDPTypeOK, Servers, Senders, Stranger
<1>2. CASE SendRequest
  <2>1. UNCHANGED <<server, m_sock, replies, sent, lost>>
    BY <1>2 DEF SendRequest
  <2>2. CASE m_sock = "open"
    <3>1. asked = {} /\ asked' = asked \cup {1} /\ 1 \in requests' /\ udpPc' = "receive"
      BY <1>1, <1>2, <2>2 DEF SendRequest, Accounted, Datagram
    <3>2. \A s \in Servers : sent[s] = 0 /\ replies[s] = 0
      BY <1>1, <3>1 DEF Accounted
    <3> QED  BY <1>1, <2>1, <3>1, <3>2 DEF Accounted
  <2>3. CASE m_sock # "open"
    BY <1>2, <2>1, <2>3 DEF SendRequest, Accounted
  <2> QED  BY <2>2, <2>3
<1>3. CASE Shutdown
  BY <1>3 DEF Shutdown, Accounted
<1>4. ASSUME NEW s \in Senders, ReceiveResponse(s) PROVE Accounted'
  BY <1>4 DEF ReceiveResponse, Accounted
<1>5. ASSUME NEW s \in Servers, Answer(s) PROVE Accounted'
  <2>1. /\ s = 1 /\ s \in asked /\ UNCHANGED <<udpPc, server, lost, asked>>
        /\ sent' = [sent EXCEPT ![s] = @ + 1] /\ replies' = [replies EXCEPT ![s] = @ + 1]
    BY <1>1, <1>5 DEF Answer
  <2>2. /\ sent'[1] = sent[1] + 1 /\ replies'[1] = replies[1] + 1
        /\ \A r \in Servers : r # 1 => sent'[r] = sent[r]
    BY <1>1, <2>1
  <2>3. udpPc' = "receive" /\ ~lost' => replies'[1] = sent'[1] /\ sent'[1] > 0
    BY <1>1, <2>1, <2>2 DEF Accounted
  <2> QED  BY <1>1, <2>1, <2>2, <2>3 DEF Accounted
<1>6. ASSUME NEW s \in Senders, Lose(s) PROVE Accounted'
  <2>1. UNCHANGED <<udpPc, server, sent, asked>> /\ lost' = (lost \/ s # Stranger)
    BY <1>6 DEF Lose
  <2>2. CASE s = Stranger
    <3>1. requests' = requests /\ replies'[1] = replies[1]
      BY <1>1, <1>6, <2>2 DEF Lose
    <3> QED  BY <2>1, <2>2, <3>1 DEF Accounted
  <2>3. CASE s # Stranger
    BY <2>1, <2>3 DEF Accounted
  <2> QED  BY <2>2, <2>3
<1>7. CASE Intrude
  <2>1. /\ UNCHANGED <<udpPc, server, requests, lost, asked>>
        /\ sent' = [sent EXCEPT ![Stranger] = @ + 1]
        /\ replies' = [replies EXCEPT ![Stranger] = @ + 1]
    BY <1>7 DEF Intrude
  <2>2. \A s \in Servers : sent'[s] = sent[s] /\ replies'[s] = replies[s]
    BY <1>1, <2>1
  <2> QED  BY <1>1, <2>1, <2>2 DEF Accounted
<1>8. CASE UNCHANGED udpVars
  BY <1>8 DEF udpVars, Accounted
<1> QED  BY <1>2, <1>3, <1>4, <1>5, <1>6, <1>7, <1>8 DEF UDPNext, UDPClient, Network

\* WaitsOnlyForLost rests on this: while receive_from waits (sync_udp_client.cpp:49) and
\* nothing was lost, the request is on its way to a server that has not answered, or
\* the answer is on its way.
THEOREM WaitsForSomething == UDPSpec => []AnswerOutstanding
<1>1. UDPInit => UDPIInv /\ Accounted
  BY UDPInitGood DEF UDPInit, Accounted, Servers, Senders
<1>2. UDPIInv /\ Accounted => AnswerOutstanding
  <2> SUFFICES ASSUME UDPIInv, Accounted, udpPc = "receive", ~lost
               PROVE  \/ server \in requests /\ sent[server] < MaxReplies
                      \/ replies[server] > 0
    BY DEF AnswerOutstanding
  <2>1. server = 1 /\ sent[1] \in Nat /\ replies[1] = sent[1] /\ (1 \in requests \/ sent[1] > 0)
    BY RepliesAssumption DEF UDPIInv, UDPTypeOK, Accounted, Servers, Senders
  <2> QED  BY <2>1, RepliesAssumption
<1> QED  BY <1>1, <1>2, UDPStep, AccountedKeeps, PTL DEF UDPSpec

----------------------------------------------------------------------------
(**************************************************************************)
(* CancelPrograms                                                         *)
(**************************************************************************)

Results == {"ok", "failed", "aborted"}

\* No operation has two handlers in the queue.
Queues == {<< >>, <<1>>, <<2>>, <<1, 2>>, <<2, 1>>}

In(q, o) == \E j \in 1 .. Len(q) : q[j] = o
InQueue(o) == In(ready, o)

CancelTyped ==
    /\ example \in {"connect", "two_timers", "repeat"}
    /\ op \in [1 .. 2 -> {"none", "pending"} \cup Results]
    /\ ready \in Queues
    /\ handled \in SUBSET (1 .. 2)
    /\ io \in {"run", "rearm", "returned"}
    /\ canceller \in {"sleep", "done"}
    /\ found \in [1 .. 2 -> {"none", "pending"} \cup Results]

\* An operation has a handler in the queue once it has completed, until the handler has
\* run; dens_timer's is then set again, unless it has been cancelled.
Progress ==
    /\ \A o \in 1 .. 2 : InQueue(o) => op[o] \in Results
    /\ \A o \in 1 .. 2 : op[o] \in Results => InQueue(o) \/ o \in handled
    /\ op[1] # "none" /\ (example = "two_timers" <=> op[2] # "none")
    /\ example # "repeat" => io # "rearm" /\ \A o \in handled : op[o] \in Results /\ ~InQueue(o)
    /\ example = "repeat" /\ op[1] \in {"ok", "failed"} => InQueue(1) \/ io = "rearm"
    /\ io = "rearm" => op[1] \in {"ok", "failed"} /\ ~InQueue(1)
    /\ io = "returned" => ready = << >> /\ \A o \in 1 .. 2 : op[o] # "pending"

\* What cancel() has found, and that it is called once for an operation.
Found ==
    /\ \A o \in 1 .. 2 : op[o] = "aborted" <=> found[o] = "pending"
    /\ canceller = "sleep" => found[1] = "none" /\ example # "two_timers"
    /\ example = "two_timers" => found[1] = "none" /\ (found[2] # "none" <=> 1 \in handled)
    /\ example # "two_timers" => found[2] = "none"

\* The second timer waits for the first: its handler is behind that of the first, unless
\* that has run.
SecondAfterFirst ==
    example = "two_timers" =>
        /\ ready # <<2, 1>>
        /\ InQueue(2) \/ 2 \in handled => InQueue(1) \/ 1 \in handled
        /\ ready = <<2>> => 1 \in handled
        /\ 2 \in handled => 1 \in handled

CancelIInv == CancelTyped /\ Progress /\ Found /\ SecondAfterFirst

LEMMA QueueContents ==
  /\ \A o \in 1 .. 2 : ~In(<< >>, o) /\ (In(<<1>>, o) <=> o = 1) /\ (In(<<2>>, o) <=> o = 2)
  /\ \A o \in 1 .. 2 : In(<<1, 2>>, o) /\ In(<<2, 1>>, o)
<1>1. Len(<< >>) = 0 /\ Len(<<1>>) = 1 /\ Len(<<2>>) = 1 /\ Len(<<1, 2>>) = 2 /\ Len(<<2, 1>>) = 2
  OBVIOUS
<1>2. \A o \in 1 .. 2 : ~In(<< >>, o) /\ (In(<<1>>, o) <=> o = 1) /\ (In(<<2>>, o) <=> o = 2)
  BY <1>1 DEF In
<1>3. \A o \in 1 .. 2 : In(<<1, 2>>, o) /\ In(<<2, 1>>, o)
  BY <1>1 DEF In
<1> QED  BY <1>2, <1>3

LEMMA AppendSecond == ASSUME NEW x \in Nat, NEW y \in Nat PROVE Append(<<x>>, y) = <<x, y>>
<1> DEFINE s == Append(<<x>>, y)
           t == <<x, y>>
<1>1. <<x>> \in Seq(Nat) /\ Len(<<x>>) = 1 /\ <<x>>[1] = x
  OBVIOUS
<1>2. s \in Seq(Nat) /\ Len(s) = 2 /\ s[1] = x /\ s[2] = y
  BY <1>1, AppendProperties
<1>3. t \in Seq(Nat) /\ Len(t) = 2 /\ t[1] = x /\ t[2] = y
  OBVIOUS
<1> HIDE DEF s, t
<1>4. \A j \in 1 .. 2 : s[j] = t[j]
  BY <1>2, <1>3
<1>5. s = t
  BY <1>2, <1>3, <1>4, SeqEqual
<1> QED  BY <1>5 DEF s, t

LEMMA QueuesDiffer ==
  /\ <<1, 2>> # << >> /\ <<1, 2>> # <<2>> /\ <<1, 2>> # <<2, 1>>
  /\ <<2, 1>> # << >> /\ <<2, 1>> # <<2>>
<1>1. Len(<<1, 2>>) = 2 /\ Len(<<2, 1>>) = 2 /\ Len(<<2>>) = 1 /\ Len(<< >>) = 0
  OBVIOUS
<1>2. <<1, 2>>[1] = 1 /\ <<2, 1>>[1] = 2
  OBVIOUS
<1> QED  BY <1>1, <1>2

LEMMA QueueAppend ==
  ASSUME NEW q \in Queues, NEW o \in 1 .. 2, ~In(q, o)
  PROVE  /\ Append(q, o) \in Queues
         /\ \A p \in 1 .. 2 : In(Append(q, o), p) <=> p = o \/ In(q, p)
         /\ Append(q, o) # << >>
         /\ Append(q, o) = <<2>> => q = << >> /\ o = 2
         /\ Append(q, o) = <<2, 1>> => q = <<2>>
<1>1. CASE q = << >>
  BY <1>1, QueueContents DEF Queues
<1>2. CASE q = <<1>>
  <2>1. o = 2 /\ Append(<<1>>, 2) = <<1, 2>>
    BY <1>2, QueueContents, AppendSecond
  <2>2. Append(q, o) = <<1, 2>>
    BY <1>2, <2>1
  <2>3. <<1, 2>> \in Queues
    BY DEF Queues
  <2>4. \A p \in 1 .. 2 : In(<<1, 2>>, p) /\ (In(q, p) <=> p = 1)
    BY <1>2, QueueContents
  <2>5. \A p \in 1 .. 2 : p = o \/ p = 1
    BY <2>1
  <2> QED  BY <1>2, <2>1, <2>2, <2>3, <2>4, <2>5, QueuesDiffer
<1>3. CASE q = <<2>>
  <2>1. o = 1 /\ Append(<<2>>, 1) = <<2, 1>>
    BY <1>3, QueueContents, AppendSecond
  <2>2. Append(q, o) = <<2, 1>>
    BY <1>3, <2>1
  <2>3. <<2, 1>> \in Queues
    BY DEF Queues
  <2>4. \A p \in 1 .. 2 : In(<<2, 1>>, p) /\ (In(q, p) <=> p = 2)
    BY <1>3, QueueContents
  <2>5. \A p \in 1 .. 2 : p = o \/ p = 2
    BY <2>1
  <2> QED  BY <1>3, <2>1, <2>2, <2>3, <2>4, <2>5, QueuesDiffer
<1> QED  BY <1>1, <1>2, <1>3, QueueContents DEF Queues

LEMMA QueueTail ==
  ASSUME NEW q \in Queues, q # << >>
  PROVE  /\ Head(q) \in 1 .. 2 /\ In(q, Head(q)) /\ Tail(q) \in Queues
         /\ \A p \in 1 .. 2 : In(Tail(q), p) <=> p # Head(q) /\ In(q, p)
         /\ Tail(q) # <<2, 1>> /\ Tail(q) # <<1, 2>>
         /\ Tail(q) = <<2>> => Head(q) = 1
         /\ Head(q) = 2 => q = <<2>> \/ q = <<2, 1>>
<1>1. CASE q = <<1>>
  BY <1>1, QueueContents DEF Queues
<1>2. CASE q = <<2>>
  BY <1>2, QueueContents DEF Queues
<1>3. CASE q = <<1, 2>>
  BY <1>3, QueueContents DEF Queues
<1>4. CASE q = <<2, 1>>
  BY <1>4, QueueContents DEF Queues
<1> QED  BY <1>1, <1>2, <1>3, <1>4 DEF Queues

LEMMA CancelInitGood == CancelInit => CancelIInv
<1> SUFFICES ASSUME CancelInit PROVE CancelIInv
  OBVIOUS
<1>1. ready = << >> /\ \A o \in 1 .. 2 : ~InQueue(o)
  BY QueueContents DEF CancelInit, InQueue
<1>2. CancelTyped
  BY <1>1 DEF CancelInit, CancelTyped, Queues, Results
<1>3. Progress /\ Found /\ SecondAfterFirst
  BY <1>1 DEF CancelInit, Progress, Found, SecondAfterFirst, Results
<1> QED  BY <1>2, <1>3 DEF CancelIInv

LEMMA CompletesKeeps == ASSUME CancelIInv, NEW o \in 1 .. 2, Completes(o) PROVE CancelIInv'
<1>1. /\ op[o] = "pending" /\ (o = 2 => op[1] # "pending") /\ ready' = Append(ready, o)
      /\ \E how \in {"ok", "failed"} : op' = [op EXCEPT ![o] = how]
      /\ UNCHANGED <<example, handled, io, canceller, found>>
  BY DEF Completes
<1>2. CancelTyped /\ Progress /\ Found /\ SecondAfterFirst
  BY DEF CancelIInv
<1>3. ready \in Queues /\ ~In(ready, o)
  BY <1>1, <1>2 DEF CancelTyped, Progress, InQueue, Results
<1>4. /\ ready' \in Queues /\ \A p \in 1 .. 2 : InQueue(p)' <=> p = o \/ InQueue(p)
      /\ ready' # << >>
      /\ ready' = <<2>> => ready = << >> /\ o = 2
      /\ ready' = <<2, 1>> => ready = <<2>>
  BY <1>1, <1>3, QueueAppend DEF InQueue
<1>5. /\ op' \in [1 .. 2 -> {"none", "pending"} \cup Results] /\ op'[o] \in {"ok", "failed"}
      /\ \A p \in 1 .. 2 : p # o => op'[p] = op[p]
  BY <1>1, <1>2 DEF CancelTyped, Results
<1>6. CancelTyped'
  BY <1>1, <1>2, <1>4, <1>5 DEF CancelTyped
<1>7. Progress'
  <2>1. \A p \in 1 .. 2 : InQueue(p)' => op'[p] \in Results
    BY <1>2, <1>4, <1>5 DEF Progress, Results
  <2>2. \A p \in 1 .. 2 : op'[p] \in Results => InQueue(p)' \/ p \in handled'
    BY <1>1, <1>2, <1>4, <1>5 DEF Progress, Results
  <2>3. op'[1] # "none" /\ (example' = "two_timers" <=> op'[2] # "none")
    BY <1>1, <1>2, <1>5 DEF Progress, Results
  <2>4. example' # "repeat" => io' # "rearm" /\ \A p \in handled' : op'[p] \in Results /\ ~InQueue(p)'
    BY <1>1, <1>2, <1>4, <1>5 DEF CancelTyped, Progress, Results
  <2>5. example' = "repeat" /\ op'[1] \in {"ok", "failed"} => InQueue(1)' \/ io' = "rearm"
    BY <1>1, <1>2, <1>4, <1>5 DEF Progress, Results
  <2>6. io' # "returned" /\ (io' = "rearm" => op'[1] \in {"ok", "failed"} /\ ~InQueue(1)')
    BY <1>1, <1>2, <1>4, <1>5 DEF Progress, Results
  <2> QED  BY <2>1, <2>2, <2>3, <2>4, <2>5, <2>6 DEF Progress
<1>8. Found'
  BY <1>1, <1>2, <1>5 DEF Found
<1>9. InQueue(2) <=> ready \in {<<2>>, <<1, 2>>, <<2, 1>>}
  BY <1>3, QueueContents DEF InQueue, Queues
<1>10. SecondAfterFirst'
  <2> SUFFICES ASSUME example = "two_timers" PROVE SecondAfterFirst'
    BY <1>1 DEF SecondAfterFirst
  <2>1. InQueue(1) \/ 1 \in handled \/ op[1] = "pending"
    BY <1>2 DEF CancelTyped, Progress, Results
  <2>2. InQueue(2)' \/ 2 \in handled' => InQueue(1)' \/ 1 \in handled'
    BY <1>1, <1>2, <1>4, <2>1 DEF SecondAfterFirst
  <2>3. ready' # <<2, 1>>
    <3>1. CASE ready = <<2>>
      <4>1. 1 \in handled
        BY <1>2, <3>1 DEF SecondAfterFirst
      <4>2. ready' = <<2, 1>> => o = 1
        BY <1>4, <3>1, QueueContents DEF InQueue
      <4> QED  BY <1>1, <1>2, <4>1, <4>2 DEF Progress, Results
    <3>2. CASE ready # <<2>>
      BY <1>4, <3>2
    <3> QED  BY <3>1, <3>2
  <2>4. ready' = <<2>> => 1 \in handled'
    BY <1>1, <1>4, <2>1, QueueContents DEF InQueue
  <2>5. 2 \in handled' => 1 \in handled'
    BY <1>1, <1>2 DEF SecondAfterFirst
  <2> QED  BY <2>2, <2>3, <2>4, <2>5 DEF SecondAfterFirst
<1> QED  BY <1>6, <1>7, <1>8, <1>10 DEF CancelIInv

\* An operation that cancel() finds pending is aborted, with a handler in the queue.
LEMMA AbortDoes ==
  ASSUME CancelIInv, NEW o \in 1 .. 2, NEW q \in Queues, Abort(o, q), ~In(q, o)
  PROVE  /\ found' \in [1 .. 2 -> {"none", "pending"} \cup Results] /\ found'[o] = op[o]
         /\ \A p \in 1 .. 2 : p # o => found'[p] = found[p] /\ op'[p] = op[p]
         /\ op' \in [1 .. 2 -> {"none", "pending"} \cup Results]
         /\ ready' \in Queues
         /\ \/ /\ op[o] = "pending" /\ op'[o] = "aborted" /\ ready' = Append(q, o)
               /\ \A p \in 1 .. 2 : InQueue(p)' <=> p = o \/ In(q, p)
            \/ /\ op[o] # "pending" /\ op' = op /\ ready' = q
               /\ \A p \in 1 .. 2 : InQueue(p)' <=> In(q, p)
<1>1. /\ op \in [1 .. 2 -> {"none", "pending"} \cup Results]
      /\ found \in [1 .. 2 -> {"none", "pending"} \cup Results]
  BY DEF CancelIInv, CancelTyped
<1>2. /\ found' \in [1 .. 2 -> {"none", "pending"} \cup Results] /\ found'[o] = op[o]
      /\ \A p \in 1 .. 2 : p # o => found'[p] = found[p]
  BY <1>1 DEF Abort
<1>3. CASE op[o] = "pending"
  <2>1. op' = [op EXCEPT ![o] = "aborted"] /\ ready' = Append(q, o)
    BY <1>3 DEF Abort
  <2>2. ready' \in Queues /\ \A p \in 1 .. 2 : InQueue(p)' <=> p = o \/ In(q, p)
    BY <2>1, QueueAppend DEF InQueue
  <2> QED  BY <1>1, <1>2, <1>3, <2>1, <2>2 DEF Results
<1>4. CASE op[o] # "pending"
  <2>1. op' = op /\ ready' = q
    BY <1>4 DEF Abort
  <2> QED  BY <1>1, <1>2, <1>4, <2>1 DEF InQueue
<1> QED  BY <1>3, <1>4

\* The other thread: nobody has cancelled the first operation before.
LEMMA CancelKeeps == ASSUME CancelIInv, Cancel PROVE CancelIInv'
<1>1. /\ canceller = "sleep" /\ canceller' = "done" /\ Abort(1, ready)
      /\ UNCHANGED <<example, handled, io>>
  BY DEF Cancel
<1>2. CancelTyped /\ Progress /\ Found /\ SecondAfterFirst
  BY DEF CancelIInv
<1>3. example # "two_timers" /\ found[1] = "none" /\ found[2] = "none" /\ op[1] # "none" /\ op[1] # "aborted"
  BY <1>1, <1>2 DEF Found, Progress
<1>4. /\ found' \in [1 .. 2 -> {"none", "pending"} \cup Results] /\ found'[1] = op[1]
      /\ found'[2] = found[2] /\ op'[2] = op[2]
      /\ op' \in [1 .. 2 -> {"none", "pending"} \cup Results]
      /\ ready' \in Queues /\ (InQueue(2)' <=> InQueue(2))
      /\ \/ op[1] = "pending" /\ op'[1] = "aborted" /\ InQueue(1)'
         \/ op[1] # "pending" /\ op' = op /\ ready' = ready /\ (InQueue(1)' <=> InQueue(1))
  <2>1. CASE op[1] = "pending"
    <3>1. ~In(ready, 1) /\ ready \in Queues
      BY <1>2, <2>1 DEF CancelTyped, Progress, InQueue, Results
    <3> QED  BY <1>1, <2>1, <3>1, AbortDoes DEF InQueue
  <2>2. CASE op[1] # "pending"
    <3>1. ready' = ready /\ op' = op /\ found' = [found EXCEPT ![1] = op[1]]
      BY <1>1, <2>2 DEF Abort
    <3> QED  BY <1>2, <2>2, <3>1 DEF CancelTyped, InQueue
  <2> QED  BY <2>1, <2>2
<1>5. CancelTyped'
  BY <1>1, <1>2, <1>4 DEF CancelTyped
<1>6. Progress'
  <2>1. \A p \in 1 .. 2 : InQueue(p)' => op'[p] \in Results
    BY <1>2, <1>4 DEF Progress, Results
  <2>2. \A p \in 1 .. 2 : op'[p] \in Results => InQueue(p)' \/ p \in handled'
    BY <1>1, <1>2, <1>4 DEF Progress, Results
  <2>3. op'[1] # "none" /\ (example' = "two_timers" <=> op'[2] # "none")
    BY <1>1, <1>2, <1>4 DEF Progress
  <2>4. example' # "repeat" => io' # "rearm" /\ \A p \in handled' : op'[p] \in Results /\ ~InQueue(p)'
    BY <1>1, <1>2, <1>4 DEF CancelTyped, Progress, Results
  <2>5. example' = "repeat" /\ op'[1] \in {"ok", "failed"} => InQueue(1)' \/ io' = "rearm"
    BY <1>1, <1>2, <1>4 DEF Progress, Results
  <2>6. io' = "rearm" => op'[1] \in {"ok", "failed"} /\ ~InQueue(1)'
    BY <1>1, <1>2, <1>4 DEF Progress, Results
  <2>7. io' = "returned" => ready' = << >> /\ \A p \in 1 .. 2 : op'[p] # "pending"
    BY <1>1, <1>2, <1>4 DEF Progress
  <2> QED  BY <2>1, <2>2, <2>3, <2>4, <2>5, <2>6, <2>7 DEF Progress
<1>7. Found'
  BY <1>1, <1>2, <1>3, <1>4 DEF Found, Results
<1>8. SecondAfterFirst'
  BY <1>1, <1>3 DEF SecondAfterFirst
<1> QED  BY <1>5, <1>6, <1>7, <1>8 DEF CancelIInv

\* The handler of o, when o's timer is not set again.
LEMMA HandlerKeeps == ASSUME CancelIInv, Handler PROVE CancelIInv'
<1> DEFINE o == Head(ready)
           q == Tail(ready)
<1>1. /\ io = "run" /\ ready # << >> /\ handled' = handled \cup {o}
      /\ io' = IF SetsAgain(o) THEN "rearm" ELSE "run"
      /\ UNCHANGED <<example, canceller>>
  BY DEF Handler
<1>2. CancelTyped /\ Progress /\ Found /\ SecondAfterFirst
  BY DEF CancelIInv
<1>3. /\ o \in 1 .. 2 /\ InQueue(o) /\ q \in Queues
      /\ \A p \in 1 .. 2 : In(q, p) <=> p # o /\ InQueue(p)
      /\ q # <<2, 1>> /\ (q = <<2>> => o = 1) /\ (o = 2 => ready = <<2>> \/ ready = <<2, 1>>)
  BY <1>1, <1>2, QueueTail DEF CancelTyped, InQueue
<1>4. IF CancelsOther(o) THEN Abort(2, q) ELSE ready' = q /\ UNCHANGED <<op, found>>
  BY DEF Handler
<1> HIDE DEF o, q
<1>5. op[o] \in Results /\ o \in handled' /\ handled' \in SUBSET (1 .. 2)
  BY <1>1, <1>2, <1>3 DEF CancelTyped, Progress
<1>6. CASE ~CancelsOther(o)
  <2>1. /\ ready' = q /\ op' = op /\ found' = found
        /\ \A p \in 1 .. 2 : InQueue(p)' <=> p # o /\ InQueue(p)
    BY <1>3, <1>4, <1>6 DEF InQueue
  <2>2. CancelTyped'
    BY <1>1, <1>2, <1>3, <1>5, <2>1 DEF CancelTyped
  <2>3. example = "repeat" => o = 1
    BY <1>2, <1>3 DEF Progress, Results
  <2>4. Progress'
    <3>1. \A p \in 1 .. 2 : InQueue(p)' => op'[p] \in Results
      BY <1>2, <2>1 DEF Progress
    <3>2. \A p \in 1 .. 2 : op'[p] \in Results => InQueue(p)' \/ p \in handled'
      BY <1>1, <1>2, <1>5, <2>1 DEF Progress
    <3>3. op'[1] # "none" /\ (example' = "two_timers" <=> op'[2] # "none")
      BY <1>1, <1>2, <2>1 DEF Progress
    <3>4. example' # "repeat" => io' # "rearm" /\ \A p \in handled' : op'[p] \in Results /\ ~InQueue(p)'
      BY <1>1, <1>2, <1>3, <1>5, <2>1 DEF CancelTyped, Progress, SetsAgain
    <3>5. example' = "repeat" /\ op'[1] \in {"ok", "failed"} => InQueue(1)' \/ io' = "rearm"
      BY <1>1, <2>1, <2>3 DEF SetsAgain
    <3>6. io' = "rearm" => op'[1] \in {"ok", "failed"} /\ ~InQueue(1)'
      BY <1>1, <1>3, <1>5, <2>1, <2>3 DEF SetsAgain, Results
    <3>7. io' # "returned"
      BY <1>1
    <3> QED  BY <3>1, <3>2, <3>3, <3>4, <3>5, <3>6, <3>7 DEF Progress
  <2>5. example = "two_timers" => o = 2 /\ 1 \in handled
    BY <1>2, <1>3, <1>6 DEF CancelsOther, SecondAfterFirst
  <2>6. Found'
    BY <1>1, <1>2, <2>1, <2>5 DEF Found
  <2>7. SecondAfterFirst'
    BY <1>1, <1>3, <2>1, <2>5 DEF SecondAfterFirst
  <2> QED  BY <2>2, <2>4, <2>6, <2>7 DEF CancelIInv
<1>7. CASE CancelsOther(o)
  <2>1. o = 1 /\ example = "two_timers" /\ Abort(2, q) /\ io' = "run"
    BY <1>1, <1>4, <1>7 DEF CancelsOther, SetsAgain
  <2>2. 1 \notin handled /\ 2 \notin handled /\ found[2] = "none"
    BY <1>2, <1>3, <2>1 DEF Progress, Found, SecondAfterFirst
  <2>3. op[2] # "none" /\ op[2] # "aborted"
    BY <1>2, <2>1, <2>2 DEF Progress, Found
  <2>4. /\ found' \in [1 .. 2 -> {"none", "pending"} \cup Results] /\ found'[2] = op[2]
        /\ found'[1] = found[1] /\ op'[1] = op[1]
        /\ op' \in [1 .. 2 -> {"none", "pending"} \cup Results]
        /\ ready' \in Queues /\ ~InQueue(1)'
        /\ \/ op[2] = "pending" /\ op'[2] = "aborted" /\ InQueue(2)'
           \/ op[2] # "pending" /\ op'[2] = op[2] /\ (InQueue(2)' <=> InQueue(2))
    <3>1. CASE op[2] = "pending"
      <4>1. ~In(q, 2)
        BY <1>2, <1>3, <3>1 DEF Progress, Results
      <4> QED  BY <1>3, <2>1, <3>1, <4>1, AbortDoes
    <3>2. CASE op[2] # "pending"
      <4>1. ready' = q /\ op' = op /\ found' = [found EXCEPT ![2] = op[2]]
        BY <2>1, <3>2 DEF Abort
      <4> QED  BY <1>2, <1>3, <2>1, <3>2, <4>1 DEF CancelTyped, InQueue
    <3> QED  BY <3>1, <3>2
  <2>5. CancelTyped'
    BY <1>1, <1>2, <1>5, <2>1, <2>4 DEF CancelTyped
  <2>6. handled' = {1}
    <3>1. \A p \in 1 .. 2 : p \notin handled
      BY <2>2
    <3>2. handled = {}
      BY <1>2, <3>1 DEF CancelTyped
    <3> QED  BY <1>1, <2>1, <3>2
  <2>7. Progress'
    <3>1. \A p \in 1 .. 2 : InQueue(p)' => op'[p] \in Results
      BY <1>2, <2>4 DEF Progress, Results
    <3>2. \A p \in 1 .. 2 : op'[p] \in Results => InQueue(p)' \/ p \in handled'
      BY <1>2, <2>2, <2>4, <2>6 DEF Progress
    <3>3. op'[1] # "none" /\ (example' = "two_timers" <=> op'[2] # "none")
      BY <1>1, <1>2, <2>1, <2>3, <2>4 DEF Progress
    <3>4. \A p \in handled' : op'[p] \in Results /\ ~InQueue(p)'
      BY <1>5, <2>1, <2>4, <2>6
    <3> QED  BY <1>1, <2>1, <3>1, <3>2, <3>3, <3>4 DEF Progress
  <2>8. Found'
    BY <1>1, <1>2, <2>1, <2>3, <2>4, <2>6 DEF Found
  <2>9. SecondAfterFirst'
    <3>1. ready' # <<2, 1>>
      BY <2>4, QueueContents DEF InQueue
    <3> QED  BY <2>6, <3>1 DEF SecondAfterFirst
  <2> QED  BY <2>5, <2>7, <2>8, <2>9 DEF CancelIInv
<1> QED  BY <1>6, <1>7

LEMMA ContextThreadKeeps == ASSUME CancelIInv, WaitAgain \/ RunReturns PROVE CancelIInv'
<1>1. CancelTyped /\ Progress /\ Found /\ SecondAfterFirst
  BY DEF CancelIInv
<1>2. CASE WaitAgain
  <2>1. /\ io = "rearm" /\ io' = "run" /\ op' = [op EXCEPT ![1] = "pending"]
        /\ UNCHANGED <<example, ready, handled, canceller, found>>
    BY <1>2 DEF WaitAgain
  <2>2. example = "repeat" /\ op[1] \in {"ok", "failed"} /\ ~InQueue(1) /\ found[1] # "pending"
    BY <1>1, <2>1 DEF Progress, CancelTyped, Found
  <2>3. op'[1] = "pending" /\ op'[2] = op[2] /\ op' \in [1 .. 2 -> {"none", "pending"} \cup Results]
    BY <1>1, <2>1 DEF CancelTyped
  <2>4. \A p \in 1 .. 2 : InQueue(p)' <=> InQueue(p)
    BY <2>1 DEF InQueue
  <2>5. CancelTyped'
    BY <1>1, <2>1, <2>3 DEF CancelTyped
  <2>6. Progress'
    BY <1>1, <2>1, <2>2, <2>3, <2>4 DEF Progress, Results
  <2>7. Found' /\ SecondAfterFirst'
    BY <1>1, <2>1, <2>2, <2>3 DEF Found, SecondAfterFirst
  <2> QED  BY <2>5, <2>6, <2>7 DEF CancelIInv
<1>3. CASE RunReturns
  <2>1. /\ io = "run" /\ io' = "returned" /\ ready = << >> /\ \A o \in 1 .. 2 : op[o] # "pending"
        /\ UNCHANGED <<example, op, ready, handled, canceller, found>>
    BY <1>3 DEF RunReturns
  <2>2. \A p \in 1 .. 2 : InQueue(p)' <=> InQueue(p)
    BY <2>1 DEF InQueue
  <2>3. CancelTyped'
    BY <1>1, <2>1 DEF CancelTyped
  <2>4. Progress'
    <3>1. ~InQueue(1)
      BY <2>1, QueueContents DEF InQueue
    <3>2. op[1] \in Results /\ example = "repeat" => op[1] = "aborted"
      BY <1>1, <2>1, <3>1 DEF Progress, Results
    <3>3. \A p \in 1 .. 2 : InQueue(p)' => op'[p] \in Results
      BY <1>1, <2>1, <2>2 DEF Progress
    <3>4. \A p \in 1 .. 2 : op'[p] \in Results => InQueue(p)' \/ p \in handled'
      BY <1>1, <2>1, <2>2 DEF Progress
    <3>5. op'[1] # "none" /\ (example' = "two_timers" <=> op'[2] # "none")
      BY <1>1, <2>1 DEF Progress
    <3>6. example' # "repeat" => io' # "rearm" /\ \A p \in handled' : op'[p] \in Results /\ ~InQueue(p)'
      BY <1>1, <2>1, <2>2 DEF CancelTyped, Progress
    <3>7. ~(example' = "repeat" /\ op'[1] \in {"ok", "failed"})
      BY <2>1, <3>2 DEF Results
    <3>8. io' # "rearm" /\ ready' = << >> /\ \A p \in 1 .. 2 : op'[p] # "pending"
      BY <2>1
    <3> QED  BY <3>3, <3>4, <3>5, <3>6, <3>7, <3>8 DEF Progress
  <2>5. Found'
    BY <1>1, <2>1 DEF Found
  <2>6. SecondAfterFirst'
    BY <1>1, <2>1, <2>2 DEF SecondAfterFirst
  <2> QED  BY <2>3, <2>4, <2>5, <2>6 DEF CancelIInv
<1> QED  BY <1>2, <1>3

LEMMA CancelStep == CancelIInv /\ [CancelNext]_cancelVars => CancelIInv'
<1>1. ASSUME CancelIInv, UNCHANGED cancelVars PROVE CancelIInv'
  BY <1>1 DEF CancelIInv, CancelTyped, Progress, Found, SecondAfterFirst, InQueue, cancelVars
<1> QED  BY <1>1, CompletesKeeps, CancelKeeps, HandlerKeeps, ContextThreadKeeps DEF CancelNext

LEMMA QueuesAreSeqs == \A q \in Queues : q \in Seq(1 .. 2) /\ Len(q) <= 2
<1>1. << >> \in Seq(1 .. 2) /\ Len(<< >>) <= 2
  OBVIOUS
<1>2. <<1>> \in Seq(1 .. 2) /\ Len(<<1>>) <= 2 /\ <<2>> \in Seq(1 .. 2) /\ Len(<<2>>) <= 2
  OBVIOUS
<1>3. <<1, 2>> \in Seq(1 .. 2) /\ Len(<<1, 2>>) <= 2
  OBVIOUS
<1>4. <<2, 1>> \in Seq(1 .. 2) /\ Len(<<2, 1>>) <= 2
  OBVIOUS
<1> QED  BY <1>1, <1>2, <1>3, <1>4 DEF Queues

\* CancelIsExact: what cancel() has come in time for is aborted, and nothing else is
\* (cancel_async_operation.cpp:48, timer_example.cpp:43, dens_timer.cpp:38).
THEOREM CancelExact == CancelSpec => []CancelIsExact
<1>1. CancelIInv /\ [CancelNext]_cancelVars => CancelIInv'
  BY CancelStep
<1>2. CancelIInv => CancelIsExact
  <2> SUFFICES ASSUME CancelIInv PROVE CancelIsExact
    OBVIOUS
  <2>1. CancelTyped /\ Progress /\ Found /\ SecondAfterFirst
    BY DEF CancelIInv
  <2>2. Len(ready) <= 2 /\ \A j \in DOMAIN ready : ready[j] \in 1 .. 2
    BY <2>1, QueuesAreSeqs DEF CancelTyped
  <2>3. CancelTypeOK
    BY <2>1, <2>2 DEF CancelTyped, CancelTypeOK, Results
  <2>4. example = "two_timers" /\ 2 \in handled => found[2] # "none"
    BY <2>1 DEF SecondAfterFirst, Found
  <2>5. example = "repeat" /\ io = "returned" => found[1] = "pending"
    <3> SUFFICES ASSUME example = "repeat", io = "returned" PROVE op[1] = "aborted"
      BY <2>1 DEF Found
    <3>2. ~InQueue(1)
      BY <2>1, QueueContents DEF Progress, InQueue
    <3> QED  BY <2>1, <3>2 DEF Progress, CancelTyped, Results
  <2> QED  BY <2>1, <2>3, <2>4, <2>5 DEF CancelIsExact, Found
<1> QED  BY <1>1, <1>2, CancelInitGood, PTL DEF CancelSpec

\* The program will end: it does not set its timer again, or cancel() came in time.
WillEnd == example # "repeat" \/ found[1] = "pending"

\* What is still to be done: a completion and a handler for each operation that is pending,
\* the handlers in the queue, the call of cancel(), the return of run().
Weight(state) == IF state = "pending" THEN 2 ELSE 0
Left(thread, end) == IF thread = end THEN 0 ELSE 1
ToDo == Weight(op[1]) + Weight(op[2]) + Len(ready) + Left(canceller, "done") + Left(io, "returned")

LEMMA Weights ==
  /\ \A s : Weight(s) \in {0, 2} /\ (s # "pending" => Weight(s) = 0)
  /\ Weight("pending") = 2
  /\ \A a, b : Left(a, b) \in {0, 1} /\ (a # b => Left(a, b) = 1) /\ Left(b, b) = 0
  BY DEF Weight, Left

\* Abort(o, q) takes an operation from those pending to the queue, or leaves them.
LEMMA AbortWeighs ==
  ASSUME CancelIInv, NEW o \in 1 .. 2, NEW q \in Seq(1 .. 2), Abort(o, q)
  PROVE  /\ Len(ready') \in Nat
         /\ Weight(op'[1]) + Weight(op'[2]) + Len(ready') <= Weight(op[1]) + Weight(op[2]) + Len(q)
<1>1. op \in [1 .. 2 -> {"none", "pending"} \cup Results] /\ Len(q) \in Nat
  BY LenProperties DEF CancelIInv, CancelTyped
<1>2. CASE op[o] = "pending"
  <2>1. op' = [op EXCEPT ![o] = "aborted"] /\ ready' = Append(q, o)
    BY <1>2 DEF Abort
  <2>2. Len(ready') = Len(q) + 1
    BY <2>1, AppendProperties
  <2>3. /\ op'[o] = "aborted" /\ \A p \in 1 .. 2 : p # o => op'[p] = op[p]
    BY <1>1, <2>1
  <2>4. Weight(op[o]) = 2 /\ Weight(op'[o]) = 0
    BY <1>2, <2>3, Weights
  <2>5. CASE o = 1
    <3>1. op'[2] = op[2] /\ Weight(op[2]) \in {0, 2} /\ Weight(op[1]) = 2 /\ Weight(op'[1]) = 0
      BY <2>3, <2>4, <2>5, Weights
    <3> QED  BY <1>1, <2>2, <3>1
  <2>6. CASE o = 2
    <3>1. op'[1] = op[1] /\ Weight(op[1]) \in {0, 2} /\ Weight(op[2]) = 2 /\ Weight(op'[2]) = 0
      BY <2>3, <2>4, <2>6, Weights
    <3> QED  BY <1>1, <2>2, <3>1
  <2> QED  BY <2>5, <2>6
<1>3. CASE op[o] # "pending"
  <2>1. op' = op /\ ready' = q
    BY <1>3 DEF Abort
  <2>2. Weight(op[1]) \in {0, 2} /\ Weight(op[2]) \in {0, 2}
    BY Weights
  <2> QED  BY <1>1, <2>1, <2>2
<1> QED  BY <1>2, <1>3

\* Under WillEnd the timer is not set again: a handler of "repeat" is told of the cancel.
LEMMA NotAgain == CancelIInv /\ WillEnd => io # "rearm" /\ \A o \in 1 .. 2 : InQueue(o) => ~SetsAgain(o)
<1> SUFFICES ASSUME CancelIInv, WillEnd PROVE io # "rearm" /\ \A o \in 1 .. 2 : InQueue(o) => ~SetsAgain(o)
  OBVIOUS
<1>1. CancelTyped /\ Progress /\ Found
  BY DEF CancelIInv
<1>2. CASE example # "repeat"
  BY <1>1, <1>2 DEF Progress, SetsAgain
<1>3. CASE example = "repeat"
  <2>1. op[1] = "aborted" /\ op[2] = "none"
    BY <1>1, <1>3 DEF WillEnd, Found, Progress, CancelTyped
  <2>2. \A o \in 1 .. 2 : InQueue(o) => o = 1
    BY <1>1, <2>1 DEF Progress, Results
  <2> QED  BY <1>1, <2>1, <2>2 DEF Progress, SetsAgain
<1> QED  BY <1>2, <1>3

LEMMA SumsInNat == CancelIInv => Len(ready) \in Nat /\ ToDo \in Nat
<1>1. CancelIInv => Len(ready) \in Nat
  BY QueuesAreSeqs, LenProperties DEF CancelIInv, CancelTyped
<1>2. /\ Weight(op[1]) \in {0, 2} /\ Weight(op[2]) \in {0, 2}
      /\ Left(canceller, "done") \in {0, 1} /\ Left(io, "returned") \in {0, 1}
  BY Weights
<1> QED  BY <1>1, <1>2 DEF ToDo

LEMMA LessInAll ==
  ASSUME NEW a \in Int, NEW b \in Int, NEW l \in Int, NEW k \in Int, a < b
  PROVE  a + l + k < b + l + k
  OBVIOUS

\* Every step of a program that will end takes it nearer to the end.
LEMMA StepCounts == ASSUME CancelIInv, WillEnd, CancelNext PROVE WillEnd' /\ ToDo' < ToDo
<1>1. CancelTyped /\ Progress /\ Found
  BY DEF CancelIInv
<1>2. /\ op \in [1 .. 2 -> {"none", "pending"} \cup Results]
      /\ found \in [1 .. 2 -> {"none", "pending"} \cup Results]
      /\ ready \in Seq(1 .. 2) /\ Len(ready) \in Nat
  BY <1>1, QueuesAreSeqs, SumsInNat DEF CancelTyped
<1>3. io # "rearm" /\ \A o \in 1 .. 2 : InQueue(o) => ~SetsAgain(o)
  BY NotAgain
<1>4. /\ Weight(op[1]) \in {0, 2} /\ Weight(op[2]) \in {0, 2}
      /\ Weight(op'[1]) \in {0, 2} /\ Weight(op'[2]) \in {0, 2}
      /\ Left(canceller, "done") \in {0, 1} /\ Left(io, "returned") \in {0, 1}
  BY Weights
<1>5. ASSUME NEW o \in 1 .. 2, Completes(o) PROVE WillEnd' /\ ToDo' < ToDo
  <2>1. /\ op[o] = "pending" /\ ready' = Append(ready, o)
        /\ UNCHANGED <<example, handled, io, canceller, found>>
    BY <1>5 DEF Completes
  <2>2. PICK how \in {"ok", "failed"} : op' = [op EXCEPT ![o] = how]
    BY <1>5 DEF Completes
  <2>3. op'[o] # "pending" /\ \A p \in 1 .. 2 : p # o => op'[p] = op[p]
    BY <1>2, <2>2
  <2>4. Weight(op[o]) = 2 /\ Weight(op'[o]) = 0
    BY <2>1, <2>3, Weights
  <2>5. Weight(op'[1]) + Weight(op'[2]) = Weight(op[1]) + Weight(op[2]) - 2
    <3>1. CASE o = 1
      <4>1. op'[2] = op[2]
        BY <2>3, <3>1
      <4> QED  BY <1>4, <2>4, <3>1, <4>1
    <3>2. CASE o = 2
      <4>1. op'[1] = op[1]
        BY <2>3, <3>2
      <4> QED  BY <1>4, <2>4, <3>2, <4>1
    <3> QED  BY <3>1, <3>2
  <2>6. Len(ready') = Len(ready) + 1
    BY <1>2, <2>1, AppendProperties
  <2>7. WillEnd' /\ Left(canceller, "done")' = Left(canceller, "done") /\ Left(io, "returned")' = Left(io, "returned")
    BY <2>1 DEF WillEnd
  <2>8. ToDo' < ToDo
    BY <1>2, <1>4, <2>5, <2>6, <2>7 DEF ToDo
  <2> QED  BY <2>7, <2>8
<1>6. CASE Cancel
  <2>1. /\ canceller = "sleep" /\ canceller' = "done" /\ Abort(1, ready)
        /\ UNCHANGED <<example, handled, io>>
    BY <1>6 DEF Cancel
  <2>2. /\ Len(ready') \in Nat
        /\ Weight(op'[1]) + Weight(op'[2]) + Len(ready') <= Weight(op[1]) + Weight(op[2]) + Len(ready)
    BY <1>2, <2>1, AbortWeighs
  <2>3. Left(canceller, "done") = 1 /\ Left(canceller', "done") = 0 /\ Left(io', "returned") = Left(io, "returned")
    BY <2>1, Weights
  <2>4. ToDo' < ToDo
    BY <1>2, <1>4, <2>2, <2>3 DEF ToDo
  <2>5. WillEnd'
    <3>1. found[1] = "none"
      BY <1>1, <2>1 DEF Found
    <3> QED  BY <2>1, <3>1 DEF WillEnd
  <2> QED  BY <2>4, <2>5
<1>7. CASE Handler
  <2>1. io = "run" /\ ready # << >> /\ UNCHANGED <<example, canceller>>
    BY <1>7 DEF Handler
  <2> DEFINE o == Head(ready)
             q == Tail(ready)
  <2>2. o \in 1 .. 2 /\ InQueue(o) /\ q \in Seq(1 .. 2) /\ Len(q) = Len(ready) - 1 /\ Len(q) \in Nat
    <3>1. Len(q) = Len(ready) - 1 /\ q \in Seq(1 .. 2) /\ Len(ready) # 0
      BY <1>2, <2>1, HeadTailProperties, EmptySeq
    <3>2. o \in 1 .. 2 /\ InQueue(o)
      BY <1>1, <2>1, QueueTail DEF CancelTyped, InQueue
    <3> QED  BY <1>2, <3>1, <3>2
  <2>3. /\ io' = IF SetsAgain(o) THEN "rearm" ELSE "run"
        /\ IF CancelsOther(o) THEN Abort(2, q) ELSE ready' = q /\ UNCHANGED <<op, found>>
    BY <1>7 DEF Handler
  <2> HIDE DEF o, q
  <2>4. io' = io
    BY <1>3, <2>1, <2>2, <2>3
  <2>5. /\ Len(ready') \in Nat
        /\ Weight(op'[1]) + Weight(op'[2]) + Len(ready') <= Weight(op[1]) + Weight(op[2]) + Len(q)
    <3>1. CASE CancelsOther(o)
      <4>1. Abort(2, q)
        BY <2>3, <3>1
      <4> QED  BY <2>2, <4>1, AbortWeighs
    <3>2. CASE ~CancelsOther(o)
      <4>1. ready' = q /\ op' = op
        BY <2>3, <3>2
      <4> QED  BY <1>4, <2>2, <4>1
    <3> QED  BY <3>1, <3>2
  <2>6. Left(canceller', "done") = Left(canceller, "done") /\ Left(io', "returned") = Left(io, "returned")
    BY <2>1, <2>4
  <2>7. ToDo' < ToDo
    <3>1. Len(q) < Len(ready) /\ Len(q) \in Nat
      BY <1>2, <2>2
    <3>2. /\ ToDo = Weight(op[1]) + Weight(op[2]) + Len(ready) + Left(canceller, "done") + Left(io, "returned")
          /\ ToDo' = Weight(op'[1]) + Weight(op'[2]) + Len(ready') + Left(canceller, "done") + Left(io, "returned")
      BY <2>6 DEF ToDo
    <3>3. Weight(op'[1]) + Weight(op'[2]) + Len(ready') < Weight(op[1]) + Weight(op[2]) + Len(ready)
      BY <1>2, <1>4, <2>5, <3>1
    <3>4. /\ Weight(op'[1]) + Weight(op'[2]) + Len(ready') \in Int
          /\ Weight(op[1]) + Weight(op[2]) + Len(ready) \in Int
          /\ Left(canceller, "done") \in Int /\ Left(io, "returned") \in Int
      BY <1>2, <1>4, <2>5
    <3> QED  BY <3>2, <3>3, <3>4, LessInAll
  <2>8. WillEnd'
    <3>1. found'[1] = found[1]
      BY <1>2, <2>3 DEF Abort
    <3> QED  BY <2>1, <3>1 DEF WillEnd
  <2> QED  BY <2>7, <2>8
<1>8. CASE RunReturns
  <2>1. io = "run" /\ io' = "returned" /\ UNCHANGED <<example, op, ready, handled, canceller, found>>
    BY <1>8 DEF RunReturns
  <2>2. Left(io, "returned") = 1 /\ Left(io', "returned") = 0 /\ Left(canceller', "done") = Left(canceller, "done")
    BY <2>1, Weights
  <2>3. ToDo' < ToDo
    BY <1>2, <1>4, <2>1, <2>2 DEF ToDo
  <2> QED  BY <2>1, <2>3 DEF WillEnd
<1>9. ~WaitAgain
  BY <1>3 DEF WaitAgain
<1> QED  BY <1>5, <1>6, <1>7, <1>8, <1>9 DEF CancelNext

\* What EndsIfCancelled rests on: once cancel() has found the timer of dens_timer.cpp set
\* (:73), and always in cancel_async_operation.cpp and timer_example.cpp, every step leaves
\* less to do, so that only finitely many are left; and the only state with nothing left
\* to do is the end of both threads.
CountsDown == /\ WillEnd => WillEnd' /\ ToDo' \in Nat /\ ToDo' < ToDo
              /\ ToDo = 0 => io = "returned" /\ canceller = "done"

THEOREM CancelledRunsDown == CancelSpec => [][CountsDown]_cancelVars
<1>1. CancelIInv /\ [CancelNext]_cancelVars => CancelIInv'
  BY CancelStep
<1>2. CancelIInv /\ CancelIInv' /\ [CancelNext]_cancelVars => [CountsDown]_cancelVars
  <2> SUFFICES ASSUME CancelIInv, CancelIInv', CancelNext PROVE CountsDown
    OBVIOUS
  <2>1. ToDo \in Nat /\ ToDo' \in Nat /\ Len(ready) \in Nat
    <3>1. ready' \in Seq(1 .. 2)
      BY QueuesAreSeqs DEF CancelIInv, CancelTyped
    <3>2. Len(ready') \in Nat
      BY <3>1, LenProperties
    <3>3. /\ Weight(op'[1]) \in {0, 2} /\ Weight(op'[2]) \in {0, 2}
          /\ Left(canceller', "done") \in {0, 1} /\ Left(io', "returned") \in {0, 1}
      BY Weights
    <3>4. ToDo' \in Nat
      BY <3>2, <3>3 DEF ToDo
    <3> QED  BY <3>4, SumsInNat
  <2>2. WillEnd => WillEnd' /\ ToDo' < ToDo
    BY StepCounts
  <2>3. ToDo = 0 => io = "returned" /\ canceller = "done"
    <3>1. /\ Weight(op[1]) \in {0, 2} /\ Weight(op[2]) \in {0, 2}
          /\ Left(canceller, "done") \in {0, 1} /\ Left(io, "returned") \in {0, 1}
      BY Weights
    <3>2. ToDo = 0 => Left(canceller, "done") = 0 /\ Left(io, "returned") = 0
      BY <2>1, <3>1 DEF ToDo
    <3> QED  BY <3>2, Weights
  <2> QED  BY <2>1, <2>2, <2>3 DEF CountsDown
<1> QED  BY <1>1, <1>2, CancelInitGood, PTL DEF CancelSpec

----------------------------------------------------------------------------
(**************************************************************************)
(* StreamPrograms                                                         *)
(**************************************************************************)

\* s is the piece of a buffer that begins behind its first k bytes.
Behind(s, k) == \A j \in 1 .. Len(s) : s[j] = k + j

\* One direction: g has been read and w is on its way, of the sent bytes of a buffer.
FlowOk(g, w, sentBytes, allBytes, isUp, isGone) ==
    /\ Behind(g, 0) /\ Behind(w, Len(g))
    /\ Len(g) + Len(w) <= sentBytes /\ sentBytes <= allBytes
    /\ isUp /\ ~isGone => Len(g) + Len(w) = sentBytes
    /\ ~isUp => w = << >>

Sent(e) == total[e] + IF e = "client" THEN transferred ELSE 0

Flow(e) == FlowOk(got[Peer(e)], wire[Peer(e)], Sent(e), Length(e), link = "up", Gone(Peer(e)))

Places(e) == IF e = "client"
               THEN {"start", "sleep", "write", "pending", "handler", "shutdown", "read",
                     "finish", "done", "thrown", "killed"}
               ELSE {"start", "accept", "read", "write", "shutdown", "finish", "done",
                     "thrown", "killed"}

StreamTyped ==
    /\ program \in {"shutdown", "retry", "loop", "callbacks", "reader"}
    /\ at \in [End -> Places("client") \cup Places("server")]
    /\ \A e \in End : at[e] \in Places(e) /\ Len(wire[e]) <= Window
    /\ link \in {"none", "up", "broken"}
    /\ wire \in [End -> Seq(Nat)]
    /\ fin \in SUBSET End
    /\ total \in [End -> Nat]
    /\ transferred \in Nat
    /\ got \in [End -> Seq(Nat)]

\* Who has got past its writing has written all, and so has who will send nothing more,
\* unless it was killed.
Past(e) == {"shutdown", "finish", "done"} \cup IF e = "client" THEN {"read"} ELSE {}

WrittenOk(e) ==
    program # "reader" =>
        /\ at[e] \in Past(e) => total[e] = Length(e)
        /\ e \in fin => total[e] = Length(e) \/ at[e] = "killed"

\* Bytes that a handler has still to count; and nothing is sent before a connect.
HandlerOk ==
    /\ transferred # 0 => at["client"] \in {"handler", "killed"}
    /\ at["client"] \in {"pending", "handler"} => program = "callbacks"

NotConnected ==
    /\ at["client"] \in {"start", "sleep"} => link = "none"
    /\ link = "none" => /\ transferred = 0
                        /\ \A e \in End : total[e] = 0 /\ got[e] = << >> /\ wire[e] = << >>

StreamIInv == /\ StreamTyped
              /\ \A e \in End : Flow(e) /\ WrittenOk(e)
              /\ HandlerOk
              /\ NotConnected
              /\ EndMeansWhole

----------------------------------------------------------------------------
(* One direction of the stream                                             *)

LEMMA BehindConcat ==
  ASSUME NEW a \in Seq(Nat), NEW b \in Seq(Nat), NEW k \in Nat, Behind(a, k), Behind(b, k + Len(a))
  PROVE  a \o b \in Seq(Nat) /\ Len(a \o b) = Len(a) + Len(b) /\ Behind(a \o b, k)
<1> DEFINE t == a \o b
<1>1. t \in Seq(Nat) /\ Len(t) = Len(a) + Len(b) /\ Len(a) \in Nat /\ Len(b) \in Nat
  BY LenProperties, ConcatProperties
<1>2. \A j \in 1 .. Len(t) : t[j] = IF j <= Len(a) THEN a[j] ELSE b[j - Len(a)]
  BY <1>1, ConcatProperties
<1> HIDE DEF t
<1>3. ASSUME NEW j \in 1 .. Len(t) PROVE t[j] = k + j
  <2>1. CASE j <= Len(a)
    <3>1. j \in 1 .. Len(a) /\ t[j] = a[j]
      BY <1>1, <1>2, <2>1
    <3> QED  BY <3>1 DEF Behind
  <2>2. CASE ~(j <= Len(a))
    <3>1. /\ j - Len(a) \in 1 .. Len(b) /\ t[j] = b[j - Len(a)]
          /\ k + Len(a) + (j - Len(a)) = k + j
      BY <1>1, <1>2, <2>2
    <3> QED  BY <3>1 DEF Behind
  <2> QED  BY <2>1, <2>2
<1> QED  BY <1>1, <1>3 DEF Behind, t

LEMMA BehindSplit ==
  ASSUME NEW w \in Seq(Nat), NEW k \in Nat, NEW n \in 1 .. Len(w), Behind(w, k)
  PROVE  /\ SubSeq(w, 1, n) \in Seq(Nat) /\ Len(SubSeq(w, 1, n)) = n /\ Behind(SubSeq(w, 1, n), k)
         /\ SubSeq(w, n + 1, Len(w)) \in Seq(Nat) /\ Len(SubSeq(w, n + 1, Len(w))) = Len(w) - n
         /\ Behind(SubSeq(w, n + 1, Len(w)), k + n)
<1> DEFINE l == Len(w)
           m == l - n
           a == SubSeq(w, 1, n)
           b == SubSeq(w, n + 1, l)
<1>1. l \in Nat /\ n \in Nat /\ 1 <= n /\ n <= l /\ m \in Nat /\ m + n = l
  BY LenProperties
<1>2. \A j \in 1 .. l : w[j] \in Nat /\ w[j] = k + j
  BY ElementOfSeq DEF Behind
<1>3. a = [j \in 1 .. n |-> w[j]]
  BY <1>1
<1>4. b = [j \in 1 .. m |-> w[j + n]]
  BY <1>1
<1> HIDE DEF a, b, l, m
<1>5. \A j \in 1 .. m : j + n \in 1 .. l /\ k + (j + n) = k + n + j
  BY <1>1
<1>6. a \in [1 .. n -> Nat] /\ \A j \in 1 .. n : a[j] = k + j
  BY <1>1, <1>2, <1>3
<1>7. b \in [1 .. m -> Nat] /\ \A j \in 1 .. m : b[j] = k + n + j
  BY <1>2, <1>4, <1>5
<1>8. a \in Seq(Nat) /\ Len(a) = n
  BY <1>1, <1>6, SeqDef, LenProperties
<1>9. b \in Seq(Nat) /\ Len(b) = m
  BY <1>1, <1>7, SeqDef, LenProperties
<1> QED  BY <1>6, <1>7, <1>8, <1>9 DEF Behind, a, b, l, m

LEMMA SumOfPieces ==
  ASSUME NEW x \in Nat, NEW y \in Nat, NEW n \in Nat, NEW s, x + y = s, NEW z, z = y + n
  PROVE  x + z = s + n
  OBVIOUS

LEMMA FlowWritten ==
  ASSUME NEW g \in Seq(Nat), NEW w \in Seq(Nat), NEW s \in Nat, NEW l \in Nat, NEW n \in Nat,
         FlowOk(g, w, s, l, TRUE, FALSE), s + n <= l
  PROVE  LET p == [j \in 1 .. n |-> s + j]
         IN w \o p \in Seq(Nat) /\ FlowOk(g, w \o p, s + n, l, TRUE, FALSE)
<1> DEFINE p == [j \in 1 .. n |-> s + j]
           u == w \o p
<1>1. p \in Seq(Nat) /\ Len(p) = n /\ \A j \in 1 .. n : p[j] = s + j
  <2>1. p \in [1 .. n -> Nat]
    OBVIOUS
  <2> QED  BY <2>1, SeqDef, LenProperties
<1> HIDE DEF p
<1>2. /\ Len(g) \in Nat /\ Len(w) \in Nat /\ Len(g) + Len(w) = s
      /\ Behind(g, 0) /\ Behind(w, Len(g))
  BY LenProperties DEF FlowOk
<1>3. Behind(p, Len(g) + Len(w))
  BY <1>1, <1>2 DEF Behind
<1>4. u \in Seq(Nat) /\ Len(u) = Len(w) + n /\ Behind(u, Len(g))
  BY <1>1, <1>2, <1>3, BehindConcat
<1> HIDE DEF u
<1>5. Len(g) + Len(u) = s + n
  BY <1>2, <1>4, SumOfPieces
<1> QED  BY <1>2, <1>4, <1>5 DEF FlowOk, p, u

LEMMA FlowDropped ==
  ASSUME NEW g \in Seq(Nat), NEW w \in Seq(Nat), NEW s \in Nat, NEW l \in Nat, NEW n \in Nat,
         NEW up \in BOOLEAN, FlowOk(g, w, s, l, up, TRUE), s + n <= l
  PROVE  FlowOk(g, w, s + n, l, up, TRUE)
<1>1. Len(g) \in Nat /\ Len(w) \in Nat
  BY LenProperties
<1> QED  BY <1>1 DEF FlowOk

LEMMA FlowRead ==
  ASSUME NEW g \in Seq(Nat), NEW w \in Seq(Nat), NEW s \in Nat, NEW l \in Nat,
         NEW up \in BOOLEAN, NEW gone \in BOOLEAN, NEW n \in 1 .. Len(w), FlowOk(g, w, s, l, up, gone)
  PROVE  /\ g \o SubSeq(w, 1, n) \in Seq(Nat) /\ SubSeq(w, n + 1, Len(w)) \in Seq(Nat)
         /\ Len(SubSeq(w, n + 1, Len(w))) <= Len(w)
         /\ FlowOk(g \o SubSeq(w, 1, n), SubSeq(w, n + 1, Len(w)), s, l, up, gone)
<1> DEFINE a == SubSeq(w, 1, n)
           w2 == SubSeq(w, n + 1, Len(w))
           g2 == g \o a
<1>1. Len(g) \in Nat /\ Len(w) \in Nat /\ n \in Nat /\ 1 <= n /\ n <= Len(w)
  BY LenProperties
<1>2. /\ Behind(g, 0) /\ Behind(w, Len(g)) /\ Len(g) + Len(w) <= s /\ s <= l
      /\ (up /\ ~gone => Len(g) + Len(w) = s) /\ (~up => w = << >>)
  BY DEF FlowOk
<1>3. /\ a \in Seq(Nat) /\ Len(a) = n /\ Behind(a, Len(g))
      /\ w2 \in Seq(Nat) /\ Len(w2) = Len(w) - n /\ Behind(w2, Len(g) + n)
  BY <1>1, <1>2, BehindSplit
<1> HIDE DEF a, w2
<1>4. Behind(a, 0 + Len(g))
  BY <1>1, <1>3
<1>5. g2 \in Seq(Nat) /\ Len(g2) = Len(g) + n /\ Behind(g2, 0)
  BY <1>2, <1>3, <1>4, BehindConcat
<1> HIDE DEF g2
<1>6. up
  BY <1>1, <1>2, EmptySeq
<1>7. Len(g2) + Len(w2) = Len(g) + Len(w) /\ Len(w2) <= Len(w)
  BY <1>1, <1>3, <1>5
<1>8. Behind(w2, Len(g2))
  BY <1>3, <1>5
<1> QED  BY <1>2, <1>3, <1>5, <1>6, <1>7, <1>8 DEF FlowOk, g2, w2, a

LEMMA FlowLost ==
  ASSUME NEW g \in Seq(Nat), NEW w \in Seq(Nat), NEW s \in Nat, NEW l \in Nat,
         NEW up \in BOOLEAN, NEW gone \in BOOLEAN, NEW gone2 \in BOOLEAN, FlowOk(g, w, s, l, up, gone)
  PROVE  FlowOk(g, << >>, s, l, FALSE, gone2)
<1> DEFINE e == << >>
<1>1. Len(g) \in Nat /\ Len(w) \in Nat /\ Len(e) = 0 /\ Behind(e, Len(g))
  BY LenProperties DEF Behind
<1>2. Behind(g, 0) /\ Len(g) + Len(w) <= s /\ s <= l
  BY DEF FlowOk
<1>3. Len(g) + Len(e) <= s
  BY <1>1, <1>2
<1> QED  BY <1>1, <1>2, <1>3 DEF FlowOk

----------------------------------------------------------------------------
(* The actions                                                             *)

LEMMA Ends ==
  /\ End = {"client", "server"} /\ Peer("client") = "server" /\ Peer("server") = "client"
  /\ \A e \in End : Peer(e) \in End /\ Peer(e) # e /\ Peer(Peer(e)) = e
  /\ \A e \in End : Length(e) \in Nat
  BY LengthAssumption DEF End, Peer, Length

LEMMA StreamFacts ==
  ASSUME StreamIInv
  PROVE  /\ StreamTyped /\ HandlerOk /\ NotConnected /\ EndMeansWhole
         /\ \A e \in End :
               /\ Flow(e) /\ WrittenOk(e) /\ Sent(e) \in Nat /\ Length(e) \in Nat
               /\ got[e] \in Seq(Nat) /\ wire[e] \in Seq(Nat) /\ total[e] \in Nat
               /\ (link = "up") \in BOOLEAN /\ Gone(e) \in BOOLEAN
               /\ total[e] <= Sent(e) /\ Sent(e) <= Length(e)
<1>1. \A e \in End : Sent(e) \in Nat /\ total[e] \in Nat /\ total[e] <= Sent(e)
  BY DEF StreamIInv, StreamTyped, Sent
<1>2. \A e \in End : Sent(e) <= Length(e)
  BY DEF StreamIInv, Flow, FlowOk
<1>3. \A e \in End : Gone(e) \in BOOLEAN
  BY DEF Gone
<1> QED  BY <1>1, <1>2, <1>3, Ends DEF StreamIInv, StreamTyped

\* Nobody comes back, and no byte moves.
LEMMA FlowStays ==
  ASSUME StreamIInv, UNCHANGED <<link, wire, total, transferred, got>>,
         \A e \in End : Gone(e) => Gone(e)'
  PROVE  \A e \in End : Flow(e)'
<1> TAKE e \in End
<1>1. Peer(e) \in End /\ Flow(e)
  BY StreamFacts, Ends
<1>2. Sent(e)' = Sent(e) /\ Length(e)' = Length(e)
  BY DEF Sent, Length
<1> QED  BY <1>1, <1>2 DEF Flow, FlowOk

\* A step of one process that moves no byte.
LEMMA StepStays ==
  ASSUME StreamIInv, NEW e \in End, NEW l \in Places(e), Goto(e, l), ~Gone(e),
         fin' \in SUBSET End, fin \subseteq fin', fin' \subseteq fin \cup {e},
         UNCHANGED <<program, link, wire, total, transferred, got>>,
         e = "client" => /\ l \notin {"handler", "pending"} /\ (l \in {"start", "sleep"} => link = "none")
                         /\ transferred = 0,
         program # "reader" => /\ l \in Past(e) => total[e] = Length(e)
                               /\ e \in fin' => total[e] = Length(e) \/ l = "killed",
         program # "reader" /\ e = "server" /\ l \in {"write", "shutdown", "finish", "done"} =>
             \/ at[e] \in {"write", "shutdown", "finish", "done"}
             \/ Len(got[e]) = RequestLength \/ at["client"] = "killed",
         Exchange /\ e = "client" /\ l \in {"finish", "done"} =>
             \/ at[e] \in {"finish", "done"}
             \/ Len(got[e]) = ResponseLength \/ at["server"] = "killed"
  PROVE  StreamIInv'
<1>1. /\ StreamTyped /\ HandlerOk /\ NotConnected /\ EndMeansWhole
      /\ \A x \in End : WrittenOk(x)
  BY StreamFacts
<1>2. /\ at' = [at EXCEPT ![e] = l] /\ at'[e] = l /\ at[e] # "killed"
      /\ \A x \in End : x # e => at'[x] = at[x]
  BY <1>1 DEF Goto, StreamTyped, Gone
<1>3. \A x \in End : Flow(x)'
  BY <1>2, FlowStays DEF Gone
<1>4. StreamTyped'
  <2>1. l \in Places("client") \cup Places("server")
    BY Ends DEF Places
  <2> QED  BY <1>1, <1>2, <2>1 DEF StreamTyped
<1>5. ASSUME NEW x \in End PROVE WrittenOk(x)'
  <2>1. CASE x = e
    BY <1>2, <2>1 DEF WrittenOk, Length
  <2>2. CASE x # e
    BY <1>1, <1>2, <2>2 DEF WrittenOk, Length
  <2> QED  BY <2>1, <2>2
<1>6. HandlerOk'
  BY <1>1, <1>2, Ends DEF HandlerOk
<1>7. NotConnected'
  BY <1>1, <1>2, Ends DEF NotConnected
<1>8. EndMeansWhole'
  <2>1. CASE e = "client"
    BY <1>1, <1>2, <2>1, Ends DEF EndMeansWhole, Exchange
  <2>2. CASE e = "server"
    BY <1>1, <1>2, <2>2, Ends DEF EndMeansWhole, Exchange
  <2> QED  BY <2>1, <2>2, Ends
<1> QED  BY <1>3, <1>4, <1>5, <1>6, <1>7, <1>8 DEF StreamIInv

LEMMA ControlKeeps ==
  ASSUME StreamIInv,
         \/ ServerListens \/ Refused \/ RetryConnect \/ ReadEnds
         \/ \E e \in End : WriteEnds(e) \/ ShutdownSend(e) \/ ReadEof(e) \/ Throws(e)
  PROVE  StreamIInv'
<1>1. /\ StreamTyped /\ HandlerOk /\ NotConnected
      /\ \A e \in End : Flow(e) /\ WrittenOk(e) /\ total[e] \in Nat /\ Sent(e) \in Nat /\ got[e] \in Seq(Nat)
  BY StreamFacts
<1>2. CASE ServerListens
  <2>1. Goto("server", "accept") /\ fin' = fin /\ ~Gone("server") /\ "server" \notin Past("server")
    BY <1>2 DEF ServerListens, Gone, Past
  <2>2. program # "reader" /\ "server" \in fin' => total["server"] = Length("server")
    BY <1>1, <1>2, <2>1, Ends DEF ServerListens, WrittenOk
  <2> QED  BY <1>1, <1>2, <2>1, <2>2, Ends, StepStays DEF ServerListens, Places, StreamTyped, Past
<1>3. CASE Refused \/ RetryConnect
  <2>1. PICK l \in {"sleep", "thrown", "start"} :
          /\ Goto("client", l) /\ fin' = fin /\ at["client"] \in {"start", "sleep"} /\ link = "none"
          /\ UNCHANGED <<program, link, wire, total, transferred, got>>
    BY <1>1, <1>3 DEF Refused, RetryConnect, NotConnected
  <2>2. transferred = 0 /\ ~Gone("client")
    BY <1>1, <2>1 DEF NotConnected, Gone
  <2>3. program # "reader" /\ "client" \in fin' => total["client"] = Length("client")
    BY <1>1, <2>1, Ends DEF WrittenOk
  <2>4. /\ l \in Places("client") /\ l \notin {"handler", "pending"} /\ l \notin Past("client")
        /\ l \notin {"finish", "done"}
    BY <1>1, <2>1, Ends DEF Places, Past, StreamTyped
  <2> QED  BY <1>1, <2>1, <2>2, <2>3, <2>4, Ends, StepStays DEF StreamTyped
<1>4. CASE ReadEnds
  <2>1. /\ Goto("client", "finish") /\ fin' = fin /\ at["client"] = "read" /\ program = "reader"
        /\ UNCHANGED <<program, link, wire, total, transferred, got>>
    BY <1>4 DEF ReadEnds
  <2>2. transferred = 0 /\ ~Gone("client")
    BY <1>1, <2>1 DEF HandlerOk, Gone
  <2> QED  BY <1>1, <2>1, <2>2, Ends, StepStays DEF Places, StreamTyped, Exchange
<1>5. ASSUME NEW e \in End, WriteEnds(e) PROVE StreamIInv'
  <2>1. PICK l \in {"shutdown", "finish"} :
          /\ Goto(e, l) /\ fin' = fin /\ at[e] = "write" /\ total[e] = Length(e)
          /\ (Exchange => l = "shutdown")
          /\ UNCHANGED <<program, link, wire, total, transferred, got>>
    BY <1>5 DEF WriteEnds, Written
  <2>2. ~Gone(e) /\ (e = "client" => transferred = 0)
    BY <1>1, <2>1 DEF HandlerOk, Gone
  <2>3. l \in Places(e)
    BY Ends DEF Places
  <2> QED  BY <1>1, <2>1, <2>2, <2>3, StepStays DEF StreamTyped
<1>6. ASSUME NEW e \in End, ShutdownSend(e) PROVE StreamIInv'
  <2>1. PICK l \in {"read", "finish"} :
          /\ Goto(e, l) /\ fin' = fin \cup {e} /\ at[e] = "shutdown" /\ (l = "read" <=> e = "client")
          /\ UNCHANGED <<program, link, wire, total, transferred, got>>
    BY <1>6 DEF ShutdownSend
  <2>2. ~Gone(e) /\ (e = "client" => transferred = 0)
    BY <1>1, <2>1 DEF HandlerOk, Gone
  <2>3. l \in Places(e) /\ fin' \in SUBSET End
    BY <1>1, <2>1, Ends DEF Places, StreamTyped
  <2>4. program # "reader" => total[e] = Length(e)
    BY <1>1, <2>1 DEF WrittenOk, Past
  <2> QED  BY <1>1, <2>1, <2>2, <2>3, <2>4, StepStays
<1>7. ASSUME NEW e \in End, ReadEof(e) PROVE StreamIInv'
  <2>1. PICK l \in {"thrown", "write", "finish"} :
          /\ Goto(e, l) /\ at[e] = "read" /\ link = "up" /\ wire[e] = << >> /\ Peer(e) \in fin
          /\ l = CASE program = "reader" -> "thrown" [] e = "server" -> "write" [] OTHER -> "finish"
          /\ fin' = IF program = "reader" THEN fin \cup {e} ELSE fin
          /\ UNCHANGED <<program, link, wire, total, transferred, got>>
    BY <1>7 DEF ReadEof
  <2>2. ~Gone(e) /\ (e = "client" => transferred = 0)
    BY <1>1, <2>1 DEF HandlerOk, Gone
  <2>3. l \in Places(e) /\ fin' \in SUBSET End
    BY <1>1, <2>1, Ends DEF Places, StreamTyped
  \* All that was sent has been read, and that was all unless the sender was killed.
  <2>4. program # "reader" => Len(got[e]) = Length(Peer(e)) \/ at[Peer(e)] = "killed"
    <3> SUFFICES ASSUME program # "reader", at[Peer(e)] # "killed" PROVE Len(got[e]) = Length(Peer(e))
      OBVIOUS
    <3>2. Len(got[e]) + Len(wire[e]) = Sent(Peer(e))
      BY <1>1, <2>1, <2>2, Ends DEF Flow, FlowOk
    <3>3. Len(wire[e]) = 0 /\ Len(got[e]) \in Nat
      BY <1>1, <2>1, LenProperties
    <3>4. total[Peer(e)] = Length(Peer(e))
      BY <1>1, <2>1, Ends DEF WrittenOk
    <3>5. Sent(Peer(e)) = Length(Peer(e))
      BY <3>4, StreamFacts, Ends
    <3> QED  BY <3>2, <3>3, <3>5
  <2>5. program # "reader" => /\ e = "client" => total[e] = Length(e)
                              /\ e \in fin => total[e] = Length(e)
    BY <1>1, <2>1 DEF WrittenOk, Past
  <2>6. l \notin {"handler", "pending", "start", "sleep"}
    OBVIOUS
  <2>7. program # "reader" => /\ l \in Past(e) => total[e] = Length(e)
                              /\ e \in fin' => total[e] = Length(e)
    BY <2>1, <2>5, Ends DEF Past
  <2>8. CASE e = "client"
    BY <2>1, <2>2, <2>3, <2>4, <2>6, <2>7, <2>8, Ends, StepStays DEF Exchange, Length
  <2>9. CASE e = "server"
    BY <2>1, <2>2, <2>3, <2>4, <2>6, <2>7, <2>9, Ends, StepStays DEF Exchange, Length
  <2> QED  BY <2>8, <2>9, Ends
<1>8. ASSUME NEW e \in End, Throws(e) PROVE StreamIInv'
  <2>1. /\ Goto(e, "thrown") /\ fin' = fin /\ at[e] \in {"write", "pending", "shutdown", "read"}
        /\ UNCHANGED <<program, link, wire, total, transferred, got>>
    BY <1>8 DEF Throws
  <2>2. ~Gone(e) /\ (e = "client" => transferred = 0)
    BY <1>1, <2>1 DEF HandlerOk, Gone
  <2>3. "thrown" \in Places(e) /\ "thrown" \notin Past(e) /\ fin \in SUBSET End
    BY <1>1, Ends DEF Places, Past, StreamTyped
  <2>4. program # "reader" /\ e \in fin => total[e] = Length(e)
    BY <1>1, <2>1 DEF WrittenOk
  <2> QED  BY <2>1, <2>2, <2>3, <2>4, StepStays
<1> QED  BY <1>2, <1>3, <1>4, <1>5, <1>6, <1>7, <1>8

LEMMA ConnectKeeps == ASSUME StreamIInv, Connect PROVE StreamIInv'
<1>1. StreamTyped /\ HandlerOk /\ NotConnected
  BY StreamFacts
<1>2. /\ at["client"] = "start" /\ link = "none" /\ link' = "up"
      /\ at' = [client |-> FirstStep, server |-> IF program = "reader" THEN "write" ELSE "read"]
      /\ UNCHANGED <<program, wire, fin, total, transferred, got>>
  BY <1>1 DEF Connect, NotConnected
<1>3. /\ transferred = 0 /\ \A e \in End : total[e] = 0 /\ got[e] = << >> /\ wire[e] = << >>
      /\ FirstStep \in {"read", "pending", "write"} /\ (FirstStep = "read" <=> program = "reader")
      /\ (FirstStep = "pending" => program = "callbacks")
  BY <1>1, <1>2 DEF NotConnected, FirstStep, StreamTyped
<1> HIDE DEF FirstStep
<1>4. /\ at'["client"] = FirstStep /\ at'["server"] = IF program = "reader" THEN "write" ELSE "read"
      /\ at' \in [End -> Places("client") \cup Places("server")]
      /\ \A e \in End : at'[e] \in Places(e)
  <2>1. FirstStep \in Places("client") /\ (IF program = "reader" THEN "write" ELSE "read") \in Places("server")
    BY <1>3 DEF Places
  <2>2. at'["client"] = FirstStep /\ at'["server"] = IF program = "reader" THEN "write" ELSE "read"
    BY <1>2
  <2> QED  BY <1>2, <2>1, <2>2, Ends
<1>5. StreamTyped'
  BY <1>1, <1>2, <1>4 DEF StreamTyped
<1>6. ASSUME NEW e \in End PROVE Flow(e)'
  <2>1. Peer(e) \in End /\ Sent(e)' = 0 /\ Length(e)' \in Nat
    BY <1>2, <1>3, Ends DEF Sent, Length
  <2>2. got'[Peer(e)] = << >> /\ wire'[Peer(e)] = << >>
    BY <1>2, <1>3, <2>1
  <2> QED  BY <1>2, <2>1, <2>2 DEF Flow, FlowOk, Behind
<1>7. ASSUME NEW e \in End PROVE WrittenOk(e)'
  <2>1. WrittenOk(e) /\ at[e] # "killed"
    <3>1. at["server"] = "accept"
      BY DEF Connect
    <3> QED  BY <1>2, <3>1, StreamFacts, Ends
  <2>2. program # "reader" => at'[e] \notin Past(e)
    BY <1>3, <1>4, Ends DEF Past
  <2> QED  BY <1>2, <2>1, <2>2 DEF WrittenOk, Length
<1>8. HandlerOk' /\ NotConnected'
  BY <1>2, <1>3, <1>4 DEF HandlerOk, NotConnected
<1>9. EndMeansWhole'
  BY <1>2, <1>3, <1>4 DEF EndMeansWhole, Exchange
<1> QED  BY <1>5, <1>6, <1>7, <1>8, <1>9 DEF StreamIInv

\* write_some puts the next n bytes on the wire, or drops them.
LEMMA SendsFlow ==
  ASSUME StreamIInv, NEW e \in End, NEW n \in Nat, Sends(e, n), Sent(e) = total[e],
         Sent(e)' = Sent(e) + n, UNCHANGED got, link' = link, Gone(Peer(e))' = Gone(Peer(e))
  PROVE  /\ Flow(e)' /\ wire' \in [End -> Seq(Nat)] /\ \A x \in End : Len(wire'[x]) <= Window
         /\ \A x \in End : x # Peer(e) => wire'[x] = wire[x]
<1> DEFINE r == Peer(e)
           p == Piece(e, n)
<1>1. /\ link = "up" /\ Sent(e) + n <= Length(e)
      /\ \/ Gone(r) /\ wire' = wire
         \/ ~Gone(r) /\ Len(wire[r]) + n <= Window /\ wire' = [wire EXCEPT ![r] = @ \o p]
  <2>1. Sent(e) \in Nat /\ Length(e) \in Nat
    BY StreamFacts
  <2> QED  BY <2>1 DEF Sends
<1>2. /\ r \in End /\ got[r] \in Seq(Nat) /\ wire[r] \in Seq(Nat) /\ Sent(e) \in Nat /\ Length(e) \in Nat
      /\ Flow(e) /\ wire \in [End -> Seq(Nat)] /\ \A x \in End : Len(wire[x]) <= Window
  BY StreamFacts, Ends DEF StreamTyped
<1>3. Length(e)' = Length(e)
  BY DEF Length
<1>4. CASE Gone(r)
  <2>1. FlowOk(got[r], wire[r], Sent(e) + n, Length(e), TRUE, TRUE)
    BY <1>1, <1>2, <1>4, FlowDropped DEF Flow
  <2> QED  BY <1>1, <1>2, <1>3, <1>4, <2>1 DEF Flow, FlowOk
<1>5. CASE ~Gone(r)
  <2>1. p = [j \in 1 .. n |-> Sent(e) + j]
    BY DEF Piece
  <2> HIDE DEF p
  <2>2. FlowOk(got[r], wire[r], Sent(e), Length(e), TRUE, FALSE)
    BY <1>1, <1>2, <1>5 DEF Flow, FlowOk
  <2>3. wire[r] \o p \in Seq(Nat) /\ FlowOk(got[r], wire[r] \o p, Sent(e) + n, Length(e), TRUE, FALSE)
    BY <1>1, <1>2, <2>1, <2>2, FlowWritten
  <2>4. wire'[r] = wire[r] \o p /\ (\A x \in End : x # r => wire'[x] = wire[x]) /\ wire' \in [End -> Seq(Nat)]
    BY <1>1, <1>2, <1>5, <2>3
  <2>5. Len(wire[r] \o p) <= Window
    <3>1. p \in Seq(Nat) /\ Len(p) = n
      <4>1. p \in [1 .. n -> Nat]
        BY <1>2, <2>1
      <4> QED  BY <4>1, SeqDef, LenProperties
    <3>2. Len(wire[r] \o p) = Len(wire[r]) + n
      BY <1>2, <3>1, ConcatProperties
    <3> QED  BY <1>1, <1>5, <3>2
  <2>6. Flow(e)'
    BY <1>1, <1>3, <1>5, <2>3, <2>4 DEF Flow, FlowOk
  <2>7. \A x \in End : Len(wire'[x]) <= Window
    BY <1>2, <2>4, <2>5
  <2> QED  BY <2>4, <2>6, <2>7
<1> QED  BY <1>4, <1>5

LEMMA FlowSame ==
  ASSUME StreamIInv, NEW e \in End, got'[Peer(e)] = got[Peer(e)], wire'[Peer(e)] = wire[Peer(e)],
         Sent(e)' = Sent(e), link' = link, Gone(Peer(e)) => Gone(Peer(e))'
  PROVE  Flow(e)'
<1>1. Flow(e) /\ Length(e)' = Length(e)
  BY StreamFacts DEF Length
<1> QED  BY <1>1 DEF Flow, FlowOk

LEMMA WriteSomeKeeps == ASSUME StreamIInv, NEW e \in End, WriteSome(e) PROVE StreamIInv'
<1>1. /\ StreamTyped /\ HandlerOk /\ NotConnected /\ EndMeansWhole
      /\ \A x \in End : WrittenOk(x) /\ total[x] \in Nat /\ Length(x) \in Nat
  BY StreamFacts
<1>2. PICK n \in 1 .. Length(e) : Sends(e, n) /\ total' = [total EXCEPT ![e] = @ + n]
  BY DEF WriteSome
<1>3. /\ n \in Nat /\ n > 0 /\ at[e] = "write" /\ link = "up" /\ n <= Length(e) - total[e]
      /\ UNCHANGED <<program, at, link, fin, transferred, got>>
  BY <1>1, <1>2 DEF WriteSome, Sends
<1>4. e = "client" => transferred = 0
  BY <1>1, <1>3 DEF HandlerOk
<1>5. /\ total' \in [End -> Nat] /\ total'[e] = total[e] + n
      /\ \A x \in End : x # e => total'[x] = total[x]
  BY <1>1, <1>2, <1>3 DEF StreamTyped
<1>6. Sent(e) = total[e] /\ Sent(e)' = Sent(e) + n /\ \A x \in End : x # e => Sent(x)' = Sent(x)
  BY <1>1, <1>3, <1>4, <1>5 DEF Sent
<1>7. \A x \in End : Gone(x)' = Gone(x)
  BY <1>3 DEF Gone
<1>8. /\ Flow(e)' /\ wire' \in [End -> Seq(Nat)] /\ (\A x \in End : Len(wire'[x]) <= Window)
      /\ \A x \in End : x # Peer(e) => wire'[x] = wire[x]
  BY <1>2, <1>3, <1>6, <1>7, Ends, SendsFlow
<1>9. ASSUME NEW x \in End, x # e PROVE Flow(x)'
  <2>1. Peer(x) \in End /\ Peer(x) # Peer(e)
    BY <1>9, Ends
  <2> QED  BY <1>3, <1>6, <1>7, <1>8, <1>9, <2>1, FlowSame
<1>10. StreamTyped'
  BY <1>1, <1>3, <1>5, <1>8 DEF StreamTyped
<1>11. ASSUME NEW x \in End PROVE WrittenOk(x)'
  <2>1. CASE x = e
    <3>1. total[e] # Length(e) /\ at[e] \notin Past(e) /\ at[e] # "killed"
      BY <1>1, <1>3, Ends DEF Past
    <3> QED  BY <1>1, <1>3, <2>1, <3>1 DEF WrittenOk
  <2>2. CASE x # e
    BY <1>1, <1>3, <1>5, <2>2 DEF WrittenOk, Length
  <2> QED  BY <2>1, <2>2
<1>12. HandlerOk' /\ NotConnected' /\ EndMeansWhole'
  BY <1>1, <1>3 DEF HandlerOk, NotConnected, EndMeansWhole, Exchange
<1> QED  BY <1>8, <1>9, <1>10, <1>11, <1>12 DEF StreamIInv

LEMMA CallbacksKeep == ASSUME StreamIInv, NetWrite \/ Callback PROVE StreamIInv'
<1>1. /\ StreamTyped /\ HandlerOk /\ NotConnected /\ EndMeansWhole
      /\ \A x \in End : WrittenOk(x) /\ total[x] \in Nat /\ Length(x) \in Nat /\ got[x] \in Seq(Nat)
  BY StreamFacts
<1> DEFINE c == "client"
<1>2. c \in End /\ Peer(c) \in End /\ Peer(c) # c /\ \A x \in End : x # c => x = Peer(c) /\ Peer(x) = c
  BY Ends
<1> HIDE DEF c
<1>3. CASE NetWrite
  <2>1. PICK n \in 1 .. Length(c) : Sends(c, n) /\ transferred' = n
    BY <1>3 DEF NetWrite, c
  <2>2. /\ n \in Nat /\ n > 0 /\ at[c] = "pending" /\ link = "up" /\ n <= Length(c) - total[c]
        /\ at' = [at EXCEPT ![c] = "handler"] /\ UNCHANGED <<program, link, fin, total, got>>
    BY <1>1, <1>2, <1>3, <2>1 DEF NetWrite, Sends, Goto, c
  <2>3. transferred = 0 /\ program = "callbacks"
    BY <1>1, <2>2 DEF HandlerOk, c
  <2>4. /\ at'[c] = "handler" /\ (\A x \in End : x # c => at'[x] = at[x])
        /\ at' \in [End -> Places("client") \cup Places("server")]
        /\ \A x \in End : at'[x] \in Places(x)
    BY <1>1, <1>2, <2>2 DEF StreamTyped, Places, c
  <2>5. Sent(c) = total[c] /\ Sent(c)' = Sent(c) + n /\ \A x \in End : x # c => Sent(x)' = Sent(x)
    BY <1>1, <1>2, <2>1, <2>2, <2>3 DEF Sent, c
  <2>6. \A x \in End : Gone(x)' = Gone(x)
    BY <2>2, <2>4 DEF Gone
  <2>7. /\ Flow(c)' /\ wire' \in [End -> Seq(Nat)] /\ (\A x \in End : Len(wire'[x]) <= Window)
        /\ \A x \in End : x # Peer(c) => wire'[x] = wire[x]
    BY <1>2, <2>1, <2>2, <2>5, <2>6, SendsFlow
  <2>8. ASSUME NEW x \in End, x # c PROVE Flow(x)'
    BY <1>2, <2>2, <2>5, <2>6, <2>7, <2>8, FlowSame
  <2>9. StreamTyped'
    BY <1>1, <2>1, <2>2, <2>4, <2>7 DEF StreamTyped
  <2>10. ASSUME NEW x \in End PROVE WrittenOk(x)'
    <3>1. total[c] # Length(c) /\ at'[c] \notin Past(c) /\ at[c] # "killed"
      BY <1>1, <1>2, <2>2, <2>4, Ends DEF Past
    <3>2. CASE x = c
      BY <1>1, <1>2, <2>2, <2>4, <3>1, <3>2 DEF WrittenOk
    <3>3. CASE x # c
      BY <1>1, <1>2, <2>2, <2>4, <3>3 DEF WrittenOk, Length
    <3> QED  BY <3>2, <3>3
  <2>11. HandlerOk' /\ NotConnected'
    BY <1>1, <2>2, <2>3, <2>4 DEF HandlerOk, NotConnected, c
  <2>12. EndMeansWhole'
    BY <1>1, <2>2, <2>3, <2>4, Ends DEF EndMeansWhole, Exchange, c
  <2> QED  BY <2>7, <2>8, <2>9, <2>10, <2>11, <2>12 DEF StreamIInv
<1>4. CASE Callback
  <2>1. PICK l \in {"finish", "pending"} :
          /\ at' = [at EXCEPT ![c] = l] /\ at[c] = "handler"
          /\ total' = [total EXCEPT ![c] = @ + transferred] /\ transferred' = 0
          /\ l = "finish" <=> total'[c] = Length(c)
          /\ UNCHANGED <<program, link, wire, fin, got>>
    BY <1>4 DEF Callback, Goto, c
  <2>2. program = "callbacks" /\ transferred \in Nat
    BY <1>1, <2>1 DEF HandlerOk, StreamTyped, c
  <2>3. /\ at'[c] = l /\ (\A x \in End : x # c => at'[x] = at[x])
        /\ at' \in [End -> Places("client") \cup Places("server")]
        /\ \A x \in End : at'[x] \in Places(x)
    BY <1>1, <1>2, <2>1 DEF StreamTyped, Places, c
  <2>4. /\ total' \in [End -> Nat] /\ total'[c] = total[c] + transferred
        /\ \A x \in End : x # c => total'[x] = total[x]
    BY <1>1, <1>2, <2>1, <2>2 DEF StreamTyped
  <2>5. \A x \in End : Sent(x)' = Sent(x)
    BY <1>1, <1>2, <2>1, <2>2, <2>4 DEF Sent, c
  <2>6. \A x \in End : Gone(x) => Gone(x)'
    BY <2>1, <2>3 DEF Gone
  <2>7. ASSUME NEW x \in End PROVE Flow(x)'
    BY <2>1, <2>5, <2>6, <2>7, Ends, FlowSame
  <2>8. StreamTyped'
    BY <1>1, <2>1, <2>3, <2>4 DEF StreamTyped
  <2>9. ASSUME NEW x \in End PROVE WrittenOk(x)'
    <3>1. CASE x = c
      <4>1. at'[c] \in Past(c) => total'[c] = Length(c)
        BY <2>1, <2>3, Ends DEF Past, c
      <4>2. c \in fin => total'[c] = Length(c)
        <5>1. c \in fin => total[c] = Length(c)
          BY <1>1, <1>2, <2>1, <2>2 DEF WrittenOk
        <5>2. total[c] + transferred <= Length(c)
          BY StreamFacts, Ends DEF Sent, c
        <5> QED  BY <1>1, <1>2, <2>2, <2>4, <5>1, <5>2
      <4> QED  BY <2>1, <3>1, <4>1, <4>2 DEF WrittenOk, Length
    <3>2. CASE x # c
      BY <1>1, <1>2, <2>1, <2>3, <2>4, <3>2 DEF WrittenOk, Length
    <3> QED  BY <3>1, <3>2
  <2>10. HandlerOk'
    BY <2>1, <2>2 DEF HandlerOk
  <2>11. NotConnected'
    <3>1. link = "none" => \A x \in End : total'[x] = 0
      BY <1>1, <1>2, <2>4 DEF NotConnected
    <3> QED  BY <1>1, <2>1, <2>3, <3>1 DEF NotConnected, c
  <2>12. EndMeansWhole'
    BY <1>1, <2>1, <2>2, <2>3, Ends DEF EndMeansWhole, Exchange, c
  <2> QED  BY <2>7, <2>8, <2>9, <2>10, <2>11, <2>12 DEF StreamIInv
<1> QED  BY <1>3, <1>4

LEMMA ReadSomeKeeps == ASSUME StreamIInv, NEW e \in End, ReadSome(e) PROVE StreamIInv'
<1> DEFINE w == wire[e]
           d == Peer(e)
<1>1. /\ StreamTyped /\ HandlerOk /\ NotConnected /\ EndMeansWhole
      /\ \A x \in End : WrittenOk(x) /\ Length(x) \in Nat /\ Sent(x) \in Nat
  BY StreamFacts
<1>2. PICK n \in 1 .. Len(w) :
        /\ got' = [got EXCEPT ![e] = @ \o SubSeq(w, 1, n)]
        /\ wire' = [wire EXCEPT ![e] = SubSeq(@, n + 1, Len(@))]
  BY DEF ReadSome
<1>3. at[e] = "read" /\ UNCHANGED <<program, at, link, fin, total, transferred>>
  BY DEF ReadSome
<1>4. /\ d \in End /\ Peer(d) = e /\ got[e] \in Seq(Nat) /\ w \in Seq(Nat) /\ Flow(d)
      /\ (link = "up") \in BOOLEAN /\ Gone(e) \in BOOLEAN /\ Len(w) <= Window
      /\ got \in [End -> Seq(Nat)] /\ wire \in [End -> Seq(Nat)]
  BY StreamFacts, Ends DEF StreamTyped
<1> DEFINE g2 == got[e] \o SubSeq(w, 1, n)
           w2 == SubSeq(w, n + 1, Len(w))
           isUp == link = "up"
           isGone == Gone(e)
<1>5. /\ g2 \in Seq(Nat) /\ w2 \in Seq(Nat) /\ Len(w2) <= Len(w)
      /\ FlowOk(g2, w2, Sent(d), Length(d), isUp, isGone)
  <2> DEFINE g == got[e]
             s == Sent(d)
             l == Length(d)
  <2>1. FlowOk(g, w, s, l, isUp, isGone)
    BY <1>4 DEF Flow
  <2>2. isUp \in BOOLEAN /\ isGone \in BOOLEAN /\ g \in Seq(Nat) /\ w \in Seq(Nat)
        /\ s \in Nat /\ l \in Nat
    BY <1>1, <1>4
  <2> HIDE DEF w, isUp, isGone, g, s, l
  <2>3. /\ g \o SubSeq(w, 1, n) \in Seq(Nat) /\ SubSeq(w, n + 1, Len(w)) \in Seq(Nat)
        /\ Len(SubSeq(w, n + 1, Len(w))) <= Len(w)
        /\ FlowOk(g \o SubSeq(w, 1, n), SubSeq(w, n + 1, Len(w)), s, l, isUp, isGone)
    BY <1>2, <2>1, <2>2, FlowRead
  <2> QED  BY <2>3 DEF g2, w2, g, s, l
<1> HIDE DEF g2, w2
<1>6. /\ got'[e] = g2 /\ wire'[e] = w2 /\ got' \in [End -> Seq(Nat)] /\ wire' \in [End -> Seq(Nat)]
      /\ \A x \in End : x # e => got'[x] = got[x] /\ wire'[x] = wire[x]
  BY <1>2, <1>4, <1>5 DEF g2, w2
<1>7. \A x \in End : Gone(x)' = Gone(x) /\ Sent(x)' = Sent(x) /\ Length(x)' = Length(x)
  BY <1>3 DEF Gone, Sent, Length
<1>8. Flow(d)'
  BY <1>3, <1>4, <1>5, <1>6, <1>7 DEF Flow, FlowOk
<1>9. ASSUME NEW x \in End, x # d PROVE Flow(x)'
  <2>1. Peer(x) \in End /\ Peer(x) # e
    BY <1>9, Ends
  <2> QED  BY <1>3, <1>6, <1>7, <2>1, FlowSame
<1>10. StreamTyped'
  <2>1. \A x \in End : Len(wire'[x]) <= Window
    <3>1. Len(w2) \in Nat /\ Len(w) \in Nat /\ Window \in Nat
      BY <1>4, <1>5, LenProperties, LengthAssumption
    <3>2. Len(w2) <= Window
      BY <1>4, <1>5, <3>1
    <3> QED  BY <1>1, <1>6, <3>2 DEF StreamTyped
  <2> QED  BY <1>1, <1>3, <1>6, <2>1 DEF StreamTyped
<1>11. \A x \in End : WrittenOk(x)'
  BY <1>1, <1>3 DEF WrittenOk, Length
<1>12. HandlerOk'
  BY <1>1, <1>3 DEF HandlerOk
<1>13. NotConnected'
  <2>1. link # "none"
    <3>1. Len(w) > 0
      BY <1>2, <1>4, LenProperties
    <3>2. w # << >>
      BY <3>1, <1>4, EmptySeq
    <3> QED  BY <1>1, <3>2 DEF NotConnected
  <2> QED  BY <1>1, <1>3, <2>1 DEF NotConnected
<1>14. EndMeansWhole'
  <2>1. CASE e = "client"
    BY <1>1, <1>3, <1>6, <2>1, Ends DEF EndMeansWhole, Exchange
  <2>2. CASE e = "server"
    BY <1>1, <1>3, <1>6, <2>2, Ends DEF EndMeansWhole, Exchange
  <2> QED  BY <2>1, <2>2, Ends
<1> QED  BY <1>8, <1>9, <1>10, <1>11, <1>12, <1>13, <1>14 DEF StreamIInv

\* The wires are empty, and the connection does not come back.
LEMMA FlowBroken ==
  ASSUME StreamIInv, link' = "broken", wire' = [d \in End |-> << >>], UNCHANGED <<total, transferred, got>>
  PROVE  \A e \in End : Flow(e)'
<1> TAKE e \in End
<1> DEFINE r == Peer(e)
           isUp == link = "up"
           isGone == Gone(r)
           isGone2 == Gone(r)'
<1>1. /\ r \in End /\ got[r] \in Seq(Nat) /\ wire[r] \in Seq(Nat) /\ Sent(e) \in Nat /\ Length(e) \in Nat
      /\ Flow(e)
  BY StreamFacts, Ends
<1>2. isUp \in BOOLEAN /\ isGone \in BOOLEAN /\ isGone2 \in BOOLEAN
  BY DEF Gone
<1>3. FlowOk(got[r], wire[r], Sent(e), Length(e), isUp, isGone)
  BY <1>1 DEF Flow
<1>4. Sent(e)' = Sent(e) /\ Length(e)' = Length(e) /\ wire'[r] = << >> /\ got' = got /\ link' # "up"
  BY <1>1 DEF Sent, Length
<1> HIDE DEF r, isUp, isGone, isGone2
<1>5. FlowOk(got[r], << >>, Sent(e), Length(e), FALSE, isGone2)
  BY <1>1, <1>2, <1>3, FlowLost
<1> QED  BY <1>4, <1>5 DEF Flow, FlowOk, r, isGone2

LEMMA GoesKeeps == ASSUME StreamIInv, NEW e \in End, Finish(e) \/ Kill(e) PROVE StreamIInv'
<1>1. /\ StreamTyped /\ HandlerOk /\ NotConnected /\ EndMeansWhole
      /\ \A x \in End : WrittenOk(x)
  BY StreamFacts
<1>2. PICK l \in {"done", "killed"} :
        /\ at' = [at EXCEPT ![e] = l] /\ fin' = fin \cup {e}
        /\ \/ UNCHANGED <<link, wire>>
           \/ link' = "broken" /\ wire' = [d \in End |-> << >>] /\ wire[e] # << >>
        /\ \/ l = "done" /\ at[e] = "finish"
           \/ l = "done" /\ program = "reader" /\ e = "server" /\ at[e] = "write"
           \/ l = "killed" /\ ~Gone(e) /\ link = "up"
        /\ UNCHANGED <<program, total, transferred, got>>
  BY DEF Finish, Kill, Close, Goto
<1>3. /\ at'[e] = l /\ \A x \in End : x # e => at'[x] = at[x]
  BY <1>1, <1>2 DEF StreamTyped
<1>4. \A x \in End : Flow(x)'
  <2>1. CASE UNCHANGED <<link, wire>>
    <3>1. \A x \in End : Gone(x) => Gone(x)'
      BY <1>2, <1>3 DEF Gone
    <3> QED  BY <1>2, <2>1, <3>1, FlowStays
  <2>2. CASE link' = "broken" /\ wire' = [d \in End |-> << >>]
    BY <1>2, <2>2, FlowBroken
  <2> QED  BY <1>2, <2>1, <2>2
<1>5. StreamTyped'
  <2>1. l \in Places("client") \cup Places("server") /\ l \in Places(e)
    BY Ends DEF Places
  <2>2. /\ at' \in [End -> Places("client") \cup Places("server")]
        /\ \A x \in End : at'[x] \in Places(x)
    BY <1>1, <1>2, <1>3, <2>1 DEF StreamTyped
  <2>3. wire' \in [End -> Seq(Nat)] /\ \A x \in End : Len(wire'[x]) <= Window
    <3>1. CASE wire' = wire
      BY <1>1, <3>1 DEF StreamTyped
    <3>2. CASE wire' = [d \in End |-> << >>]
      <4> DEFINE z == << >>
      <4>1. z \in Seq(Nat) /\ Len(z) = 0 /\ 0 <= Window
        BY LengthAssumption
      <4>2. \A x \in End : wire'[x] = z
        BY <3>2
      <4>3. wire' = [d \in End |-> z]
        BY <3>2
      <4> HIDE DEF z
      <4> QED  BY <4>1, <4>2, <4>3
    <3> QED  BY <1>2, <3>1, <3>2
  <2>4. link' \in {"none", "up", "broken"} /\ fin' \in SUBSET End
    BY <1>1, <1>2 DEF StreamTyped
  <2> QED  BY <1>1, <1>2, <2>2, <2>3, <2>4 DEF StreamTyped
<1>6. ASSUME NEW x \in End PROVE WrittenOk(x)'
  <2>1. CASE x = e
    <3>1. program # "reader" /\ l = "done" => total[e] = Length(e)
      BY <1>1, <1>2, Ends DEF WrittenOk, Past, Gone
    <3>2. "killed" \notin Past(e)
      BY DEF Past
    <3> QED  BY <1>2, <1>3, <2>1, <3>1, <3>2 DEF WrittenOk, Length
  <2>2. CASE x # e
    BY <1>1, <1>2, <1>3, <2>2 DEF WrittenOk, Length
  <2> QED  BY <2>1, <2>2
<1>7. HandlerOk'
  BY <1>1, <1>2, <1>3, Ends DEF HandlerOk
<1>8. NotConnected'
  BY <1>1, <1>2, <1>3, Ends DEF NotConnected
<1>9. EndMeansWhole'
  <2>1. CASE e = "client"
    BY <1>1, <1>2, <1>3, <2>1, Ends DEF EndMeansWhole, Exchange
  <2>2. CASE e = "server"
    BY <1>1, <1>2, <1>3, <2>2, Ends DEF EndMeansWhole, Exchange
  <2> QED  BY <2>1, <2>2, Ends
<1> QED  BY <1>4, <1>5, <1>6, <1>7, <1>8, <1>9 DEF StreamIInv

LEMMA NetBreakKeeps == ASSUME StreamIInv, NetBreak PROVE StreamIInv'
<1>1. /\ StreamTyped /\ HandlerOk /\ NotConnected /\ EndMeansWhole
      /\ \A x \in End : WrittenOk(x)
  BY StreamFacts
<1>2. /\ link = "up" /\ link' = "broken" /\ wire' = [e \in End |-> << >>]
      /\ UNCHANGED <<program, at, fin, total, transferred, got>>
  BY DEF NetBreak
<1>3. \A x \in End : Flow(x)'
  BY <1>2, FlowBroken
<1>4. StreamTyped'
  <2> DEFINE z == << >>
  <2>1. z \in Seq(Nat) /\ Len(z) = 0 /\ 0 <= Window
    BY LengthAssumption
  <2>2. wire' = [d \in End |-> z]
    BY <1>2
  <2> HIDE DEF z
  <2>3. wire' \in [End -> Seq(Nat)] /\ \A x \in End : Len(wire'[x]) <= Window
    BY <2>1, <2>2
  <2> QED  BY <1>1, <1>2, <2>3 DEF StreamTyped
<1>5. (\A x \in End : WrittenOk(x)') /\ HandlerOk' /\ NotConnected' /\ EndMeansWhole'
  BY <1>1, <1>2 DEF WrittenOk, Length, HandlerOk, NotConnected, EndMeansWhole, Exchange
<1> QED  BY <1>3, <1>4, <1>5 DEF StreamIInv

LEMMA StreamInitGood == StreamInit => StreamIInv
<1> SUFFICES ASSUME StreamInit PROVE StreamIInv
  OBVIOUS
<1> DEFINE z == << >>
<1>1. z \in Seq(Nat) /\ Len(z) = 0 /\ 0 <= Window /\ \A k : Behind(z, k)
  BY LengthAssumption DEF Behind
<1>2. wire = [e \in End |-> z] /\ got = [e \in End |-> z]
  BY DEF StreamInit
<1>3. \A e \in End : wire[e] = z /\ got[e] = z /\ total[e] = 0 /\ Sent(e) = 0 /\ Length(e) \in Nat
  BY <1>2, Ends DEF StreamInit, Sent
<1>4. \A e \in End : wire[e] = << >> /\ got[e] = << >>
  BY <1>3
<1> HIDE DEF z
<1>5. \A e \in End : Len(wire[e]) <= Window
  BY <1>1, <1>3
<1>6. wire \in [End -> Seq(Nat)] /\ got \in [End -> Seq(Nat)]
  BY <1>1, <1>2
<1>7. StreamTyped
  <2>1. \A e \in End : "start" \in Places(e)
    BY DEF Places
  <2>2. at \in [End -> Places("client") \cup Places("server")] /\ \A e \in End : at[e] = "start"
    BY <2>1, Ends DEF StreamInit
  <2>3. total \in [End -> Nat]
    BY DEF StreamInit
  <2> QED  BY <1>5, <1>6, <2>1, <2>2, <2>3 DEF StreamInit, StreamTyped
<1>8. ASSUME NEW e \in End PROVE Flow(e) /\ WrittenOk(e)
  <2>1. Peer(e) \in End
    BY Ends
  <2>2. Flow(e)
    <3> DEFINE len == Length(e)
    <3>1. /\ wire[Peer(e)] = z /\ got[Peer(e)] = z /\ Sent(e) = 0 /\ len \in Nat
      BY <1>3, <2>1
    <3>2. z = << >>
      BY <1>3, <1>4, Ends
    <3> HIDE DEF len
    <3>3. 0 + 0 <= 0 /\ 0 + 0 = 0 /\ 0 <= len
      BY <3>1
    <3> DEFINE isUp == link = "up"
               isGone == Gone(Peer(e))
    <3> HIDE DEF isUp, isGone
    <3>4. FlowOk(z, z, 0, len, isUp, isGone)
      BY <1>1, <3>2, <3>3 DEF FlowOk
    <3> QED  BY <3>1, <3>4 DEF Flow, len, isUp, isGone
  <2>3. at[e] = "start" /\ e \notin fin /\ "start" \notin Past(e)
    BY DEF StreamInit, Past
  <2> QED  BY <2>2, <2>3 DEF WrittenOk
<1>9. HandlerOk /\ NotConnected /\ EndMeansWhole
  BY <1>3, <1>4, Ends DEF StreamInit, HandlerOk, NotConnected, EndMeansWhole
<1> QED  BY <1>7, <1>8, <1>9 DEF StreamIInv

LEMMA StreamInvariance == StreamSpec => []StreamIInv
<1>1. StreamIInv /\ [StreamNext]_streamVars => StreamIInv'
  <2> SUFFICES ASSUME StreamIInv, [StreamNext]_streamVars PROVE StreamIInv'
    OBVIOUS
  <2>1. CASE UNCHANGED streamVars
    <3>1. \A e \in End : Flow(e)'
      BY <2>1, FlowStays DEF streamVars, Gone
    <3> QED  BY <2>1, <3>1, StreamFacts
             DEF streamVars, StreamIInv, StreamTyped, WrittenOk, Length, HandlerOk, NotConnected,
                 EndMeansWhole, Exchange
  <2>2. CASE StreamNext
    <3>1. CASE Client
      BY <3>1, ConnectKeeps, ControlKeeps, CallbacksKeep DEF Client
    <3>2. ASSUME NEW e \in End, Process(e) \/ Kill(e) PROVE StreamIInv'
      BY <3>2, ControlKeeps, WriteSomeKeeps, ReadSomeKeeps, GoesKeeps DEF Process
    <3> QED  BY <2>2, <3>1, <3>2, ControlKeeps, NetBreakKeeps DEF StreamNext
  <2> QED  BY <2>1, <2>2
<1> QED  BY <1>1, StreamInitGood, PTL DEF StreamSpec

\* BytesInOrder: bytes are neither lost, repeated nor reordered by loops and callbacks, for
\* buffers and pieces of every length (write_to_tcp_async.cpp:43, read_from_tcp_sync.cpp:50).
THEOREM BytesStayInOrder == StreamSpec => []BytesInOrder
<1>1. StreamIInv => BytesInOrder
  <2> SUFFICES ASSUME StreamIInv PROVE BytesInOrder
    OBVIOUS
  <2>1. StreamTypeOK
    <3>1. \A e \in End : total[e] \in 0 .. Length(e)
      BY StreamFacts
    <3>2. transferred \in 0 .. Length("client")
      <4>1. transferred \in Nat /\ total["client"] \in Nat /\ Sent("client") = total["client"] + transferred
        BY Ends, StreamFacts DEF StreamTyped, Sent
      <4> QED  BY <4>1, Ends, StreamFacts
    <3>3. at["client"] \in Places("client") /\ at["server"] \in Places("server")
      BY StreamFacts, Ends DEF StreamTyped
    <3> QED  BY <3>1, <3>2, <3>3, StreamFacts DEF StreamTypeOK, StreamTyped, Places
  <2>2. ASSUME NEW e \in End
        PROVE  LET stream == got[Peer(e)] \o wire[Peer(e)]
               IN /\ stream = [j \in 1 .. Len(stream) |-> j]
                  /\ Len(stream) <= Sent(e)
                  /\ link = "up" /\ ~Gone(Peer(e)) => Len(stream) = Sent(e)
    <3> DEFINE g == got[Peer(e)]
               w == wire[Peer(e)]
               stream == g \o w
    <3>1. g \in Seq(Nat) /\ w \in Seq(Nat) /\ Flow(e)
      BY StreamFacts, Ends
    <3>2. /\ Behind(g, 0) /\ Behind(w, Len(g)) /\ Len(g) + Len(w) <= Sent(e)
          /\ link = "up" /\ ~Gone(Peer(e)) => Len(g) + Len(w) = Sent(e)
      BY <3>1 DEF Flow, FlowOk
    <3> HIDE DEF g, w
    <3>3. Behind(w, 0 + Len(g))
      BY <3>1, <3>2, LenProperties
    <3>4. stream \in Seq(Nat) /\ Len(stream) = Len(g) + Len(w) /\ Behind(stream, 0)
      BY <3>1, <3>2, <3>3, BehindConcat
    <3> HIDE DEF stream
    <3>5. stream = [j \in 1 .. Len(stream) |-> stream[j]]
      BY <3>4, LenProperties
    <3>6. \A j \in 1 .. Len(stream) : stream[j] = j
      BY <3>4 DEF Behind
    <3>7. stream = [j \in 1 .. Len(stream) |-> j]
      BY <3>5, <3>6
    <3> QED  BY <3>2, <3>4, <3>7 DEF stream, g, w
  <2> QED  BY <2>1, <2>2 DEF BytesInOrder, Sent
<1> QED  BY <1>1, StreamInvariance, PTL

\* EndMeansWhole: the end of the stream is the end of the message, unless the other process
\* was killed (socket_shutdown_server.cpp:43, socket_shutdown_client.cpp:43).
THEOREM EndIsWhole == StreamSpec => []EndMeansWhole
<1>1. StreamIInv => EndMeansWhole
  BY DEF StreamIInv
<1> QED  BY <1>1, StreamInvariance, PTL

----------------------------------------------------------------------------
(* Nobody waits for ever                                                   *)

\* The process of e can take a step.
HasRoom(e) == Gone(Peer(e)) \/ Len(wire[Peer(e)]) < Window
GoesOn(e) == \/ at[e] \in {"handler", "shutdown", "finish"}
             \/ link = "broken" /\ at[e] \in {"write", "pending", "read"}
             \/ at[e] = "write" /\ Written(e)
             \/ at[e] \in {"write", "pending"} /\ total[e] < Length(e) /\ HasRoom(e)
             \/ at[e] = "read" /\ (Wants(e) = 0 \/ wire[e] # << >> \/ Peer(e) \in fin)

\* Once connected, a process that has not ended can go on, or its peer can.
NeverStuck == link # "none" => (\A e \in End : Gone(e)) \/ \E e \in End : GoesOn(e)

\* A client reads the response, and the server writes it, only after the client has
\* half-closed; nobody is at the start once they are connected; and a process that has
\* gone will send nothing more.
Phases ==
    /\ program # "reader" /\ at["client"] = "read" => "client" \in fin
    /\ program # "reader" /\ at["server"] \in {"write", "shutdown", "finish", "done"} => "client" \in fin
    /\ program = "reader" => /\ at["client"] \notin {"write", "pending", "handler", "shutdown"}
                             /\ at["server"] # "read"
    /\ link # "none" => \A e \in End : at[e] \notin {"start", "sleep", "accept"}
    /\ link = "up" => \A e \in End : Gone(e) => e \in fin
    /\ at["client"] = "pending" => total["client"] < Length("client")

\* What a step that moves one process needs: total, the program and the other stay.
LEMMA PhasesMove ==
  ASSUME StreamIInv, Phases, NEW e \in End, NEW l \in Places(e), Goto(e, l),
         program' = program, total' = total, link' \in {link, "broken"},
         link' # "none" => link # "none",
         fin \subseteq fin', e = "client" => l # "pending",
         program # "reader" /\ e = "client" /\ l = "read" => "client" \in fin',
         program # "reader" /\ e = "server" /\ l \in {"write", "shutdown", "finish", "done"} => "client" \in fin',
         program = "reader" => /\ e = "client" => l \notin {"write", "pending", "handler", "shutdown"}
                               /\ e = "server" => l # "read",
         link' # "none" => l \notin {"start", "sleep", "accept"},
         link' = "up" /\ l \in {"done", "thrown", "killed"} => e \in fin'
  PROVE  Phases'
<1>1. at' = [at EXCEPT ![e] = l] /\ at'[e] = l /\ \A x \in End : x # e => at'[x] = at[x]
  BY StreamFacts DEF Goto, StreamTyped
<1>2. program # "reader" /\ at'["client"] = "read" => "client" \in fin'
  BY <1>1, Ends DEF Phases
<1>3. program # "reader" /\ at'["server"] \in {"write", "shutdown", "finish", "done"} => "client" \in fin'
  BY <1>1, Ends DEF Phases
<1>4. program = "reader" => /\ at'["client"] \notin {"write", "pending", "handler", "shutdown"}
                            /\ at'["server"] # "read"
  BY <1>1, Ends DEF Phases
<1>5. link' # "none" => \A x \in End : at'[x] \notin {"start", "sleep", "accept"}
  BY <1>1 DEF Phases
<1>6. link' = "up" => \A x \in End : Gone(x)' => x \in fin'
  <2> SUFFICES ASSUME link' = "up", NEW x \in End, Gone(x)' PROVE x \in fin'
    OBVIOUS
  <2>1. link = "up"
    OBVIOUS
  <2>2. CASE x = e
    BY <1>1, <2>2 DEF Gone
  <2>3. CASE x # e
    BY <1>1, <2>1, <2>3 DEF Gone, Phases
  <2> QED  BY <2>2, <2>3
<1>7. at'["client"] = "pending" => total'["client"] < Length("client")
  BY <1>1, Ends DEF Phases
<1> QED  BY <1>2, <1>3, <1>4, <1>5, <1>6, <1>7 DEF Phases, Length

\* The steps that move no process.
LEMMA PhasesRest ==
  ASSUME StreamIInv, Phases, program' = program, at' = at, link' \in {link, "broken"}, fin' = fin,
         link' # "none" => link # "none",
         at["client"] = "pending" => total'["client"] = total["client"]
  PROVE  Phases'
<1>1. link' = "up" => link = "up"
  OBVIOUS
<1> QED  BY <1>1 DEF Phases, Gone, Length

LEMMA PhasesConnect == ASSUME StreamIInv, Phases, Connect PROVE Phases'
<1>1. /\ link = "none" /\ link' = "up"
      /\ at' = [client |-> FirstStep, server |-> IF program = "reader" THEN "write" ELSE "read"]
      /\ UNCHANGED <<program, wire, fin, total, transferred, got>>
  BY StreamFacts DEF Connect, NotConnected
<1>2. /\ FirstStep \in {"read", "pending", "write"} /\ (FirstStep = "read" <=> program = "reader")
      /\ total["client"] = 0 /\ 0 < Length("client")
  BY <1>1, StreamFacts, Ends, LengthAssumption DEF NotConnected, FirstStep, StreamTyped, Length
<1> HIDE DEF FirstStep
<1>3. at'["client"] = FirstStep /\ at'["server"] = IF program = "reader" THEN "write" ELSE "read"
  BY <1>1
<1>4. \A e \in End : at'[e] \in {"read", "pending", "write"}
  BY <1>2, <1>3, Ends
<1>5. (at'["client"] = "pending" => total'["client"] < Length("client")) /\ \A e \in End : ~Gone(e)'
  BY <1>1, <1>2, <1>4 DEF Gone
<1>6. /\ program' # "reader" /\ at'["client"] = "read" => "client" \in fin'
      /\ program' # "reader" => at'["server"] \notin {"write", "shutdown", "finish", "done"}
      /\ program' = "reader" => /\ at'["client"] \notin {"write", "pending", "handler", "shutdown"}
                                /\ at'["server"] # "read"
  BY <1>1, <1>2, <1>3
<1> QED  BY <1>4, <1>5, <1>6 DEF Phases, Length

LEMMA PhasesClient ==
  ASSUME StreamIInv, Phases, ServerListens \/ Refused \/ RetryConnect \/ ReadEnds \/ NetWrite
  PROVE  Phases'
<1>1. \A e \in End : at[e] \in {"start", "sleep", "accept"} => link = "none"
  BY StreamFacts DEF Phases, StreamTyped
<1>2. CASE ServerListens
  <2>1. /\ Goto("server", "accept") /\ link = "none" /\ "accept" \in Places("server")
        /\ UNCHANGED <<program, link, wire, fin, total, transferred, got>>
    BY <1>1, <1>2, Ends DEF ServerListens, Places
  <2> QED  BY <2>1, Ends, PhasesMove
<1>3. CASE Refused \/ RetryConnect
  <2>1. PICK l \in {"sleep", "thrown", "start"} :
          /\ Goto("client", l) /\ link = "none"
          /\ UNCHANGED <<program, link, wire, fin, total, transferred, got>>
    BY <1>1, <1>3, Ends DEF Refused, RetryConnect
  <2>2. l \in Places("client") /\ l \notin {"read", "pending", "write", "handler", "shutdown"}
    BY <2>1 DEF Places
  <2> QED  BY <2>1, <2>2, Ends, PhasesMove
<1>4. CASE ReadEnds
  <2>1. /\ Goto("client", "finish") /\ "finish" \in Places("client")
        /\ UNCHANGED <<program, link, wire, fin, total, transferred, got>>
    BY <1>4 DEF ReadEnds, Places
  <2> QED  BY <2>1, Ends, PhasesMove
<1>5. CASE NetWrite
  <2>1. /\ Goto("client", "handler") /\ "handler" \in Places("client") /\ at["client"] = "pending"
        /\ UNCHANGED <<program, link, fin, total, got>>
    BY <1>5 DEF NetWrite, Places
  <2>2. program # "reader"
    BY <2>1 DEF Phases
  <2> QED  BY <2>1, <2>2, Ends, PhasesMove
<1> QED  BY <1>2, <1>3, <1>4, <1>5

\* Callback starts another write only if there is something left to write.
LEMMA PhasesCallback == ASSUME StreamIInv, Phases, Callback PROVE Phases'
<1> DEFINE c == "client"
<1>1. /\ at[c] = "handler" /\ total' = [total EXCEPT ![c] = @ + transferred]
      /\ at' = [at EXCEPT ![c] = IF total'[c] = Length(c) THEN "finish" ELSE "pending"]
      /\ UNCHANGED <<program, link, wire, fin, got>>
  BY DEF Callback, Goto
<1>2. StreamTyped /\ total[c] \in Nat /\ Sent(c) <= Length(c) /\ Length(c) \in Nat /\ c \in End
  BY StreamFacts, Ends
<1>3. Sent(c) = total[c] + transferred /\ total'[c] = total[c] + transferred
  BY <1>1, <1>2 DEF Sent, StreamTyped
<1>4. total'[c] \in Nat /\ total'[c] <= Length(c)
  BY <1>2, <1>3 DEF StreamTyped
<1>5. /\ at'[c] \in {"finish", "pending"} /\ (at'[c] = "pending" => total'[c] # Length(c))
      /\ \A x \in End : x # c => at'[x] = at[x]
  BY <1>1, <1>2 DEF StreamTyped
<1>6. at'[c] = "pending" => total'[c] < Length(c)
  BY <1>2, <1>4, <1>5
<1>7. program # "reader" /\ at'["server"] = at["server"]
  BY <1>1, <1>5, Ends DEF Phases
<1>8. \A x \in End : /\ Gone(x)' => Gone(x)
                     /\ at'[x] \in {"start", "sleep", "accept"} => at[x] \in {"start", "sleep", "accept"}
  BY <1>5 DEF Gone
<1> QED  BY <1>1, <1>5, <1>6, <1>7, <1>8 DEF Phases, Length

LEMMA PhasesProcess ==
  ASSUME StreamIInv, Phases, NEW e \in End,
         WriteEnds(e) \/ ShutdownSend(e) \/ ReadEof(e) \/ Throws(e) \/ Finish(e) \/ Kill(e)
  PROVE  Phases'
<1>1. StreamTyped /\ NotConnected /\ (e = "client" \/ e = "server")
  BY StreamFacts, Ends
<1>2. CASE WriteEnds(e)
  <2>1. PICK l \in {"shutdown", "finish"} :
          /\ Goto(e, l) /\ at[e] = "write"
          /\ UNCHANGED <<program, link, wire, fin, total, transferred, got>>
    BY <1>2 DEF WriteEnds
  <2>2. l \in Places(e) /\ l \notin {"read", "pending", "write", "handler", "start", "sleep", "accept"}
    BY <2>1 DEF Places
  <2>3. program # "reader" /\ e = "server" => "client" \in fin
    BY <2>1 DEF Phases
  <2>4. program = "reader" => e # "client"
    BY <2>1 DEF Phases
  <2> QED  BY <2>1, <2>2, <2>3, <2>4, PhasesMove
<1>3. CASE ShutdownSend(e)
  <2>1. PICK l \in {"read", "finish"} :
          /\ Goto(e, l) /\ at[e] = "shutdown" /\ fin' = fin \cup {e} /\ link = "up"
          /\ (l = "read" <=> e = "client")
          /\ UNCHANGED <<program, link, wire, total, transferred, got>>
    BY <1>3 DEF ShutdownSend
  <2>2. l \in Places(e) /\ l \notin {"shutdown", "pending", "write", "handler", "start", "sleep", "accept"}
    BY <2>1 DEF Places
  <2>3. program # "reader" /\ e = "server" => "client" \in fin
    BY <2>1 DEF Phases
  <2> QED  BY <2>1, <2>2, <2>3, PhasesMove
<1>4. CASE ReadEof(e)
  <2>1. PICK l \in {"thrown", "write", "finish"} :
          /\ Goto(e, l) /\ at[e] = "read" /\ link = "up" /\ Peer(e) \in fin
          /\ (l = "thrown" <=> program = "reader") /\ (l = "write" => e = "server")
          /\ (l = "thrown" => fin' = fin \cup {e}) /\ (l # "thrown" => fin' = fin)
          /\ (e = "server" => l # "finish")
          /\ UNCHANGED <<program, link, wire, total, transferred, got>>
    <3>1. CASE program = "reader"
      <4>1. Goto(e, "thrown") /\ e # "server"
        BY <1>1, <1>4, <3>1 DEF ReadEof, Phases
      <4> QED  BY <1>4, <3>1, <4>1 DEF ReadEof
    <3>2. CASE program # "reader" /\ e = "server"
      <4>1. Goto(e, "write")
        BY <1>4, <3>2 DEF ReadEof
      <4> QED  BY <1>4, <3>2, <4>1 DEF ReadEof
    <3>3. CASE program # "reader" /\ e # "server"
      <4>1. Goto(e, "finish")
        BY <1>4, <3>3 DEF ReadEof
      <4> QED  BY <1>4, <3>3, <4>1 DEF ReadEof
    <3> QED  BY <3>1, <3>2, <3>3
  <2>2. l \in Places(e)
    BY <1>1, <2>1 DEF Places
  <2>3. e = "server" => "client" \in fin
    BY <2>1, Ends
  <2> QED  BY <1>1, <2>1, <2>2, <2>3, PhasesMove
<1>5. CASE Throws(e)
  <2>1. /\ Goto(e, "thrown") /\ link = "broken" /\ "thrown" \in Places(e)
        /\ UNCHANGED <<program, link, wire, fin, total, transferred, got>>
    BY <1>5 DEF Throws, Places
  <2> QED  BY <2>1, PhasesMove
<1>6. CASE Finish(e) \/ Kill(e)
  <2>1. PICK l \in {"done", "killed"} :
          /\ Goto(e, l) /\ fin' = fin \cup {e} /\ program' = program /\ total' = total
          /\ \/ link' = link
             \/ link' = "broken" /\ wire[e] # << >>
          /\ l = "done" => at[e] = "finish" \/ program = "reader"
    BY <1>6 DEF Finish, Kill, Close
  <2>2. link' \in {link, "broken"} /\ (link' # "none" => link # "none")
    BY <1>1, <2>1 DEF NotConnected
  <2>3. l \in Places(e)
    BY <2>1 DEF Places
  <2>4. program # "reader" /\ e = "server" /\ l = "done" => "client" \in fin
    BY <2>1 DEF Phases
  <2> QED  BY <2>1, <2>2, <2>3, <2>4, PhasesMove
<1> QED  BY <1>2, <1>3, <1>4, <1>5, <1>6

LEMMA PhasesStep == StreamIInv /\ Phases /\ [StreamNext]_streamVars => Phases'
<1> SUFFICES ASSUME StreamIInv, Phases, [StreamNext]_streamVars PROVE Phases'
  OBVIOUS
<1>1. CASE UNCHANGED streamVars
  BY <1>1, PhasesRest DEF streamVars
<1>2. CASE NetBreak
  BY <1>2, PhasesRest DEF NetBreak
<1>3. ASSUME NEW e \in End, WriteSome(e) PROVE Phases'
  <2>1. /\ at[e] = "write" /\ UNCHANGED <<program, at, link, fin, transferred, got>>
        /\ \E n : total' = [total EXCEPT ![e] = @ + n]
    BY <1>3 DEF WriteSome
  <2>2. at["client"] = "pending" => total'["client"] = total["client"]
    BY <2>1, StreamFacts, Ends DEF StreamTyped
  <2> QED  BY <2>1, <2>2, PhasesRest
<1>4. ASSUME NEW e \in End, ReadSome(e) PROVE Phases'
  BY <1>4, PhasesRest DEF ReadSome
<1>5. CASE Client
  BY <1>5, PhasesConnect, PhasesClient, PhasesCallback DEF Client
<1>6. ASSUME NEW e \in End, Process(e) \/ Kill(e) PROVE Phases'
  BY <1>3, <1>4, <1>6, PhasesProcess DEF Process
<1> QED  BY <1>1, <1>2, <1>5, <1>6, PhasesClient DEF StreamNext

LEMMA PhasesInit == StreamInit => Phases
<1> SUFFICES ASSUME StreamInit PROVE Phases
  OBVIOUS
<1>1. link = "none" /\ \A e \in End : at[e] = "start"
  BY DEF StreamInit
<1> QED  BY <1>1, Ends DEF Phases

\* Who cannot go on in a connection that is up waits for its peer: a writer for room, a
\* reader for bytes or for their end.
LEMMA WaitsFor ==
  ASSUME StreamIInv, Phases, link = "up", NEW e \in End, ~Gone(e), ~GoesOn(e)
  PROVE  /\ ~Gone(Peer(e)) /\ at[e] \in {"write", "pending", "read"}
         /\ at[e] # "read" => total[e] # Length(e) /\ wire[Peer(e)] # << >> /\ Len(wire[Peer(e)]) >= Window
         /\ at[e] = "read" => wire[e] = << >> /\ Peer(e) \notin fin
<1>1. StreamTyped /\ Peer(e) \in End /\ total[e] \in Nat /\ Length(e) \in Nat /\ total[e] <= Length(e)
  <2>1. total[e] \in Nat /\ Sent(e) \in Nat /\ Length(e) \in Nat /\ total[e] <= Sent(e) /\ Sent(e) <= Length(e)
    BY StreamFacts
  <2> QED  BY <2>1, StreamFacts, Ends
<1>2. at[e] \in {"write", "pending", "read"}
  <2>1. at[e] \notin {"start", "sleep", "accept"} /\ at[e] \in Places(e)
    BY <1>1 DEF Phases, StreamTyped
  <2> QED  BY <2>1 DEF GoesOn, Gone, Places
<1>3. CASE at[e] = "read"
  <2>1. wire[e] = << >> /\ Peer(e) \notin fin
    BY <1>3 DEF GoesOn
  <2>2. ~Gone(Peer(e))
    BY <1>1, <2>1 DEF Phases
  <2> QED  BY <1>3, <2>1, <2>2
<1>4. CASE at[e] # "read"
  <2>1. total[e] # Length(e)
    <3>1. CASE at[e] = "write"
      BY <3>1 DEF GoesOn, Written
    <3>2. CASE at[e] = "pending"
      <4>1. e = "client"
        BY <1>1, <3>2, Ends DEF StreamTyped, Places
      <4> QED  BY <1>1, <3>2, <4>1 DEF Phases
    <3> QED  BY <1>2, <1>4, <3>1, <3>2
  <2>2. total[e] < Length(e)
    BY <1>1, <2>1
  <2>3. ~HasRoom(e)
    BY <1>2, <1>4, <2>2 DEF GoesOn
  <2>4. Len(wire[Peer(e)]) \in Nat
    BY <1>1, LenProperties DEF StreamTyped
  <2>5. ~Gone(Peer(e)) /\ Len(wire[Peer(e)]) >= Window
    BY <2>3, <2>4, LengthAssumption DEF HasRoom
  <2>6. wire[Peer(e)] # << >>
    <3>1. Len(<< >>) = 0 /\ ~(0 >= Window)
      BY LengthAssumption
    <3> QED  BY <2>5, <3>1
  <2> QED  BY <1>2, <1>4, <2>1, <2>5, <2>6
<1> QED  BY <1>3, <1>4

\* What ExchangeEnds rests on, for buffers and windows of every length: of two connected
\* processes that have not both ended, one can go on.  Two writers do not fill both
\* windows, and two readers do not wait for each other's end of the stream
\* (socket_shutdown_client.cpp:32, socket_shutdown_server.cpp:26, write_to_tcp_sync.cpp:30).
THEOREM OneGoesOn == StreamSpec => []NeverStuck
<1>1. StreamIInv /\ Phases => NeverStuck
  <2> SUFFICES ASSUME StreamIInv, Phases, link # "none", NEW e \in End, ~Gone(e), \A x \in End : ~GoesOn(x)
               PROVE FALSE
    BY DEF NeverStuck
  <2>1. StreamTyped /\ Peer(e) \in End /\ Peer(Peer(e)) = e /\ ~Gone(e)
    BY StreamFacts, Ends
  <2>2. CASE link = "broken"
    <3>1. at[e] \notin {"start", "sleep", "accept"} /\ at[e] \in Places(e)
      BY <2>1 DEF Phases, StreamTyped
    <3> QED  BY <2>2, <3>1 DEF GoesOn, Gone, Places
  <2>3. CASE link = "up"
    <3>1. ~Gone(Peer(e))
      BY <2>3, WaitsFor
    <3>2. \A x \in End : ~Gone(x)
      BY <3>1, Ends
    <3>3. \A x \in End : /\ at[x] \in {"write", "pending", "read"}
                         /\ at[x] # "read" => total[x] # Length(x) /\ wire[Peer(x)] # << >>
                         /\ at[x] = "read" => wire[x] = << >> /\ Peer(x) \notin fin
      BY <2>3, <3>2, WaitsFor
    <3>4. at["client"] = "read" <=> at["server"] = "read"
      BY <3>3, Ends
    <3>5. CASE at["client"] = "read"
      <4>1. program # "reader" /\ "client" \notin fin
        BY <3>3, <3>4, <3>5, Ends DEF Phases
      <4> QED  BY <3>5, <4>1 DEF Phases
    <3>6. CASE at["client"] # "read"
      <4>1. at["client"] \in {"write", "pending"} /\ total["client"] # Length("client")
        BY <3>3, <3>6, Ends
      <4>2. at["server"] = "write"
        <5>1. at["server"] \in Places("server") /\ "pending" \notin Places("server")
          BY <2>1, Ends DEF StreamTyped, Places
        <5> QED  BY <3>3, <3>4, <3>6, <5>1, Ends
      <4>3. program # "reader" /\ "client" \in fin
        BY <4>1, <4>2 DEF Phases
      <4>4. WrittenOk("client")
        BY StreamFacts, Ends
      <4> QED  BY <4>1, <4>3, <4>4 DEF WrittenOk
    <3> QED  BY <3>5, <3>6
  <2> QED  BY <2>1, <2>2, <2>3 DEF StreamTyped
<1> QED  BY <1>1, PhasesInit, PhasesStep, StreamInvariance, PTL DEF StreamSpec

----------------------------------------------------------------------------
(**************************************************************************)
(* SimpleExample1                                                         *)
(**************************************************************************)

\* b are the ends of what was printed or is being printed (at s) and of the pieces whose
\* handlers are queued (the last at c).  A byte in the buffer is never earlier than the
\* one the handler should find there.
PiecesOk(b, q, s, c, buf) ==
    /\ b[1] = s
    /\ b[Len(q) + 1] = c
    /\ \A j \in 1 .. Len(q) : /\ b[j + 1] = b[j] + q[j]
                              /\ \A p \in 1 .. q[j] : b[j] + p <= buf[p]

Pieces(q, s, c, buf) == \E b \in [1 .. Len(q) + 1 -> 0 .. c] : PiecesOk(b, q, s, c, buf)

\* Bytes that a handler at the ix-th of ln bytes has still to print.
Rest(ln, ix) == IF ln > 0 THEN (ln - ix) + 1 ELSE 0

\* What a handler prints next, and what was printed, is not earlier than its place.
HandlersOk(q, pr, ln, ix, c, buf) ==
    /\ Pieces(q, Len(pr) + Rest(ln, ix), c, buf)
    /\ \A p \in 1 .. ln : ix <= p => Len(pr) + 1 + p <= buf[p] + ix
    /\ \A k \in 1 .. Len(pr) : k <= pr[k] /\ pr[k] <= c

ReadTyped ==
    /\ readPc \in {"connect", "grab", "write", "sleep", "join", "done", "terminated"}
    /\ thrContext \in {"runs", "returned"}
    /\ stopped \in BOOLEAN /\ closed \in BOOLEAN
    /\ arrived \in 0 .. MaxBytes /\ consumed \in 0 .. arrived
    /\ vBuffer \in [1 .. MaxBytes -> 0 .. consumed]
    /\ reads \in Nat /\ widest \in Nat
    /\ completed \in Seq(Nat) /\ printed \in Seq(Nat)
    /\ length \in 0 .. consumed /\ i \in 0 .. length
    /\ length > 0 => i > 0

\* Every read but the first was started by a byte that was printed.
ReadsOk ==
    /\ readPc \in {"connect", "grab", "terminated"} =>
           reads = 0 /\ completed = << >> /\ length = 0 /\ printed = << >>
    /\ reads + Len(completed) <= Len(printed) + 1

\* While no read brings two bytes there is one read, or one handler.
WidestOk ==
    /\ length <= widest
    /\ \A j \in 1 .. Len(completed) : completed[j] <= widest
    /\ widest <= 1 => /\ reads + Len(completed) + (IF length > 0 THEN 1 ELSE 0) <= 1
                      /\ \A k \in 1 .. Len(printed) : printed[k] = k

ReadIInv == /\ ReadTyped
            /\ ReadsOk
            /\ HandlersOk(completed, printed, length, i, consumed, vBuffer)
            /\ WidestOk

----------------------------------------------------------------------------
(* Pieces                                                                  *)

LEMMA PiecesBounds ==
  ASSUME NEW q \in Seq(Nat), NEW s, NEW c \in Nat, NEW buf, Pieces(q, s, c, buf)
  PROVE  /\ s \in Nat /\ s <= c
         /\ \A j \in 1 .. Len(q) : q[j] \in Nat /\ q[j] <= c
         /\ Len(q) = 0 => s = c
         /\ Len(q) = 1 => c = s + q[1]
<1> DEFINE l == Len(q)
<1>1. l \in Nat /\ \A j \in 1 .. l : q[j] \in Nat
  BY LenProperties, ElementOfSeq
<1>2. PICK b \in [1 .. l + 1 -> 0 .. c] : PiecesOk(b, q, s, c, buf)
  BY DEF Pieces
<1>3. /\ b[1] = s /\ b[l + 1] = c
      /\ \A j \in 1 .. l : b[j + 1] = b[j] + q[j]
  BY <1>2 DEF PiecesOk
<1> HIDE DEF l
<1>4. \A j \in 1 .. l + 1 : b[j] \in 0 .. c
  BY <1>1, <1>2
<1>5. 1 \in 1 .. l + 1 /\ s \in 0 .. c
  BY <1>1, <1>3, <1>4
<1>6. \A j \in 1 .. l : q[j] \in Nat /\ q[j] <= c
  <2> SUFFICES ASSUME NEW j \in 1 .. l PROVE q[j] \in Nat /\ q[j] <= c
    OBVIOUS
  <2>1. j \in 1 .. l + 1 /\ j + 1 \in 1 .. l + 1
    BY <1>1
  <2>2. b[j] \in 0 .. c /\ b[j + 1] \in 0 .. c /\ b[j + 1] = b[j] + q[j] /\ q[j] \in Nat
    BY <1>1, <1>3, <1>4, <2>1
  <2> QED  BY <2>2
<1>7. l = 0 => s = c
  BY <1>3
<1>8. l = 1 => c = s + q[1]
  <2> SUFFICES ASSUME l = 1 PROVE c = s + q[1]
    OBVIOUS
  <2>1. 1 \in 1 .. l /\ l + 1 = 1 + 1
    BY <1>1
  <2> QED  BY <1>3, <2>1
<1> QED  BY <1>5, <1>6, <1>7, <1>8 DEF l

LEMMA PiecesAppend ==
  ASSUME NEW q \in Seq(Nat), NEW s \in Nat, NEW c \in Nat, NEW n \in Nat, NEW buf, NEW buf2,
         Pieces(q, s, c, buf),
         \A p \in 1 .. n : buf2[p] = c + p,
         \A p \in 1 .. c : p > n => buf2[p] = buf[p]
  PROVE  Pieces(Append(q, n), s, c + n, buf2)
<1> DEFINE l == Len(q)
           t == Append(q, n)
<1>1. l \in Nat /\ \A j \in 1 .. l : q[j] \in Nat /\ q[j] <= c
  BY LenProperties, PiecesBounds
<1>2. Len(t) = l + 1 /\ t[l + 1] = n /\ \A j \in 1 .. l : t[j] = q[j]
  BY AppendProperties
<1>3. PICK b \in [1 .. l + 1 -> 0 .. c] : PiecesOk(b, q, s, c, buf)
  BY DEF Pieces
<1>4. /\ b[1] = s /\ b[l + 1] = c
      /\ \A j \in 1 .. l : b[j + 1] = b[j] + q[j] /\ \A p \in 1 .. q[j] : b[j] + p <= buf[p]
  BY <1>3 DEF PiecesOk
<1> HIDE DEF l, t
<1> DEFINE b2 == [k \in 1 .. l + 2 |-> IF k <= l + 1 THEN b[k] ELSE c + n]
<1>5. \A k \in 1 .. l + 1 : b2[k] = b[k] /\ b[k] \in 0 .. c
  BY <1>1, <1>3
<1>6. b2[l + 2] = c + n
  BY <1>1
<1>7. b2 \in [1 .. l + 2 -> 0 .. c + n]
  <2>1. \A k \in 1 .. l + 2 : (IF k <= l + 1 THEN b[k] ELSE c + n) \in 0 .. c + n
    <3> SUFFICES ASSUME NEW k \in 1 .. l + 2
                 PROVE (IF k <= l + 1 THEN b[k] ELSE c + n) \in 0 .. c + n
      OBVIOUS
    <3>1. CASE k <= l + 1
      BY <1>1, <1>5, <3>1
    <3>2. CASE ~(k <= l + 1)
      BY <3>2
    <3> QED  BY <3>1, <3>2
  <2> QED  BY <2>1
<1> HIDE DEF b2
<1>8. ASSUME NEW j \in 1 .. l + 1
      PROVE  b2[j + 1] = b2[j] + t[j] /\ \A p \in 1 .. t[j] : b2[j] + p <= buf2[p]
  <2>1. CASE j = l + 1
    <3>1. j + 1 = l + 2 /\ j \in 1 .. l + 1 /\ b2[j] = c /\ t[j] = n /\ b2[j + 1] = c + n
      BY <1>1, <1>2, <1>4, <1>5, <1>6, <2>1
    <3> QED  BY <3>1
  <2>2. CASE j # l + 1
    <3>1. j \in 1 .. l /\ j \in 1 .. l + 1 /\ j + 1 \in 1 .. l + 1
      BY <1>1, <2>2
    <3>2. /\ b2[j] = b[j] /\ b2[j + 1] = b[j + 1] /\ t[j] = q[j] /\ b[j + 1] = b[j] + q[j]
          /\ b[j] \in 0 .. c /\ q[j] \in Nat /\ q[j] <= c
          /\ \A p \in 1 .. q[j] : b[j] + p <= buf[p]
      BY <1>1, <1>2, <1>4, <1>5, <3>1
    <3>3. ASSUME NEW p \in 1 .. q[j] PROVE b[j] + p <= buf2[p]
      <4>1. CASE p <= n
        <5>1. buf2[p] = c + p
          BY <3>2, <4>1
        <5> QED  BY <3>2, <5>1
      <4>2. CASE ~(p <= n)
        <5>1. buf2[p] = buf[p] /\ b[j] + p <= buf[p]
          BY <3>2, <4>2
        <5> QED  BY <5>1
      <4> QED  BY <4>1, <4>2
    <3> QED  BY <3>2, <3>3
  <2> QED  BY <2>1, <2>2
<1>9. b2[1] = s
  BY <1>1, <1>4, <1>5
<1>10. (l + 1) + 1 = l + 2
  BY <1>1
<1>11. PiecesOk(b2, t, s, c + n, buf2)
  BY <1>2, <1>6, <1>8, <1>9, <1>10 DEF PiecesOk
<1> QED  BY <1>2, <1>7, <1>10, <1>11 DEF Pieces, t

LEMMA PiecesTail ==
  ASSUME NEW q \in Seq(Nat), NEW s \in Nat, NEW c \in Nat, NEW buf, q # << >>, Pieces(q, s, c, buf)
  PROVE  /\ Pieces(Tail(q), s + q[1], c, buf)
         /\ \A p \in 1 .. q[1] : s + p <= buf[p]
<1> DEFINE l == Len(q)
           t == Tail(q)
           m == l - 1
<1>1. l \in Nat /\ l > 0 /\ m \in Nat /\ l = m + 1
  BY LenProperties, EmptySeq
<1>2. Len(t) = m /\ \A j \in 1 .. m : t[j] = q[j + 1]
  BY HeadTailProperties
<1>3. PICK b \in [1 .. l + 1 -> 0 .. c] : PiecesOk(b, q, s, c, buf)
  BY DEF Pieces
<1>4. /\ b[1] = s /\ b[l + 1] = c
      /\ \A j \in 1 .. l : b[j + 1] = b[j] + q[j] /\ \A p \in 1 .. q[j] : b[j] + p <= buf[p]
  BY <1>3 DEF PiecesOk
<1> HIDE DEF l, t, m
<1> DEFINE b2 == [k \in 1 .. m + 1 |-> b[k + 1]]
<1>5. b2 \in [1 .. m + 1 -> 0 .. c] /\ \A k \in 1 .. m + 1 : b2[k] = b[k + 1]
  <2>1. \A k \in 1 .. m + 1 : k + 1 \in 1 .. l + 1
    BY <1>1
  <2> QED  BY <1>3, <2>1
<1> HIDE DEF b2
<1>6. b2[1] = s + q[1] /\ b2[m + 1] = c
  <2>1. 1 \in 1 .. l /\ 1 \in 1 .. m + 1 /\ m + 1 \in 1 .. m + 1 /\ (m + 1) + 1 = l + 1
    BY <1>1
  <2> QED  BY <1>4, <1>5, <2>1
<1>7. ASSUME NEW j \in 1 .. m
      PROVE  b2[j + 1] = b2[j] + t[j] /\ \A p \in 1 .. t[j] : b2[j] + p <= buf[p]
  <2>1. j + 1 \in 1 .. l /\ j \in 1 .. m + 1 /\ j + 1 \in 1 .. m + 1
    BY <1>1
  <2>2. b2[j] = b[j + 1] /\ b2[j + 1] = b[(j + 1) + 1] /\ t[j] = q[j + 1]
    BY <1>2, <1>5, <2>1
  <2> QED  BY <1>4, <2>1, <2>2
<1>8. PiecesOk(b2, t, s + q[1], c, buf)
  BY <1>2, <1>6, <1>7 DEF PiecesOk
<1>9. 1 \in 1 .. l
  BY <1>1
<1> QED  BY <1>2, <1>4, <1>5, <1>8, <1>9 DEF Pieces, t

----------------------------------------------------------------------------
(* A read, a handler                                                       *)

LEMMA HandlersFill ==
  ASSUME NEW q \in Seq(Nat), NEW pr \in Seq(Nat), NEW ln \in Nat, NEW ix \in 0 .. ln,
         NEW c \in Nat, NEW n \in Nat, NEW buf, NEW buf2,
         ln <= c, HandlersOk(q, pr, ln, ix, c, buf),
         \A p \in 1 .. n : buf2[p] = c + p,
         \A p \in 1 .. c : p > n => buf2[p] = buf[p]
  PROVE  HandlersOk(Append(q, n), pr, ln, ix, c + n, buf2)
<1> DEFINE r == Rest(ln, ix)
           l == Len(pr)
           s == l + r
<1>1. l \in Nat /\ r \in Nat /\ s \in Nat
  BY LenProperties DEF Rest
<1>2. /\ Pieces(q, s, c, buf)
      /\ \A p \in 1 .. ln : ix <= p => l + 1 + p <= buf[p] + ix
      /\ \A k \in 1 .. l : k <= pr[k] /\ pr[k] <= c
  BY DEF HandlersOk
<1>3. s <= c
  BY <1>2, PiecesBounds
<1>4. ASSUME NEW p \in 1 .. ln, ix <= p PROVE l + 1 + p <= buf2[p] + ix
  <2>1. CASE p <= n
    <3>1. buf2[p] = c + p
      BY <2>1
    <3>2. r = (ln - ix) + 1
      BY DEF Rest
    <3>3. l + ((ln - ix) + 1) <= c
      BY <1>3, <3>2
    <3> HIDE DEF l, r, s
    <3> QED  BY <1>1, <3>1, <3>3
  <2>2. CASE ~(p <= n)
    <3>1. p \in 1 .. c /\ buf2[p] = buf[p]
      BY <2>2
    <3> QED  BY <1>2, <1>4, <3>1
  <2> QED  BY <2>1, <2>2
<1> HIDE DEF s, l
<1>5. Pieces(Append(q, n), s, c + n, buf2)
  BY <1>1, <1>2, PiecesAppend
<1>6. \A k \in 1 .. l : k <= pr[k] /\ pr[k] <= c + n
  <2> SUFFICES ASSUME NEW k \in 1 .. l PROVE k <= pr[k] /\ pr[k] <= c + n
    OBVIOUS
  <2>1. pr[k] \in Nat
    BY ElementOfSeq DEF l
  <2> QED  BY <1>2, <2>1
<1> QED  BY <1>4, <1>5, <1>6 DEF HandlersOk, s, l

LEMMA FillKeeps ==
  ASSUME ReadTyped, NEW pr \in Seq(Nat), NEW ln \in Nat, NEW ix \in 0 .. ln, ln <= consumed,
         HandlersOk(completed, pr, ln, ix, consumed, vBuffer), Fill(arrived - consumed, completed)
  PROVE  /\ consumed' = arrived /\ vBuffer' \in [1 .. MaxBytes -> 0 .. arrived]
         /\ completed' \in Seq(Nat) /\ Len(completed') = Len(completed) + 1
         /\ widest' \in Nat /\ widest <= widest'
         /\ (\A j \in 1 .. Len(completed) : completed[j] <= widest)
              => \A j \in 1 .. Len(completed') : completed'[j] <= widest'
         /\ HandlersOk(completed', pr, ln, ix, arrived, vBuffer')
<1> DEFINE n == arrived - consumed
           l == Len(completed)
<1>1. /\ consumed \in Nat /\ arrived \in Nat /\ n \in Nat /\ consumed + n = arrived
      /\ arrived <= MaxBytes /\ widest \in Nat /\ completed \in Seq(Nat) /\ MaxBytes \in Nat
      /\ vBuffer \in [1 .. MaxBytes -> 0 .. consumed]
  BY BytesAssumption DEF ReadTyped
<1>2. /\ vBuffer' = [k \in 1 .. MaxBytes |-> IF k <= n THEN consumed + k ELSE vBuffer[k]]
      /\ consumed' = consumed + n
      /\ completed' = Append(completed, n)
      /\ widest' = IF n > widest THEN n ELSE widest
  BY DEF Fill
<1> HIDE DEF n
<1>3. \A k \in 1 .. MaxBytes : vBuffer[k] \in 0 .. consumed
  BY <1>1
<1>4. \A k \in 1 .. MaxBytes : (IF k <= n THEN consumed + k ELSE vBuffer[k]) \in 0 .. arrived
  <2> SUFFICES ASSUME NEW k \in 1 .. MaxBytes
               PROVE (IF k <= n THEN consumed + k ELSE vBuffer[k]) \in 0 .. arrived
    OBVIOUS
  <2>1. CASE k <= n
    BY <1>1, <2>1
  <2>2. CASE ~(k <= n)
    BY <1>1, <1>3, <2>2
  <2> QED  BY <2>1, <2>2
<1>5. vBuffer' \in [1 .. MaxBytes -> 0 .. arrived]
  BY <1>2, <1>4
<1>6. /\ \A p \in 1 .. n : vBuffer'[p] = consumed + p
      /\ \A p \in 1 .. consumed : p > n => vBuffer'[p] = vBuffer[p]
  <2>1. \A p \in 1 .. n : p \in 1 .. MaxBytes /\ p <= n
    BY <1>1
  <2>2. \A p \in 1 .. consumed : p \in 1 .. MaxBytes /\ (p > n => ~(p <= n))
    BY <1>1
  <2> QED  BY <1>2, <2>1, <2>2
<1> DEFINE buf2 == vBuffer'
           q2 == completed'
<1>7. HandlersOk(Append(completed, n), pr, ln, ix, consumed + n, buf2)
  <2> HIDE DEF buf2
  <2>1. /\ \A p \in 1 .. n : buf2[p] = consumed + p
        /\ \A p \in 1 .. consumed : p > n => buf2[p] = vBuffer[p]
    BY <1>6 DEF buf2
  <2> QED  BY <1>1, <2>1, HandlersFill
<1>8. /\ q2 \in Seq(Nat) /\ Len(q2) = l + 1 /\ q2[l + 1] = n
      /\ \A j \in 1 .. l : q2[j] = completed[j]
  BY <1>1, <1>2, AppendProperties
<1>9. widest' \in Nat /\ widest <= widest' /\ n <= widest'
  BY <1>1, <1>2
<1>10. ASSUME \A j \in 1 .. l : completed[j] <= widest, NEW j \in 1 .. l + 1
       PROVE  q2[j] <= widest'
  <2>1. l \in Nat
    BY <1>1, LenProperties
  <2>2. CASE j = l + 1
    BY <1>8, <1>9, <2>2
  <2>3. CASE j # l + 1
    <3>1. j \in 1 .. l
      BY <2>1, <2>3
    <3>2. completed[j] \in Nat /\ completed[j] <= widest /\ q2[j] = completed[j]
      BY <1>1, <1>8, <1>10, <3>1, ElementOfSeq
    <3> QED  BY <1>1, <1>9, <3>2
  <2> QED  BY <2>2, <2>3
<1> QED  BY <1>1, <1>2, <1>5, <1>7, <1>8, <1>9, <1>10

\* Whether or not the read completes at once, there is one more read or handler.
LEMMA GrabKeeps ==
  ASSUME ReadTyped, NEW pr \in Seq(Nat), NEW ln \in Nat, NEW ix \in 0 .. ln, ln <= consumed,
         HandlersOk(completed, pr, ln, ix, consumed, vBuffer), GrabSomeData,
         \A j \in 1 .. Len(completed) : completed[j] <= widest
  PROVE  /\ consumed' \in 0 .. arrived /\ vBuffer' \in [1 .. MaxBytes -> 0 .. consumed']
         /\ consumed <= consumed'
         /\ completed' \in Seq(Nat) /\ reads' \in Nat
         /\ reads' + Len(completed') = reads + Len(completed) + 1
         /\ widest' \in Nat /\ widest <= widest'
         /\ \A j \in 1 .. Len(completed') : completed'[j] <= widest'
         /\ HandlersOk(completed', pr, ln, ix, consumed', vBuffer')
<1>1. /\ consumed \in Nat /\ arrived \in Nat /\ consumed <= arrived /\ reads \in Nat
      /\ widest \in Nat /\ completed \in Seq(Nat) /\ Len(completed) \in Nat
      /\ consumed \in 0 .. arrived /\ arrived \in 0 .. arrived
      /\ vBuffer \in [1 .. MaxBytes -> 0 .. consumed]
  BY LenProperties DEF ReadTyped
<1>2. CASE reads = 0 /\ Readable
  <2>1. Fill(arrived - consumed, completed) /\ reads' = reads
    BY <1>2 DEF GrabSomeData
  <2>2. /\ consumed' = arrived /\ vBuffer' \in [1 .. MaxBytes -> 0 .. arrived]
        /\ completed' \in Seq(Nat) /\ Len(completed') = Len(completed) + 1
        /\ widest' \in Nat /\ widest <= widest'
        /\ \A j \in 1 .. Len(completed') : completed'[j] <= widest'
        /\ HandlersOk(completed', pr, ln, ix, arrived, vBuffer')
    BY <2>1, FillKeeps
  <2>3. reads' + Len(completed') = reads + Len(completed) + 1
    BY <1>1, <2>1, <2>2
  <2> QED  BY <1>1, <2>1, <2>2, <2>3
<1>3. CASE ~(reads = 0 /\ Readable)
  <2>1. reads' = reads + 1 /\ UNCHANGED <<consumed, vBuffer, completed, widest>>
    BY <1>3 DEF GrabSomeData
  <2> QED  BY <1>1, <2>1
<1> QED  BY <1>2, <1>3

\* A byte that is printed.
LEMMA PrintOne ==
  ASSUME ReadIInv, length > 0, NEW pr, NEW ln, NEW ix,
         pr = Append(printed, vBuffer[i]),
         ln = IF i = length THEN 0 ELSE length,
         ix = IF i = length THEN 0 ELSE i + 1
  PROVE  /\ pr \in Seq(Nat) /\ Len(pr) = Len(printed) + 1
         /\ ln \in 0 .. MaxBytes /\ ix \in 0 .. ln /\ (ln > 0 => ix > 0)
         /\ ln <= length /\ ln <= consumed
         /\ HandlersOk(completed, pr, ln, ix, consumed, vBuffer)
         /\ widest <= 1 => \A k \in 1 .. Len(pr) : pr[k] = k
<1> DEFINE l == Len(printed)
           s == l + Rest(length, i)
           byte == vBuffer[i]
<1>1. /\ i \in Nat /\ length \in Nat /\ 1 <= i /\ i <= length /\ length <= consumed
      /\ consumed <= MaxBytes /\ length <= MaxBytes
      /\ MaxBytes \in Nat /\ consumed \in Nat /\ printed \in Seq(Nat) /\ completed \in Seq(Nat)
      /\ l \in Nat /\ reads \in Nat /\ widest \in Nat /\ Len(completed) \in Nat
      /\ \A p \in 1 .. MaxBytes : vBuffer[p] \in 0 .. consumed
  BY BytesAssumption, LenProperties DEF ReadIInv, ReadTyped
<1>2. /\ Pieces(completed, s, consumed, vBuffer)
      /\ \A p \in 1 .. length : i <= p => l + 1 + p <= vBuffer[p] + i
      /\ \A k \in 1 .. l : k <= printed[k] /\ printed[k] <= consumed
  BY DEF ReadIInv, HandlersOk
<1>3. Rest(length, i) = (length - i) + 1
  BY DEF Rest
<1>4. i \in 1 .. MaxBytes /\ byte \in 0 .. consumed
  BY <1>1
<1>5. byte \in Nat /\ l + 1 <= byte /\ byte <= consumed
  <2>1. l + 1 + i <= byte + i
    BY <1>1, <1>2
  <2> HIDE DEF byte, l
  <2> QED  BY <1>1, <1>4, <2>1
<1>6. s \in Nat /\ s = l + ((length - i) + 1)
  BY <1>1, <1>3
<1> HIDE DEF byte, l, s
<1>7. pr \in Seq(Nat) /\ Len(pr) = l + 1 /\ pr[l + 1] = byte /\ \A k \in 1 .. l : pr[k] = printed[k]
  BY <1>1, <1>5, AppendProperties DEF byte, l
<1>8. s <= consumed
  BY <1>1, <1>2, PiecesBounds
<1>9. /\ ln \in 0 .. MaxBytes /\ ix \in 0 .. ln /\ (ln > 0 => ix > 0) /\ ln <= length
  BY <1>1
<1>10. ln <= consumed
  BY <1>1, <1>9
<1>11. Len(pr) + Rest(ln, ix) = s
  BY <1>1, <1>6, <1>7 DEF Rest
<1>12. ASSUME NEW p \in 1 .. ln, ix <= p PROVE Len(pr) + 1 + p <= vBuffer[p] + ix
  <2>1. i # length /\ ix = i + 1 /\ ln = length /\ p \in 1 .. length /\ i <= p /\ p \in 1 .. MaxBytes
    BY <1>1, <1>12
  <2>2. l + 1 + p <= vBuffer[p] + i /\ vBuffer[p] \in Nat
    BY <1>1, <1>2, <2>1
  <2> QED  BY <1>1, <1>7, <2>1, <2>2
<1>13. ASSUME NEW k \in 1 .. l + 1 PROVE k <= pr[k] /\ pr[k] <= consumed
  <2>1. CASE k = l + 1
    BY <1>5, <1>7, <2>1
  <2>2. CASE k # l + 1
    <3>1. k \in 1 .. l
      BY <1>1, <2>2
    <3> QED  BY <1>2, <1>7, <3>1
  <2> QED  BY <2>1, <2>2
<1>14. HandlersOk(completed, pr, ln, ix, consumed, vBuffer)
  BY <1>2, <1>7, <1>11, <1>12, <1>13 DEF HandlersOk
<1>15. ASSUME widest <= 1, NEW k \in 1 .. l + 1 PROVE pr[k] = k
  <2>1. /\ length <= 1 /\ reads + Len(completed) + 1 <= 1
        /\ \A j \in 1 .. l : printed[j] = j
    BY <1>1, <1>15 DEF ReadIInv, WidestOk, l
  <2>2. Len(completed) = 0 /\ length = 1 /\ i = 1
    BY <1>1, <2>1
  <2>3. s = consumed
    BY <1>1, <1>2, <2>2, PiecesBounds
  <2>4. byte = l + 1
    BY <1>1, <1>5, <1>6, <2>2, <2>3
  <2>5. CASE k = l + 1
    BY <1>7, <2>4, <2>5
  <2>6. CASE k # l + 1
    <3>1. k \in 1 .. l
      BY <1>1, <2>6
    <3> QED  BY <1>7, <2>1, <3>1
  <2> QED  BY <2>5, <2>6
<1> QED  BY <1>7, <1>9, <1>10, <1>14, <1>15 DEF l

----------------------------------------------------------------------------
(* The actions                                                             *)

LEMMA NetReadKeeps == ASSUME ReadIInv, NetRead PROVE ReadIInv'
<1>1. ReadTyped /\ ReadsOk /\ HandlersOk(completed, printed, length, i, consumed, vBuffer) /\ WidestOk
  BY DEF ReadIInv
<1>2. /\ reads > 0 /\ length = 0 /\ reads' = reads - 1 /\ Fill(arrived - consumed, completed)
      /\ UNCHANGED <<readPc, stopped, thrContext, closed, arrived, length, i, printed>>
  BY DEF NetRead
<1>3. /\ printed \in Seq(Nat) /\ length \in Nat /\ i \in 0 .. length /\ length <= consumed
      /\ reads \in Nat /\ arrived \in 0 .. MaxBytes /\ consumed \in 0 .. arrived /\ widest \in Nat
      /\ Len(completed) \in Nat /\ Len(printed) \in Nat
  BY <1>1, LenProperties DEF ReadTyped
<1>4. /\ consumed' = arrived /\ vBuffer' \in [1 .. MaxBytes -> 0 .. arrived]
      /\ completed' \in Seq(Nat) /\ Len(completed') = Len(completed) + 1
      /\ widest' \in Nat /\ widest <= widest'
      /\ \A j \in 1 .. Len(completed') : completed'[j] <= widest'
      /\ HandlersOk(completed', printed, length, i, arrived, vBuffer')
  BY <1>1, <1>2, <1>3, FillKeeps DEF WidestOk
<1>5. reads' \in Nat /\ reads' + Len(completed') = reads + Len(completed)
  BY <1>2, <1>3, <1>4
<1>6. ReadTyped'
  <2>1. consumed' \in 0 .. arrived' /\ length' \in 0 .. consumed'
    BY <1>2, <1>3, <1>4
  <2> QED  BY <1>1, <1>2, <1>4, <1>5, <2>1 DEF ReadTyped
<1>7. ReadsOk'
  <2>1. ~(readPc \in {"connect", "grab", "terminated"})
    BY <1>1, <1>2 DEF ReadsOk
  <2> QED  BY <1>1, <1>2, <1>5, <2>1 DEF ReadsOk
<1>8. WidestOk'
  <2>1. length' <= widest' /\ (widest' <= 1 => widest <= 1)
    BY <1>2, <1>3, <1>4
  <2> QED  BY <1>1, <1>2, <1>3, <1>4, <1>5, <2>1 DEF WidestOk
<1> QED  BY <1>2, <1>4, <1>6, <1>7, <1>8 DEF ReadIInv

LEMMA HandlerBeginKeeps == ASSUME ReadIInv, HandlerBegin PROVE ReadIInv'
<1> DEFINE l == Len(printed)
           h == completed[1]
           t == Tail(completed)
<1>1. ReadTyped /\ ReadsOk /\ HandlersOk(completed, printed, length, i, consumed, vBuffer) /\ WidestOk
  BY DEF ReadIInv
<1>2. /\ length = 0 /\ completed # << >> /\ length' = h /\ i' = (IF h = 0 THEN 0 ELSE 1)
      /\ completed' = t
      /\ UNCHANGED <<readPc, stopped, thrContext, closed, arrived, consumed, vBuffer, reads,
                     printed, widest>>
  BY DEF HandlerBegin
<1>3. /\ completed \in Seq(Nat) /\ consumed \in Nat /\ l \in Nat /\ reads \in Nat /\ widest \in Nat
      /\ arrived \in 0 .. MaxBytes /\ consumed \in 0 .. arrived
      /\ Len(completed) \in Nat
  BY <1>1, LenProperties DEF ReadTyped
<1>4. 1 \in 1 .. Len(completed)
  BY <1>2, <1>3, EmptySeq
<1>5. /\ Pieces(completed, l, consumed, vBuffer)
      /\ \A k \in 1 .. l : k <= printed[k] /\ printed[k] <= consumed
  <2>1. l + Rest(length, i) = l
    BY <1>2, <1>3 DEF Rest
  <2> QED  BY <1>1, <2>1 DEF HandlersOk
<1>6. h \in Nat /\ h <= consumed /\ h <= widest
  BY <1>1, <1>3, <1>4, <1>5, PiecesBounds DEF WidestOk
<1>7. /\ Pieces(t, l + h, consumed, vBuffer)
      /\ \A p \in 1 .. h : l + p <= vBuffer[p]
  BY <1>2, <1>3, <1>5, PiecesTail
<1>8. t \in Seq(Nat) /\ Len(t) = Len(completed) - 1 /\ \A j \in 1 .. Len(t) : t[j] = completed[j + 1]
  BY <1>2, <1>3, HeadTailProperties
<1>9. HandlersOk(completed', printed', length', i', consumed', vBuffer')
  <2>1. l + Rest(length', i') = l + h
    BY <1>2, <1>3, <1>6 DEF Rest
  <2>2. \A p \in 1 .. h : (IF h = 0 THEN 0 ELSE 1) <= p => l + 1 + p <= vBuffer[p] + (IF h = 0 THEN 0 ELSE 1)
    <3> SUFFICES ASSUME NEW p \in 1 .. h PROVE l + 1 + p <= vBuffer[p] + (IF h = 0 THEN 0 ELSE 1)
      OBVIOUS
    <3>1. l + p <= vBuffer[p]
      BY <1>7
    <3> HIDE DEF l, h
    <3>2. h # 0 /\ p \in 1 .. MaxBytes
      BY <1>3, <1>6, BytesAssumption
    <3>3. vBuffer[p] \in 0 .. consumed
      BY <1>1, <3>2 DEF ReadTyped
    <3> QED  BY <1>3, <1>6, <3>1, <3>2, <3>3
  <2> QED  BY <1>2, <1>5, <1>7, <2>1, <2>2 DEF HandlersOk
<1>10. ReadTyped'
  <2>1. length' \in 0 .. consumed' /\ i' \in 0 .. length' /\ (length' > 0 => i' > 0)
    BY <1>2, <1>3, <1>6
  <2> QED  BY <1>1, <1>2, <1>8, <2>1 DEF ReadTyped
<1>11. ReadsOk'
  <2>1. ~(readPc \in {"connect", "grab", "terminated"})
    BY <1>1, <1>2 DEF ReadsOk
  <2>2. reads + Len(t) <= l + 1
    BY <1>1, <1>3, <1>8 DEF ReadsOk
  <2> QED  BY <1>2, <2>1, <2>2 DEF ReadsOk
<1>12. WidestOk'
  <2>1. \A j \in 1 .. Len(t) : t[j] <= widest
    <3> SUFFICES ASSUME NEW j \in 1 .. Len(t) PROVE t[j] <= widest
      OBVIOUS
    <3>1. j + 1 \in 1 .. Len(completed) /\ t[j] = completed[j + 1]
      BY <1>3, <1>8
    <3> QED  BY <1>1, <3>1 DEF WidestOk
  <2>2. widest <= 1 => /\ reads + Len(t) + (IF h > 0 THEN 1 ELSE 0) <= 1
                       /\ \A k \in 1 .. l : printed[k] = k
    <3> SUFFICES ASSUME widest <= 1
                 PROVE  /\ reads + Len(t) + (IF h > 0 THEN 1 ELSE 0) <= 1
                        /\ \A k \in 1 .. l : printed[k] = k
      OBVIOUS
    <3>1. reads + Len(completed) + 0 <= 1 /\ \A k \in 1 .. l : printed[k] = k
      BY <1>1, <1>2 DEF WidestOk
    <3> QED  BY <1>3, <1>8, <3>1
  <2> QED  BY <1>2, <1>6, <2>1, <2>2 DEF WidestOk
<1> QED  BY <1>9, <1>10, <1>11, <1>12 DEF ReadIInv

LEMMA PrintNextKeeps == ASSUME ReadIInv, PrintNext PROVE ReadIInv'
<1> DEFINE pr == Append(printed, vBuffer[i])
           ln == IF i = length THEN 0 ELSE length
           ix == IF i = length THEN 0 ELSE i + 1
<1>1. ReadTyped /\ ReadsOk /\ HandlersOk(completed, printed, length, i, consumed, vBuffer) /\ WidestOk
  BY DEF ReadIInv
<1>2. /\ length > 0 /\ GrabSomeData /\ printed' = pr /\ length' = ln /\ i' = ix
      /\ UNCHANGED <<readPc, stopped, thrContext, closed, arrived>>
  BY DEF PrintNext
<1> HIDE DEF pr, ln, ix
<1>3. /\ reads \in Nat /\ widest \in Nat /\ Len(completed) \in Nat /\ Len(printed) \in Nat
      /\ length \in Nat /\ arrived \in 0 .. MaxBytes /\ consumed \in 0 .. arrived
  BY <1>1, LenProperties DEF ReadTyped
<1>4. /\ pr \in Seq(Nat) /\ Len(pr) = Len(printed) + 1
      /\ ln \in 0 .. MaxBytes /\ ix \in 0 .. ln /\ (ln > 0 => ix > 0)
      /\ ln <= length /\ ln <= consumed
      /\ HandlersOk(completed, pr, ln, ix, consumed, vBuffer)
      /\ widest <= 1 => \A k \in 1 .. Len(pr) : pr[k] = k
  BY <1>2, PrintOne DEF pr, ln, ix
<1>5. ln \in Nat
  BY <1>4
<1>6. /\ consumed' \in 0 .. arrived /\ vBuffer' \in [1 .. MaxBytes -> 0 .. consumed']
      /\ consumed <= consumed'
      /\ completed' \in Seq(Nat) /\ reads' \in Nat
      /\ reads' + Len(completed') = reads + Len(completed) + 1
      /\ widest' \in Nat /\ widest <= widest'
      /\ \A j \in 1 .. Len(completed') : completed'[j] <= widest'
      /\ HandlersOk(completed', pr, ln, ix, consumed', vBuffer')
  BY <1>1, <1>2, <1>4, <1>5, GrabKeeps DEF WidestOk
<1>7. ReadTyped'
  <2>1. length' \in 0 .. consumed' /\ i' \in 0 .. length' /\ (length' > 0 => i' > 0)
    BY <1>2, <1>3, <1>4, <1>5, <1>6
  <2> QED  BY <1>1, <1>2, <1>4, <1>6, <2>1 DEF ReadTyped
<1>8. ReadsOk'
  <2>1. ~(readPc \in {"connect", "grab", "terminated"})
    BY <1>1, <1>2 DEF ReadsOk
  <2>2. reads' + Len(completed') <= Len(pr) + 1
    BY <1>1, <1>3, <1>4, <1>6 DEF ReadsOk
  <2> QED  BY <1>2, <2>1, <2>2 DEF ReadsOk
<1>9. WidestOk'
  <2>1. length' <= widest'
    BY <1>1, <1>2, <1>3, <1>4, <1>5, <1>6 DEF WidestOk
  <2>2. ASSUME widest' <= 1
        PROVE  /\ reads' + Len(completed') + (IF ln > 0 THEN 1 ELSE 0) <= 1
               /\ \A k \in 1 .. Len(pr) : pr[k] = k
    <3>1. widest <= 1
      BY <1>3, <1>6, <2>2
    <3>2. length <= 1 /\ reads + Len(completed) + 1 <= 1
      BY <1>1, <1>2, <1>3, <3>1 DEF WidestOk
    <3>3. length = 1 /\ i = 1
      BY <1>1, <1>2, <1>3, <3>2 DEF ReadTyped
    <3>4. ln = 0
      BY <3>3 DEF ln
    <3>5. reads' + Len(completed') <= 1
      BY <1>3, <1>6, <3>2
    <3>6. reads' + Len(completed') \in Nat
      BY <1>3, <1>6
    <3> QED  BY <1>4, <3>1, <3>4, <3>5, <3>6
  <2> QED  BY <1>2, <1>6, <2>1, <2>2 DEF WidestOk
<1> QED  BY <1>2, <1>6, <1>7, <1>8, <1>9 DEF ReadIInv

LEMMA FirstGrabKeeps == ASSUME ReadIInv, FirstGrab PROVE ReadIInv'
<1>1. ReadTyped /\ ReadsOk /\ HandlersOk(completed, printed, length, i, consumed, vBuffer) /\ WidestOk
  BY DEF ReadIInv
<1>2. /\ readPc = "grab" /\ readPc' = "write" /\ GrabSomeData
      /\ UNCHANGED <<stopped, thrContext, closed, arrived, length, i, printed>>
  BY DEF FirstGrab
<1>3. reads = 0 /\ completed = << >> /\ length = 0 /\ printed = << >>
  BY <1>1, <1>2 DEF ReadsOk
<1>4. /\ arrived \in 0 .. MaxBytes /\ consumed \in 0 .. arrived /\ widest \in Nat
      /\ printed \in Seq(Nat) /\ Len(printed) = 0 /\ Len(completed) = 0
      /\ length \in Nat /\ i \in 0 .. length /\ length <= consumed
  BY <1>1, <1>3, EmptySeq DEF ReadTyped
<1>5. /\ consumed' \in 0 .. arrived /\ vBuffer' \in [1 .. MaxBytes -> 0 .. consumed']
      /\ consumed <= consumed'
      /\ completed' \in Seq(Nat) /\ reads' \in Nat
      /\ reads' + Len(completed') = reads + Len(completed) + 1
      /\ widest' \in Nat /\ widest <= widest'
      /\ \A j \in 1 .. Len(completed') : completed'[j] <= widest'
      /\ HandlersOk(completed', printed, length, i, consumed', vBuffer')
  BY <1>1, <1>2, <1>4, GrabKeeps DEF WidestOk
<1>6. ReadTyped'
  <2>1. length' \in 0 .. consumed'
    BY <1>2, <1>3, <1>5
  <2> QED  BY <1>1, <1>2, <1>5, <2>1 DEF ReadTyped
<1>7. reads' + Len(completed') = 1
  BY <1>3, <1>4, <1>5
<1>8. ReadsOk'
  BY <1>2, <1>4, <1>7 DEF ReadsOk
<1>9. WidestOk'
  BY <1>2, <1>3, <1>4, <1>5, <1>7 DEF WidestOk
<1> QED  BY <1>2, <1>5, <1>6, <1>8, <1>9 DEF ReadIInv

\* The steps that start no read and run no handler.
LEMMA OthersKeep ==
  ASSUME ReadIInv, UNCHANGED <<length, i, printed, reading>>,
         arrived' \in 0 .. MaxBytes, arrived <= arrived', closed' \in BOOLEAN, stopped' \in BOOLEAN,
         thrContext' \in {"runs", "returned"},
         readPc' \in {"connect", "grab", "write", "sleep", "join", "done", "terminated"},
         readPc' \in {"connect", "grab", "terminated"} => readPc \in {"connect", "grab", "terminated"}
  PROVE  ReadIInv'
<1>1. ReadTyped /\ ReadsOk /\ HandlersOk(completed, printed, length, i, consumed, vBuffer) /\ WidestOk
  BY DEF ReadIInv
<1>2. UNCHANGED <<length, i, printed, consumed, vBuffer, reads, completed, widest>>
  BY DEF reading
<1>3. consumed' \in 0 .. arrived'
  BY <1>1, <1>2 DEF ReadTyped
<1>4. ReadTyped'
  BY <1>1, <1>2, <1>3 DEF ReadTyped
<1> QED  BY <1>1, <1>2, <1>4 DEF ReadIInv, ReadsOk, WidestOk

LEMMA ReadInitGood == ReadInit => ReadIInv
<1> SUFFICES ASSUME ReadInit PROVE ReadIInv
  OBVIOUS
<1> DEFINE z == << >>
           b == [k \in 1 .. 1 |-> 0]
<1>1. z \in Seq(Nat) /\ Len(z) = 0 /\ completed = z /\ printed = z
  BY DEF ReadInit
<1>2. b \in [1 .. 0 + 1 -> 0 .. 0] /\ b[1] = 0 /\ 0 + 1 = 1 /\ MaxBytes \in Nat
  BY BytesAssumption
<1>3. completed = << >> /\ printed = << >> /\ length = 0 /\ reads = 0 /\ widest = 0 /\ i = 0
  BY DEF ReadInit
<1> HIDE DEF z, b
<1>4. Pieces(z, 0, 0, vBuffer)
  <2>1. PiecesOk(b, z, 0, 0, vBuffer)
    BY <1>1, <1>2 DEF PiecesOk
  <2> QED  BY <1>1, <1>2, <2>1 DEF Pieces
<1>5. HandlersOk(z, z, 0, 0, 0, vBuffer)
  <2>1. Len(z) + Rest(0, 0) = 0
    BY <1>1 DEF Rest
  <2> QED  BY <1>1, <1>4, <2>1 DEF HandlersOk
<1>6. ReadTyped
  <2>1. vBuffer \in [1 .. MaxBytes -> 0 .. 0]
    BY DEF ReadInit
  <2>2. arrived = 0 /\ consumed = 0 /\ 0 \in 0 .. MaxBytes /\ 0 \in 0 .. 0 /\ ~(0 > 0)
    BY <1>2 DEF ReadInit
  <2>3. /\ readPc = "connect" /\ thrContext = "runs" /\ stopped = FALSE /\ closed = FALSE
    BY DEF ReadInit
  <2> QED  BY <1>1, <1>3, <2>1, <2>2, <2>3 DEF ReadTyped
<1>7. ReadsOk /\ WidestOk
  BY <1>1, <1>3 DEF ReadsOk, WidestOk
<1>8. consumed = 0
  BY DEF ReadInit
<1> QED  BY <1>1, <1>3, <1>5, <1>6, <1>7, <1>8 DEF ReadIInv

----------------------------------------------------------------------------
\* PrintedAsRead: however reads overlap in the one buffer (simple_example1.cpp:34), and
\* whenever the context is stopped, no byte is lost or added, none is printed in the place of
\* a later one, and each is in its own place while every read brings one byte.
THEOREM NoByteLost == ReadSpec => []PrintedAsRead
<1>1. ReadIInv /\ [ReadNext]_readVars => ReadIInv'
  <2> SUFFICES ASSUME ReadIInv, [ReadNext]_readVars PROVE ReadIInv'
    OBVIOUS
  <2>1. ReadTyped /\ arrived \in Nat /\ arrived <= arrived /\ MaxBytes \in Nat
    BY BytesAssumption DEF ReadIInv, ReadTyped
  <2>2. CASE UNCHANGED readVars
    BY <2>1, <2>2, OthersKeep DEF readVars, reading, ReadTyped
  <2>3. CASE Context
    <3>1. CASE ThreadEnds
      BY <2>1, <3>1, OthersKeep DEF ThreadEnds, ReadTyped
    <3> QED  BY <2>3, <3>1, NetReadKeeps, HandlerBeginKeeps, PrintNextKeeps DEF Context
  <2>4. CASE FirstGrab
    BY <2>4, FirstGrabKeeps
  <2>5. CASE ConnectSocket
    BY <2>1, <2>5, OthersKeep DEF ConnectSocket, ReadTyped
  <2>6. CASE WriteRequest \/ StopContext \/ JoinContext
    BY <2>1, <2>6, OthersKeep DEF WriteRequest, StopContext, JoinContext, ReadTyped
  <2>7. CASE Arrives
    <3>1. arrived' \in 0 .. MaxBytes /\ arrived <= arrived'
      BY <2>1, <2>7 DEF Arrives, ReadTyped
    <3> QED  BY <2>1, <2>7, <3>1, OthersKeep DEF Arrives, ReadTyped
  <2> QED  BY <2>2, <2>3, <2>4, <2>5, <2>6, <2>7 DEF ReadNext
<1>2. ReadIInv => PrintedAsRead
  <2> SUFFICES ASSUME ReadIInv PROVE PrintedAsRead
    OBVIOUS
  <2> DEFINE l == Len(printed)
             s == l + Rest(length, i)
  <2>1. ReadTyped /\ ReadsOk /\ WidestOk
    BY DEF ReadIInv
  <2>2. /\ Pieces(completed, s, consumed, vBuffer)
        /\ \A k \in 1 .. l : k <= printed[k] /\ printed[k] <= consumed
    BY DEF ReadIInv, HandlersOk
  <2>3. /\ completed \in Seq(Nat) /\ consumed \in Nat /\ MaxBytes \in Nat /\ printed \in Seq(Nat)
        /\ arrived \in 0 .. MaxBytes /\ consumed \in 0 .. arrived /\ l \in Nat
        /\ length \in 0 .. consumed /\ i \in 0 .. length /\ reads \in Nat /\ Len(completed) \in Nat
        /\ vBuffer \in [1 .. MaxBytes -> 0 .. consumed]
    BY <2>1, BytesAssumption, LenProperties DEF ReadTyped
  <2>4. Rest(length, i) \in Nat
    BY <2>3 DEF Rest
  <2>5. s <= consumed
    BY <2>2, <2>3, PiecesBounds
  <2>6. \A k \in 1 .. l : printed[k] \in Nat /\ k \in Nat
    BY <2>3, ElementOfSeq
  <2>7. DOMAIN printed = 1 .. l
    BY <2>3, LenProperties
  <2>8. l <= consumed
    <3> HIDE DEF l
    <3> QED  BY <2>3, <2>4, <2>5
  <2>9. ReadTypeOK
    <3>1. reads \in 0 .. MaxBytes + 1 /\ l <= MaxBytes
      <4>1. reads + Len(completed) <= l + 1
        BY <2>1 DEF ReadsOk
      <4> HIDE DEF l
      <4> QED  BY <2>3, <2>8, <4>1
    <3>2. length \in 0 .. MaxBytes /\ consumed <= arrived /\ arrived <= MaxBytes
      BY <2>3
    <3>3. vBuffer \in [1 .. MaxBytes -> 0 .. MaxBytes]
      <4>1. \A p \in 1 .. MaxBytes : vBuffer[p] \in 0 .. MaxBytes
        BY <2>3
      <4> QED  BY <2>3, <4>1
    <3> QED  BY <2>1, <2>3, <3>1, <3>2, <3>3 DEF ReadTypeOK, ReadTyped
  <2>10. \A k \in DOMAIN printed : printed[k] \in k .. consumed
    <3> SUFFICES ASSUME NEW k \in 1 .. l PROVE printed[k] \in k .. consumed
      BY <2>7
    <3>1. printed[k] \in Nat /\ k <= printed[k] /\ printed[k] <= consumed
      BY <2>2, <2>6
    <3> QED  BY <2>3, <3>1
  <2>11. widest <= 1 => \A k \in DOMAIN printed : printed[k] = k
    BY <2>1, <2>7 DEF WidestOk
  <2>12. completed = << >> /\ length = 0 => l = consumed
    <3> SUFFICES ASSUME completed = << >>, length = 0 PROVE l = consumed
      OBVIOUS
    <3>1. Len(completed) = 0 /\ Rest(length, i) = 0
      BY <2>3, EmptySeq DEF Rest
    <3>2. s = consumed
      BY <2>2, <2>3, <3>1, PiecesBounds
    <3> QED  BY <2>3, <3>1, <3>2
  <2> QED  BY <2>9, <2>10, <2>11, <2>12 DEF PrintedAsRead
<1> QED  BY <1>1, <1>2, ReadInitGood, PTL DEF ReadSpec
============================================================================
