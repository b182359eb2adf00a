------------------------------ MODULE TSQueue ------------------------------
(***************************************************************************)
(* tsqueue<T> of net_tsqueue.h between the threads that use one as the      *)
(* incoming queue of a server or a client: producers (the asio threads, in  *)
(* AddToIncomingMessageQueue) call push_back, one consumer (the main        *)
(* thread) runs the loop of server_interface::Update.                       *)
(*                                                                         *)
(* A critical section that takes and releases muxQueue around one access    *)
(* is a single step, enabled while the mutex is free: nothing but           *)
(* push_back ever holds muxQueue across a step that another thread sees.    *)
(***************************************************************************)
EXTENDS Naturals, Sequences

CONSTANTS Producers,     \* threads that call push_back
          Consumer,      \* the one thread that calls Update
          NoThread,      \* owner of a free mutex
          MaxPushes,     \* bound: calls of push_back per producer
          NMaxMessages,  \* argument nMaxMessages of Update
          BWait          \* arguments bWait of the calls of Update

ASSUME ThreadsAssumption == /\ Consumer \notin Producers
                            /\ NoThread \notin Producers \cup {Consumer}
ASSUME BoundsAssumption == /\ MaxPushes \in Nat
                           /\ NMaxMessages \in Nat \ {0}
                           /\ BWait \subseteq BOOLEAN

VARIABLES muxQueue,      \* thread that owns the mutex, or NoThread
          muxBlocking,   \* likewise
          deqQueue,
          cvBlocking,    \* threads blocked in cvBlocking.wait
          pc,            \* [thread -> where it stands]
          nMessageCount, \* local of Update
          pushes,        \* [producer -> calls of push_back it has made]
          received       \* history: what pop_front returned, in order

vars == <<muxQueue, muxBlocking, deqQueue, cvBlocking, pc, nMessageCount,
          pushes, received>>

Threads == Producers \cup {Consumer}

\* The k-th message of producer p; what it carries does not matter here.
Message == Producers \X (1 .. MaxPushes)

ProducerPCs == {"idle", "emplaced", "notify", "unlock"}
ConsumerPCs == {"update", "wait_empty", "wait_lock", "wait_cv", "asleep",
                "woken", "wait_unlock", "drain", "pop", "handle"}

Goto(t, from, to) == /\ pc[t] = from
                     /\ pc' = [pc EXCEPT ![t] = to]

\* Where a call of Update starts: it waits first only when bWait is set.
UpdateStarts == {IF bWait THEN "wait_empty" ELSE "drain" : bWait \in BWait}

Init == /\ muxQueue = NoThread
        /\ muxBlocking = NoThread
        /\ deqQueue = << >>
        /\ cvBlocking = {}
        /\ pc = [t \in Threads |-> IF t = Consumer THEN "update" ELSE "idle"]
        /\ nMessageCount = 0
        /\ pushes = [p \in Producers |-> 0]
        /\ received = << >>
----------------------------------------------------------------------------
(* push_back                                                               *)

\* scoped_lock on muxQueue, then emplace_back.
PushEmplace(p) ==
    /\ muxQueue = NoThread
    /\ pushes[p] < MaxPushes
    /\ Goto(p, "idle", "emplaced")
    /\ muxQueue' = p
    /\ pushes' = [pushes EXCEPT ![p] = @ + 1]
    /\ deqQueue' = Append(deqQueue, <<p, pushes[p] + 1>>)
    /\ UNCHANGED <<muxBlocking, cvBlocking, nMessageCount, received>>

\* unique_lock on muxBlocking, muxQueue still held.
PushLockBlocking(p) ==
    /\ muxBlocking = NoThread
    /\ Goto(p, "emplaced", "notify")
    /\ muxBlocking' = p
    /\ UNCHANGED <<muxQueue, deqQueue, cvBlocking, nMessageCount, pushes, received>>

\* Mutant of PushNotify: nobody is notified.
MutPushNotifyNobody(p) ==
    /\ Goto(p, "notify", "unlock")
    /\ muxBlocking' = NoThread
    /\ UNCHANGED <<muxQueue, deqQueue, cvBlocking, nMessageCount, pushes, received>>

\* notify_one, then the destructor of ul releases muxBlocking.
PushNotify(p) ==
    /\ pc[p] = "notify"
    /\ muxBlocking' = NoThread
    /\ \/ /\ cvBlocking = {}
          /\ pc' = [pc EXCEPT ![p] = "unlock"]
          /\ UNCHANGED cvBlocking
       \/ \E w \in cvBlocking :
             /\ cvBlocking' = cvBlocking \ {w}
             /\ pc' = [pc EXCEPT ![p] = "unlock", ![w] = "woken"]
    /\ UNCHANGED <<muxQueue, deqQueue, nMessageCount, pushes, received>>

\* The destructor of lock releases muxQueue.
PushUnlock(p) ==
    /\ Goto(p, "unlock", "idle")
    /\ muxQueue' = NoThread
    /\ UNCHANGED <<muxBlocking, deqQueue, cvBlocking, nMessageCount, pushes, received>>

\* A call of push_back that has begun goes on by itself.
PushStep(p) == PushLockBlocking(p) \/ PushNotify(p) \/ PushUnlock(p)
----------------------------------------------------------------------------
(* Update and the wait() it calls                                          *)

\* Mutant of Update: the count is not reset, as if it were a member.
MutUpdateKeepsCount ==
    /\ \E start \in UpdateStarts : Goto(Consumer, "update", start)
    /\ UNCHANGED <<muxQueue, muxBlocking, deqQueue, cvBlocking, nMessageCount,
                   pushes, received>>

Update ==
    /\ \E start \in UpdateStarts : Goto(Consumer, "update", start)
    /\ nMessageCount' = 0
    /\ UNCHANGED <<muxQueue, muxBlocking, deqQueue, cvBlocking, pushes, received>>

\* while (empty()): muxQueue is taken and released again.
WaitEmpty ==
    /\ muxQueue = NoThread
    /\ Goto(Consumer, "wait_empty", IF deqQueue = << >> THEN "wait_lock" ELSE "drain")
    /\ UNCHANGED <<muxQueue, muxBlocking, deqQueue, cvBlocking, nMessageCount,
                   pushes, received>>

WaitLock ==
    /\ muxBlocking = NoThread
    /\ Goto(Consumer, "wait_lock", "wait_cv")
    /\ muxBlocking' = Consumer
    /\ UNCHANGED <<muxQueue, deqQueue, cvBlocking, nMessageCount, pushes, received>>

\* cvBlocking.wait(ul) has no predicate: it releases muxBlocking and sleeps.
WaitSleep ==
    /\ Goto(Consumer, "wait_cv", "asleep")
    /\ muxBlocking' = NoThread
    /\ cvBlocking' = cvBlocking \cup {Consumer}
    /\ UNCHANGED <<muxQueue, deqQueue, nMessageCount, pushes, received>>

\* std::condition_variable may wake up without a notification.
SpuriousWakeup ==
    /\ Goto(Consumer, "asleep", "woken")
    /\ cvBlocking' = cvBlocking \ {Consumer}
    /\ UNCHANGED <<muxQueue, muxBlocking, deqQueue, nMessageCount, pushes, received>>

\* wait() returns with muxBlocking taken again ...
WaitRelock ==
    /\ muxBlocking = NoThread
    /\ Goto(Consumer, "woken", "wait_unlock")
    /\ muxBlocking' = Consumer
    /\ UNCHANGED <<muxQueue, deqQueue, cvBlocking, nMessageCount, pushes, received>>

\* Mutant of WaitUnlock: the unique_lock is declared outside the loop.
MutWaitUnlockHoisted ==
    /\ Goto(Consumer, "wait_unlock", "wait_empty")
    /\ UNCHANGED <<muxQueue, muxBlocking, deqQueue, cvBlocking, nMessageCount,
                   pushes, received>>

\* ... and the end of the loop body releases it before empty() is called.
WaitUnlock ==
    /\ Goto(Consumer, "wait_unlock", "wait_empty")
    /\ muxBlocking' = NoThread
    /\ UNCHANGED <<muxQueue, deqQueue, cvBlocking, nMessageCount, pushes, received>>

\* Mutant of DrainTest: empty() is not asked again.
MutDrainTestNoEmpty ==
    /\ Goto(Consumer, "drain", IF nMessageCount < NMaxMessages THEN "pop" ELSE "update")
    /\ UNCHANGED <<muxQueue, muxBlocking, deqQueue, cvBlocking, nMessageCount,
                   pushes, received>>

\* while (nMessageCount < nMaxMessages && !empty()): Update returns, and is
\* called again by the main loop, when the condition is false.
DrainTest ==
    /\ \/ /\ nMessageCount < NMaxMessages
          /\ muxQueue = NoThread
          /\ Goto(Consumer, "drain", IF deqQueue = << >> THEN "update" ELSE "pop")
       \/ /\ nMessageCount >= NMaxMessages
          /\ Goto(Consumer, "drain", "update")
    /\ UNCHANGED <<muxQueue, muxBlocking, deqQueue, cvBlocking, nMessageCount,
                   pushes, received>>

\* Mutant of PopFront: pop_back is called instead.
MutPopFrontFromBack ==
    /\ muxQueue = NoThread
    /\ Goto(Consumer, "pop", "handle")
    /\ deqQueue # << >>
    /\ received' = Append(received, deqQueue[Len(deqQueue)])
    /\ deqQueue' = SubSeq(deqQueue, 1, Len(deqQueue) - 1)
    /\ UNCHANGED <<muxQueue, muxBlocking, cvBlocking, nMessageCount, pushes>>

\* pop_front: undefined on an empty deque, see PopHasMessage.
PopFront ==
    /\ muxQueue = NoThread
    /\ Goto(Consumer, "pop", "handle")
    /\ deqQueue # << >>
    /\ received' = Append(received, Head(deqQueue))
    /\ deqQueue' = Tail(deqQueue)
    /\ UNCHANGED <<muxQueue, muxBlocking, cvBlocking, nMessageCount, pushes>>

\* OnMessage, whatever the application does in it.
Handle ==
    /\ Goto(Consumer, "handle", "drain")
    /\ nMessageCount' = nMessageCount + 1
    /\ UNCHANGED <<muxQueue, muxBlocking, deqQueue, cvBlocking, pushes, received>>

ConsumerStep == \/ Update \/ WaitEmpty \/ WaitLock \/ WaitSleep \/ WaitRelock
                \/ WaitUnlock \/ DrainTest \/ PopFront \/ Handle

Next == \/ \E p \in Producers : PushEmplace(p) \/ PushStep(p)
        \/ ConsumerStep
        \/ SpuriousWakeup

Spec == Init /\ [][Next]_vars

\* A thread that can run does run.  Nobody has to call push_back, and a
\* condition variable need never wake up by itself.
Fairness == /\ \A p \in Producers : WF_vars(PushStep(p))
            /\ WF_vars(ConsumerStep)

FairSpec == Spec /\ Fairness
----------------------------------------------------------------------------
(* Properties                                                              *)

\* Every variable stays in its range; the count of Update never passes the
\* bound it was given (net_server.h, Update).
TypeOK == /\ muxQueue \in Threads \cup {NoThread}
          /\ muxBlocking \in Threads \cup {NoThread}
          /\ deqQueue \in Seq(Message)
          /\ cvBlocking \in SUBSET {Consumer}
          /\ pc \in [Threads -> ProducerPCs \cup ConsumerPCs]
          /\ nMessageCount \in 0 .. NMaxMessages
          /\ pushes \in [Producers -> 0 .. MaxPushes]
          /\ received \in Seq(Message)

\* The two mutexes are never waited for in a circle: while a producer inside
\* push_back holds muxQueue and wants muxBlocking, the consumer does not hold
\* muxBlocking and want muxQueue (in wait(), empty() takes muxQueue, and a
\* unique_lock held around it would close the circle).
NoCircularWait ==
    \A p \in Producers :
        pc[p] = "emplaced" =>
            ~(muxBlocking = Consumer /\ pc[Consumer] \in {"wait_empty", "drain", "pop"})

\* pop_front, which is undefined on an empty deque, is only reached with a
\* message there, although Update releases muxQueue between empty() and it.
PopHasMessage == pc[Consumer] = "pop" => deqQueue # << >>

\* The locks and the condition variable implement a queue: what the consumer
\* receives is what was pushed, each message once and in order.
Fifo == INSTANCE FifoQueue WITH queue <- deqQueue, taken <- received
FifoSpec == Fifo!Spec

Elements(s) == {s[i] : i \in DOMAIN s}

\* A message in the incoming queue is passed to OnMessage sooner or later, or
\* finds the consumer asleep: whatever the calls of Update are, none leaves a
\* message behind because of its bound or of what it has counted.
HandledOrAsleep ==
    \A m \in Message : (m \in Elements(deqQueue))
                           ~> (m \in Elements(received) \/ pc[Consumer] = "asleep")

\* A consumer that is asleep in wait() when a message is pushed is woken by
\* that push and goes on until it has seen the queue empty.
PushWakesConsumer ==
    \A p \in Producers :
        (pc[Consumer] = "asleep" /\ pc[p] = "emplaced") ~> (deqQueue = << >>)

\* "Force server to respond to incoming messages" (net_server.h:187): a message
\* in the incoming queue is passed to OnMessage sooner or later, asleep or not.
EveryMessageHandled ==
    \A m \in Message : (m \in Elements(deqQueue)) ~> (m \in Elements(received))
============================================================================
