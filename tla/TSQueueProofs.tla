--------------------------- MODULE TSQueueProofs ---------------------------
(***************************************************************************)
(* Proofs about TSQueue for every set of producers and every bound: types,  *)
(* who owns the two mutexes, the absence of a circular wait, the safety of  *)
(* pop_front, and that the locked deque implements FifoQueue.               *)
(***************************************************************************)
EXTENDS TSQueue, TLAPS

\* A mutex is owned by exactly the thread whose program counter is inside its
\* critical section.  NoCircularWait is not inductive without this.
MuxQueueOwned ==
    \A p \in Producers : pc[p] \in {"emplaced", "notify", "unlock"} <=> muxQueue = p
MuxBlockingOwned ==
    /\ \A p \in Producers : pc[p] = "notify" <=> muxBlocking = p
    /\ pc[Consumer] \in {"wait_cv", "wait_unlock"} <=> muxBlocking = Consumer

\* Producers and the consumer run different code.
PCsApart == /\ \A p \in Producers : pc[p] \in ProducerPCs
            /\ pc[Consumer] \in ConsumerPCs

\* Update has counted less than nMaxMessages once its loop condition held.
CountBelow == pc[Consumer] \in {"pop", "handle"} => nMessageCount < NMaxMessages

\* Only a thread inside wait() is woken by a notification.
SleeperInCv == cvBlocking # {} => pc[Consumer] = "asleep"

\* The inductive invariant of the queue.
IInv == /\ TypeOK
        /\ PCsApart
        /\ CountBelow
        /\ SleeperInCv
        /\ MuxQueueOwned
        /\ MuxBlockingOwned
        /\ PopHasMessage
----------------------------------------------------------------------------
\* The inductive invariant holds when the threads start.
LEMMA InitIInv == Init => IInv
  BY ThreadsAssumption, BoundsAssumption
  DEF Init, IInv, TypeOK, Threads, ProducerPCs, ConsumerPCs, PCsApart, CountBelow,
      SleeperInCv, MuxQueueOwned, MuxBlockingOwned, PopHasMessage

\* Every step of push_back keeps the inductive invariant.
LEMMA PushIInv ==
  ASSUME IInv, NEW p \in Producers, PushEmplace(p) \/ PushStep(p)
  PROVE  IInv'
<1> USE ThreadsAssumption, BoundsAssumption
    DEF IInv, TypeOK, Threads, ProducerPCs, ConsumerPCs, PCsApart, CountBelow,
        SleeperInCv, MuxQueueOwned, MuxBlockingOwned, PopHasMessage
<1>1. CASE PushEmplace(p)
  <2>1. <<p, pushes[p] + 1>> \in Message
    BY <1>1 DEF PushEmplace, Message
  <2>2. deqQueue' \in Seq(Message) /\ deqQueue' # << >>
    BY <2>1, <1>1 DEF PushEmplace
  <2> QED  BY <2>2, <1>1 DEF PushEmplace, Goto
<1>2. CASE PushLockBlocking(p)
  BY <1>2 DEF PushLockBlocking, Goto
<1>3. CASE PushNotify(p)
  <2>1. CASE cvBlocking = {}
    BY <1>3, <2>1 DEF PushNotify
  <2>2. CASE cvBlocking # {}
    <3>1. /\ pc[Consumer] = "asleep"
          /\ cvBlocking = {Consumer}
          /\ cvBlocking' = {}
          /\ pc' = [pc EXCEPT ![p] = "unlock", ![Consumer] = "woken"]
      BY <1>3, <2>2 DEF PushNotify
    <3>2. UNCHANGED <<deqQueue, muxQueue, pushes, nMessageCount, received>>
      BY <1>3, <2>2 DEF PushNotify
    <3>3. muxBlocking' = NoThread /\ muxBlocking = p
      BY <1>3, <2>2 DEF PushNotify
    <3>4. pc[p] = "notify"
      BY <1>3 DEF PushNotify
    <3>5. TypeOK'
      BY <3>1, <3>2, <3>3, <3>4
    <3>6. PCsApart' /\ CountBelow' /\ SleeperInCv'
      BY <3>1, <3>2, <3>3, <3>4
    <3>7. MuxQueueOwned' /\ MuxBlockingOwned' /\ PopHasMessage'
      BY <3>1, <3>2, <3>3, <3>4
    <3> QED  BY <3>5, <3>6, <3>7
  <2> QED  BY <2>1, <2>2
<1>4. CASE PushUnlock(p)
  BY <1>4 DEF PushUnlock, Goto
<1> QED  BY <1>1, <1>2, <1>3, <1>4 DEF PushStep

\* Every step of the consumer, in wait() or in the loop of Update, keeps it.
LEMMA ConsumerIInv ==
  ASSUME IInv, ConsumerStep \/ SpuriousWakeup
  PROVE  IInv'
<1> USE ThreadsAssumption, BoundsAssumption
    DEF IInv, TypeOK, Threads, ProducerPCs, ConsumerPCs, PCsApart, CountBelow,
        SleeperInCv, MuxQueueOwned, MuxBlockingOwned, PopHasMessage, Goto
<1>1. CASE Update
  BY <1>1 DEF Update, UpdateStarts
<1>2. CASE WaitEmpty
  BY <1>2 DEF WaitEmpty
<1>3. CASE WaitLock
  BY <1>3 DEF WaitLock
<1>4. CASE WaitSleep
  BY <1>4 DEF WaitSleep
<1>5. CASE WaitRelock
  BY <1>5 DEF WaitRelock
<1>6. CASE WaitUnlock
  BY <1>6 DEF WaitUnlock
<1>7. CASE DrainTest
  BY <1>7 DEF DrainTest
<1>8. CASE PopFront
  <2>1. Head(deqQueue) \in Message /\ Tail(deqQueue) \in Seq(Message)
    BY <1>8 DEF PopFront
  <2>2. received' \in Seq(Message) /\ deqQueue' \in Seq(Message)
    BY <2>1, <1>8 DEF PopFront
  <2> QED  BY <2>2, <1>8 DEF PopFront
<1>9. CASE Handle
  BY <1>9 DEF Handle
<1>10. CASE SpuriousWakeup
  BY <1>10 DEF SpuriousWakeup
<1> QED  BY <1>1, <1>2, <1>3, <1>4, <1>5, <1>6, <1>7, <1>8, <1>9, <1>10
         DEF ConsumerStep

\* The inductive invariant is an invariant of the queue.
LEMMA Inductive == Spec => []IInv
<1>1. IInv /\ UNCHANGED vars => IInv'
  BY DEF IInv, vars, TypeOK, PCsApart, CountBelow, SleeperInCv, MuxQueueOwned,
         MuxBlockingOwned, PopHasMessage
<1>2. IInv /\ [Next]_vars => IInv'
  BY <1>1, PushIInv, ConsumerIInv DEF Next
<1> QED  BY InitIInv, <1>2, PTL DEF Spec
----------------------------------------------------------------------------
\* Every variable stays in its range in every step of push_back and of Update.
THEOREM TypeCorrect == Spec => []TypeOK
<1>1. IInv => TypeOK
  BY DEF IInv
<1> QED  BY <1>1, Inductive, PTL

\* push_back takes muxBlocking while it holds muxQueue; wait() never takes
\* muxQueue while it holds muxBlocking, so the two cannot block each other.
THEOREM LocksInOrder == Spec => []NoCircularWait
<1>1. IInv => NoCircularWait
  BY DEF IInv, MuxBlockingOwned, NoCircularWait
<1> QED  BY <1>1, Inductive, PTL

\* Whatever the producers do, pop_front finds a message: with one consumer the
\* gap between empty() and pop_front is harmless.
THEOREM PopIsDefined == Spec => []PopHasMessage
<1>1. IInv => PopHasMessage
  BY DEF IInv
<1> QED  BY <1>1, Inductive, PTL

\* The locked queue implements the abstract one: only PushEmplace and PopFront
\* change what FifoQueue can see, and they are its Put and its Take.
THEOREM ImplementsFifo == Spec => FifoSpec
<1>1. Init => Fifo!Init
  BY DEF Init, Fifo!Init
<1>2. ASSUME IInv, [Next]_vars PROVE [Fifo!Next]_(Fifo!vars)
  <2> USE DEF Fifo!vars
  <2>1. ASSUME NEW p \in Producers, PushEmplace(p) PROVE Fifo!Next
    <3>1. <<p, pushes[p] + 1>> \in Message
      BY <1>2, <2>1, BoundsAssumption DEF PushEmplace, Message, IInv, TypeOK
    <3>2. Fifo!Put(<<p, pushes[p] + 1>>)
      BY <2>1 DEF PushEmplace, Fifo!Put
    <3> QED  BY <3>1, <3>2 DEF Fifo!Next
  <2>2. ASSUME NEW p \in Producers, PushStep(p) PROVE UNCHANGED Fifo!vars
    BY <2>2 DEF PushStep, PushLockBlocking, PushNotify, PushUnlock
  <2>3. CASE PopFront
    BY <2>3 DEF PopFront, Fifo!Next, Fifo!Take
  <2>4. CASE ConsumerStep /\ ~PopFront
    BY <2>4 DEF ConsumerStep, Update, WaitEmpty, WaitLock, WaitSleep, WaitRelock,
                WaitUnlock, DrainTest, Handle
  <2>5. CASE SpuriousWakeup \/ UNCHANGED vars
    BY <2>5 DEF SpuriousWakeup, vars
  <2> QED  BY <1>2, <2>1, <2>2, <2>3, <2>4, <2>5 DEF Next
<1> QED  BY <1>1, <1>2, Inductive, PTL DEF Spec, FifoSpec, Fifo!Spec
============================================================================
