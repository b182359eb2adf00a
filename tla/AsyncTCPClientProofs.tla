------------------------ MODULE AsyncTCPClientProofs ------------------------
(***************************************************************************)
(* Safety of AsyncTCPClient for every number of requests, pool threads and   *)
(* calls of CancelRequest.                                                   *)
(***************************************************************************)
EXTENDS AsyncTCPClient, TLAPS

\* A request that has begun is in exactly one place: an operation, a handler
\* that some thread runs, or behind its callback.
OnePlace ==
    /\ \A t \in IoThreads : ioPc[t] = "idle" <=> ioReq[t] = NoRequest
    /\ \A t, u \in IoThreads : ioReq[t] = ioReq[u] /\ ioReq[t] # NoRequest => t = u
    /\ \A t \in IoThreads : ioReq[t] # NoRequest =>
            /\ kind[ioReq[t]] # "none"
            /\ opState[ioReq[t]] = "none"
            /\ callbacks[ioReq[t]] = 0
    /\ \A r \in Requests : opState[r] # "none" => callbacks[r] = 0
    /\ \A r \in Requests : kind[r] = "none" => opState[r] = "none" /\ callbacks[r] = 0
NotLost ==
    \A r \in Requests : kind[r] # "none" =>
        \/ opState[r] # "none"
        \/ \E t \in IoThreads : ioReq[t] = r
        \/ callbacks[r] = 1

\* What the map of active sessions holds.
Active ==
    /\ \A r \in m_active_sessions : kind[r] # "none" /\ callbacks[r] = 0
    /\ \A t \in IoThreads : ioPc[t] = "callback" => ioReq[t] \notin m_active_sessions
    /\ uiPc = "cancel" => uiReq \in m_active_sessions /\ m_active_sessions_guard = UI
    /\ \A r \in Requests : m_was_canceled[r] => kind[r] # "none"

\* Who owns m_cancel_guard runs a handler of that request; if it is about to start
\* an operation it has seen the flag unset, if it is on its way to the callback, set.
Guarded ==
    \A t \in IoThreads :
        /\ ioPc[t] \in {"check", "start"} => kind[ioReq[t]] \in {"connect", "write"}
        /\ ioPc[t] = "start" => /\ m_cancel_guard[ioReq[t]] = t
                                /\ ~m_was_canceled[ioReq[t]]
        /\ \A r \in Requests : m_cancel_guard[r] = t =>
                /\ ioReq[t] = r
                /\ ioPc[t] \in {"start", "complete", "callback"}
                /\ ioPc[t] # "start" => m_was_canceled[r]

Reported ==
    \A r \in Requests : /\ callbacks[r] = 0 => reported[r] = "none"
                        /\ m_was_canceled[r] => reported[r] # "ok"

\* Once a thread has left run(), nothing is left to do and nothing will come.
Drained ==
    /\ uiPc \in {"idle", "cancel"} => m_work = TRUE
    /\ uiPc = "closed" => exited = IoThreads
    /\ exited # {} => /\ uiPc \in {"join", "closed"}
                      /\ \A r \in Requests : opState[r] = "none"
                      /\ \A t \in IoThreads : ioPc[t] = "idle"

\* A composed operation is between two transfers only after a first one.
Transfers ==
    /\ \A r \in Requests : opState[r] = "partial" => partials[r] > 0
    /\ CancelledIsNotWaiting

\* The inductive invariant of the client.
IInv == /\ TypeOK /\ OnePlace /\ NotLost /\ Active /\ Guarded
        /\ Reported /\ Drained /\ Transfers
----------------------------------------------------------------------------
\* The inductive invariant holds when the client has been constructed.
LEMMA InitIInv == Init => IInv
  BY ThreadsAssumption, BoundsAssumption
  DEF Init, IInv, TypeOK, OnePlace, NotLost, Active, Guarded, Reported, Drained,
      Transfers, CancelledIsNotWaiting, Sessions,
      Codes, Kinds, OpStates, IoPCs

\* The UI thread keeps it.
LEMMA UIIInv == ASSUME IInv, UIStep PROVE IInv'
<1> USE ThreadsAssumption, BoundsAssumption
    DEF IInv, TypeOK, OnePlace, NotLost, Active, Guarded, Reported, Drained,
      Transfers, CancelledIsNotWaiting, Sessions,
        Codes, Kinds, OpStates, IoPCs, session, operation, io, ui, user
<1>1. ASSUME NEW r \in Requests, EmulateLongComputationOp(r) PROVE IInv'
  BY <1>1 DEF EmulateLongComputationOp
<1>2. ASSUME NEW id \in Ids, CancelFind(id) PROVE IInv'
  BY <1>2 DEF CancelFind
<1>3. CASE CancelSet
  BY <1>3 DEF CancelSet
<1>4. CASE CloseReset
  <2>1. m_work' \in BOOLEAN /\ uiPc' = "join" /\ exited = {}
    BY <1>4 DEF CloseReset
  <2>2. TypeOK'
    BY <1>4, <2>1 DEF CloseReset
  <2>3. (OnePlace /\ NotLost /\ Active /\ Guarded /\ Reported /\ Transfers)'
    BY <1>4 DEF CloseReset
  <2>4. Drained'
    BY <1>4, <2>1 DEF CloseReset
  <2> QED  BY <2>2, <2>3, <2>4
<1>5. CASE CloseJoin
  BY <1>5 DEF CloseJoin
<1> HIDE DEF IInv
<1> QED  BY <1>1, <1>2, <1>3, <1>4, <1>5 DEF UIStep

\* The network keeps it.
LEMMA NetworkIInv == ASSUME IInv, Network PROVE IInv'
<1> USE ThreadsAssumption, BoundsAssumption
    DEF IInv, TypeOK, OnePlace, NotLost, Active, Guarded, Reported, Drained,
      Transfers, CancelledIsNotWaiting, Sessions,
        Codes, Kinds, OpStates, IoPCs, session, operation, io, ui, user
<1>1. ASSUME NEW r \in Requests, NetPartial(r) PROVE IInv'
  BY <1>1 DEF NetPartial
<1>2. ASSUME NEW r \in Requests, NEW code \in {"ok", "failed"}, NetComplete(r, code)
      PROVE  IInv'
  BY <1>2 DEF NetComplete
<1> HIDE DEF IInv
<1> QED  BY <1>1, <1>2 DEF Network

\* Every step of a pool thread keeps it.
LEMMA IoIInv == ASSUME IInv, NEW t \in IoThreads, IoStep(t) PROVE IInv'
<1> USE ThreadsAssumption, BoundsAssumption
    DEF IInv, TypeOK, OnePlace, NotLost, Active, Guarded, Reported, Drained,
      Transfers, CancelledIsNotWaiting, Sessions,
        Codes, Kinds, OpStates, IoPCs, session, operation, io, ui, user, Idle
<1>1. ASSUME NEW r \in Requests, TransferMore(t, r) PROVE IInv'
  BY <1>1 DEF TransferMore
<1>2. ASSUME NEW r \in Requests, HandlerBegin(t, r) PROVE IInv'
  BY <1>2 DEF HandlerBegin
<1>3. CASE HandlerCheck(t)
  BY <1>3 DEF HandlerCheck
<1>4. CASE StartNext(t)
  BY <1>4 DEF StartNext, NextKind
<1>5. CASE CompleteErase(t)
  BY <1>5 DEF CompleteErase
<1>6. CASE CompleteCallback(t)
  BY <1>6 DEF CompleteCallback
<1>7. CASE RunReturns(t)
  BY <1>7 DEF RunReturns
<1> HIDE DEF IInv
<1> QED  BY <1>1, <1>2, <1>3, <1>4, <1>5, <1>6, <1>7 DEF IoStep

\* The inductive invariant is an invariant of the client.
LEMMA Inductive == Spec => []IInv
<1>1. IInv /\ UNCHANGED vars => IInv'
  BY DEF IInv, TypeOK, OnePlace, NotLost, Active, Guarded, Reported, Drained,
      Transfers, CancelledIsNotWaiting, Sessions,
         vars, session, operation, io, ui, user
<1>2. IInv /\ [Next]_vars => IInv'
  BY <1>1, UIIInv, NetworkIInv, IoIInv DEF Next
<1> QED  BY InitIInv, <1>2, PTL DEF Spec
----------------------------------------------------------------------------
\* Every variable stays in its range, and no callback is called twice.
THEOREM TypeCorrect == Spec => []TypeOK
<1>1. IInv => TypeOK
  BY DEF IInv
<1> QED  BY <1>1, Inductive, PTL

\* A request that CancelRequest has found is never reported as a success.
THEOREM CancellationHonoured == Spec => []CancelHonoured
<1>1. IInv => CancelHonoured
  BY DEF IInv, Reported, CancelHonoured
<1> QED  BY <1>1, Inductive, PTL

\* Nothing happens to a request after its callback.
THEOREM NothingAfterCallback == Spec => []CallbackIsLast
<1>1. IInv => CallbackIsLast
  BY DEF IInv, TypeOK, OnePlace, Active, CallbackIsLast
<1> QED  BY <1>1, Inductive, PTL

\* m_cancel_guard makes the test of the flag and the start of the next
\* operation one step for CancelRequest.
THEOREM NothingStartedAfterCancel == Spec => NoStartAfterCancel
<1>1. ASSUME IInv, [Next]_vars, NEW r \in Requests, m_was_canceled[r]
      PROVE  kind'[r] = kind[r]
  <2> USE <1>1 DEF session, operation, io, ui, user
  <2>1. ASSUME NEW q \in Requests, EmulateLongComputationOp(q) PROVE kind'[r] = kind[r]
    BY <2>1 DEF EmulateLongComputationOp, IInv, Active, TypeOK
  <2>2. ASSUME NEW t \in IoThreads, StartNext(t) PROVE kind'[r] = kind[r]
    BY <2>2 DEF StartNext, IInv, Guarded, TypeOK
  <2> QED
    BY <2>1, <2>2
    DEF Next, UIStep, CancelFind, CancelSet, CloseReset, CloseJoin, Network,
        NetPartial, NetComplete, IoStep, TransferMore, HandlerBegin, HandlerCheck,
        CompleteErase, CompleteCallback, RunReturns, vars
<1>2. IInv /\ [Next]_vars => [\A r \in Requests : m_was_canceled[r] => kind'[r] = kind[r]]_vars
  BY <1>1
<1> QED  BY <1>2, Inductive, PTL DEF Spec, NoStartAfterCancel

\* A cancelled request waits for the network at most for the rest of a write or
\* read of which a part had been transferred.
THEOREM CancelledDoesNotWait == Spec => []CancelledIsNotWaiting
<1>1. IInv => CancelledIsNotWaiting
  BY DEF IInv, Transfers
<1> QED  BY <1>1, Inductive, PTL

\* Close returns after the last callback, if the pool has a thread at all.
THEOREM CloseIsGraceful == ASSUME IoThreads # {} PROVE Spec => []CloseWaits
<1>1. IInv => CloseWaits
  BY ThreadsAssumption DEF IInv, TypeOK, OnePlace, NotLost, Drained, CloseWaits
<1> QED  BY <1>1, Inductive, PTL

\* Until a request completes CancelRequest finds it, unless its id is used twice.
THEOREM FoundUntilReused == Spec => []CancellableUnlessReused
<1>1. Init => CancellableUnlessReused
  BY DEF Init, CancellableUnlessReused
<1>2. IInv /\ CancellableUnlessReused /\ [Next]_vars => CancellableUnlessReused'
  <2> SUFFICES ASSUME IInv, CancellableUnlessReused, [Next]_vars
               PROVE  CancellableUnlessReused'
    OBVIOUS
  <2> USE DEF CancellableUnlessReused, session, operation, io, ui, user
  <2>1. ASSUME NEW r \in Requests, EmulateLongComputationOp(r)
        PROVE  CancellableUnlessReused'
    BY <2>1 DEF EmulateLongComputationOp, Sessions, IInv, TypeOK, Kinds
  <2>2. ASSUME NEW t \in IoThreads, NEW r \in Requests, HandlerBegin(t, r)
        PROVE  CancellableUnlessReused'
    BY <2>2 DEF HandlerBegin, Idle, IInv, TypeOK
  <2>3. ASSUME NEW t \in IoThreads, CompleteErase(t) PROVE CancellableUnlessReused'
    BY <2>3 DEF CompleteErase, Sessions, IInv, TypeOK, OnePlace
  <2>4. ASSUME NEW t \in IoThreads, CompleteCallback(t) PROVE CancellableUnlessReused'
    BY <2>4 DEF CompleteCallback, IInv, TypeOK, OnePlace
  <2>5. ASSUME NEW t \in IoThreads, HandlerCheck(t) PROVE CancellableUnlessReused'
    BY <2>5 DEF HandlerCheck, IInv, TypeOK
  <2>6. ASSUME NEW t \in IoThreads, StartNext(t) PROVE CancellableUnlessReused'
    BY <2>6 DEF StartNext, NextKind, IInv, TypeOK, Guarded
  <2>7. CASE m_id' = m_id /\ m_active_sessions' = m_active_sessions /\ kind' = kind
             /\ ioPc' = ioPc /\ ioReq' = ioReq /\ callbacks' = callbacks
    BY <2>7
  <2> QED
    BY <2>1, <2>2, <2>3, <2>4, <2>5, <2>6, <2>7
    DEF Next, UIStep, CancelFind, CancelSet, CloseReset, CloseJoin, Network,
        NetPartial, NetComplete, IoStep, TransferMore, RunReturns, vars
<1> QED  BY <1>1, <1>2, Inductive, PTL DEF Spec

\* The two mutexes are waited for in a circle only by a second cancellation.
THEOREM CircleOnlyAtSecondCancel == Spec => []CircleNeedsSecondCancel
<1>1. IInv => CircleNeedsSecondCancel
  BY DEF IInv, TypeOK, OnePlace, Active, Guarded, CircularWait, CircleNeedsSecondCancel
<1> QED  BY <1>1, Inductive, PTL
============================================================================
