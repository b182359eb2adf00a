--------------------------- MODULE AsyncTCPClient ---------------------------
(***************************************************************************)
(* AsyncTCPClient and AsyncTCPClientMT of asio-cookbook/ch3_client: one UI   *)
(* thread issues and cancels requests, the threads of the pool run the       *)
(* completion handlers.  A request is a chain of asynchronous operations     *)
(* (connect, write, read), so each request has at most one of them under way.*)
(* With one thread in IoThreads this is async_tcp_client.cpp.                *)
(*                                                                         *)
(* Only CancelRequest holds m_active_sessions_guard while another thread can *)
(* run; the other critical sections of that mutex are single steps.          *)
(***************************************************************************)
EXTENDS Naturals

CONSTANTS Requests,     \* the calls of EmulateLongComputationOp, one session each
          Ids,          \* the request_ids the UI may choose, for several requests the same
          IoThreads,    \* threads in io_context::run
          UI,           \* the UI thread
          NoThread,     \* owner of a free mutex
          NoRequest,    \* no request
          MaxCancels,   \* bound: calls of CancelRequest
          MaxPartials   \* bound: partial reads and writes of one request

ASSUME ThreadsAssumption == /\ UI \notin IoThreads
                            /\ NoThread \notin IoThreads \cup {UI}
                            /\ NoRequest \notin Requests
ASSUME BoundsAssumption == MaxCancels \in Nat /\ MaxPartials \in Nat

VARIABLES m_id,                    \* [request -> the id of its session]; never changes
          m_active_sessions,       \* the sessions in the map, at most one per id
          m_active_sessions_guard, \* owner
          m_was_canceled,          \* [request -> flag of its session]
          m_cancel_guard,          \* [request -> owner]
          m_ec,                    \* [request -> error code of its session]
          kind,                    \* [request -> its current or last operation]
          opState,                 \* [request -> state of that operation]
          opEc,                    \* [request -> how it completed]
          partials,                \* [request -> partial transfers so far]
          ioPc, ioReq,             \* [thread -> handler it runs, for which request]
          uiPc, uiReq,             \* the UI thread
          cancels,                 \* calls of CancelRequest so far
          m_work,                  \* the work guard exists
          exited,                  \* threads whose run() has returned
          callbacks,               \* [request -> calls of its callback]
          reported                 \* [request -> the ec its callback got]

session == <<m_id, m_was_canceled, m_cancel_guard, m_ec>>
operation == <<kind, opState, opEc, partials>>
io == <<ioPc, ioReq>>
ui == <<uiPc, uiReq, cancels, m_work>>
user == <<callbacks, reported>>
vars == <<m_active_sessions, m_active_sessions_guard, session, operation, io, ui,
          exited, user>>

\* The handler of one kind of operation starts the next kind.
NextKind == [connect |-> "write", write |-> "read"]

Kinds == {"none", "connect", "write", "read"}
\* "partial": part of the data was transferred, and the intermediate handler
\* of the composed operation is queued; "ready": the final handler is.
OpStates == {"none", "pending", "partial", "ready"}
Codes == {"ok", "failed", "aborted"}
IoPCs == {"idle", "check", "start", "complete", "callback"}

Init == /\ m_id \in [Requests -> Ids]
        /\ m_active_sessions = {}
        /\ m_active_sessions_guard = NoThread
        /\ m_was_canceled = [r \in Requests |-> FALSE]
        /\ m_cancel_guard = [r \in Requests |-> NoThread]
        /\ m_ec = [r \in Requests |-> "ok"]
        /\ kind = [r \in Requests |-> "none"]
        /\ opState = [r \in Requests |-> "none"]
        /\ opEc = [r \in Requests |-> "ok"]
        /\ partials = [r \in Requests |-> 0]
        /\ ioPc = [t \in IoThreads |-> "idle"]
        /\ ioReq = [t \in IoThreads |-> NoRequest]
        /\ uiPc = "idle"
        /\ uiReq = NoRequest
        /\ cancels = 0
        /\ m_work = TRUE
        /\ exited = {}
        /\ callbacks = [r \in Requests |-> 0]
        /\ reported = [r \in Requests |-> "none"]
----------------------------------------------------------------------------
(* The UI thread                                                           *)

\* Mutant of Sessions: lower_bound for find.
MutSessionsLowerBound(id) == {r \in m_active_sessions : m_id[r] >= id}

\* m_active_sessions.find(id)
Sessions(id) == {r \in m_active_sessions : m_id[r] = id}

\* EmulateLongComputationOp: the session enters the map before async_connect, and
\* takes the place of one with the same id.
EmulateLongComputationOp(r) ==
    /\ uiPc = "idle"
    /\ kind[r] = "none"
    /\ m_active_sessions_guard = NoThread
    /\ m_active_sessions' = (m_active_sessions \ Sessions(m_id[r])) \cup {r}
    /\ kind' = [kind EXCEPT ![r] = "connect"]
    /\ opState' = [opState EXCEPT ![r] = "pending"]
    /\ UNCHANGED <<m_active_sessions_guard, session, opEc, partials, io, ui, exited, user>>

\* CancelRequest, up to find: an absent request ends it.
CancelFind(id) ==
    /\ uiPc = "idle"
    /\ cancels < MaxCancels
    /\ m_active_sessions_guard = NoThread
    /\ cancels' = cancels + 1
    /\ \/ \E r \in Sessions(id) : /\ m_active_sessions_guard' = UI
                                  /\ uiPc' = "cancel"
                                  /\ uiReq' = r
       \/ /\ Sessions(id) = {}
          /\ UNCHANGED <<m_active_sessions_guard, uiPc, uiReq>>
    /\ UNCHANGED <<m_active_sessions, session, operation, io, m_work, exited, user>>

\* ... and the rest of it, under both mutexes.  Cancelling a socket aborts the
\* operation that waits for the network, and nothing that is already queued.
CancelSet ==
    /\ uiPc = "cancel"
    /\ m_cancel_guard[uiReq] = NoThread
    /\ m_was_canceled' = [m_was_canceled EXCEPT ![uiReq] = TRUE]
    /\ IF opState[uiReq] = "pending"
         THEN /\ opState' = [opState EXCEPT ![uiReq] = "ready"]
              /\ opEc' = [opEc EXCEPT ![uiReq] = "aborted"]
         ELSE UNCHANGED <<opState, opEc>>
    /\ m_active_sessions_guard' = NoThread
    /\ uiPc' = "idle"
    /\ uiReq' = NoRequest
    /\ UNCHANGED <<m_active_sessions, m_id, m_cancel_guard, m_ec, kind, partials, io, cancels,
                   m_work, exited, user>>

\* Close: the work guard goes, then every thread is joined.
CloseReset ==
    /\ uiPc = "idle"
    /\ m_work' = FALSE
    /\ uiPc' = "join"
    /\ UNCHANGED <<m_active_sessions, m_active_sessions_guard, session, operation, io,
                   uiReq, cancels, exited, user>>

\* Mutant of CloseJoin: the threads are not joined.
MutCloseJoinNobody ==
    /\ uiPc = "join"
    /\ uiPc' = "closed"
    /\ UNCHANGED <<m_active_sessions, m_active_sessions_guard, session, operation, io,
                   uiReq, cancels, m_work, exited, user>>

CloseJoin ==
    /\ uiPc = "join"
    /\ exited = IoThreads
    /\ uiPc' = "closed"
    /\ UNCHANGED <<m_active_sessions, m_active_sessions_guard, session, operation, io,
                   uiReq, cancels, m_work, exited, user>>
----------------------------------------------------------------------------
(* asio and the network                                                    *)

NetComplete(r, code) ==
    /\ opState[r] = "pending"
    /\ opState' = [opState EXCEPT ![r] = "ready"]
    /\ opEc' = [opEc EXCEPT ![r] = code]
    /\ UNCHANGED <<m_active_sessions, m_active_sessions_guard, session, kind, partials,
                   io, ui, exited, user>>

\* async_write and async_read_until are composed of single transfers.
NetPartial(r) ==
    /\ opState[r] = "pending"
    /\ kind[r] \in {"write", "read"}
    /\ partials[r] < MaxPartials
    /\ opState' = [opState EXCEPT ![r] = "partial"]
    /\ partials' = [partials EXCEPT ![r] = @ + 1]
    /\ UNCHANGED <<m_active_sessions, m_active_sessions_guard, session, kind, opEc,
                   io, ui, exited, user>>

Idle(t) == ioPc[t] = "idle" /\ t \notin exited

\* The intermediate handler of a composed operation starts the next transfer
\* without looking at m_was_canceled.
TransferMore(t, r) ==
    /\ Idle(t)
    /\ opState[r] = "partial"
    /\ opState' = [opState EXCEPT ![r] = "pending"]
    /\ UNCHANGED <<m_active_sessions, m_active_sessions_guard, session, kind, opEc,
                   partials, io, ui, exited, user>>

\* run() returns when there is no operation, no handler and no work guard.
RunReturns(t) ==
    /\ Idle(t)
    /\ ~m_work
    /\ \A r \in Requests : opState[r] = "none"
    /\ \A t2 \in IoThreads : ioPc[t2] = "idle"
    /\ exited' = exited \cup {t}
    /\ UNCHANGED <<m_active_sessions, m_active_sessions_guard, session, operation, io,
                   ui, user>>
----------------------------------------------------------------------------
(* The completion handlers                                                 *)

\* Mutant of HandlerBegin: every handler takes cancel_lock first.
MutHandlerBeginLocks(t, r) ==
    /\ Idle(t)
    /\ opState[r] = "ready"
    /\ m_cancel_guard[r] = NoThread
    /\ opState' = [opState EXCEPT ![r] = "none"]
    /\ ioReq' = [ioReq EXCEPT ![t] = r]
    /\ m_ec' = [m_ec EXCEPT ![r] = opEc[r]]
    /\ m_cancel_guard' = [m_cancel_guard EXCEPT ![r] = t]
    /\ ioPc' = [ioPc EXCEPT ![t] = IF opEc[r] # "ok" \/ kind[r] = "read" \/ m_was_canceled[r]
                                     THEN "complete" ELSE "start"]
    /\ UNCHANGED <<m_active_sessions, m_active_sessions_guard, m_id, m_was_canceled,
                   kind, opEc, partials, ui, exited, user>>

\* A thread takes the final handler of r's operation: an error, and the end of
\* the read, lead to OnRequestComplete without m_cancel_guard.
HandlerBegin(t, r) ==
    /\ Idle(t)
    /\ opState[r] = "ready"
    /\ opState' = [opState EXCEPT ![r] = "none"]
    /\ ioReq' = [ioReq EXCEPT ![t] = r]
    /\ m_ec' = [m_ec EXCEPT ![r] = opEc[r]]
    /\ ioPc' = [ioPc EXCEPT ![t] = IF opEc[r] # "ok" \/ kind[r] = "read"
                                     THEN "complete" ELSE "check"]
    /\ UNCHANGED <<m_active_sessions, m_active_sessions_guard, m_id, m_was_canceled,
                   m_cancel_guard, kind, opEc, partials, ui, exited, user>>

\* Mutants of HandlerCheck: the flag is read without the mutex; a cancelled
\* request is dropped without OnRequestComplete.
MutHandlerCheckNoLock(t) ==
    /\ ioPc[t] = "check"
    /\ ioPc' = [ioPc EXCEPT ![t] = IF m_was_canceled[ioReq[t]] THEN "complete" ELSE "start"]
    /\ UNCHANGED <<m_active_sessions, m_active_sessions_guard, session,
                   operation, ioReq, ui, exited, user>>
MutHandlerCheckDrops(t) ==
    LET r == ioReq[t] IN
    /\ ioPc[t] = "check"
    /\ m_cancel_guard[r] = NoThread
    /\ IF m_was_canceled[r]
         THEN ioPc' = [ioPc EXCEPT ![t] = "idle"] /\ UNCHANGED m_cancel_guard
         ELSE /\ ioPc' = [ioPc EXCEPT ![t] = "start"]
              /\ m_cancel_guard' = [m_cancel_guard EXCEPT ![r] = t]
    /\ UNCHANGED <<m_active_sessions, m_active_sessions_guard, m_id, m_was_canceled, m_ec,
                   operation, ioReq, ui, exited, user>>

\* cancel_lock, then the flag.
HandlerCheck(t) ==
    LET r == ioReq[t] IN
    /\ ioPc[t] = "check"
    /\ m_cancel_guard[r] = NoThread
    /\ m_cancel_guard' = [m_cancel_guard EXCEPT ![r] = t]
    /\ ioPc' = [ioPc EXCEPT ![t] = IF m_was_canceled[r] THEN "complete" ELSE "start"]
    /\ UNCHANGED <<m_active_sessions, m_active_sessions_guard, m_id, m_was_canceled, m_ec,
                   operation, ioReq, ui, exited, user>>

\* async_write or async_read_until, then the end of the handler.
StartNext(t) ==
    LET r == ioReq[t] IN
    /\ ioPc[t] = "start"
    /\ kind' = [kind EXCEPT ![r] = NextKind[@]]
    /\ opState' = [opState EXCEPT ![r] = "pending"]
    /\ m_cancel_guard' = [m_cancel_guard EXCEPT ![r] = NoThread]
    /\ ioPc' = [ioPc EXCEPT ![t] = "idle"]
    /\ ioReq' = [ioReq EXCEPT ![t] = NoRequest]
    /\ UNCHANGED <<m_active_sessions, m_active_sessions_guard, m_id, m_was_canceled, m_ec,
                   opEc, partials, ui, exited, user>>

\* Mutant of CompleteErase: the map is changed without its mutex.
MutCompleteEraseNoLock(t) ==
    /\ ioPc[t] = "complete"
    /\ m_active_sessions' = m_active_sessions \ Sessions(m_id[ioReq[t]])
    /\ ioPc' = [ioPc EXCEPT ![t] = "callback"]
    /\ UNCHANGED <<m_active_sessions_guard, session, operation, ioReq, ui, exited, user>>

\* OnRequestComplete, up to lock.unlock().
CompleteErase(t) ==
    /\ ioPc[t] = "complete"
    /\ m_active_sessions_guard = NoThread
    /\ m_active_sessions' = m_active_sessions \ Sessions(m_id[ioReq[t]])
    /\ ioPc' = [ioPc EXCEPT ![t] = "callback"]
    /\ UNCHANGED <<m_active_sessions_guard, session, operation, ioReq, ui, exited, user>>

\* The rest of OnRequestComplete, and the end of the handler that called it,
\* which releases m_cancel_guard if that handler had taken it.
CompleteCallback(t) ==
    LET r == ioReq[t] IN
    /\ ioPc[t] = "callback"
    /\ callbacks' = [callbacks EXCEPT ![r] = @ + 1]
    /\ reported' = [reported EXCEPT ![r] = IF m_ec[r] = "ok" /\ m_was_canceled[r]
                                             THEN "aborted" ELSE m_ec[r]]
    /\ m_cancel_guard' = [m_cancel_guard EXCEPT ![r] = IF @ = t THEN NoThread ELSE @]
    /\ ioPc' = [ioPc EXCEPT ![t] = "idle"]
    /\ ioReq' = [ioReq EXCEPT ![t] = NoRequest]
    /\ UNCHANGED <<m_active_sessions, m_active_sessions_guard, m_id, m_was_canceled, m_ec,
                   operation, ui, exited>>
----------------------------------------------------------------------------
UIStep == \/ \E r \in Requests : EmulateLongComputationOp(r)
          \/ \E id \in Ids : CancelFind(id)
          \/ CancelSet \/ CloseReset \/ CloseJoin

Network == \E r \in Requests : NetPartial(r) \/ \E code \in {"ok", "failed"} : NetComplete(r, code)

IoStep(t) == \/ \E r \in Requests : TransferMore(t, r) \/ HandlerBegin(t, r)
             \/ HandlerCheck(t) \/ StartNext(t) \/ CompleteErase(t) \/ CompleteCallback(t)
             \/ RunReturns(t)

Next == UIStep \/ Network \/ \E t \in IoThreads : IoStep(t)

Spec == Init /\ [][Next]_vars

\* Threads that can run do; every server answers, or the operation fails.
Fairness ==
    /\ \A t \in IoThreads : WF_vars(IoStep(t))
    /\ WF_vars(CancelSet \/ CloseJoin)
    /\ \A r \in Requests : WF_vars(\E code \in {"ok", "failed"} : NetComplete(r, code))
FairSpec == Spec /\ Fairness
----------------------------------------------------------------------------
(* Properties                                                              *)

\* Every variable stays in its range, and no callback is called twice, however
\* a request ends: by its answer, an error, or a cancellation in between.
TypeOK == /\ m_id \in [Requests -> Ids]
          /\ m_active_sessions \subseteq Requests
          /\ m_active_sessions_guard \in {NoThread, UI}
          /\ m_was_canceled \in [Requests -> BOOLEAN]
          /\ m_cancel_guard \in [Requests -> IoThreads \cup {NoThread}]
          /\ m_ec \in [Requests -> Codes]
          /\ kind \in [Requests -> Kinds]
          /\ opState \in [Requests -> OpStates]
          /\ opEc \in [Requests -> Codes]
          /\ partials \in [Requests -> 0 .. MaxPartials]
          /\ ioPc \in [IoThreads -> IoPCs]
          /\ ioReq \in [IoThreads -> Requests \cup {NoRequest}]
          /\ uiPc \in {"idle", "cancel", "join", "closed"}
          /\ uiReq \in Requests \cup {NoRequest}
          /\ cancels \in 0 .. MaxCancels
          /\ m_work \in BOOLEAN
          /\ exited \subseteq IoThreads
          /\ callbacks \in [Requests -> 0 .. 1]
          /\ reported \in [Requests -> Codes \cup {"none"}]

\* A request that CancelRequest has found is never reported as a success, even
\* if its answer arrives at the same moment: OnRequestComplete reads the flag
\* after it has taken the request out of the map.
CancelHonoured ==
    \A r \in Requests : m_was_canceled[r] => reported[r] # "ok"

\* The callback is the last thing that happens to a request: by then it cannot
\* be cancelled and has no operation under way.
CallbackIsLast ==
    \A r \in Requests : callbacks[r] > 0 => r \notin m_active_sessions /\ opState[r] = "none"

\* No operation of a request is started once its flag is set: the handlers test
\* the flag and start the next operation under one lock of m_cancel_guard.
NoStartAfterCancel ==
    [][\A r \in Requests : m_was_canceled[r] => kind'[r] = kind[r]]_vars

\* A cancelled request does not wait for the network any more: cancel() ends the
\* operation that does, and the handlers start no other.  Only a request that was
\* cancelled between two transfers of one write or read may wait again.
CancelledIsNotWaiting ==
    \A r \in Requests : m_was_canceled[r] /\ opState[r] = "pending" => partials[r] > 0

\* Close returns after every request has had its callback.
CloseWaits ==
    uiPc = "closed" => \A r \in Requests : kind[r] # "none" => callbacks[r] = 1

\* A request can be cancelled until its completion has begun: it is missing from
\* the map before only if its id was given to another request too, which has taken
\* its place, or whose completion has erased it (async_tcp_client_mt.cpp:121, :248).
CancellableUnlessReused ==
    \A r \in Requests \ m_active_sessions :
        kind[r] # "none" /\ callbacks[r] = 0 =>
            \/ \E t \in IoThreads : ioReq[t] = r /\ ioPc[t] = "callback"
            \/ \E q \in Requests \ {r} : m_id[q] = m_id[r] /\ kind[q] # "none"

\* CancelRequest and a handler wait for each other: it holds the mutex of the map
\* and waits for that of the session, the handler the other way round.
CircularWait ==
    uiPc = "cancel" /\ \E t \in IoThreads : /\ m_cancel_guard[uiReq] = t
                                             /\ ioPc[t] = "complete"

\* The two mutexes are taken in opposite orders (:187, :194 and :136, :243), and
\* only a second cancellation of the same request can find them so: a handler that
\* holds its session's mutex on its way to OnRequestComplete has seen the flag set.
CircleNeedsSecondCancel == CircularWait => m_was_canceled[uiReq]

\* If the servers answer, every request gets its callback, whatever is
\* cancelled when, short of that deadlock; and so the UI thread comes back from
\* CancelRequest: "this thread must not stop for a noticeably long time"
\* (docs/asio-cookbook/3_client.md:30).
EveryRequestReported ==
    /\ \A r \in Requests : kind[r] # "none" ~> callbacks[r] = 1 \/ CircularWait
    /\ uiPc = "cancel" ~> uiPc = "idle" \/ CircularWait
============================================================================
