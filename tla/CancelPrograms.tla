--------------------------- MODULE CancelPrograms ---------------------------
(***************************************************************************)
(* The programs that cancel an asynchronous operation, one chosen in Init:   *)
(*   "connect"     ch2_io/cancel_async_operation.cpp: main cancels the        *)
(*                 connect that a worker thread is running                    *)
(*   "two_timers"  ch6_etc/timer_example.cpp: the handler of the first timer  *)
(*                 cancels the second                                         *)
(*   "repeat"      etc/dens_timer.cpp: the handler sets its timer again;      *)
(*                 another thread cancels it, once                            *)
(***************************************************************************)
EXTENDS Naturals, Sequences

VARIABLES example,   \* never changes
          op,        \* [1 .. 2 -> "none", "pending", or how it has completed]
          ready,     \* completed operations whose handlers have not run
          handled,   \* operations whose handlers have run
          io,        \* the thread in io_context::run: "run", "rearm" or "returned"
          canceller, \* the thread that sleeps and cancels: "sleep" or "done"
          found      \* history: [1 .. 2 -> the state in which cancel() found it]

cancelVars == <<example, op, ready, handled, io, canceller, found>>

\* main starts the operations before a second thread exists.
CancelInit ==
    /\ example \in {"connect", "two_timers", "repeat"}
    /\ op = [o \in 1 .. 2 |-> IF o = 1 \/ example = "two_timers" THEN "pending" ELSE "none"]
    /\ ready = << >>
    /\ handled = {}
    /\ io = "run"
    /\ canceller = IF example = "two_timers" THEN "done" ELSE "sleep"
    /\ found = [o \in 1 .. 2 |-> "none"]
----------------------------------------------------------------------------
\* A connect ends either way; timers expire in the order of their times.
Completes(o) ==
    /\ op[o] = "pending"
    /\ o = 2 => op[1] # "pending"
    /\ \E how \in {"ok"} \cup (IF example = "connect" THEN {"failed"} ELSE {}) :
          op' = [op EXCEPT ![o] = how]
    /\ ready' = Append(ready, o)
    /\ UNCHANGED <<example, handled, io, canceller, found>>

\* cancel() ends an operation that is pending, and no other: one that has
\* completed keeps its result, though its handler is still in the queue.
Abort(o, queue) ==
    /\ found' = [found EXCEPT ![o] = op[o]]
    /\ IF op[o] = "pending"
         THEN op' = [op EXCEPT ![o] = "aborted"] /\ ready' = Append(queue, o)
         ELSE ready' = queue /\ UNCHANGED op

\* The other thread wakes up and cancels.
Cancel ==
    /\ canceller = "sleep"
    /\ canceller' = "done"
    /\ Abort(1, ready)
    /\ UNCHANGED <<example, handled, io>>

\* Mutant of CancelsOther: the handler of the first timer leaves the second alone.
MutCancelsOtherNot(o) == FALSE

\* Whether the handler of o cancels the second timer.
CancelsOther(o) == example = "two_timers" /\ o = 1

\* Mutant of SetsAgain: the timer is set again whatever the error says.
MutSetsAgainAlways(o) == example = "repeat"

SetsAgain(o) == example = "repeat" /\ op[o] # "aborted"

\* The next handler runs.
Handler ==
    /\ io = "run"
    /\ ready # << >>
    /\ LET o == Head(ready)
       IN /\ handled' = handled \cup {o}
          /\ IF CancelsOther(o) THEN Abort(2, Tail(ready))
                                ELSE ready' = Tail(ready) /\ UNCHANGED <<op, found>>
          /\ io' = IF SetsAgain(o) THEN "rearm" ELSE "run"
    /\ UNCHANGED <<example, canceller>>

\* async_wait again: between the expiry and this call there is nothing to cancel.
WaitAgain ==
    /\ io = "rearm"
    /\ op' = [op EXCEPT ![1] = "pending"]
    /\ io' = "run"
    /\ UNCHANGED <<example, ready, handled, canceller, found>>

\* run() returns when nothing is outstanding.
RunReturns ==
    /\ io = "run"
    /\ ready = << >>
    /\ \A o \in 1 .. 2 : op[o] # "pending"
    /\ io' = "returned"
    /\ UNCHANGED <<example, op, ready, handled, canceller, found>>

CancelNext == Cancel \/ Handler \/ WaitAgain \/ RunReturns \/ \E o \in 1 .. 2 : Completes(o)

CancelSpec == CancelInit /\ [][CancelNext]_cancelVars
----------------------------------------------------------------------------
(* Properties                                                              *)

CancelTypeOK ==
    /\ example \in {"connect", "two_timers", "repeat"}
    /\ op \in [1 .. 2 -> {"none", "pending", "ok", "failed", "aborted"}]
    /\ Len(ready) <= 2 /\ \A i \in DOMAIN ready : ready[i] \in 1 .. 2
    /\ handled \subseteq 1 .. 2
    /\ io \in {"run", "rearm", "returned"}
    /\ canceller \in {"sleep", "done"}
    /\ found \in [1 .. 2 -> {"none", "pending", "ok", "failed", "aborted"}]

\* A handler is told operation_aborted exactly if cancel() came before the
\* completion (cancel_async_operation.cpp:48, dens_timer.cpp:38).  The second timer is
\* never reported before the first has cancelled it, even if both have expired
\* (timer_example.cpp:43); and the timer that sets itself again only stops if the one
\* cancel() found it set (dens_timer.cpp:73).
CancelIsExact ==
    /\ CancelTypeOK
    /\ \A o \in 1 .. 2 : op[o] = "aborted" <=> found[o] = "pending"
    /\ example = "two_timers" /\ 2 \in handled => found[2] # "none"
    /\ example = "repeat" /\ io = "returned" => found[1] = "pending"

\* The programs end; dens_timer, if its cancel() has found the timer set.
EndsIfCancelled ==
    example # "repeat" \/ found[1] = "pending" ~> io = "returned" /\ canceller = "done"
============================================================================
