----------------------------- MODULE FifoQueue -----------------------------
(***************************************************************************)
(* What net_tsqueue.h promises to the two threads that share a queue: a     *)
(* message that was put is taken once, in the order it was put, and nothing *)
(* else is ever taken.  No lock, no condition variable.                     *)
(***************************************************************************)
EXTENDS Sequences

CONSTANT Message

VARIABLES queue,   \* put and not taken yet
          taken    \* everything taken so far, in order

vars == <<queue, taken>>

Init == /\ queue = << >>
        /\ taken = << >>

Put(m) == /\ queue' = Append(queue, m)
          /\ UNCHANGED taken

Take == /\ queue # << >>
        /\ taken' = Append(taken, Head(queue))
        /\ queue' = Tail(queue)

Next == (\E m \in Message : Put(m)) \/ Take

Spec == Init /\ [][Next]_vars
============================================================================
