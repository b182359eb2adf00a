------------------------------- MODULE Message -------------------------------
(***************************************************************************)
(* message<T> (net_message.h): a header with the length of the body, and the *)
(* body, a stack of bytes on which operator<< and operator>> push and pop     *)
(* whole objects.  Lengths are computed in size_t and stored in a uint32_t.   *)
(***************************************************************************)
EXTENDS Integers, Sequences

CONSTANTS SizeModulus,    \* 2^w of size_t
          HeaderModulus   \* 2^w of the size in the header

ASSUME ModulusAssumption == SizeModulus \in Nat \ {0} /\ HeaderModulus \in Nat \ {0}

Blank(id) == [id |-> id, size |-> 0, body |-> << >>]

\* Mutant of Push: the size in the header is not updated.
MutPushKeepsSize(msg, data) == [msg EXCEPT !.body = @ \o data]

\* The message after its body has been resized and the header recalculated.
Resized(msg, body) == [id |-> msg.id, size |-> Len(body) % HeaderModulus, body |-> body]

\* msg << data
Push(msg, data) == Resized(msg, msg.body \o data)

\* msg >> data, for data of n bytes: i, the bytes from there on, and what is left
\* of the message.  If i has wrapped round there is no such byte.
PopIndex(msg, n) == (Len(msg.body) + SizeModulus - n) % SizeModulus
PopDefined(msg, n) == PopIndex(msg, n) + n = Len(msg.body)
Popped(msg, n) == SubSeq(msg.body, PopIndex(msg, n) + 1, PopIndex(msg, n) + n)
Pop(msg, n) == Resized(msg, SubSeq(msg.body, 1, PopIndex(msg, n)))
==============================================================================
