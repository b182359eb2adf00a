-------------------------- MODULE ConnectionProofs --------------------------
(***************************************************************************)
(* Safety of Connection for every set of messages and every number of sends: *)
(* the chains of handlers go on, what is read is what was written, and the    *)
(* two ends implement MessageChannel.                                        *)
(***************************************************************************)
EXTENDS Connection, SequenceTheorems, TLAPS

Units == [header : BOOLEAN, id : Ids \cup Bytes, size : Nat]

\* A stream of bytes is the messages S one after another.  Unit j of a message is its
\* header if j is 0, and the j-th unit of its body if not.
Unit(m, j) == IF j = 0 THEN [header |-> TRUE, id |-> m.id, size |-> m.size]
                       ELSE [header |-> FALSE, id |-> m.body[j], size |-> 0]

\* A place in the stream: a message and a unit of it.  Behind the last unit of a
\* message is the header of the next.
Place == Nat \X Nat
At(S, k, j) == IF j > 0 /\ j > S[k].size THEN <<k + 1, 0>> ELSE <<k, j>>

\* The units of w are those of S from one place to another.
Between(S, w, from, to) ==
    \E p \in [1 .. Len(w) + 1 -> Place] :
        /\ p[1] = from
        /\ p[Len(w) + 1] = to
        /\ \A i \in 1 .. Len(w) : /\ p[i][1] \in 1 .. Len(S)
                                  /\ p[i][2] \in 0 .. S[p[i][1]].size
                                  /\ w[i] = Unit(S[p[i][1]], p[i][2])
                                  /\ p[i + 1] = At(S, p[i][1], p[i][2] + 1)

LEMMA OnlyOne ==
  ASSUME NEW n \in Nat, n # 0, n <= 1
  PROVE  n = 1 /\ 1 \in 1 .. n
  OBVIOUS

LEMMA NextOf ==
  ASSUME NEW n \in Nat, NEW i \in 1 .. n - 1, NEW last \in Nat
  PROVE  i + 1 \in 1 .. n /\ last - n + (i + 1) = last - (n - 1) + i
  OBVIOUS

\* Nothing is between a place and itself.
LEMMA BetweenEmpty == ASSUME NEW S, NEW pl \in Place PROVE Between(S, << >>, pl, pl)
<1> DEFINE p == [i \in 1 .. 1 |-> pl]
<1>1. Len(<< >>) = 0 /\ p \in [1 .. 1 -> Place] /\ p[1] = pl
  OBVIOUS
<1> HIDE DEF p
<1> QED  BY <1>1 DEF Between

\* NetWrite puts the unit at the far end on the wire.
LEMMA BetweenAppend ==
  ASSUME NEW S \in Seq(Fresh), NEW w \in Seq(Units), NEW from, NEW k \in 1 .. Len(S),
         NEW j \in 0 .. S[k].size, Between(S, w, from, <<k, j>>), Unit(S[k], j) \in Units
  PROVE  Between(S, Append(w, Unit(S[k], j)), from, At(S, k, j + 1))
<1>0. S[k].size \in Nat
  BY ElementOfSeq, FreshAssumption, BoundsAssumption
<1> DEFINE n == Len(w)
           v == Append(w, Unit(S[k], j))
           to == At(S, k, j + 1)
<1>1. PICK p \in [1 .. n + 1 -> Place] :
        /\ p[1] = from
        /\ p[n + 1] = <<k, j>>
        /\ \A i \in 1 .. n : /\ p[i][1] \in 1 .. Len(S)
                             /\ p[i][2] \in 0 .. S[p[i][1]].size
                             /\ w[i] = Unit(S[p[i][1]], p[i][2])
                             /\ p[i + 1] = At(S, p[i][1], p[i][2] + 1)
  BY DEF Between
<1>2. n \in Nat /\ Len(v) = n + 1 /\ v[n + 1] = Unit(S[k], j) /\ \A i \in 1 .. n : v[i] = w[i]
  BY AppendProperties
<1>3. to \in Place
  BY <1>0 DEF At, Place
<1> DEFINE q == [i \in 1 .. n + 2 |-> IF i = n + 2 THEN to ELSE p[i]]
<1>4. /\ q \in [1 .. Len(v) + 1 -> Place]
      /\ q[1] = from
      /\ q[Len(v) + 1] = to
  BY <1>1, <1>2, <1>3
<1>5. ASSUME NEW i \in 1 .. Len(v)
      PROVE  /\ q[i][1] \in 1 .. Len(S)
             /\ q[i][2] \in 0 .. S[q[i][1]].size
             /\ v[i] = Unit(S[q[i][1]], q[i][2])
             /\ q[i + 1] = At(S, q[i][1], q[i][2] + 1)
  <2>1. CASE i = n + 1
    <3>1. q[i] = <<k, j>> /\ q[i + 1] = to /\ v[i] = Unit(S[k], j)
      BY <1>1, <1>2, <2>1
    <3> HIDE DEF q, v
    <3>2. q[i][1] = k /\ q[i][2] = j
      BY <3>1
    <3> QED  BY <3>1, <3>2
  <2>2. CASE i \in 1 .. n
    <3>1. q[i] = p[i] /\ q[i + 1] = p[i + 1] /\ v[i] = w[i]
      BY <1>1, <1>2, <2>2
    <3> QED  BY <1>1, <2>2, <3>1
  <2> QED  BY <1>2, <2>1, <2>2
<1> HIDE DEF q, v, to
<1>6. Between(S, v, from, to)
  BY <1>4, <1>5 DEF Between
<1> QED  BY <1>6 DEF v, to

\* NetRead takes the unit at the near end from the wire.
LEMMA BetweenTail ==
  ASSUME NEW S \in Seq(Fresh), NEW w \in Seq(Units), NEW k, NEW j, NEW to,
         Between(S, w, <<k, j>>, to), w # << >>
  PROVE  /\ k \in 1 .. Len(S)
         /\ j \in 0 .. S[k].size
         /\ Head(w) = Unit(S[k], j)
         /\ Between(S, Tail(w), At(S, k, j + 1), to)
<1> DEFINE n == Len(w)
           v == Tail(w)
<1>1. PICK p \in [1 .. n + 1 -> Place] :
        /\ p[1] = <<k, j>>
        /\ p[n + 1] = to
        /\ \A i \in 1 .. n : /\ p[i][1] \in 1 .. Len(S)
                             /\ p[i][2] \in 0 .. S[p[i][1]].size
                             /\ w[i] = Unit(S[p[i][1]], p[i][2])
                             /\ p[i + 1] = At(S, p[i][1], p[i][2] + 1)
  BY DEF Between
<1>2. n \in Nat \ {0} /\ Len(v) = n - 1 /\ Head(w) = w[1] /\ \A i \in 1 .. n - 1 : v[i] = w[i + 1]
  BY HeadTailProperties
<1>3. /\ k \in 1 .. Len(S) /\ j \in 0 .. S[k].size /\ Head(w) = Unit(S[k], j)
      /\ p[2] = At(S, k, j + 1)
  BY <1>1, <1>2
<1> DEFINE q == [i \in 1 .. n |-> p[i + 1]]
<1>4. /\ q \in [1 .. Len(v) + 1 -> Place]
      /\ q[1] = At(S, k, j + 1)
      /\ q[Len(v) + 1] = to
  BY <1>1, <1>2, <1>3
<1>5. ASSUME NEW i \in 1 .. Len(v)
      PROVE  /\ q[i][1] \in 1 .. Len(S)
             /\ q[i][2] \in 0 .. S[q[i][1]].size
             /\ v[i] = Unit(S[q[i][1]], q[i][2])
             /\ q[i + 1] = At(S, q[i][1], q[i][2] + 1)
  <2>1. i + 1 \in 1 .. n /\ q[i] = p[i + 1] /\ q[i + 1] = p[i + 1 + 1] /\ v[i] = w[i + 1]
    BY <1>2
  <2> QED  BY <1>1, <2>1
<1> HIDE DEF q, v
<1>6. Between(S, v, At(S, k, j + 1), to)
  BY <1>4, <1>5 DEF Between
<1> QED  BY <1>3, <1>6 DEF v

\* RunSend makes the stream longer.
LEMMA BetweenExtend ==
  ASSUME NEW S \in Seq(Fresh), NEW m \in Fresh, NEW w \in Seq(Units), NEW from, NEW to,
         Between(S, w, from, to)
  PROVE  Between(Append(S, m), w, from, to)
<1> DEFINE T == Append(S, m)
<1>1. Len(T) = Len(S) + 1 /\ Len(S) \in Nat /\ \A i \in 1 .. Len(S) : T[i] = S[i]
  BY AppendProperties
<1>2. \A i \in 1 .. Len(S) : \A j : At(T, i, j) = At(S, i, j)
  BY <1>1 DEF At
<1> HIDE DEF T
<1>3. PICK p \in [1 .. Len(w) + 1 -> Place] :
        /\ p[1] = from
        /\ p[Len(w) + 1] = to
        /\ \A i \in 1 .. Len(w) : /\ p[i][1] \in 1 .. Len(S)
                                  /\ p[i][2] \in 0 .. S[p[i][1]].size
                                  /\ w[i] = Unit(S[p[i][1]], p[i][2])
                                  /\ p[i + 1] = At(S, p[i][1], p[i][2] + 1)
  BY DEF Between
<1>4. ASSUME NEW i \in 1 .. Len(w)
      PROVE  /\ p[i][1] \in 1 .. Len(T)
             /\ p[i][2] \in 0 .. T[p[i][1]].size
             /\ w[i] = Unit(T[p[i][1]], p[i][2])
             /\ p[i + 1] = At(T, p[i][1], p[i][2] + 1)
  <2>1. p[i][1] \in 1 .. Len(S)
    BY <1>3
  <2>2. p[i][1] \in 1 .. Len(T) /\ T[p[i][1]] = S[p[i][1]]
    BY <1>1, <2>1
  <2> QED  BY <1>2, <1>3, <2>1, <2>2
<1>5. Between(T, w, from, to)
  BY <1>3, <1>4 DEF Between
<1> QED  BY <1>5 DEF T
----------------------------------------------------------------------------
(* The writer: S has been queued, q is what is left of it, ops is under way.  *)

WriteOperations == [part : {"header", "body"}, state : {"pending", "done", "error"},
                    left : Seq(Units)]

\* The last unit that a write of this part of m writes, and the first that a read reads.
Last(part, m) == IF part = "header" THEN 0 ELSE m.size
First(part) == IF part = "body" THEN 1 ELSE 0

\* A write is one of the first message of the queue, and left is the end of its part.
WriteOk(op, m, isOpen) ==
    /\ op.part = "body" => m.size > 0
    /\ Len(op.left) <= IF op.part = "header" THEN 1 ELSE m.size
    /\ \A j \in 1 .. Len(op.left) : op.left[j] = Unit(m, Last(op.part, m) - Len(op.left) + j)
    /\ op.state = "pending" => isOpen /\ Len(op.left) > 0
    /\ op.state = "done" => Len(op.left) = 0

WriterOk(S, q, ops, isOpen) ==
    /\ Len(q) <= Len(S)
    /\ \A i \in 1 .. Len(q) : q[i] = S[Len(S) - Len(q) + i]
    /\ Len(ops) <= 1
    /\ ops # << >> => q # << >> /\ WriteOk(ops[1], q[1], isOpen)
    /\ q # << >> /\ isOpen => ops # << >>

\* Where in the stream the writer has got to.
WriterPlace(S, q, ops) ==
    IF ops = << >> THEN <<Len(S) + 1, 0>>
    ELSE At(S, Len(S) - Len(q) + 1, Last(ops[1].part, q[1]) - Len(ops[1].left) + 1)

\* A write that has failed is the last one, and the socket is about to be closed.
Live(ops) == ops = << >> \/ ops[1].state # "error"

LEMMA AppendToEmpty == ASSUME NEW x PROVE Append(<< >>, x) = <<x>>
  OBVIOUS

\* One write under way.
LEMMA PlaceOfOne ==
  ASSUME NEW S, NEW q, NEW op
  PROVE  /\ Len(<<op>>) = 1 /\ <<op>>[1] = op /\ <<op>> # << >>
         /\ WriterPlace(S, q, <<op>>)
                = At(S, Len(S) - Len(q) + 1, Last(op.part, q[1]) - Len(op.left) + 1)
<1>1. Len(<<op>>) = 1 /\ <<op>>[1] = op /\ <<op>> # << >>
  OBVIOUS
<1> DEFINE ops == <<op>>
<1>2. ops[1] = op /\ ops # << >>
  BY <1>1
<1> HIDE DEF ops
<1>3. WriterPlace(S, q, ops) = At(S, Len(S) - Len(q) + 1, Last(op.part, q[1]) - Len(op.left) + 1)
  BY <1>2 DEF WriterPlace
<1> QED  BY <1>1, <1>3 DEF ops

LEMMA WriterOfOne ==
  ASSUME NEW S, NEW q, NEW op, NEW isOpen, Len(q) <= Len(S),
         \A i \in 1 .. Len(q) : q[i] = S[Len(S) - Len(q) + i],
         q # << >>, WriteOk(op, q[1], isOpen)
  PROVE  WriterOk(S, q, <<op>>, isOpen)
<1> DEFINE ops == <<op>>
<1>1. Len(ops) = 1 /\ ops[1] = op /\ ops # << >>
  BY PlaceOfOne
<1> HIDE DEF ops
<1>2. WriterOk(S, q, ops, isOpen)
  BY <1>1 DEF WriterOk
<1> QED  BY <1>2 DEF ops

\* What the messages of an application are like.
LEMMA FreshMessages ==
  ASSUME NEW m \in Fresh
  PROVE  /\ m.id \in Ids /\ m.size \in Nat /\ m.size <= MaxSize /\ m.body \in Seq(Bytes)
         /\ m = [id |-> m.id, size |-> m.size, body |-> m.body]
         /\ Len(m.body) = m.size
         /\ \A j \in 0 .. m.size : Unit(m, j) \in Units
<1>1. /\ m.id \in Ids /\ m.size \in Nat /\ m.size <= MaxSize /\ m.body \in Seq(Bytes)
      /\ m = [id |-> m.id, size |-> m.size, body |-> m.body]
      /\ Len(m.body) = m.size
  BY FreshAssumption, BoundsAssumption DEF WellFormed
<1>2. ASSUME NEW j \in 0 .. m.size PROVE Unit(m, j) \in Units
  <2>1. CASE j = 0
    BY <1>1, <2>1 DEF Unit, Units
  <2>2. CASE j # 0
    <3>1. m.body[j] \in Bytes
      BY <1>1, <2>2, ElementOfSeq
    <3> QED  BY <2>2, <3>1 DEF Unit, Units
  <2> QED  BY <2>1, <2>2
<1> QED  BY <1>1, <1>2

\* At most one write is under way.
LEMMA OneWrite ==
  ASSUME NEW T, NEW ops \in Seq(T), Len(ops) <= 1, NEW i \in 1 .. Len(ops)
  PROVE  /\ i = 1
         /\ ops = <<ops[1]>>
         /\ ops[1] \in T
         /\ Remove(ops, i) = << >>
         /\ \A x : [ops EXCEPT ![i] = x] = <<x>>
<1>0. Len(ops) \in Nat
  BY LenProperties
<1>1. Len(ops) = 1 /\ i = 1
  <2>1. i \in Nat /\ 1 <= i /\ i <= Len(ops)
    BY <1>0
  <2> QED  BY <1>0, <2>1
<1>2. ops[1] \in T
  BY <1>1, ElementOfSeq
<1>3. ops = <<ops[1]>>
  BY <1>1
<1>4. SubSeq(ops, 1, 0) = << >> /\ SubSeq(ops, 2, 1) = << >>
  BY SubSeqEmpty
<1>5. Remove(ops, i) = << >>
  BY <1>1, <1>4 DEF Remove
<1>6. ASSUME NEW x PROVE [ops EXCEPT ![i] = x] = <<x>>
  BY <1>1, <1>3
<1> QED  BY <1>1, <1>2, <1>3, <1>5, <1>6

\* The operation of WriteHeader.
HeaderWrite(m, state) ==
    [part |-> "header", state |-> state,
     left |-> <<[header |-> TRUE, id |-> m.id, size |-> m.size]>>]

\* ... and that of WriteBody.
BodyWrite(m, state) ==
    [part |-> "body", state |-> state,
     left |-> [i \in 1 .. Len(m.body) |-> [header |-> FALSE, id |-> m.body[i], size |-> 0]]]

LEMMA WriteOps ==
  ASSUME NEW m \in Fresh, NEW isOpen \in BOOLEAN,
         NEW state, state = IF isOpen THEN "pending" ELSE "error"
  PROVE  /\ HeaderWrite(m, state) \in WriteOperations
         /\ WriteOk(HeaderWrite(m, state), m, isOpen)
         /\ Len(HeaderWrite(m, state).left) = 1
         /\ BodyWrite(m, state) \in WriteOperations
         /\ m.size > 0 => WriteOk(BodyWrite(m, state), m, isOpen)
         /\ Len(BodyWrite(m, state).left) = m.size
<1>1. <<Unit(m, 0)>> \in Seq(Units) /\ Len(<<Unit(m, 0)>>) = 1 /\ <<Unit(m, 0)>>[1] = Unit(m, 0)
  BY FreshMessages
<1>2. HeaderWrite(m, state) = [part |-> "header", state |-> state, left |-> <<Unit(m, 0)>>]
  BY DEF HeaderWrite, Unit
<1>3. /\ HeaderWrite(m, state) \in WriteOperations
      /\ WriteOk(HeaderWrite(m, state), m, isOpen)
      /\ Len(HeaderWrite(m, state).left) = 1
  <2> DEFINE header == <<Unit(m, 0)>>
  <2>1. header \in Seq(Units) /\ Len(header) = 1 /\ header[1] = Unit(m, 0)
    BY <1>1
  <2> HIDE DEF header
  <2>2. HeaderWrite(m, state) = [part |-> "header", state |-> state, left |-> header]
    BY <1>2 DEF header
  <2>3. \A j \in 1 .. Len(header) : header[j] = Unit(m, 0 - Len(header) + j)
    BY <2>1
  <2>4. HeaderWrite(m, state) \in WriteOperations
    BY <2>1, <2>2 DEF WriteOperations
  <2>5. /\ HeaderWrite(m, state).part = "header"
        /\ HeaderWrite(m, state).state = state
        /\ HeaderWrite(m, state).left = header
    BY <2>2
  <2>6. WriteOk(HeaderWrite(m, state), m, isOpen)
    <3> DEFINE op == HeaderWrite(m, state)
    <3>1. op.part = "header" /\ op.state = state /\ Len(op.left) = 1
      BY <2>1, <2>5
    <3>2. \A j \in 1 .. Len(op.left) : op.left[j] = Unit(m, Last(op.part, m) - Len(op.left) + j)
      BY <2>3, <2>5 DEF Last
    <3> HIDE DEF op
    <3>3. WriteOk(op, m, isOpen)
      BY <3>1, <3>2 DEF WriteOk
    <3> QED  BY <3>3 DEF op
  <2> QED  BY <2>1, <2>4, <2>5, <2>6
<1> DEFINE units == [i \in 1 .. m.size |-> Unit(m, i)]
<1>4. m.size \in Nat /\ Len(m.body) = m.size
  BY FreshMessages
<1>5. units \in Seq(Units) /\ Len(units) = m.size /\ \A i \in 1 .. m.size : units[i] = Unit(m, i)
  <2>1. units \in [1 .. m.size -> Units]
    BY <1>4, FreshMessages
  <2> QED  BY <1>4, <2>1, SeqDef
<1>6. BodyWrite(m, state) = [part |-> "body", state |-> state, left |-> units]
  <2>1. \A i \in 1 .. m.size : Unit(m, i) = [header |-> FALSE, id |-> m.body[i], size |-> 0]
    BY <1>4 DEF Unit
  <2> QED  BY <1>4, <2>1 DEF BodyWrite
<1> HIDE DEF units
<1>7. /\ BodyWrite(m, state) \in WriteOperations
      /\ m.size > 0 => WriteOk(BodyWrite(m, state), m, isOpen)
      /\ Len(BodyWrite(m, state).left) = m.size
  BY <1>4, <1>5, <1>6 DEF WriteOperations, WriteOk, Last
<1> QED  BY <1>3, <1>7

\* The first message of the queue is the first of S that has not been written.
LEMMA FirstQueued ==
  ASSUME NEW S \in Seq(Fresh), NEW q \in Seq(Fresh), NEW ops \in Seq(WriteOperations),
         NEW isOpen \in BOOLEAN, WriterOk(S, q, ops, isOpen), q # << >>
  PROVE  /\ Len(S) - Len(q) + 1 \in 1 .. Len(S)
         /\ S[Len(S) - Len(q) + 1] = q[1]
         /\ q[1] \in Fresh /\ q[1] = Head(q)
         /\ Len(q) \in Nat \ {0} /\ Len(S) \in Nat
<1>1. Len(q) \in Nat \ {0} /\ Len(S) \in Nat /\ Len(q) <= Len(S)
  BY EmptySeq, LenProperties DEF WriterOk
<1>2. q[1] = S[Len(S) - Len(q) + 1]
  BY <1>1 DEF WriterOk
<1>3. q[1] \in Fresh /\ Head(q) = q[1]
  BY <1>1, ElementOfSeq
<1> QED  BY <1>1, <1>2, <1>3

\* RunSend.
LEMMA QueueMessage ==
  ASSUME NEW S \in Seq(Fresh), NEW q \in Seq(Fresh), NEW ops \in Seq(WriteOperations),
         NEW isOpen \in BOOLEAN, WriterOk(S, q, ops, isOpen), NEW m \in Fresh,
         NEW ops2, ops2 = IF q = << >> THEN <<HeaderWrite(m, IF isOpen THEN "pending" ELSE "error")>>
                                       ELSE ops
  PROVE  /\ WriterOk(Append(S, m), Append(q, m), ops2, isOpen)
         /\ isOpen /\ Live(ops2) => Live(ops)
         /\ isOpen => WriterPlace(Append(S, m), Append(q, m), ops2) = WriterPlace(S, q, ops)
<1> DEFINE T == Append(S, m)
           r == Append(q, m)
<1>1. /\ Len(T) = Len(S) + 1 /\ Len(S) \in Nat /\ T[Len(S) + 1] = m
      /\ \A i \in 1 .. Len(S) : T[i] = S[i]
  BY AppendProperties, LenProperties
<1>2. /\ Len(r) = Len(q) + 1 /\ Len(q) \in Nat /\ r[Len(q) + 1] = m /\ r # << >>
      /\ \A i \in 1 .. Len(q) : r[i] = q[i]
  BY AppendProperties, LenProperties
<1> HIDE DEF T, r
<1>3. \A i \in 1 .. Len(r) : r[i] = T[Len(T) - Len(r) + i]
  <2> TAKE i \in 1 .. Len(r)
  <2>1. CASE i = Len(q) + 1
    BY <1>1, <1>2, <2>1
  <2>2. CASE i \in 1 .. Len(q)
    <3>1. Len(S) - Len(q) + i \in 1 .. Len(S) /\ q[i] = S[Len(S) - Len(q) + i]
      BY <1>1, <1>2, <2>2 DEF WriterOk
    <3> QED  BY <1>1, <1>2, <2>2, <3>1
  <2> QED  BY <1>2, <2>1, <2>2
<1>4. Len(r) <= Len(T)
  BY <1>1, <1>2 DEF WriterOk
<1>5. CASE q = << >>
  <2> DEFINE op == HeaderWrite(m, IF isOpen THEN "pending" ELSE "error")
  <2>1. WriteOk(op, m, isOpen) /\ Len(op.left) = 1 /\ op.part = "header"
    BY WriteOps DEF HeaderWrite
  <2>2. ops2 = <<op>> /\ r[1] = m /\ ops = << >> /\ Len(q) = 0
    BY <1>2, <1>5 DEF WriterOk
  <2> HIDE DEF op
  <2>3. Len(ops2) = 1 /\ ops2[1] = op /\ ops2 # << >>
    BY <2>2, PlaceOfOne
  <2>4. WriterOk(T, r, ops2, isOpen)
    BY <1>2, <1>3, <1>4, <2>1, <2>2, <2>3 DEF WriterOk
  <2>5. WriterPlace(S, q, ops) = <<Len(S) + 1, 0>>
    BY <2>2 DEF WriterPlace
  <2>6. WriterPlace(T, r, ops2) = At(T, Len(S) + 1, 0)
    <3>1. Len(T) - Len(r) + 1 = Len(S) + 1
      BY <1>1, <1>2, <2>2
    <3>2. Last(op.part, r[1]) - Len(op.left) + 1 = 0
      BY <2>1 DEF Last
    <3> QED  BY <2>2, <3>1, <3>2, PlaceOfOne
  <2> QED  BY <2>2, <2>4, <2>5, <2>6 DEF Live, At, T, r
<1>6. CASE q # << >>
  <2>1. ops2 = ops /\ r[1] = q[1] /\ (isOpen => ops # << >>)
    BY <1>2, <1>6, EmptySeq DEF WriterOk
  <2>2. WriterOk(T, r, ops2, isOpen)
    BY <1>2, <1>3, <1>4, <1>6, <2>1 DEF WriterOk
  <2>3. ASSUME isOpen PROVE WriterPlace(T, r, ops) = WriterPlace(S, q, ops)
    <3>1. Len(S) - Len(q) + 1 \in 1 .. Len(S) /\ Len(T) - Len(r) + 1 = Len(S) - Len(q) + 1
      BY <1>1, <1>2, <1>6, FirstQueued
    <3>2. T[Len(S) - Len(q) + 1] = S[Len(S) - Len(q) + 1]
      BY <1>1, <3>1
    <3> QED  BY <2>1, <2>3, <3>1, <3>2 DEF WriterPlace, At
  <2> QED  BY <2>1, <2>2, <2>3 DEF T, r
<1> QED  BY <1>5, <1>6

LEMMA WithinRange == ASSUME NEW n \in Nat, NEW i \in 0 .. n PROVE ~(i > n)
  OBVIOUS

LEMMA OneAtMost == ASSUME NEW n, n = 1 PROVE n <= 1
  OBVIOUS

\* The write operations of an endpoint whose queue is q once a message is written.
NextWrites(q, isOpen) ==
    IF q = << >> THEN << >>
    ELSE <<HeaderWrite(Head(q), IF isOpen THEN "pending" ELSE "error")>>

\* Finish: the next message, if there is one.
LEMMA MessageWritten ==
  ASSUME NEW S \in Seq(Fresh), NEW q \in Seq(Fresh), NEW ops \in Seq(WriteOperations),
         NEW isOpen \in BOOLEAN, WriterOk(S, q, ops, isOpen), ops # << >>,
         ops[1].state = "done", ops[1].part = "header" => q[1].size = 0,
         NEW ops2, ops2 = NextWrites(Tail(q), isOpen)
  PROVE  /\ Tail(q) \in Seq(Fresh)
         /\ WriterOk(S, Tail(q), ops2, isOpen)
         /\ WriterPlace(S, Tail(q), ops2) = WriterPlace(S, q, ops)
<1> DEFINE r == Tail(q)
           k == Len(S) - Len(q) + 1
<1>1. q # << >> /\ WriteOk(ops[1], q[1], isOpen)
  BY DEF WriterOk
<1>2. k \in 1 .. Len(S) /\ S[k] = q[1] /\ q[1] \in Fresh /\ Len(q) \in Nat \ {0} /\ Len(S) \in Nat
  BY <1>1, FirstQueued
<1>3. r \in Seq(Fresh) /\ Len(r) = Len(q) - 1 /\ \A i \in 1 .. Len(r) : r[i] = q[i + 1]
  BY <1>1, HeadTailProperties
<1> HIDE DEF r
<1>4. \A i \in 1 .. Len(r) : r[i] = S[Len(S) - Len(r) + i]
  <2> TAKE i \in 1 .. Len(r)
  <2>1. i + 1 \in 1 .. Len(q) /\ r[i] = q[i + 1] /\ Len(S) - Len(r) + i = Len(S) - Len(q) + (i + 1)
    BY <1>2, <1>3
  <2> QED  BY <2>1 DEF WriterOk
<1>5. Len(r) <= Len(S)
  BY <1>2, <1>3 DEF WriterOk
<1>6. WriterPlace(S, q, ops) = <<k + 1, 0>>
  <2>1. q[1].size \in Nat
    BY <1>2, FreshMessages
  <2>2. Len(ops[1].left) = 0
    BY <1>1 DEF WriteOk
  <2>3. Last(ops[1].part, q[1]) = q[1].size
    BY DEF Last
  <2>4. At(S, k, q[1].size + 1) = <<k + 1, 0>>
    BY <1>2, <2>1 DEF At
  <2>5. WriterPlace(S, q, ops) = At(S, k, Last(ops[1].part, q[1]) - Len(ops[1].left) + 1)
    BY DEF WriterPlace
  <2> QED  BY <2>1, <2>2, <2>3, <2>4, <2>5
<1>7. CASE r = << >>
  <2>0. Len(r) = 0
    BY <1>7
  <2>1. ops2 = << >> /\ Len(r) = 0 /\ k = Len(S)
    <3>1. Len(q) = 1
      BY <1>2, <1>3, <2>0
    <3> QED  BY <1>2, <1>7, <2>0, <3>1 DEF r, NextWrites
  <2>2. WriterOk(S, r, ops2, isOpen)
    BY <1>4, <1>5, <1>7, <2>1 DEF WriterOk
  <2>3. WriterPlace(S, r, ops2) = <<k + 1, 0>>
    BY <2>1 DEF WriterPlace
  <2> QED  BY <1>3, <1>6, <2>2, <2>3 DEF r
<1>8. CASE r # << >>
  <2> DEFINE op == HeaderWrite(Head(r), IF isOpen THEN "pending" ELSE "error")
  <2>1. Head(r) = r[1] /\ r[1] \in Fresh
    BY <1>3, <1>8, EmptySeq, ElementOfSeq
  <2>2. WriteOk(op, r[1], isOpen) /\ Len(op.left) = 1 /\ op.part = "header"
    BY <2>1, WriteOps DEF HeaderWrite
  <2>3. ops2 = <<op>>
    BY <1>8 DEF r, NextWrites
  <2> HIDE DEF op
  <2>4. Len(ops2) = 1 /\ ops2[1] = op /\ ops2 # << >>
    BY <2>3, PlaceOfOne
  <2>5. WriterOk(S, r, ops2, isOpen)
    <3>1. WriteOk(ops2[1], r[1], isOpen)
      BY <2>2, <2>4, Zenon
    <3>2. Len(ops2) <= 1
      BY <2>4, OneAtMost
    <3> HIDE DEF k
    <3> QED  BY <1>4, <1>5, <1>8, <2>4, <3>1, <3>2 DEF WriterOk
  <2>6. WriterPlace(S, r, ops2) = At(S, k + 1, 0)
    <3>1. Len(S) - Len(r) + 1 = k + 1
      BY <1>2, <1>3
    <3>2. Last(op.part, r[1]) - Len(op.left) + 1 = 0
      BY <2>2 DEF Last
    <3>3. WriterPlace(S, r, <<op>>)
              = At(S, Len(S) - Len(r) + 1, Last(op.part, r[1]) - Len(op.left) + 1)
      BY PlaceOfOne
    <3> QED  BY <2>3, <3>1, <3>2, <3>3
  <2>7. At(S, k + 1, 0) = <<k + 1, 0>>
    BY DEF At
  <2> QED  BY <1>3, <1>6, <2>5, <2>6, <2>7 DEF r
<1> QED  BY <1>7, <1>8

\* The header has been written, and the body comes next.
LEMMA HeaderWritten ==
  ASSUME NEW S \in Seq(Fresh), NEW q \in Seq(Fresh), NEW ops \in Seq(WriteOperations),
         NEW isOpen \in BOOLEAN, WriterOk(S, q, ops, isOpen), ops # << >>,
         ops[1].state = "done", ops[1].part = "header", q[1].size > 0,
         NEW ops2, ops2 = <<BodyWrite(q[1], IF isOpen THEN "pending" ELSE "error")>>
  PROVE  /\ WriterOk(S, q, ops2, isOpen)
         /\ WriterPlace(S, q, ops2) = WriterPlace(S, q, ops)
<1> DEFINE op == BodyWrite(q[1], IF isOpen THEN "pending" ELSE "error")
           k == Len(S) - Len(q) + 1
<1>1. q # << >> /\ WriteOk(ops[1], q[1], isOpen)
  BY DEF WriterOk
<1>2. k \in 1 .. Len(S) /\ S[k] = q[1] /\ q[1] \in Fresh
  BY <1>1, FirstQueued
<1>3. q[1].size \in Nat /\ Len(ops[1].left) = 0
  BY <1>1, <1>2, FreshMessages DEF WriteOk
<1>4. WriteOk(op, q[1], isOpen) /\ Len(op.left) = q[1].size /\ op.part = "body"
  BY <1>2, WriteOps DEF BodyWrite
<1> HIDE DEF op
<1>5. Len(ops2) = 1 /\ ops2[1] = op /\ ops2 # << >>
  BY DEF op
<1>6. WriterOk(S, q, ops2, isOpen)
  BY <1>1, <1>4, <1>5 DEF WriterOk
<1>7. WriterPlace(S, q, ops2) = At(S, k, 1)
  <2>1. Last(op.part, q[1]) - Len(op.left) + 1 = 1
    BY <1>3, <1>4 DEF Last
  <2> QED  BY <1>5, <2>1 DEF WriterPlace
<1>8. WriterPlace(S, q, ops) = At(S, k, 1)
  <2>1. Last(ops[1].part, q[1]) - Len(ops[1].left) + 1 = 1
    BY <1>3 DEF Last
  <2> QED  BY <2>1 DEF WriterPlace
<1> QED  BY <1>6, <1>7, <1>8

\* NetWrite.
LEMMA UnitWritten ==
  ASSUME NEW S \in Seq(Fresh), NEW q \in Seq(Fresh), NEW ops \in Seq(WriteOperations),
         NEW isOpen \in BOOLEAN, WriterOk(S, q, ops, isOpen), ops # << >>,
         ops[1].state = "pending",
         NEW op2, op2.part = ops[1].part, op2.left = Tail(ops[1].left),
         op2.state = IF Len(ops[1].left) = 1 THEN "done" ELSE "pending",
         NEW k, k = Len(S) - Len(q) + 1,
         NEW j, j = Last(ops[1].part, q[1]) - Len(ops[1].left) + 1
  PROVE  /\ WriterOk(S, q, <<op2>>, isOpen)
         /\ k \in 1 .. Len(S) /\ j \in 0 .. S[k].size
         /\ WriterPlace(S, q, ops) = <<k, j>>
         /\ Head(ops[1].left) = Unit(S[k], j)
         /\ WriterPlace(S, q, <<op2>>) = At(S, k, j + 1)
<1> DEFINE op == ops[1]
           m == q[1]
           n == Len(op.left)
<1>1. q # << >> /\ WriteOk(op, m, isOpen) /\ op \in WriteOperations
  BY EmptySeq, ElementOfSeq DEF WriterOk
<1>2. k \in 1 .. Len(S) /\ S[k] = m /\ m \in Fresh
  BY <1>1, FirstQueued
<1>3. /\ m.size \in Nat /\ n \in Nat \ {0} /\ op.left \in Seq(Units) /\ op.left # << >>
      /\ op.part \in {"header", "body"}
  <2>1. m.size \in Nat
    BY <1>2, FreshMessages
  <2>2. op.left \in Seq(Units) /\ op.part \in {"header", "body"}
    BY <1>1 DEF WriteOperations
  <2>3. n \in Nat /\ n > 0
    BY <1>1, <2>2, LenProperties DEF WriteOk
  <2>4. op.left # << >>
    BY <2>2, <2>3, EmptySeq
  <2> QED  BY <2>1, <2>2, <2>3, <2>4
<1>4. /\ j \in 0 .. m.size /\ Last(op.part, m) \in 0 .. m.size
      /\ n <= IF op.part = "header" THEN 1 ELSE m.size
  <2> DEFINE last == Last(op.part, m)
             size == m.size
  <2>1. n <= (IF op.part = "header" THEN 1 ELSE size) /\ (op.part = "body" => size > 0)
    BY <1>1 DEF WriteOk
  <2>2. last = IF op.part = "header" THEN 0 ELSE size
    BY DEF Last
  <2>3. j = last - n + 1 /\ size \in Nat /\ n \in Nat \ {0}
    BY <1>3
  <2> HIDE DEF n, last, size
  <2>4. CASE op.part = "header"
    <3>1. n = 1 /\ last = 0 /\ j = 0
      BY <2>1, <2>2, <2>3, <2>4
    <3> QED  BY <2>3, <2>4, <3>1 DEF n, last, size
  <2>5. CASE op.part # "header"
    <3>1. n <= size /\ last = size /\ j = size - n + 1
      BY <2>1, <2>2, <2>3, <2>5
    <3>2. j \in 0 .. size /\ last \in 0 .. size
      BY <2>3, <3>1
    <3> QED  BY <2>5, <3>1, <3>2 DEF n, last, size
  <2> QED  BY <2>4, <2>5
<1>5. Head(op.left) = Unit(m, j) /\ op.left[1] = Unit(m, j)
  <2>1. op.left[1] = Unit(m, Last(op.part, m) - n + 1)
    BY <1>1, <1>3 DEF WriteOk
  <2> QED  BY <1>3, <2>1
<1>6. WriterPlace(S, q, ops) = <<k, j>>
  <2>1. WriterPlace(S, q, ops) = At(S, k, j)
    BY DEF WriterPlace
  <2>2. ~(j > S[k].size)
    <3>1. ~(j > m.size)
      BY <1>3, <1>4, WithinRange
    <3> QED  BY <1>2, <3>1
  <2> QED  BY <2>1, <2>2 DEF At
<1> DEFINE t == Tail(op.left)
<1>7. t \in Seq(Units) /\ Len(t) = n - 1 /\ \A i \in 1 .. n - 1 : t[i] = op.left[i + 1]
  BY <1>3, HeadTailProperties
<1>8. /\ op2.part = op.part /\ op2.left = t
      /\ op2.state = (IF n = 1 THEN "done" ELSE "pending")
  OBVIOUS
<1>9. WriteOk(op2, m, isOpen)
  <2>1. \A i \in 1 .. n - 1 : t[i] = Unit(m, Last(op.part, m) - (n - 1) + i)
    <3> TAKE i \in 1 .. n - 1
    <3>1. n \in Nat /\ Last(op.part, m) \in Nat
      BY <1>3, <1>4
    <3> DEFINE last == Last(op.part, m)
    <3> HIDE DEF last
    <3>2. i + 1 \in 1 .. n /\ last - n + (i + 1) = last - (n - 1) + i
      BY <3>1, NextOf DEF last
    <3>3. op.left[i + 1] = Unit(m, last - n + (i + 1))
      BY <1>1, <3>2 DEF WriteOk, last
    <3> QED  BY <1>7, <3>2, <3>3 DEF last
  <2>2. op2.part = "body" => m.size > 0
    BY <1>1, <1>8 DEF WriteOk
  <2>3. Len(t) <= IF op2.part = "header" THEN 1 ELSE m.size
    BY <1>3, <1>4, <1>7, <1>8
  <2>4. /\ op2.state = "pending" => isOpen /\ Len(t) > 0
        /\ op2.state = "done" => Len(t) = 0
    <3>1. op.state = "pending" /\ isOpen
      BY <1>1 DEF WriteOk
    <3>2. Len(t) = n - 1 /\ n \in Nat \ {0} /\ op2.state = (IF n = 1 THEN "done" ELSE "pending")
      BY <1>3, <1>7, <1>8
    <3> HIDE DEF n, t
    <3> QED  BY <3>1, <3>2
  <2> HIDE DEF t
  <2>5. \A i \in 1 .. Len(t) : op2.left[i] = Unit(m, Last(op2.part, m) - Len(t) + i)
    <3>1. Len(t) = n - 1
      BY <1>7
    <3> HIDE DEF n
    <3> QED  BY <1>8, <2>1, <3>1
  <2> QED  BY <1>8, <2>2, <2>3, <2>4, <2>5 DEF WriteOk
<1>10. WriterOk(S, q, <<op2>>, isOpen)
  <2>1. Len(<<op2>>) = 1 /\ <<op2>>[1] = op2 /\ <<op2>> # << >>
    OBVIOUS
  <2> QED  BY <1>1, <1>9, <2>1 DEF WriterOk
<1>11. WriterPlace(S, q, <<op2>>) = At(S, k, j + 1)
  <2>1. <<op2>>[1] = op2 /\ <<op2>> # << >>
    OBVIOUS
  <2>2. WriterPlace(S, q, <<op2>>) = At(S, k, Last(op2.part, m) - Len(op2.left) + 1)
    BY <2>1 DEF WriterPlace
  <2>3. Last(op2.part, m) - Len(op2.left) + 1 = j + 1
    BY <1>3, <1>4, <1>7, <1>8
  <2> QED  BY <2>2, <2>3
<1> HIDE DEF op, m
<1> QED  BY <1>2, <1>4, <1>5, <1>6, <1>8, <1>10, <1>11 DEF op, m

\* NetBreak, and what a close does to the writes.
LEMMA WriteFails ==
  ASSUME NEW S \in Seq(Fresh), NEW q \in Seq(Fresh), NEW ops \in Seq(WriteOperations),
         NEW isOpen \in BOOLEAN, WriterOk(S, q, ops, isOpen)
  PROVE  /\ ops # << >> => WriterOk(S, q, <<[ops[1] EXCEPT !.state = "error"]>>, isOpen)
         /\ ops # << >> => [ops[1] EXCEPT !.state = "error"] \in WriteOperations
         /\ WriterOk(S, q, AbortWrites(ops), FALSE)
         /\ AbortWrites(ops) \in Seq(WriteOperations)
         /\ WriterOk(S, q, << >>, FALSE)
<1>1. WriterOk(S, q, << >>, FALSE)
  BY DEF WriterOk
<1>2. CASE ops = << >>
  <2>1. AbortWrites(ops) = << >>
    BY <1>2 DEF AbortWrites
  <2> QED  BY <1>1, <1>2, <2>1
<1>3. CASE ops # << >>
  <2> DEFINE op == ops[1]
             failed == [op EXCEPT !.state = "error"]
             aborted == IF op.state = "pending" THEN failed ELSE op
  <2>1. Len(ops) = 1 /\ ops = <<op>> /\ op \in WriteOperations
    <3>1. Len(ops) \in Nat /\ Len(ops) # 0 /\ Len(ops) <= 1
      BY <1>3, EmptySeq, LenProperties DEF WriterOk
    <3>2. Len(ops) = 1 /\ 1 \in 1 .. Len(ops)
      BY <3>1, OnlyOne
    <3> QED  BY <3>1, <3>2, OneWrite
  <2>2. /\ failed \in WriteOperations /\ failed.part = op.part /\ failed.left = op.left
        /\ failed.state = "error"
    BY <2>1 DEF WriteOperations
  <2>3. aborted \in WriteOperations /\ AbortWrites(ops) = <<aborted>>
    BY <2>1, <2>2 DEF AbortWrites
  <2>4. q # << >> /\ WriteOk(op, q[1], isOpen)
    BY <1>3 DEF WriterOk
  <2>5. WriteOk(failed, q[1], isOpen) /\ WriteOk(failed, q[1], FALSE)
    BY <2>2, <2>4 DEF WriteOk
  <2>6. WriteOk(aborted, q[1], FALSE)
    BY <2>4, <2>5 DEF WriteOk
  <2> HIDE DEF failed, aborted
  <2>7. <<aborted>> \in Seq(WriteOperations)
    BY <2>3
  <2>8. WriterOk(S, q, <<failed>>, isOpen) /\ WriterOk(S, q, <<aborted>>, FALSE)
    <3>1. Len(q) <= Len(S) /\ \A i \in 1 .. Len(q) : q[i] = S[Len(S) - Len(q) + i]
      BY DEF WriterOk
    <3> QED  BY <2>4, <2>5, <2>6, <3>1, WriterOfOne
  <2> QED  BY <1>1, <2>2, <2>3, <2>7, <2>8 DEF failed
<1> QED  BY <1>2, <1>3
----------------------------------------------------------------------------
(* The reader: S is the stream, R what has been received, op the read under   *)
(* way and tmp is m_msgTemporaryIn.                                          *)

Messages == [id : Ids, size : Nat, body : Seq(Bytes)]
Temporaries == [id : Ids \cup {"none"}, size : Nat, body : Seq(Bytes \cup {"zero"})]
ReadOperations == [part : Parts, state : States, got : Seq(Units)]

\* What m_msgTemporaryIn holds when a header is read.
StaleBody(R) == IF R = << >> THEN << >> ELSE R[Len(R)].body

ReceivedOk(S, R) ==
    /\ Len(R) <= Len(S)
    /\ \A i \in 1 .. Len(R) :
          /\ R[i].id = S[i].id /\ R[i].size = S[i].size
          /\ S[i].size > 0 => R[i] = S[i]
          /\ S[i].size = 0 => R[i].body = << >> \/ (i > 1 /\ R[i].body = R[i - 1].body)

\* A read is of the next message of S, and got is the beginning of its part.
ReadOk(S, R, op, tmp) ==
    /\ op.part = "none" <=> op.state = "none"
    /\ op.part = "none" => op.got = << >>
    /\ op.part = "body" \/ Len(op.got) > 0 => Len(R) + 1 <= Len(S)
    /\ \A i \in 1 .. Len(op.got) : op.got[i] = Unit(S[Len(R) + 1], First(op.part) + i - 1)
    /\ op.part = "header" => tmp.body = StaleBody(R)
    /\ op.part = "body" => /\ tmp.id = S[Len(R) + 1].id
                           /\ tmp.size = S[Len(R) + 1].size
                           /\ tmp.size > 0
    /\ op.state = "pending" => Len(op.got) < IF op.part = "header" THEN 1 ELSE tmp.size
    /\ op.state = "done" => Len(op.got) = IF op.part = "header" THEN 1 ELSE tmp.size

ReaderOk(S, R, op, tmp, isOpen, isPrimed) ==
    /\ ReceivedOk(S, R)
    /\ ReadOk(S, R, op, tmp)
    /\ op.state = "pending" => isOpen
    /\ isOpen /\ isPrimed => op.part # "none"
    /\ ~isPrimed => op.part = "none" /\ R = << >> /\ tmp = NoMessage

\* Where in the stream the reader has got to.
ReaderPlace(S, R, op) == At(S, Len(R) + 1, First(op.part) + Len(op.got))

LEMMA ReaderPlaceType ==
  ASSUME NEW S, NEW R \in Seq(Messages), NEW op \in ReadOperations
  PROVE  ReaderPlace(S, R, op) \in Place
<1>1. Len(R) \in Nat /\ Len(op.got) \in Nat
  BY LenProperties DEF ReadOperations
<1>2. First(op.part) \in Nat
  BY DEF First
<1> QED  BY <1>1, <1>2 DEF ReaderPlace, At, Place

\* RunSend does not disturb the reader.
LEMMA StreamGrows ==
  ASSUME NEW S \in Seq(Fresh), NEW R \in Seq(Messages), NEW op \in ReadOperations,
         NEW tmp, NEW isOpen, NEW isPrimed, ReaderOk(S, R, op, tmp, isOpen, isPrimed),
         NEW m \in Fresh
  PROVE  /\ ReaderOk(Append(S, m), R, op, tmp, isOpen, isPrimed)
         /\ ReaderPlace(Append(S, m), R, op) = ReaderPlace(S, R, op)
<1> DEFINE T == Append(S, m)
           n == Len(R)
           k == Len(R) + 1
<1>1. /\ Len(T) = Len(S) + 1 /\ Len(S) \in Nat /\ n \in Nat /\ Len(op.got) \in Nat
      /\ \A i \in 1 .. Len(S) : T[i] = S[i]
  BY AppendProperties, LenProperties DEF ReadOperations
<1> HIDE DEF T
<1>2. ReceivedOk(S, R) /\ ReadOk(S, R, op, tmp) /\ n <= Len(S)
  BY DEF ReaderOk, ReceivedOk
<1>3. ReceivedOk(T, R)
  <2>1. \A i \in 1 .. n : T[i] = S[i]
    BY <1>1, <1>2
  <2> QED  BY <1>1, <1>2, <2>1 DEF ReceivedOk
<1>4. CASE op.part = "body" \/ Len(op.got) > 0
  <2>1. k \in 1 .. Len(S) /\ T[k] = S[k]
    BY <1>1, <1>2, <1>4 DEF ReadOk
  <2>2. ReadOk(T, R, op, tmp)
    <3>1. k <= Len(T) /\ T[Len(R) + 1] = S[Len(R) + 1]
      BY <1>1, <2>1
    <3> QED  BY <1>2, <3>1 DEF ReadOk
  <2>3. ReaderPlace(T, R, op) = ReaderPlace(S, R, op)
    BY <2>1 DEF ReaderPlace, At
  <2> QED  BY <1>3, <2>2, <2>3 DEF ReaderOk, T
<1>5. CASE ~(op.part = "body" \/ Len(op.got) > 0)
  <2>1. op.part # "body" /\ Len(op.got) = 0
    BY <1>1, <1>5
  <2>2. ReadOk(T, R, op, tmp)
    BY <1>2, <2>1 DEF ReadOk
  <2>3. First(op.part) + Len(op.got) = 0
    BY <2>1 DEF First
  <2>4. ReaderPlace(T, R, op) = ReaderPlace(S, R, op)
    BY <2>3 DEF ReaderPlace, At
  <2> QED  BY <1>3, <2>2, <2>4 DEF ReaderOk, T
<1> QED  BY <1>4, <1>5

\* NetRead.
\* A read operation after another unit, m_msgTemporaryIn being tmp.
WithUnit(op, tmp, unit) ==
    [op EXCEPT !.got = Append(op.got, unit),
               !.state = IF Len(Append(op.got, unit)) = IF op.part = "header" THEN 1 ELSE tmp.size
                           THEN "done" ELSE @]

LEMMA UnitRead ==
  ASSUME NEW S \in Seq(Fresh), NEW R \in Seq(Messages), NEW op \in ReadOperations,
         NEW tmp \in Temporaries, NEW isOpen, NEW isPrimed,
         ReaderOk(S, R, op, tmp, isOpen, isPrimed), op.state = "pending",
         NEW w \in Seq(Units), w # << >>, NEW to, Between(S, w, ReaderPlace(S, R, op), to),
         NEW op2, op2 = WithUnit(op, tmp, Head(w))
  PROVE  /\ op2 \in ReadOperations
         /\ ReaderOk(S, R, op2, tmp, isOpen, isPrimed)
         /\ Between(S, Tail(w), ReaderPlace(S, R, op2), to)
<1> DEFINE k == Len(R) + 1
           n == Len(op.got)
           j == First(op.part) + n
           wanted == IF op.part = "header" THEN 1 ELSE tmp.size
           got == Append(op.got, Head(w))
<1>1. /\ op.got \in Seq(Units) /\ n \in Nat /\ op.part \in Parts /\ tmp.size \in Nat
      /\ Head(w) \in Units /\ Len(R) \in Nat
  BY LenProperties, HeadTailProperties, EmptySeq DEF ReadOperations, Temporaries
<1>2. ReadOk(S, R, op, tmp) /\ ReceivedOk(S, R) /\ n < wanted /\ op.part # "none"
  BY DEF ReaderOk, ReadOk
<1>3. ReaderPlace(S, R, op) = <<k, j>> /\ j \in Nat
  <2>1. CASE op.part = "header"
    <3>1. j = 0
      BY <1>1, <1>2, <2>1 DEF First
    <3> HIDE DEF j
    <3>2. ReaderPlace(S, R, op) = At(S, k, j)
      BY DEF ReaderPlace, j
    <3> QED  BY <3>1, <3>2 DEF At
  <2>2. CASE op.part = "body"
    <3>1. j = n + 1 /\ n < tmp.size /\ tmp.size = S[k].size
      BY <1>1, <1>2, <2>2 DEF First, ReadOk
    <3>2. j \in Nat /\ ~(j > S[k].size)
      BY <1>1, <3>1
    <3> HIDE DEF j
    <3>3. ReaderPlace(S, R, op) = At(S, k, j)
      BY DEF ReaderPlace, j
    <3> QED  BY <3>2, <3>3 DEF At
  <2> QED  BY <1>1, <1>2, <2>1, <2>2 DEF Parts
<1>4. /\ k \in 1 .. Len(S) /\ j \in 0 .. S[k].size /\ Head(w) = Unit(S[k], j)
      /\ Between(S, Tail(w), At(S, k, j + 1), to)
  BY <1>3, BetweenTail
<1>5. /\ got \in Seq(Units) /\ Len(got) = n + 1 /\ got[n + 1] = Unit(S[k], j)
      /\ \A i \in 1 .. n : got[i] = op.got[i]
  BY <1>1, <1>4, AppendProperties
<1> HIDE DEF got
<1>6. /\ op2 = [op EXCEPT !.got = got, !.state = IF n + 1 = wanted THEN "done" ELSE @]
  BY <1>5 DEF got, WithUnit
<1>7. /\ op2.part = op.part /\ op2.got = got
      /\ op2.state = (IF n + 1 = wanted THEN "done" ELSE "pending")
      /\ op2 \in ReadOperations
  BY <1>5, <1>6 DEF ReadOperations, States
<1>8. \A i \in 1 .. Len(got) : got[i] = Unit(S[k], First(op.part) + i - 1)
  <2> TAKE i \in 1 .. Len(got)
  <2>1. CASE i = n + 1
    <3>1. First(op.part) + i - 1 = j
      BY <1>1, <2>1 DEF First
    <3> HIDE DEF j
    <3> QED  BY <1>5, <2>1, <3>1
  <2>2. CASE i \in 1 .. n
    BY <1>2, <1>5, <2>2 DEF ReadOk
  <2> QED  BY <1>1, <1>5, <2>1, <2>2
<1>9. ReadOk(S, R, op2, tmp)
  <2>1. k <= Len(S)
    BY <1>4
  <2>2. \A i \in 1 .. Len(op2.got) : op2.got[i] = Unit(S[k], First(op2.part) + i - 1)
    BY <1>7, <1>8
  <2>3. n + 1 <= wanted
    BY <1>1, <1>2
  <2>4. /\ op2.state = "pending" => Len(op2.got) < wanted
        /\ op2.state = "done" => Len(op2.got) = wanted
    <3>1. Len(op2.got) = n + 1
      BY <1>5, <1>7
    <3> QED  BY <1>1, <1>7, <2>3, <3>1
  <2>5. op2.part # "none" /\ op2.state # "none"
    BY <1>2, <1>7
  <2>6. /\ op2.part = "header" => tmp.body = StaleBody(R)
        /\ op2.part = "body" => tmp.id = S[k].id /\ tmp.size = S[k].size /\ tmp.size > 0
    BY <1>2, <1>7 DEF ReadOk
  <2>7. op2.part = "header" \/ op2.part = "body"
    BY <1>1, <1>2, <1>7 DEF Parts
  <2> QED  BY <1>7, <2>1, <2>2, <2>4, <2>5, <2>6, <2>7 DEF ReadOk
<1>10. ReaderOk(S, R, op2, tmp, isOpen, isPrimed)
  BY <1>2, <1>7, <1>9 DEF ReaderOk
<1>11. ReaderPlace(S, R, op2) = At(S, k, j + 1)
  <2>1. First(op2.part) + Len(op2.got) = j + 1
    <3>1. op2.part = op.part /\ Len(op2.got) = n + 1 /\ First(op.part) \in Nat
      BY <1>5, <1>7 DEF First
    <3> QED  BY <1>1, <3>1
  <2> QED  BY <2>1 DEF ReaderPlace
<1> QED  BY <1>4, <1>7, <1>10, <1>11

\* ReadHeader and ReadBody start a read that has got nothing yet.
NewRead(part, isOpen) ==
    [part |-> part, state |-> IF isOpen THEN "pending" ELSE "error", got |-> << >>]

LEMMA NewReads ==
  ASSUME NEW part \in {"header", "body"}, NEW isOpen \in BOOLEAN
  PROVE  /\ NewRead(part, isOpen) \in ReadOperations
         /\ NewRead(part, isOpen).part = part
         /\ NewRead(part, isOpen).got = << >> /\ Len(NewRead(part, isOpen).got) = 0
         /\ NewRead(part, isOpen).state = IF isOpen THEN "pending" ELSE "error"
  BY DEF NewRead, ReadOperations, Parts, States

\* A header that has been read is that of the next message.
LEMMA ReadIsNext ==
  ASSUME NEW S \in Seq(Fresh), NEW R \in Seq(Messages), NEW op \in ReadOperations,
         NEW tmp \in Temporaries, NEW isOpen, NEW isPrimed,
         ReaderOk(S, R, op, tmp, isOpen, isPrimed), op.part # "none", op.state = "done"
  PROVE  /\ Len(R) \in Nat /\ Len(R) + 1 \in 1 .. Len(S)
         /\ S[Len(R) + 1] \in Fresh
         /\ op.part = "header" =>
               /\ Len(op.got) = 1 /\ op.got[1] = Unit(S[Len(R) + 1], 0)
               /\ tmp.body = StaleBody(R)
         /\ op.part = "body" =>
               /\ tmp.id = S[Len(R) + 1].id /\ tmp.size = S[Len(R) + 1].size /\ tmp.size > 0
               /\ Len(op.got) = tmp.size
               /\ \A i \in 1 .. Len(op.got) : op.got[i] = Unit(S[Len(R) + 1], i)
<1>1. /\ op.got \in Seq(Units) /\ Len(op.got) \in Nat /\ op.part \in Parts /\ tmp.size \in Nat
      /\ Len(R) \in Nat /\ Len(S) \in Nat
  BY LenProperties DEF ReadOperations, Temporaries
<1>2. ReadOk(S, R, op, tmp)
  BY DEF ReaderOk
<1>3. Len(R) + 1 \in 1 .. Len(S)
  <2>1. op.part = "header" => Len(op.got) = 1
    BY <1>2 DEF ReadOk
  <2>2. op.part = "body" \/ Len(op.got) > 0
    <3>1. op.part = "body" \/ op.part = "header"
      BY <1>1 DEF Parts
    <3>2. CASE op.part = "header"
      <4>1. Len(op.got) = 1
        BY <2>1, <3>2
      <4>2. Len(op.got) > 0
        BY <4>1
      <4> QED  BY <4>2
    <3> QED  BY <3>1, <3>2
  <2>3. Len(R) + 1 <= Len(S)
    BY <1>2, <2>2 DEF ReadOk
  <2> QED  BY <1>1, <2>3
<1>4. S[Len(R) + 1] \in Fresh
  BY <1>3, ElementOfSeq
<1>5. op.part = "header" => /\ Len(op.got) = 1 /\ op.got[1] = Unit(S[Len(R) + 1], 0)
                            /\ tmp.body = StaleBody(R)
  BY <1>2 DEF ReadOk, First
<1>6. op.part = "body" =>
               /\ tmp.id = S[Len(R) + 1].id /\ tmp.size = S[Len(R) + 1].size /\ tmp.size > 0
               /\ Len(op.got) = tmp.size
  BY <1>2 DEF ReadOk
<1>7. ASSUME op.part = "body", NEW i \in 1 .. Len(op.got)
      PROVE  op.got[i] = Unit(S[Len(R) + 1], i)
  <2>1. First(op.part) + i - 1 = i
    BY <1>7 DEF First
  <2> QED  BY <1>2, <2>1 DEF ReadOk
<1> QED  BY <1>1, <1>3, <1>4, <1>5, <1>6, <1>7

\* A header with a size: its body is read next.
LEMMA HeaderRead ==
  ASSUME NEW S \in Seq(Fresh), NEW R \in Seq(Messages), NEW op \in ReadOperations,
         NEW tmp \in Temporaries, NEW isOpen \in BOOLEAN, NEW isPrimed,
         ReaderOk(S, R, op, tmp, isOpen, isPrimed), op.part = "header", op.state = "done",
         NEW tmp2, tmp2.id = S[Len(R) + 1].id, tmp2.size = S[Len(R) + 1].size, tmp2.size > 0,
         NEW op2, op2 = NewRead("body", isOpen)
  PROVE  /\ ReaderOk(S, R, op2, tmp2, isOpen, isPrimed)
         /\ ReaderPlace(S, R, op2) = ReaderPlace(S, R, op)
<1>1. Len(R) \in Nat /\ Len(R) + 1 \in 1 .. Len(S) /\ Len(op.got) = 1
  BY ReadIsNext
<1>2. /\ op2.part = "body" /\ op2.got = << >> /\ Len(op2.got) = 0
      /\ op2.state = IF isOpen THEN "pending" ELSE "error"
  BY NewReads
<1>3. isPrimed /\ ReceivedOk(S, R)
  BY DEF ReaderOk
<1>4. ReadOk(S, R, op2, tmp2)
  BY <1>1, <1>2 DEF ReadOk
<1>5. First(op2.part) + Len(op2.got) = 1 /\ First(op.part) + Len(op.got) = 1
  BY <1>1, <1>2 DEF First
<1> QED  BY <1>2, <1>3, <1>4, <1>5 DEF ReaderOk, ReaderPlace

\* AddToIncomingMessageQueue: a message m has been read.
LEMMA MessageRead ==
  ASSUME NEW S \in Seq(Fresh), NEW R \in Seq(Messages), NEW op \in ReadOperations,
         NEW tmp \in Temporaries, NEW isOpen \in BOOLEAN, NEW isPrimed,
         ReaderOk(S, R, op, tmp, isOpen, isPrimed), op.part # "none", op.state = "done",
         NEW m \in Messages, m.id = S[Len(R) + 1].id, m.size = S[Len(R) + 1].size,
         op.part = "header" => m.size = 0,
         IF m.size > 0 THEN m = S[Len(R) + 1] ELSE m.body = StaleBody(R),
         NEW op2, op2 = NewRead("header", isOpen)
  PROVE  /\ ReaderOk(S, Append(R, m), op2, m, isOpen, isPrimed)
         /\ ReaderPlace(S, Append(R, m), op2) = ReaderPlace(S, R, op)
<1> DEFINE n == Len(R)
           k == Len(R) + 1
           T == Append(R, m)
<1>1. n \in Nat /\ k \in 1 .. Len(S) /\ S[k] \in Fresh /\ Len(S) \in Nat
  BY ReadIsNext, LenProperties
<1>2. /\ op2.part = "header" /\ op2.got = << >> /\ Len(op2.got) = 0
      /\ op2.state = IF isOpen THEN "pending" ELSE "error"
  BY NewReads
<1>3. isPrimed /\ ReceivedOk(S, R)
  BY DEF ReaderOk, ReadOk
<1>4. Len(T) = k /\ T[k] = m /\ (\A i \in 1 .. n : T[i] = R[i]) /\ T # << >>
  BY AppendProperties
<1>5. R = << >> <=> n = 0
  BY EmptySeq
<1> HIDE DEF T
<1>6. ASSUME NEW i \in 1 .. k
      PROVE  /\ T[i].id = S[i].id /\ T[i].size = S[i].size
             /\ S[i].size > 0 => T[i] = S[i]
             /\ S[i].size = 0 => T[i].body = << >> \/ (i > 1 /\ T[i].body = T[i - 1].body)
  <2>1. CASE i = k
    <3>1. T[i] = m /\ m.id = S[i].id /\ m.size = S[i].size
      BY <1>4, <2>1
    <3>2. S[i].size > 0 => m = S[i]
      BY <2>1
    <3>3. ASSUME S[i].size = 0 PROVE m.body = << >> \/ (i > 1 /\ m.body = T[i - 1].body)
      <4>1. m.body = StaleBody(R)
        BY <2>1, <3>3
      <4>2. CASE n = 0
        BY <1>5, <4>1, <4>2 DEF StaleBody
      <4>3. CASE n # 0
        <5>1. n \in 1 .. n /\ i - 1 = n /\ i > 1
          BY <1>1, <2>1, <4>3
        <5>2. T[i - 1] = R[n]
          BY <1>4, <5>1
        <5> QED  BY <1>5, <4>1, <4>3, <5>1, <5>2 DEF StaleBody
      <4> QED  BY <4>2, <4>3
    <3> QED  BY <3>1, <3>2, <3>3
  <2>2. CASE i \in 1 .. n
    <3>1. T[i] = R[i] /\ (i > 1 => T[i - 1] = R[i - 1])
      BY <1>1, <1>4, <2>2
    <3> QED  BY <1>3, <2>2, <3>1 DEF ReceivedOk
  <2> QED  BY <1>1, <2>1, <2>2
<1>7. ReceivedOk(S, T)
  <2>1. Len(T) <= Len(S)
    BY <1>1, <1>4
  <2> QED  BY <1>4, <1>6, <2>1 DEF ReceivedOk
<1>8. StaleBody(T) = m.body
  BY <1>4 DEF StaleBody
<1>9. ReadOk(S, T, op2, m)
  BY <1>2, <1>8 DEF ReadOk
<1>10. ReaderOk(S, T, op2, m, isOpen, isPrimed)
  BY <1>2, <1>3, <1>7, <1>9 DEF ReaderOk
<1>11. ReaderPlace(S, T, op2) = <<k + 1, 0>>
  <2>1. First(op2.part) + Len(op2.got) = 0
    <3>1. First(op2.part) = 0
      BY <1>2 DEF First
    <3> QED  BY <1>2, <3>1
  <2>2. ReaderPlace(S, T, op2) = At(S, k + 1, 0)
    BY <1>4, <2>1 DEF ReaderPlace
  <2> QED  BY <2>2 DEF At
<1>12. ReaderPlace(S, R, op) = <<k + 1, 0>>
  <2>1. S[k].size \in Nat
    BY <1>1, FreshMessages
  <2>2. First(op.part) + Len(op.got) = S[k].size + 1
    <3>1. CASE op.part = "header"
      <4>1. Len(op.got) = 1 /\ S[k].size = 0
        BY <3>1, ReadIsNext
      <4> QED  BY <3>1, <4>1 DEF First
    <3>2. CASE op.part = "body"
      <4>1. Len(op.got) = S[k].size
        BY <3>2, ReadIsNext
      <4> QED  BY <2>1, <3>2, <4>1 DEF First
    <3> QED  BY <3>1, <3>2 DEF ReadOperations, Parts
  <2>3. ReaderPlace(S, R, op) = At(S, k, S[k].size + 1)
    BY <2>2 DEF ReaderPlace
  <2> QED  BY <2>1, <2>3 DEF At
<1> QED  BY <1>10, <1>11, <1>12 DEF T

\* NetEof and NetBreak.
LEMMA ReadFails ==
  ASSUME NEW S \in Seq(Fresh), NEW R \in Seq(Messages), NEW op \in ReadOperations,
         NEW tmp \in Temporaries, NEW isOpen \in BOOLEAN, NEW isPrimed \in BOOLEAN,
         ReaderOk(S, R, op, tmp, isOpen, isPrimed), op.state = "pending",
         NEW op2, op2.part = op.part, op2.got = op.got, op2.state = "error"
  PROVE  /\ ReaderOk(S, R, op2, tmp, isOpen, isPrimed)
         /\ ReaderOk(S, R, op2, tmp, FALSE, isPrimed)
         /\ ReaderPlace(S, R, op2) = ReaderPlace(S, R, op)
<1>1. op.part # "none" /\ isPrimed /\ ReadOk(S, R, op2, tmp)
  BY DEF ReaderOk, ReadOk
<1> QED  BY <1>1 DEF ReaderOk, ReaderPlace

\* What a close does to the read.
LEMMA ReadAborts ==
  ASSUME NEW S \in Seq(Fresh), NEW R \in Seq(Messages), NEW op \in ReadOperations,
         NEW tmp \in Temporaries, NEW isOpen \in BOOLEAN, NEW isPrimed \in BOOLEAN,
         ReaderOk(S, R, op, tmp, isOpen, isPrimed)
  PROVE  /\ AbortRead(op) \in ReadOperations
         /\ ReaderOk(S, R, AbortRead(op), tmp, FALSE, isPrimed)
<1> DEFINE failed == [op EXCEPT !.state = "error"]
<1>1. AbortRead(op) = IF op.state = "pending" THEN failed ELSE op
  BY DEF AbortRead
<1>2. /\ failed \in ReadOperations /\ failed.part = op.part /\ failed.got = op.got
      /\ failed.state = "error"
  BY DEF ReadOperations, States
<1> HIDE DEF failed
<1>3. CASE op.state = "pending"
  <2>1. ReaderOk(S, R, failed, tmp, FALSE, isPrimed)
    BY <1>2, <1>3, ReadFails
  <2> QED  BY <1>1, <1>2, <1>3, <2>1
<1>4. CASE op.state # "pending"
  <2>1. ReaderOk(S, R, op, tmp, FALSE, isPrimed)
    BY <1>4 DEF ReaderOk
  <2> QED  BY <1>1, <1>4, <2>1
<1> QED  BY <1>3, <1>4
----------------------------------------------------------------------------
(* The inductive invariant                                                 *)

Tasks == [task : {"send"}, msg : Fresh] \cup {CloseTask}

\* What simple_server sends back is like a message that the client has constructed.
Queued == {m \in Messages : m.id \in Bounced => m \in Fresh}

Typed == /\ open \in [Endpoints -> BOOLEAN]
         /\ primed \in [Endpoints -> BOOLEAN]
         /\ posted \in [Endpoints -> Seq(Tasks)]
         /\ m_qMessagesOut \in [Endpoints -> Seq(Fresh)]
         /\ writeOps \in [Endpoints -> Seq(WriteOperations)]
         /\ readOp \in [Endpoints -> ReadOperations]
         /\ m_msgTemporaryIn \in [Endpoints -> Temporaries]
         /\ m_qMessagesIn \in [Endpoints -> Seq(Queued)]
         /\ wire \in [Endpoints -> Seq(Units)]
         /\ sends \in [Endpoints -> Nat]
         /\ \A e \in Endpoints : sends[e] <= MaxSends(e)
         /\ sent \in [Endpoints -> Seq(Fresh)]
         /\ received \in [Endpoints -> Seq(Messages)]
         /\ misread = FALSE

Writes(e) == WriterOk(sent[e], m_qMessagesOut[e], writeOps[e], open[e])

Reads(e) == ReaderOk(sent[Peer(e)], received[e], readOp[e], m_msgTemporaryIn[e], open[e], primed[e])

\* What is on the wire is the stream from where the reader is to where the writer is,
\* as long as both are open.
WireOk(S, w, from, q, ops, rOpen, wOpen) ==
    rOpen => \E to : /\ Between(S, w, from, to)
                     /\ wOpen /\ Live(ops) => to = WriterPlace(S, q, ops)

Wire(e) == WireOk(sent[Peer(e)], wire[e], ReaderPlace(sent[Peer(e)], received[e], readOp[e]),
                  m_qMessagesOut[Peer(e)], writeOps[Peer(e)], open[e], open[Peer(e)])

IInv == Typed /\ \A e \in Endpoints : Writes(e) /\ Reads(e) /\ Wire(e)

LEMMA Peers ==
  ASSUME NEW e \in Endpoints
  PROVE  /\ Peer(e) \in Endpoints /\ Peer(e) # e /\ Peer(Peer(e)) = e
         /\ \A x \in Endpoints : x = e \/ x = Peer(e)
  BY EndpointsAssumption DEF Endpoints, Peer

\* A step of the writer of e that leaves it at the same place.
LEMMA WriterMoves ==
  ASSUME IInv, NEW e \in Endpoints, Typed', Writes(e)',
         Live(writeOps[e]') => /\ Live(writeOps[e])
                               /\ WriterPlace(sent[e], m_qMessagesOut[e], writeOps[e])'
                                    = WriterPlace(sent[e], m_qMessagesOut[e], writeOps[e]),
         \A x \in Endpoints \ {e} : /\ m_qMessagesOut'[x] = m_qMessagesOut[x]
                                    /\ writeOps'[x] = writeOps[x],
         UNCHANGED <<open, primed, sent, readOp, m_msgTemporaryIn, received, wire>>
  PROVE  IInv'
<1>1. ASSUME NEW x \in Endpoints PROVE Writes(x)' /\ Reads(x)' /\ Wire(x)'
  <2>1. Writes(x)'
    <3>1. CASE x = e
      BY <3>1
    <3>2. CASE x # e
      BY <3>2 DEF IInv, Writes
    <3> QED  BY <3>1, <3>2
  <2>2. Reads(x)'
    BY DEF IInv, Reads
  <2>3. Wire(x)'
    <3>1. CASE x = e
      <4>1. Peer(x) \in Endpoints \ {e}
        BY <3>1, Peers
      <4> QED  BY <4>1 DEF IInv, Wire
    <3>2. CASE x # e
      <4>1. Peer(x) = e
        BY <3>2, Peers
      <4> QED  BY <4>1 DEF IInv, Wire, WireOk
    <3> QED  BY <3>1, <3>2
  <2> QED  BY <2>1, <2>2, <2>3
<1> QED  BY <1>1 DEF IInv

\* A step of the reader of e that leaves it at the same place.
LEMMA ReaderMoves ==
  ASSUME IInv, NEW e \in Endpoints, Typed', Reads(e)',
         ReaderPlace(sent[Peer(e)], received[e], readOp[e])'
            = ReaderPlace(sent[Peer(e)], received[e], readOp[e]),
         \A x \in Endpoints \ {e} : /\ readOp'[x] = readOp[x]
                                    /\ m_msgTemporaryIn'[x] = m_msgTemporaryIn[x]
                                    /\ received'[x] = received[x]
                                    /\ primed'[x] = primed[x],
         UNCHANGED <<open, sent, m_qMessagesOut, writeOps, wire>>
  PROVE  IInv'
<1>1. ASSUME NEW x \in Endpoints PROVE Writes(x)' /\ Reads(x)' /\ Wire(x)'
  <2>1. Writes(x)'
    BY DEF IInv, Writes
  <2>2. Reads(x)'
    <3>1. CASE x = e
      BY <3>1
    <3>2. CASE x # e
      BY <3>2 DEF IInv, Reads
    <3> QED  BY <3>1, <3>2
  <2>3. Wire(x)'
    <3>1. CASE x = e
      BY <3>1 DEF IInv, Wire
    <3>2. CASE x # e
      BY <3>2 DEF IInv, Wire
    <3> QED  BY <3>1, <3>2
  <2> QED  BY <2>1, <2>2, <2>3
<1> QED  BY <1>1 DEF IInv

\* The socket of e is closed.
LEMMA Closes ==
  ASSUME IInv, NEW e \in Endpoints, NEW ops \in {<< >>, writeOps[e]},
         NEW rop \in {NoRead, readOp[e]},
         open' = [open EXCEPT ![e] = FALSE],
         writeOps' = [writeOps EXCEPT ![e] = AbortWrites(ops)],
         readOp' = [readOp EXCEPT ![e] = AbortRead(rop)],
         UNCHANGED <<primed, m_qMessagesOut, sent, m_msgTemporaryIn, m_qMessagesIn, received,
                     misread, wire, sends>>,
         posted' \in [Endpoints -> Seq(Tasks)]
  PROVE  IInv'
<1>1. /\ Peer(e) \in Endpoints
      /\ sent[e] \in Seq(Fresh) /\ sent[Peer(e)] \in Seq(Fresh)
      /\ m_qMessagesOut[e] \in Seq(Fresh)
      /\ writeOps[e] \in Seq(WriteOperations) /\ received[e] \in Seq(Messages)
      /\ readOp[e] \in ReadOperations /\ m_msgTemporaryIn[e] \in Temporaries
      /\ open[e] \in BOOLEAN /\ primed[e] \in BOOLEAN
  BY Peers DEF IInv, Typed
<1>2. /\ AbortWrites(ops) \in Seq(WriteOperations)
      /\ WriterOk(sent[e], m_qMessagesOut[e], AbortWrites(ops), FALSE)
  <2>1. WriterOk(sent[e], m_qMessagesOut[e], writeOps[e], open[e])
    BY DEF IInv, Writes
  <2>2. CASE ops = writeOps[e]
    BY <1>1, <2>1, <2>2, WriteFails
  <2>3. CASE ops = << >>
    <3>1. AbortWrites(ops) = << >> /\ << >> \in Seq(WriteOperations)
      BY <2>3 DEF AbortWrites
    <3>2. WriterOk(sent[e], m_qMessagesOut[e], << >>, FALSE)
      BY <1>1, <2>1, WriteFails
    <3> QED  BY <3>1, <3>2
  <2> QED  BY <2>2, <2>3
<1>3. /\ AbortRead(rop) \in ReadOperations
      /\ ReaderOk(sent[Peer(e)], received[e], AbortRead(rop), m_msgTemporaryIn[e], FALSE, primed[e])
  <2>1. ReaderOk(sent[Peer(e)], received[e], readOp[e], m_msgTemporaryIn[e], open[e], primed[e])
    BY DEF IInv, Reads
  <2>2. CASE rop = readOp[e]
    <3> DEFINE S == sent[Peer(e)]
               op == readOp[e]
               R == received[e]
               tmp == m_msgTemporaryIn[e]
               isOpen == open[e]
               isPrimed == primed[e]
    <3> HIDE DEF S, op, R, tmp, isOpen, isPrimed
    <3>1. /\ S \in Seq(Fresh) /\ R \in Seq(Messages) /\ op \in ReadOperations
          /\ tmp \in Temporaries /\ isOpen \in BOOLEAN /\ isPrimed \in BOOLEAN
          /\ ReaderOk(S, R, op, tmp, isOpen, isPrimed)
      BY <1>1, <2>1 DEF S, op, R, tmp, isOpen, isPrimed
    <3>2. /\ AbortRead(op) \in ReadOperations
          /\ ReaderOk(S, R, AbortRead(op), tmp, FALSE, isPrimed)
      BY <3>1, ReadAborts
    <3> QED  BY <2>2, <3>2 DEF S, op, R, tmp, isPrimed
  <2>3. CASE rop = NoRead
    <3>1. AbortRead(rop) = NoRead /\ NoRead \in ReadOperations
      BY <2>3 DEF AbortRead, NoRead, ReadOperations, Parts, States
    <3>2. NoRead.part = "none" /\ NoRead.state = "none" /\ NoRead.got = << >> /\ Len(NoRead.got) = 0
      BY DEF NoRead
    <3>3. ReadOk(sent[Peer(e)], received[e], NoRead, m_msgTemporaryIn[e])
      BY <3>2 DEF ReadOk
    <3>4. ReaderOk(sent[Peer(e)], received[e], NoRead, m_msgTemporaryIn[e], FALSE, primed[e])
      BY <2>1, <3>2, <3>3 DEF ReaderOk
    <3> QED  BY <3>1, <3>4
  <2> QED  BY <2>2, <2>3
<1>4. Typed'
  BY <1>2, <1>3 DEF IInv, Typed
<1>5. ASSUME NEW x \in Endpoints PROVE Writes(x)' /\ Reads(x)' /\ Wire(x)'
  <2>1. CASE x = e
    <3>1. open'[x] = FALSE /\ writeOps'[x] = AbortWrites(ops) /\ readOp'[x] = AbortRead(rop)
      BY <2>1 DEF IInv, Typed
    <3>2. Writes(x)'
      BY <1>2, <2>1, <3>1 DEF Writes
    <3>3. Reads(x)'
      BY <1>3, <2>1, <3>1 DEF Reads
    <3>4. Wire(x)'
      BY <3>1 DEF Wire, WireOk
    <3> QED  BY <3>2, <3>3, <3>4
  <2>2. CASE x # e
    <3>1. open'[x] = open[x] /\ writeOps'[x] = writeOps[x] /\ readOp'[x] = readOp[x]
      BY <2>2 DEF IInv, Typed
    <3>2. Peer(x) = e /\ open'[Peer(x)] = FALSE
      BY <2>2, Peers DEF IInv, Typed
    <3>3. Writes(x)'
      BY <3>1 DEF IInv, Writes
    <3>4. Reads(x)'
      BY <3>1 DEF IInv, Reads
    <3>5. Wire(x)'
      BY <3>1, <3>2 DEF IInv, Wire, WireOk
    <3> QED  BY <3>3, <3>4, <3>5
  <2> QED  BY <2>1, <2>2
<1> QED  BY <1>4, <1>5 DEF IInv

LEMMA InitiallyOk == Init => IInv
<1> SUFFICES ASSUME Init PROVE IInv
  OBVIOUS
<1>1. Typed
  BY BoundsAssumption DEF Init, Typed, Tasks, NoRead, NoMessage, ReadOperations, Temporaries,
                          Parts, States, MaxSends
<1>2. ASSUME NEW e \in Endpoints PROVE Writes(e) /\ Reads(e) /\ Wire(e)
  <2>1. /\ Peer(e) \in Endpoints
        /\ open[e] = TRUE /\ primed[e] = FALSE /\ m_qMessagesOut[e] = << >>
        /\ writeOps[e] = << >> /\ readOp[e] = NoRead /\ m_msgTemporaryIn[e] = NoMessage
        /\ sent[e] = << >> /\ received[e] = << >> /\ wire[e] = << >>
    BY Peers DEF Init
  <2>2. /\ sent[Peer(e)] = << >> /\ m_qMessagesOut[Peer(e)] = << >> /\ writeOps[Peer(e)] = << >>
    BY <2>1 DEF Init
  <2>3. /\ NoRead.part = "none" /\ NoRead.state = "none" /\ NoRead.got = << >> /\ Len(NoRead.got) = 0
        /\ Len(<< >>) = 0
    BY DEF NoRead
  <2>4. Writes(e)
    BY <2>1, <2>3 DEF Writes, WriterOk
  <2>5. Reads(e)
    <3>1. ReceivedOk(<< >>, << >>)
      BY <2>3 DEF ReceivedOk
    <3>2. ReadOk(<< >>, << >>, NoRead, NoMessage)
      BY <2>3 DEF ReadOk
    <3> QED  BY <2>1, <2>2, <2>3, <3>1, <3>2 DEF Reads, ReaderOk
  <2>6. Wire(e)
    <3>1. ReaderPlace(<< >>, << >>, NoRead) = <<1, 0>> /\ WriterPlace(<< >>, << >>, << >>) = <<1, 0>>
      <4>1. First(NoRead.part) + Len(NoRead.got) = 0 /\ Len(<< >>) + 1 = 1
        BY <2>3 DEF First
      <4> QED  BY <4>1 DEF ReaderPlace, WriterPlace, At
    <3>2. Between(<< >>, << >>, <<1, 0>>, <<1, 0>>)
      BY BetweenEmpty DEF Place
    <3> QED  BY <2>1, <2>2, <3>1, <3>2 DEF Wire, WireOk
  <2> QED  BY <2>4, <2>5, <2>6
<1> QED  BY <1>1, <1>2 DEF IInv

\* The applications only post tasks and take what has been received.
LEMMA ApplicationKeeps ==
  ASSUME IInv, Typed',
         UNCHANGED <<open, primed, m_qMessagesOut, writeOps, sent, readOp, m_msgTemporaryIn,
                     received, wire>>
  PROVE  IInv'
  BY DEF IInv, Writes, Reads, Wire

LEMMA SendKeeps == ASSUME IInv, NEW e \in Endpoints, NEW m \in Fresh, Send(e, m) PROVE IInv'
<1>1. [task |-> "send", msg |-> m] \in Tasks
  BY DEF Tasks
<1>2. posted' \in [Endpoints -> Seq(Tasks)]
  BY <1>1, AppendProperties DEF Send, Post, IInv, Typed
<1>3. sends' \in [Endpoints -> Nat] /\ \A x \in Endpoints : sends'[x] <= MaxSends(x)
  <2>1. MaxSends(e) \in Nat
    BY BoundsAssumption DEF MaxSends
  <2> QED  BY <2>1 DEF Send, IInv, Typed
<1>4. Typed'
  BY <1>2, <1>3 DEF Send, writer, reader, IInv, Typed
<1> QED  BY <1>4, ApplicationKeeps DEF Send, writer, reader

LEMMA HandleMessageKeeps == ASSUME IInv, NEW e \in Endpoints, HandleMessage(e) PROVE IInv'
<1>1. /\ m_qMessagesIn[e] \in Seq(Queued) /\ m_qMessagesIn[e] # << >>
  BY DEF HandleMessage, IInv, Typed
<1>2. Head(m_qMessagesIn[e]) \in Queued /\ Tail(m_qMessagesIn[e]) \in Seq(Queued)
  BY <1>1, HeadTailProperties
<1>3. m_qMessagesIn' \in [Endpoints -> Seq(Queued)]
  BY <1>2 DEF HandleMessage, IInv, Typed
<1>4. posted' \in [Endpoints -> Seq(Tasks)]
  <2>1. CASE e = Server /\ Head(m_qMessagesIn[e]).id \in Bounced
    <3> DEFINE task == [task |-> "send", msg |-> Head(m_qMessagesIn[e])]
    <3>1. task \in Tasks
      BY <1>2, <2>1 DEF Queued, Tasks
    <3>2. posted' = [posted EXCEPT ![e] = Append(@, task)]
      BY <2>1 DEF HandleMessage, Post
    <3> HIDE DEF task
    <3> QED  BY <3>1, <3>2, AppendProperties DEF IInv, Typed
  <2>2. CASE ~(e = Server /\ Head(m_qMessagesIn[e]).id \in Bounced)
    BY <2>2 DEF HandleMessage, IInv, Typed
  <2> QED  BY <2>1, <2>2
<1>5. Typed'
  BY <1>3, <1>4 DEF HandleMessage, writer, IInv, Typed
<1> QED  BY <1>5, ApplicationKeeps DEF HandleMessage, writer

LEMMA DisconnectKeeps == ASSUME IInv, NEW e \in Endpoints, Disconnect(e) PROVE IInv'
<1>1. CloseTask \in Tasks
  BY DEF Tasks
<1>2. posted' \in [Endpoints -> Seq(Tasks)]
  BY <1>1, AppendProperties DEF Disconnect, Post, IInv, Typed
<1>3. Typed'
  BY <1>2 DEF Disconnect, writer, reader, IInv, Typed
<1> QED  BY <1>3, ApplicationKeeps DEF Disconnect, writer, reader

\* The variables at one endpoint.
LEMMA TypesAt ==
  ASSUME IInv, NEW e \in Endpoints
  PROVE  /\ open[e] \in BOOLEAN /\ primed[e] \in BOOLEAN
         /\ posted[e] \in Seq(Tasks)
         /\ m_qMessagesOut[e] \in Seq(Fresh) /\ sent[e] \in Seq(Fresh)
         /\ writeOps[e] \in Seq(WriteOperations)
         /\ readOp[e] \in ReadOperations /\ m_msgTemporaryIn[e] \in Temporaries
         /\ m_qMessagesIn[e] \in Seq(Queued) /\ received[e] \in Seq(Messages)
         /\ wire[e] \in Seq(Units)
         /\ WriterOk(sent[e], m_qMessagesOut[e], writeOps[e], open[e])
         /\ ReaderOk(sent[Peer(e)], received[e], readOp[e], m_msgTemporaryIn[e], open[e], primed[e])
  BY DEF IInv, Typed, Writes, Reads

\* The operations of the model are those of the lemmas above.
LEMMA Operations ==
  ASSUME NEW e \in Endpoints
  PROVE  /\ \A q : WriteOp(e, "header", q) = HeaderWrite(Head(q), OpState(e))
         /\ \A q : WriteOp(e, "body", q) = BodyWrite(Head(q), OpState(e))
         /\ \A part : ReadOp(e, part) = NewRead(part, open[e])
         /\ OpState(e) = IF open[e] THEN "pending" ELSE "error"
<1>1. OpState(e) = IF open[e] THEN "pending" ELSE "error"
  BY DEF OpState
<1>2. \A q : WriteOp(e, "header", q) = HeaderWrite(Head(q), OpState(e))
  BY DEF WriteOp, HeaderWrite
<1>3. \A q : WriteOp(e, "body", q) = BodyWrite(Head(q), OpState(e))
  BY DEF WriteOp, BodyWrite
<1>4. \A part : ReadOp(e, part) = NewRead(part, open[e])
  BY DEF ReadOp, NewRead, OpState
<1> QED  BY <1>1, <1>2, <1>3, <1>4

LEMMA PrimeKeeps == ASSUME IInv, NEW e \in Endpoints, Prime(e) PROVE IInv'
<1> DEFINE S == sent[Peer(e)]
           op == readOp[e]
           op2 == IF e = Server /\ ~open[e] THEN op ELSE NewRead("header", open[e])
<1>1. /\ open[e] \in BOOLEAN /\ op \in ReadOperations /\ primed[e] = FALSE
      /\ ReaderOk(S, received[e], op, m_msgTemporaryIn[e], open[e], FALSE)
  BY TypesAt DEF Prime
<1>2. readOp' = [readOp EXCEPT ![e] = op2]
  BY Operations DEF Prime
<1>3. /\ NewRead("header", open[e]) \in ReadOperations
      /\ NewRead("header", open[e]).part = "header"
      /\ NewRead("header", open[e]).got = << >> /\ Len(NewRead("header", open[e]).got) = 0
      /\ NewRead("header", open[e]).state = IF open[e] THEN "pending" ELSE "error"
  BY <1>1, NewReads
<1>4. /\ received[e] = << >> /\ m_msgTemporaryIn[e] = NoMessage /\ op.part = "none"
      /\ op.got = << >> /\ Len(op.got) = 0 /\ op.state = "none"
      /\ ReceivedOk(S, received[e]) /\ ReadOk(S, received[e], op, m_msgTemporaryIn[e])
  BY <1>1 DEF ReaderOk, ReadOk
<1>5. ReaderOk(S, received[e], op2, m_msgTemporaryIn[e], open[e], TRUE)
  <2>1. CASE op2 = op
    BY <1>3, <1>4, <2>1 DEF ReaderOk
  <2>2. CASE op2 = NewRead("header", open[e])
    <3>1. m_msgTemporaryIn[e].body = StaleBody(received[e])
      BY <1>4 DEF NoMessage, StaleBody
    <3> HIDE DEF op2
    <3>2. /\ op2.part = "header" /\ op2.got = << >> /\ Len(op2.got) = 0
          /\ op2.state = IF open[e] THEN "pending" ELSE "error"
      BY <1>3, <2>2
    <3>3. ReadOk(S, received[e], op2, m_msgTemporaryIn[e])
      BY <3>1, <3>2 DEF ReadOk
    <3> QED  BY <1>4, <3>2, <3>3 DEF ReaderOk
  <2> QED  BY <2>1, <2>2
<1>6. ReaderPlace(S, received[e], op2) = ReaderPlace(S, received[e], op)
  <2>1. First(op2.part) = 0 /\ First(op.part) = 0 /\ Len(op2.got) = Len(op.got)
    BY <1>3, <1>4 DEF First
  <2> QED  BY <2>1 DEF ReaderPlace
<1>7. op2 \in ReadOperations
  BY <1>1, <1>3
<1> HIDE DEF op2
<1>8. readOp'[e] = op2 /\ primed'[e] = TRUE
  BY <1>2 DEF Prime, IInv, Typed
<1>9. Typed'
  BY <1>2, <1>7 DEF Prime, writer, IInv, Typed
<1>10. Reads(e)'
  BY <1>5, <1>8 DEF Prime, writer, Reads
<1>11. \A x \in Endpoints \ {e} : readOp'[x] = readOp[x] /\ primed'[x] = primed[x]
  BY <1>2 DEF Prime, IInv, Typed
<1> QED  BY <1>6, <1>8, <1>9, <1>10, <1>11, ReaderMoves DEF Prime, writer

LEMMA RunSendKeeps == ASSUME IInv, NEW e \in Endpoints, RunSend(e) PROVE IInv'
<1> DEFINE S == sent[e]
           q == m_qMessagesOut[e]
           ops == writeOps[e]
           m == Head(posted[e]).msg
           ops2 == IF q = << >> THEN <<HeaderWrite(m, IF open[e] THEN "pending" ELSE "error")>>
                                ELSE ops
<1>1. /\ S \in Seq(Fresh) /\ q \in Seq(Fresh) /\ ops \in Seq(WriteOperations)
      /\ open[e] \in BOOLEAN /\ WriterOk(S, q, ops, open[e])
  BY TypesAt
<1>2. m \in Fresh /\ Tail(posted[e]) \in Seq(Tasks)
  <2>1. posted[e] \in Seq(Tasks) /\ posted[e] # << >> /\ Head(posted[e]).task = "send"
    BY TypesAt DEF RunSend
  <2>2. Head(posted[e]) \in Tasks /\ Tail(posted[e]) \in Seq(Tasks)
    BY <2>1, HeadTailProperties
  <2> QED  BY <2>1, <2>2 DEF Tasks, CloseTask
<1>3. ops2 \in Seq(WriteOperations)
  <2>1. HeaderWrite(m, IF open[e] THEN "pending" ELSE "error") \in WriteOperations
    BY <1>1, <1>2, WriteOps
  <2> QED  BY <1>1, <2>1
<1>4. writeOps' = [writeOps EXCEPT ![e] = ops2]
  <2>1. CASE q = << >>
    <3>1. ops = << >>
      BY <1>1, <2>1 DEF WriterOk
    <3>2. Head(Append(q, m)) = m
      BY <2>1
    <3>3. Append(ops, WriteOp(e, "header", Append(q, m)))
             = <<HeaderWrite(m, IF open[e] THEN "pending" ELSE "error")>>
      <4>1. WriteOp(e, "header", Append(q, m)) = HeaderWrite(m, IF open[e] THEN "pending" ELSE "error")
        BY <3>2, Operations
      <4> QED  BY <3>1, <4>1, AppendToEmpty
    <3> QED  BY <2>1, <3>3 DEF RunSend
  <2>2. CASE q # << >>
    BY <2>2 DEF RunSend
  <2> QED  BY <2>1, <2>2
<1>5. /\ WriterOk(Append(S, m), Append(q, m), ops2, open[e])
      /\ open[e] /\ Live(ops2) => Live(ops)
      /\ open[e] => WriterPlace(Append(S, m), Append(q, m), ops2) = WriterPlace(S, q, ops)
  BY <1>1, <1>2, QueueMessage
<1> HIDE DEF ops2
<1>6. /\ sent'[e] = Append(S, m) /\ m_qMessagesOut'[e] = Append(q, m) /\ writeOps'[e] = ops2
      /\ \A x \in Endpoints \ {e} : /\ sent'[x] = sent[x] /\ m_qMessagesOut'[x] = m_qMessagesOut[x]
                                    /\ writeOps'[x] = writeOps[x]
  BY <1>4 DEF RunSend, IInv, Typed
<1>7. Typed'
  <2>1. Append(S, m) \in Seq(Fresh) /\ Append(q, m) \in Seq(Fresh)
    BY <1>1, <1>2, AppendProperties
  <2>2. /\ sent' = [sent EXCEPT ![e] = Append(S, m)]
        /\ m_qMessagesOut' = [m_qMessagesOut EXCEPT ![e] = Append(q, m)]
        /\ posted' = [posted EXCEPT ![e] = Tail(posted[e])]
    BY DEF RunSend
  <2> HIDE DEF m, q, S
  <2>3. /\ sent' \in [Endpoints -> Seq(Fresh)] /\ m_qMessagesOut' \in [Endpoints -> Seq(Fresh)]
        /\ writeOps' \in [Endpoints -> Seq(WriteOperations)] /\ posted' \in [Endpoints -> Seq(Tasks)]
    BY <1>2, <1>3, <1>4, <2>1, <2>2 DEF IInv, Typed
  <2> QED  BY <2>3 DEF RunSend, reader, IInv, Typed
<1>8. UNCHANGED <<open, primed, readOp, m_msgTemporaryIn, received, wire>>
  BY DEF RunSend, reader
<1>9. ASSUME NEW x \in Endpoints PROVE Writes(x)' /\ Reads(x)' /\ Wire(x)'
  <2>1. CASE x = e
    <3>1. Peer(x) \in Endpoints \ {e}
      BY <2>1, Peers
    <3>2. Writes(x)'
      BY <1>5, <1>6, <1>8, <2>1 DEF Writes
    <3>3. Reads(x)'
      BY <1>6, <1>8, <3>1 DEF IInv, Reads
    <3>4. Wire(x)'
      BY <1>6, <1>8, <3>1 DEF IInv, Wire
    <3> QED  BY <3>2, <3>3, <3>4
  <2>2. CASE x # e
    <3>1. Peer(x) = e
      BY <2>2, Peers
    <3>2. Writes(x)'
      BY <1>6, <1>8, <2>2 DEF IInv, Writes
    <3> DEFINE R == received[x]
               op == readOp[x]
               tmp == m_msgTemporaryIn[x]
    <3>3. /\ R \in Seq(Messages) /\ op \in ReadOperations
          /\ ReaderOk(S, R, op, tmp, open[x], primed[x])
      BY <3>1, TypesAt
    <3>4. /\ ReaderOk(Append(S, m), R, op, tmp, open[x], primed[x])
          /\ ReaderPlace(Append(S, m), R, op) = ReaderPlace(S, R, op)
      <4> HIDE DEF R, op, tmp, S, m
      <4> QED  BY <1>1, <1>2, <3>3, StreamGrows
    <3>5. Reads(x)'
      BY <1>6, <1>8, <3>1, <3>4 DEF Reads
    <3>6. Wire(x)'
      <4>1. WireOk(S, wire[x], ReaderPlace(S, R, op), q, ops, open[x], open[e])
        BY <3>1 DEF IInv, Wire
      <4>2. wire[x] \in Seq(Units)
        BY TypesAt
      <4> DEFINE w == wire[x]
                 from == ReaderPlace(S, R, op)
      <4> HIDE DEF w, from, S, q, ops, m
      <4>3. ASSUME open[x]
            PROVE  \E to : /\ Between(Append(S, m), w, from, to)
                           /\ open[e] /\ Live(ops2) => to = WriterPlace(Append(S, m), Append(q, m), ops2)
        <5>1. PICK to : Between(S, w, from, to) /\ (open[e] /\ Live(ops) => to = WriterPlace(S, q, ops))
          BY <4>1, <4>3 DEF WireOk, w, from
        <5>2. Between(Append(S, m), w, from, to)
          BY <1>1, <1>2, <4>2, <5>1, BetweenExtend DEF w
        <5> QED  BY <1>5, <5>1, <5>2
      <4>4. WireOk(Append(S, m), w, from, Append(q, m), ops2, open[x], open[e])
        BY <4>3 DEF WireOk
      <4>5. ReaderPlace(sent'[e], received'[x], readOp'[x]) = from
        BY <1>6, <1>8, <3>4 DEF from
      <4> QED  BY <1>6, <1>8, <3>1, <4>4, <4>5 DEF Wire, w
    <3> QED  BY <3>2, <3>5, <3>6
  <2> QED  BY <2>1, <2>2
<1> QED  BY <1>7, <1>9 DEF IInv

LEMMA RunCloseKeeps == ASSUME IInv, NEW e \in Endpoints, RunClose(e) PROVE IInv'
<1>1. posted' \in [Endpoints -> Seq(Tasks)]
  <2>1. Tail(posted[e]) \in Seq(Tasks)
    BY TypesAt, HeadTailProperties DEF RunClose
  <2> QED  BY <2>1 DEF RunClose, IInv, Typed
<1> QED  BY <1>1, Closes DEF RunClose

\* Finish, and the write of a body.
LEMMA WriteGoesOn ==
  ASSUME IInv, NEW e \in Endpoints, NEW q2 \in Seq(Fresh), NEW ops2 \in Seq(WriteOperations),
         m_qMessagesOut' = [m_qMessagesOut EXCEPT ![e] = q2],
         writeOps' = [writeOps EXCEPT ![e] = ops2],
         WriterOk(sent[e], q2, ops2, open[e]),
         Live(ops2) => /\ Live(writeOps[e])
                       /\ WriterPlace(sent[e], q2, ops2)
                            = WriterPlace(sent[e], m_qMessagesOut[e], writeOps[e]),
         UNCHANGED <<open, primed, posted, sent, reader, wire, sends>>
  PROVE  IInv'
<1>1. Typed'
  BY DEF reader, IInv, Typed
<1>2. m_qMessagesOut'[e] = q2 /\ writeOps'[e] = ops2
  BY DEF IInv, Typed
<1>3. Writes(e)'
  BY <1>2 DEF Writes
<1>4. \A x \in Endpoints \ {e} : /\ m_qMessagesOut'[x] = m_qMessagesOut[x]
                                 /\ writeOps'[x] = writeOps[x]
  BY DEF IInv, Typed
<1> QED  BY <1>1, <1>2, <1>3, <1>4, WriterMoves DEF reader

\* A handler of a write runs on the only write under way.
LEMMA OnlyWrite ==
  ASSUME IInv, NEW e \in Endpoints, NEW i \in 1 .. Len(writeOps[e])
  PROVE  /\ i = 1 /\ writeOps[e] = <<writeOps[e][1]>> /\ writeOps[e] # << >>
         /\ writeOps[e][1] \in WriteOperations
         /\ Remove(writeOps[e], i) = << >>
         /\ m_qMessagesOut[e] # << >>
         /\ WriteOk(writeOps[e][1], m_qMessagesOut[e][1], open[e])
         /\ m_qMessagesOut[e][1] \in Fresh /\ m_qMessagesOut[e][1] = Head(m_qMessagesOut[e])
<1> DEFINE q == m_qMessagesOut[e]
           ops == writeOps[e]
<1>1. /\ sent[e] \in Seq(Fresh) /\ q \in Seq(Fresh) /\ ops \in Seq(WriteOperations)
      /\ open[e] \in BOOLEAN /\ WriterOk(sent[e], q, ops, open[e])
  BY TypesAt
<1>2. Len(ops) <= 1
  BY <1>1 DEF WriterOk
<1>3. /\ i = 1 /\ ops = <<ops[1]>> /\ ops[1] \in WriteOperations /\ Remove(ops, i) = << >>
  BY <1>1, <1>2, OneWrite
<1>4. ops # << >>
  BY <1>1, LenProperties
<1>5. q # << >> /\ WriteOk(ops[1], q[1], open[e])
  BY <1>1, <1>4 DEF WriterOk
<1>6. q[1] \in Fresh /\ q[1] = Head(q)
  <2> HIDE DEF q, ops
  <2> QED  BY <1>1, <1>5, FirstQueued
<1> QED  BY <1>3, <1>4, <1>5, <1>6

LEMMA FinishKeeps ==
  ASSUME IInv, NEW e \in Endpoints, writeOps[e] # << >>, writeOps[e][1].state = "done",
         writeOps[e][1].part = "header" => m_qMessagesOut[e][1].size = 0,
         Finish(e, << >>), UNCHANGED <<open, primed, posted, sent, reader, wire, sends>>
  PROVE  IInv'
<1> DEFINE S == sent[e]
           q == m_qMessagesOut[e]
           ops == writeOps[e]
           state == IF open[e] THEN "pending" ELSE "error"
           ops2 == IF Tail(q) = << >> THEN << >> ELSE <<HeaderWrite(Head(Tail(q)), state)>>
<1>1. /\ S \in Seq(Fresh) /\ q \in Seq(Fresh) /\ ops \in Seq(WriteOperations)
      /\ open[e] \in BOOLEAN /\ WriterOk(S, q, ops, open[e])
  BY TypesAt
<1>2. m_qMessagesOut' = [m_qMessagesOut EXCEPT ![e] = Tail(q)]
  BY DEF Finish
<1>3. writeOps' = [writeOps EXCEPT ![e] = ops2]
  <2>1. Append(<< >>, WriteOp(e, "header", Tail(q))) = <<HeaderWrite(Head(Tail(q)), state)>>
    <3>1. WriteOp(e, "header", Tail(q)) = HeaderWrite(Head(Tail(q)), state)
      BY Operations
    <3> QED  BY <3>1, AppendToEmpty
  <2> QED  BY <2>1 DEF Finish
<1>4. /\ Tail(q) \in Seq(Fresh)
      /\ WriterOk(S, Tail(q), ops2, open[e])
      /\ WriterPlace(S, Tail(q), ops2) = WriterPlace(S, q, ops)
  <2> DEFINE isOpen == open[e]
  <2> HIDE DEF S, q, ops, isOpen
  <2>1. /\ isOpen \in BOOLEAN /\ WriterOk(S, q, ops, isOpen) /\ ops # << >>
        /\ ops[1].state = "done" /\ (ops[1].part = "header" => q[1].size = 0)
        /\ S \in Seq(Fresh) /\ q \in Seq(Fresh) /\ ops \in Seq(WriteOperations)
        /\ ops2 = NextWrites(Tail(q), isOpen)
    BY <1>1 DEF S, q, ops, isOpen, NextWrites
  <2> HIDE DEF ops2
  <2>2. /\ Tail(q) \in Seq(Fresh)
        /\ WriterOk(S, Tail(q), ops2, isOpen)
        /\ WriterPlace(S, Tail(q), ops2) = WriterPlace(S, q, ops)
    BY <2>1, MessageWritten
  <2> QED  BY <2>2 DEF isOpen
<1>5. ops2 \in Seq(WriteOperations)
  <2>1. CASE Tail(q) = << >>
    BY <2>1
  <2>2. CASE Tail(q) # << >>
    <3>1. Head(Tail(q)) \in Fresh
      BY <1>4, <2>2, HeadTailProperties
    <3>2. HeaderWrite(Head(Tail(q)), state) \in WriteOperations
      BY <1>1, <3>1, WriteOps
    <3> QED  BY <2>2, <3>2
  <2> QED  BY <2>1, <2>2
<1>6. Live(ops)
  BY DEF Live
<1> HIDE DEF ops2
<1> QED  BY <1>2, <1>3, <1>4, <1>5, <1>6, WriteGoesOn

LEMMA WriteErrorKeeps ==
  ASSUME IInv, NEW e \in Endpoints, CloseAfter(e, << >>, readOp[e]),
         UNCHANGED <<primed, posted, wire, sends>>
  PROVE  IInv'
<1>1. posted' \in [Endpoints -> Seq(Tasks)]
  BY DEF IInv, Typed
<1> QED  BY <1>1, Closes DEF CloseAfter

LEMMA OnWriteHeaderKeeps == ASSUME IInv, NEW e \in Endpoints, OnWriteHeader(e) PROVE IInv'
<1> DEFINE S == sent[e]
           q == m_qMessagesOut[e]
           ops == writeOps[e]
           state == IF open[e] THEN "pending" ELSE "error"
<1>1. PICK i \in 1 .. Len(ops) :
        /\ ops[i].part = "header"
        /\ \/ /\ ops[i].state = "done"
              /\ IF Len(Head(q).body) > 0
                   THEN /\ writeOps' = [writeOps EXCEPT ![e] =
                                            Append(Remove(ops, i), WriteOp(e, "body", q))]
                        /\ UNCHANGED m_qMessagesOut
                   ELSE Finish(e, Remove(ops, i))
              /\ UNCHANGED <<open, sent, reader>>
           \/ /\ ops[i].state = "error"
              /\ CloseAfter(e, Remove(ops, i), readOp[e])
        /\ UNCHANGED <<primed, posted, wire, sends>>
  BY DEF OnWriteHeader
<1>2. /\ i = 1 /\ ops # << >> /\ Remove(ops, i) = << >>
      /\ q # << >> /\ q[1] \in Fresh /\ q[1] = Head(q)
  BY OnlyWrite
<1>3. Len(Head(q).body) = q[1].size /\ q[1].size \in Nat
  BY <1>2, FreshMessages
<1>4. CASE ops[1].state = "error"
  BY <1>1, <1>2, <1>4, WriteErrorKeeps
<1>5. CASE ops[1].state = "done" /\ ~(Len(Head(q).body) > 0)
  <2>1. q[1].size = 0
    BY <1>3, <1>5
  <2>2. Finish(e, << >>) /\ UNCHANGED <<open, primed, posted, sent, reader, wire, sends>>
    BY <1>1, <1>2, <1>5
  <2> QED  BY <1>2, <1>5, <2>1, <2>2, FinishKeeps
<1>6. CASE ops[1].state = "done" /\ Len(Head(q).body) > 0
  <2> DEFINE ops2 == <<BodyWrite(q[1], state)>>
  <2>1. /\ S \in Seq(Fresh) /\ q \in Seq(Fresh) /\ ops \in Seq(WriteOperations)
        /\ open[e] \in BOOLEAN /\ WriterOk(S, q, ops, open[e])
    BY TypesAt
  <2>2. m_qMessagesOut' = [m_qMessagesOut EXCEPT ![e] = q]
    BY <1>1, <1>2, <1>6 DEF IInv, Typed
  <2>3. writeOps' = [writeOps EXCEPT ![e] = ops2]
    <3>1. WriteOp(e, "body", q) = BodyWrite(q[1], state)
      BY <1>2, Operations
    <3>2. Append(<< >>, WriteOp(e, "body", q)) = ops2
      BY <3>1, AppendToEmpty
    <3>3. writeOps' = [writeOps EXCEPT ![e] = Append(<< >>, WriteOp(e, "body", q))]
      BY <1>1, <1>2, <1>6
    <3> HIDE DEF ops2
    <3> QED  BY <3>2, <3>3
  <2>4. ops2 \in Seq(WriteOperations)
    <3>1. BodyWrite(q[1], state) \in WriteOperations
      BY <1>2, <2>1, WriteOps
    <3> QED  BY <3>1
  <2>5. WriterOk(S, q, ops2, open[e]) /\ WriterPlace(S, q, ops2) = WriterPlace(S, q, ops)
    <3> DEFINE isOpen == open[e]
    <3> HIDE DEF S, q, ops, isOpen
    <3>1. /\ isOpen \in BOOLEAN /\ WriterOk(S, q, ops, isOpen) /\ ops # << >>
          /\ ops[1].state = "done" /\ ops[1].part = "header" /\ q[1].size > 0
          /\ S \in Seq(Fresh) /\ q \in Seq(Fresh) /\ ops \in Seq(WriteOperations)
          /\ ops2 = <<BodyWrite(q[1], IF isOpen THEN "pending" ELSE "error")>>
      BY <1>1, <1>2, <1>3, <1>6, <2>1 DEF isOpen
    <3> HIDE DEF ops2
    <3> QED  BY <3>1, HeaderWritten DEF isOpen
  <2>6. Live(ops)
    BY <1>6 DEF Live
  <2>7. UNCHANGED <<open, primed, posted, sent, reader, wire, sends>>
    BY <1>1, <1>2, <1>6
  <2> HIDE DEF ops2
  <2> QED  BY <2>1, <2>2, <2>3, <2>4, <2>5, <2>6, <2>7, WriteGoesOn
<1> QED  BY <1>1, <1>2, <1>4, <1>5, <1>6

LEMMA OnWriteBodyKeeps == ASSUME IInv, NEW e \in Endpoints, OnWriteBody(e) PROVE IInv'
<1>1. PICK i \in 1 .. Len(writeOps[e]) :
        /\ writeOps[e][i].part = "body"
        /\ \/ /\ writeOps[e][i].state = "done"
              /\ Finish(e, Remove(writeOps[e], i))
              /\ UNCHANGED <<open, sent, reader>>
           \/ /\ writeOps[e][i].state = "error"
              /\ CloseAfter(e, Remove(writeOps[e], i), readOp[e])
        /\ UNCHANGED <<primed, posted, wire, sends>>
  BY DEF OnWriteBody
<1>2. i = 1 /\ writeOps[e] # << >> /\ Remove(writeOps[e], i) = << >>
  BY OnlyWrite
<1>3. CASE writeOps[e][1].state = "error"
  BY <1>1, <1>2, <1>3, WriteErrorKeeps
<1>4. CASE writeOps[e][1].state = "done"
  <2>1. Finish(e, << >>) /\ UNCHANGED <<open, primed, posted, sent, reader, wire, sends>>
    BY <1>1, <1>2, <1>4
  <2>2. writeOps[e][1].part # "header"
    BY <1>1, <1>2
  <2> QED  BY <1>2, <1>4, <2>1, <2>2, FinishKeeps
<1> QED  BY <1>1, <1>2, <1>3, <1>4

LEMMA LongerAlphabet ==
  ASSUME NEW A, NEW B, A \subseteq B, NEW s \in Seq(A)
  PROVE  s \in Seq(B)
  BY SeqDef

\* AddToIncomingMessageQueue.
LEMMA MessageArrives ==
  ASSUME IInv, NEW e \in Endpoints, readOp[e].part # "none", readOp[e].state = "done",
         NEW m \in Messages, NEW k, k = Len(received[e]) + 1,
         m.id = sent[Peer(e)][k].id, m.size = sent[Peer(e)][k].size,
         readOp[e].part = "header" => m.size = 0,
         IF m.size > 0 THEN m = sent[Peer(e)][k] ELSE m.body = StaleBody(received[e]),
         m_msgTemporaryIn' = [m_msgTemporaryIn EXCEPT ![e] = m],
         AddToIncomingMessageQueue(e, m), misread' = FALSE,
         UNCHANGED <<open, writer, primed, posted, wire, sends>>
  PROVE  IInv'
<1> DEFINE S == sent[Peer(e)]
           R == received[e]
           op == readOp[e]
           tmp == m_msgTemporaryIn[e]
           op2 == NewRead("header", open[e])
<1>1. /\ S \in Seq(Fresh) /\ R \in Seq(Messages) /\ op \in ReadOperations /\ tmp \in Temporaries
      /\ open[e] \in BOOLEAN /\ ReaderOk(S, R, op, tmp, open[e], primed[e])
      /\ m_qMessagesIn[e] \in Seq(Queued)
  BY TypesAt, Peers
<1>2. S[k] \in Fresh
  <2> DEFINE isOpen == open[e]
             isPrimed == primed[e]
  <2>1. ReaderOk(S, R, op, tmp, isOpen, isPrimed)
    BY <1>1
  <2> HIDE DEF S, R, op, tmp, isOpen, isPrimed
  <2>2. op.part # "none" /\ op.state = "done" /\ k = Len(R) + 1
    BY DEF op, R
  <2> QED  BY <1>1, <2>1, <2>2, ReadIsNext
<1>3. m \in Queued
  <2>1. m.id \in Bounced => m.size > 0
    BY <1>2, BouncedAssumption
  <2> QED  BY <1>2, <2>1 DEF Queued
<1>4. m \in Temporaries
  <2>1. m.body \in Seq(Bytes \cup {"zero"})
    BY LongerAlphabet DEF Messages
  <2>2. m = [id |-> m.id, size |-> m.size, body |-> m.body] /\ m.id \in Ids /\ m.size \in Nat
    BY DEF Messages
  <2> QED  BY <2>1, <2>2 DEF Temporaries
<1>5. /\ ReaderOk(S, Append(R, m), op2, m, open[e], primed[e])
      /\ ReaderPlace(S, Append(R, m), op2) = ReaderPlace(S, R, op)
  <2> DEFINE isOpen == open[e]
             isPrimed == primed[e]
  <2>1. ReaderOk(S, R, op, tmp, isOpen, isPrimed) /\ isOpen \in BOOLEAN
    BY <1>1
  <2>2. op2 = NewRead("header", isOpen)
    OBVIOUS
  <2> HIDE DEF S, R, op, tmp, isOpen, isPrimed, op2
  <2>3. /\ op.part # "none" /\ op.state = "done" /\ k = Len(R) + 1
        /\ m.id = S[Len(R) + 1].id /\ m.size = S[Len(R) + 1].size
        /\ op.part = "header" => m.size = 0
        /\ IF m.size > 0 THEN m = S[Len(R) + 1] ELSE m.body = StaleBody(R)
    BY DEF op, R, S
  <2>4. /\ ReaderOk(S, Append(R, m), op2, m, isOpen, isPrimed)
        /\ ReaderPlace(S, Append(R, m), op2) = ReaderPlace(S, R, op)
    BY <1>1, <2>1, <2>2, <2>3, MessageRead
  <2> QED  BY <2>4 DEF isOpen, isPrimed
<1>6. op2 \in ReadOperations
  BY <1>1, NewReads
<1>7. /\ readOp' = [readOp EXCEPT ![e] = op2]
      /\ received' = [received EXCEPT ![e] = Append(R, m)]
      /\ m_qMessagesIn' = [m_qMessagesIn EXCEPT ![e] = Append(m_qMessagesIn[e], m)]
  BY Operations DEF AddToIncomingMessageQueue
<1>8. Append(R, m) \in Seq(Messages) /\ Append(m_qMessagesIn[e], m) \in Seq(Queued)
  BY <1>1, <1>3, AppendProperties
<1> HIDE DEF op2
<1>9. Typed'
  BY <1>4, <1>6, <1>7, <1>8 DEF writer, IInv, Typed
<1>10. /\ readOp'[e] = op2 /\ received'[e] = Append(R, m) /\ m_msgTemporaryIn'[e] = m
       /\ \A x \in Endpoints \ {e} : /\ readOp'[x] = readOp[x]
                                     /\ m_msgTemporaryIn'[x] = m_msgTemporaryIn[x]
                                     /\ received'[x] = received[x]
                                     /\ primed'[x] = primed[x]
  BY <1>7 DEF IInv, Typed
<1>11. UNCHANGED <<open, sent, m_qMessagesOut, writeOps, wire, primed>>
  BY DEF writer
<1>12. Reads(e)'
  BY <1>5, <1>10, <1>11 DEF Reads
<1>13. ReaderPlace(sent'[Peer(e)], received'[e], readOp'[e]) = ReaderPlace(S, R, op)
  BY <1>5, <1>10, <1>11
<1> QED  BY <1>9, <1>10, <1>11, <1>12, <1>13, ReaderMoves

LEMMA ReadErrorKeeps ==
  ASSUME IInv, NEW e \in Endpoints, CloseAfter(e, writeOps[e], NoRead),
         UNCHANGED <<primed, posted, wire, sends>>
  PROVE  IInv'
<1>1. posted' \in [Endpoints -> Seq(Tasks)]
  BY DEF IInv, Typed
<1> QED  BY <1>1, Closes DEF CloseAfter

\* What a handler of a read has read.
LEMMA NextRead ==
  ASSUME IInv, NEW e \in Endpoints, readOp[e].part # "none", readOp[e].state = "done",
         NEW k, k = Len(received[e]) + 1
  PROVE  /\ sent[Peer(e)][k] \in Fresh
         /\ readOp[e].part = "header" =>
               /\ readOp[e].got[1] = Unit(sent[Peer(e)][k], 0)
               /\ m_msgTemporaryIn[e].body = StaleBody(received[e])
         /\ readOp[e].part = "body" =>
               /\ m_msgTemporaryIn[e].id = sent[Peer(e)][k].id
               /\ m_msgTemporaryIn[e].size = sent[Peer(e)][k].size
               /\ m_msgTemporaryIn[e].size > 0
               /\ Len(readOp[e].got) = m_msgTemporaryIn[e].size
               /\ \A i \in 1 .. Len(readOp[e].got) : readOp[e].got[i] = Unit(sent[Peer(e)][k], i)
<1> DEFINE S == sent[Peer(e)]
           R == received[e]
           op == readOp[e]
           tmp == m_msgTemporaryIn[e]
           isOpen == open[e]
           isPrimed == primed[e]
<1>1. /\ S \in Seq(Fresh) /\ R \in Seq(Messages) /\ op \in ReadOperations /\ tmp \in Temporaries
      /\ ReaderOk(S, R, op, tmp, isOpen, isPrimed) /\ op.part # "none" /\ op.state = "done"
      /\ k = Len(R) + 1
  BY TypesAt, Peers
<1> HIDE DEF S, R, op, tmp, isOpen, isPrimed
<1>2. /\ S[k] \in Fresh
      /\ op.part = "header" => op.got[1] = Unit(S[k], 0) /\ tmp.body = StaleBody(R)
      /\ op.part = "body" =>
            /\ tmp.id = S[k].id /\ tmp.size = S[k].size /\ tmp.size > 0
            /\ Len(op.got) = tmp.size
            /\ \A i \in 1 .. Len(op.got) : op.got[i] = Unit(S[k], i)
  BY <1>1, ReadIsNext
<1> QED  BY <1>2 DEF S, R, op, tmp

LEMMA OnReadHeaderKeeps == ASSUME IInv, NEW e \in Endpoints, OnReadHeader(e) PROVE IInv'
<1> DEFINE S == sent[Peer(e)]
           R == received[e]
           op == readOp[e]
           tmp == m_msgTemporaryIn[e]
           k == Len(R) + 1
<1>1. op.part = "header" /\ UNCHANGED <<primed, posted, wire, sends>>
  BY DEF OnReadHeader
<1>2. CASE op.state = "error"
  BY <1>1, <1>2, ReadErrorKeeps DEF OnReadHeader
<1>3. CASE op.state = "done"
  <2>1. S[k] \in Fresh /\ op.got[1] = Unit(S[k], 0) /\ tmp.body = StaleBody(R)
    BY <1>1, <1>3, NextRead
  <2>2. S[k].size \in Nat /\ S[k].id \in Ids
    BY <2>1, FreshMessages
  <2>3. op.got[1].header = TRUE /\ HeaderOf(op.got[1]) = {[id |-> S[k].id, size |-> S[k].size]}
    <3> DEFINE unit == op.got[1]
    <3>1. unit.header = TRUE /\ unit.id = S[k].id /\ unit.size = S[k].size
      BY <2>1 DEF Unit
    <3> HIDE DEF unit, S, k
    <3>2. HeaderOf(unit) = {[id |-> S[k].id, size |-> S[k].size]}
      BY <3>1 DEF HeaderOf
    <3> QED  BY <3>1, <3>2 DEF unit
  <2>4. misread' = FALSE /\ UNCHANGED <<open, writer>>
    BY <1>1, <1>3, <2>3 DEF OnReadHeader, IInv, Typed
  <2> DEFINE m == [id |-> S[k].id, size |-> S[k].size,
                   body |-> IF S[k].size > 0 THEN Resize(tmp.body, S[k].size) ELSE tmp.body]
  <2>5. /\ m_msgTemporaryIn' = [m_msgTemporaryIn EXCEPT ![e] = m]
        /\ IF S[k].size > 0
             THEN /\ readOp' = [readOp EXCEPT ![e] = ReadOp(e, "body")]
                  /\ UNCHANGED <<m_qMessagesIn, received>>
             ELSE AddToIncomingMessageQueue(e, m)
    <3>1. PICK h \in HeaderOf(op.got[1]) :
            LET body == IF h.size > 0 THEN Resize(tmp.body, h.size) ELSE tmp.body
                mm == [id |-> h.id, size |-> h.size, body |-> body]
            IN
            /\ m_msgTemporaryIn' = [m_msgTemporaryIn EXCEPT ![e] = mm]
            /\ IF h.size > 0
                 THEN /\ readOp' = [readOp EXCEPT ![e] = ReadOp(e, "body")]
                      /\ UNCHANGED <<m_qMessagesIn, received>>
                 ELSE AddToIncomingMessageQueue(e, mm)
      BY <1>1, <1>3 DEF OnReadHeader
    <3>2. h = [id |-> S[k].id, size |-> S[k].size]
      BY <2>3
    <3>3. h.id = S[k].id /\ h.size = S[k].size
      BY <3>2
    <3> HIDE DEF S, k, R, op, tmp
    <3> QED  BY <3>1, <3>3
  <2>6. CASE S[k].size > 0
    <3> DEFINE op2 == NewRead("body", open[e])
    <3>1. /\ readOp' = [readOp EXCEPT ![e] = op2] /\ UNCHANGED <<m_qMessagesIn, received>>
      BY <2>5, <2>6, Operations
    <3>2. /\ S \in Seq(Fresh) /\ R \in Seq(Messages) /\ op \in ReadOperations /\ tmp \in Temporaries
          /\ open[e] \in BOOLEAN /\ ReaderOk(S, R, op, tmp, open[e], primed[e])
      BY TypesAt, Peers
    <3>3. op2 \in ReadOperations
      BY <3>2, NewReads
    <3>4. m.id = S[k].id /\ m.size = S[k].size /\ m.body = Resize(tmp.body, S[k].size)
      BY <2>6
    <3>5. m \in Temporaries
      <4>1. Resize(tmp.body, S[k].size) \in Seq(Bytes \cup {"zero"})
        <5> DEFINE body == tmp.body
                   n == S[k].size
        <5>1. body \in Seq(Bytes \cup {"zero"}) /\ n \in Nat
          BY <2>2, <3>2 DEF Temporaries
        <5> HIDE DEF body, n
        <5>2. \A i \in 1 .. n : i <= Len(body) => body[i] \in Bytes \cup {"zero"}
          BY <5>1, LenProperties, ElementOfSeq
        <5>3. Resize(body, n) \in [1 .. n -> Bytes \cup {"zero"}]
          BY <5>2 DEF Resize
        <5> QED  BY <5>1, <5>3, SeqDef DEF body, n
      <4> QED  BY <2>2, <2>6, <4>1 DEF Temporaries
    <3> HIDE DEF m, op2
    <3>6. ReaderOk(S, R, op2, m, open[e], primed[e]) /\ ReaderPlace(S, R, op2) = ReaderPlace(S, R, op)
      <4> DEFINE isOpen == open[e]
                 isPrimed == primed[e]
      <4>1. /\ op2 = NewRead("body", isOpen) /\ isOpen \in BOOLEAN
            /\ ReaderOk(S, R, op, tmp, isOpen, isPrimed) /\ op.part = "header" /\ op.state = "done"
            /\ m.id = S[Len(R) + 1].id /\ m.size = S[Len(R) + 1].size /\ m.size > 0
        BY <1>1, <1>3, <2>6, <3>2, <3>4 DEF op2
      <4> HIDE DEF S, R, op, tmp, isOpen, isPrimed
      <4>2. ReaderOk(S, R, op2, m, isOpen, isPrimed) /\ ReaderPlace(S, R, op2) = ReaderPlace(S, R, op)
        BY <3>2, <4>1, HeaderRead
      <4> QED  BY <4>2 DEF isOpen, isPrimed
    <3>7. /\ readOp'[e] = op2 /\ m_msgTemporaryIn'[e] = m /\ received' = received
          /\ \A x \in Endpoints \ {e} : /\ readOp'[x] = readOp[x]
                                        /\ m_msgTemporaryIn'[x] = m_msgTemporaryIn[x]
      BY <2>5, <3>1 DEF IInv, Typed
    <3>8. Typed'
      BY <1>1, <2>4, <2>5, <3>1, <3>3, <3>5 DEF writer, IInv, Typed
    <3>9. UNCHANGED <<open, sent, m_qMessagesOut, writeOps, wire, primed>>
      BY <1>1, <2>4 DEF writer
    <3>10. Reads(e)'
      BY <3>6, <3>7, <3>9 DEF Reads
    <3>11. ReaderPlace(sent'[Peer(e)], received'[e], readOp'[e]) = ReaderPlace(S, R, op)
      BY <3>6, <3>7, <3>9
    <3> QED  BY <3>7, <3>8, <3>9, <3>10, <3>11, ReaderMoves
  <2>7. CASE ~(S[k].size > 0)
    <3>1. /\ m = [id |-> S[k].id, size |-> S[k].size, body |-> tmp.body]
          /\ m.id = S[k].id /\ m.size = S[k].size /\ m.body = tmp.body
      BY <2>7
    <3>2. StaleBody(R) \in Seq(Bytes)
      <4>1. R \in Seq(Messages)
        BY TypesAt
      <4> HIDE DEF R
      <4>2. CASE R = << >>
        BY <4>2 DEF StaleBody
      <4>3. CASE R # << >>
        <5>1. Len(R) \in 1 .. Len(R)
          BY <4>1, <4>3, EmptySeq, LenProperties
        <5>2. R[Len(R)] \in Messages
          BY <4>1, <5>1, ElementOfSeq
        <5> QED  BY <4>3, <5>2 DEF StaleBody, Messages
      <4> QED  BY <4>2, <4>3
    <3>3. m \in Messages /\ m.size = 0
      BY <2>1, <2>2, <2>7, <3>1, <3>2 DEF Messages
    <3>4. AddToIncomingMessageQueue(e, m) /\ m.body = StaleBody(R)
      BY <2>1, <2>5, <2>7, <3>1
    <3> HIDE DEF m
    <3>5. UNCHANGED <<open, writer, primed, posted, wire, sends>>
      BY <1>1, <2>4
    <3>6. IF m.size > 0 THEN m = S[k] ELSE m.body = StaleBody(R)
      BY <3>3, <3>4
    <3> QED  BY <1>1, <1>3, <2>4, <2>5, <3>1, <3>3, <3>4, <3>5, <3>6, MessageArrives
  <2> QED  BY <2>6, <2>7
<1> QED  BY <1>1, <1>2, <1>3 DEF OnReadHeader

LEMMA OnReadBodyKeeps == ASSUME IInv, NEW e \in Endpoints, OnReadBody(e) PROVE IInv'
<1> DEFINE S == sent[Peer(e)]
           R == received[e]
           op == readOp[e]
           tmp == m_msgTemporaryIn[e]
           k == Len(R) + 1
<1>1. op.part = "body" /\ UNCHANGED <<primed, posted, wire, sends>>
  BY DEF OnReadBody
<1>2. CASE op.state = "error"
  BY <1>1, <1>2, ReadErrorKeeps DEF OnReadBody
<1>3. CASE op.state = "done"
  <2>1. /\ S[k] \in Fresh /\ tmp.id = S[k].id /\ tmp.size = S[k].size /\ tmp.size > 0
        /\ Len(op.got) = tmp.size /\ tmp \in Temporaries
        /\ \A i \in 1 .. Len(op.got) : op.got[i] = Unit(S[k], i)
    BY <1>1, <1>3, NextRead, TypesAt
  <2>2. /\ S[k].size \in Nat /\ S[k] = [id |-> S[k].id, size |-> S[k].size, body |-> S[k].body]
        /\ S[k].body \in Seq(Bytes) /\ Len(S[k].body) = S[k].size /\ S[k].id \in Ids
    BY <2>1, FreshMessages
  <2>3. \A i \in 1 .. Len(op.got) : op.got[i].header = FALSE /\ op.got[i].id = S[k].body[i]
    <3> TAKE i \in 1 .. Len(op.got)
    <3>1. i # 0 /\ op.got[i] = Unit(S[k], i)
      BY <2>1, <2>2
    <3> QED  BY <3>1 DEF Unit
  <2> DEFINE body == [i \in 1 .. Len(op.got) |-> op.got[i].id]
  <2>4. body = S[k].body
    <3> DEFINE n == Len(op.got)
               b == S[k].body
    <3>1. b \in Seq(Bytes) /\ Len(b) = n /\ \A i \in 1 .. n : op.got[i].id = b[i]
      BY <2>1, <2>2, <2>3
    <3> HIDE DEF b, n
    <3>2. b = [i \in 1 .. n |-> b[i]]
      BY <3>1, LenProperties
    <3>3. b = [i \in 1 .. n |-> op.got[i].id]
      BY <3>1, <3>2
    <3> QED  BY <3>3 DEF b, n
  <2>5. [tmp EXCEPT !.body = body] = S[k]
    <3> HIDE DEF body, S, k
    <3> QED  BY <2>1, <2>2, <2>4 DEF Temporaries
  <2>6. /\ misread' = FALSE /\ UNCHANGED <<open, writer>>
        /\ m_msgTemporaryIn' = [m_msgTemporaryIn EXCEPT ![e] = [tmp EXCEPT !.body = body]]
        /\ AddToIncomingMessageQueue(e, [tmp EXCEPT !.body = body])
    BY <1>1, <1>3, <2>3 DEF OnReadBody, IInv, Typed
  <2> HIDE DEF body
  <2>7. /\ m_msgTemporaryIn' = [m_msgTemporaryIn EXCEPT ![e] = S[k]]
        /\ AddToIncomingMessageQueue(e, S[k])
    BY <2>5, <2>6
  <2>8. S[k] \in Messages
    BY <2>2 DEF Messages
  <2>9. UNCHANGED <<open, writer, primed, posted, wire, sends>>
    BY <1>1, <2>6
  <2>10. S[k].size > 0
    BY <2>1
  <2> QED  BY <1>1, <1>3, <2>6, <2>7, <2>8, <2>9, <2>10, MessageArrives
<1> QED  BY <1>1, <1>2, <1>3 DEF OnReadBody

LEMMA NetWriteKeeps == ASSUME IInv, NEW e \in Endpoints, NetWrite(e) PROVE IInv'
<1> DEFINE S == sent[e]
           q == m_qMessagesOut[e]
           ops == writeOps[e]
           r == Peer(e)
           op2 == [ops[1] EXCEPT !.left = Tail(@),
                                 !.state = IF Len(ops[1].left) = 1 THEN "done" ELSE @]
<1>1. PICK i \in 1 .. Len(ops) :
        /\ ops[i].state = "pending"
        /\ writeOps' = [writeOps EXCEPT ![e][i] =
                            [ops[i] EXCEPT !.left = Tail(@),
                                           !.state = IF Len(ops[i].left) = 1 THEN "done" ELSE @]]
        /\ wire' = IF open[r] THEN [wire EXCEPT ![r] = Append(@, Head(ops[i].left))] ELSE wire
        /\ UNCHANGED <<open, primed, posted, m_qMessagesOut, sent, reader, sends>>
  BY DEF NetWrite
<1>2. i = 1 /\ ops # << >> /\ WriteOk(ops[1], q[1], open[e])
  BY OnlyWrite
<1>3. /\ S \in Seq(Fresh) /\ q \in Seq(Fresh) /\ ops \in Seq(WriteOperations)
      /\ open[e] \in BOOLEAN /\ WriterOk(S, q, ops, open[e]) /\ r \in Endpoints
  BY TypesAt, Peers
<1>4. ops[1].state = "pending" /\ open[e]
  BY <1>1, <1>2 DEF WriteOk
<1>5. writeOps' = [writeOps EXCEPT ![e] = <<op2>>]
  <2>1. [ops EXCEPT ![1] = op2] = <<op2>>
    <3> HIDE DEF op2
    <3>1. Len(ops) <= 1 /\ 1 \in 1 .. Len(ops)
      BY <1>2, <1>3 DEF WriterOk
    <3> HIDE DEF ops
    <3> QED  BY <1>3, <3>1, OneWrite
  <2>2. writeOps' = [writeOps EXCEPT ![e] = [ops EXCEPT ![1] = op2]]
    BY <1>1, <1>2
  <2> QED  BY <2>1, <2>2
<1> DEFINE k == Len(S) - Len(q) + 1
           j == Last(ops[1].part, q[1]) - Len(ops[1].left) + 1
<1>6. /\ op2 \in WriteOperations /\ WriterOk(S, q, <<op2>>, open[e])
      /\ k \in 1 .. Len(S) /\ j \in 0 .. S[k].size
      /\ WriterPlace(S, q, ops) = <<k, j>>
      /\ Head(ops[1].left) = Unit(S[k], j)
      /\ WriterPlace(S, q, <<op2>>) = At(S, k, j + 1)
  <2>1. /\ op2 \in WriteOperations
        /\ op2.part = ops[1].part /\ op2.left = Tail(ops[1].left)
        /\ op2.state = IF Len(ops[1].left) = 1 THEN "done" ELSE "pending"
    <3> DEFINE op == ops[1]
    <3>1. op \in WriteOperations /\ op.state = "pending" /\ Tail(op.left) \in Seq(Units)
      BY <1>2, <1>4, OnlyWrite, HeadTailProperties DEF WriteOk, WriteOperations
    <3> HIDE DEF op
    <3>2. op2 = [op EXCEPT !.left = Tail(op.left),
                           !.state = IF Len(op.left) = 1 THEN "done" ELSE "pending"]
      BY <3>1 DEF op
    <3> HIDE DEF op2
    <3>3. /\ op2 \in WriteOperations /\ op2.part = op.part /\ op2.left = Tail(op.left)
          /\ op2.state = IF Len(op.left) = 1 THEN "done" ELSE "pending"
      BY <3>1, <3>2 DEF WriteOperations
    <3> QED  BY <3>3 DEF op
  <2> DEFINE isOpen == open[e]
  <2>2. isOpen \in BOOLEAN /\ WriterOk(S, q, ops, isOpen)
    BY <1>3
  <2>3. /\ k = Len(S) - Len(q) + 1 /\ j = Last(ops[1].part, q[1]) - Len(ops[1].left) + 1
        /\ ops # << >> /\ ops[1].state = "pending"
    BY <1>2, <1>4
  <2> HIDE DEF S, q, ops, isOpen, op2, k, j
  <2>4. /\ WriterOk(S, q, <<op2>>, isOpen)
        /\ k \in 1 .. Len(S) /\ j \in 0 .. S[k].size
        /\ WriterPlace(S, q, ops) = <<k, j>>
        /\ Head(ops[1].left) = Unit(S[k], j)
        /\ WriterPlace(S, q, <<op2>>) = At(S, k, j + 1)
    <3>1. S \in Seq(Fresh) /\ q \in Seq(Fresh) /\ ops \in Seq(WriteOperations)
      BY <1>3
    <3> HIDE DEF S, q, ops, op2, isOpen, k, j
    <3> QED  BY <3>1, <2>1, <2>2, <2>3, UnitWritten
  <2> QED  BY <2>1, <2>4 DEF isOpen
<1> HIDE DEF op2, k, j
<1> DEFINE unit == Unit(S[k], j)
<1>7. unit \in Units /\ S[k] \in Fresh
  <2>1. S[k] \in Fresh
    BY <1>3, <1>6, ElementOfSeq
  <2> QED  BY <1>6, <2>1, FreshMessages
<1>8. wire' = IF open[r] THEN [wire EXCEPT ![r] = Append(wire[r], unit)] ELSE wire
  BY <1>1, <1>2, <1>6
<1> HIDE DEF unit
<1>9. Typed'
  <2>1. <<op2>> \in Seq(WriteOperations)
    BY <1>6
  <2>2. writeOps' \in [Endpoints -> Seq(WriteOperations)]
    BY <1>5, <2>1 DEF IInv, Typed
  <2>3. wire' \in [Endpoints -> Seq(Units)]
    <3>1. Append(wire[r], unit) \in Seq(Units)
      BY <1>3, <1>7, TypesAt, AppendProperties
    <3> QED  BY <1>3, <1>8, <3>1 DEF IInv, Typed
  <2> QED  BY <1>1, <2>2, <2>3 DEF reader, IInv, Typed
<1>10. UNCHANGED <<open, primed, m_qMessagesOut, sent, readOp, m_msgTemporaryIn, received>>
  BY <1>1 DEF reader
<1>11. ASSUME NEW x \in Endpoints PROVE Writes(x)' /\ Reads(x)' /\ Wire(x)'
  <2>1. Reads(x)'
    BY <1>10 DEF IInv, Reads
  <2>2. CASE x = e
    <3>1. writeOps'[x] = <<op2>> /\ Peer(x) # e /\ Peer(x) \in Endpoints
      BY <1>5, <2>2, Peers DEF IInv, Typed
    <3>2. Writes(x)'
      BY <1>6, <1>10, <2>2, <3>1 DEF Writes
    <3>3. writeOps'[Peer(x)] = writeOps[Peer(x)] /\ wire'[x] = wire[x]
      BY <1>5, <1>8, <2>2, <3>1 DEF IInv, Typed
    <3>4. Wire(x)'
      BY <1>10, <3>3 DEF IInv, Wire
    <3> QED  BY <2>1, <3>2, <3>4
  <2>3. CASE x # e
    <3>1. Peer(x) = e /\ x = r /\ writeOps'[x] = writeOps[x] /\ writeOps'[e] = <<op2>>
      BY <1>5, <2>3, Peers DEF IInv, Typed
    <3>2. Writes(x)'
      BY <1>10, <3>1 DEF IInv, Writes
    <3>3. Wire(x)'
      <4> DEFINE w == wire[x]
                 from == ReaderPlace(S, received[x], readOp[x])
      <4>1. WireOk(S, w, from, q, ops, open[x], open[e])
        BY <3>1 DEF IInv, Wire
      <4>2. w \in Seq(Units) /\ Live(ops)
        BY <1>4, TypesAt DEF Live
      <4>3. ASSUME open[x] PROVE Between(S, Append(w, unit), from, WriterPlace(S, q, <<op2>>))
        <5> HIDE DEF S, q, ops, w, from
        <5>1. Between(S, w, from, <<k, j>>)
          BY <1>4, <1>6, <4>1, <4>2, <4>3 DEF WireOk
        <5>2. Between(S, Append(w, Unit(S[k], j)), from, At(S, k, j + 1))
          BY <1>3, <1>6, <1>7, <4>2, <5>1, BetweenAppend DEF unit
        <5> QED  BY <1>6, <5>2 DEF unit
      <4>4. open[x] => wire'[x] = Append(w, unit)
        BY <1>8, <3>1 DEF IInv, Typed
      <4>5. WireOk(S, wire'[x], from, q, <<op2>>, open[x], open[e])
        <5> HIDE DEF S, q, w, from
        <5> QED  BY <4>3, <4>4 DEF WireOk
      <4> QED  BY <1>10, <3>1, <4>5 DEF Wire
    <3> QED  BY <2>1, <3>2, <3>3
  <2> QED  BY <2>2, <2>3
<1> QED  BY <1>9, <1>11 DEF IInv

LEMMA NetReadKeeps == ASSUME IInv, NEW e \in Endpoints, NetRead(e) PROVE IInv'
<1> DEFINE p == Peer(e)
           S == sent[p]
           R == received[e]
           op == readOp[e]
           tmp == m_msgTemporaryIn[e]
           w == wire[e]
           isOpen == open[e]
           isPrimed == primed[e]
           got == Append(op.got, Head(w))
           op2 == [op EXCEPT !.got = got,
                             !.state = IF Len(got) = IF op.part = "header" THEN 1 ELSE tmp.size
                                         THEN "done" ELSE @]
           from == ReaderPlace(S, R, op)
           to2 == ReaderPlace(S, R, op2)
<1>1. /\ p \in Endpoints /\ p # e /\ S \in Seq(Fresh) /\ R \in Seq(Messages)
      /\ op \in ReadOperations /\ tmp \in Temporaries /\ w \in Seq(Units)
      /\ ReaderOk(S, R, op, tmp, isOpen, isPrimed)
  BY TypesAt, Peers
<1>2. /\ op.state = "pending" /\ w # << >> /\ wire' = [wire EXCEPT ![e] = Tail(w)]
      /\ UNCHANGED <<open, primed, posted, writer, m_msgTemporaryIn, m_qMessagesIn, received,
                     misread, sends>>
  BY DEF NetRead
<1>3. readOp' = [readOp EXCEPT ![e] = op2]
  <2>1. readOp' = [readOp EXCEPT ![e].got = got,
                                 ![e].state = IF Len(got) = Wanted(e) THEN "done" ELSE @]
    BY DEF NetRead
  <2>2. Wanted(e) = IF op.part = "header" THEN 1 ELSE tmp.size
    BY DEF Wanted
  <2> HIDE DEF got
  <2> QED  BY <2>1, <2>2 DEF IInv, Typed
<1>4. isOpen = TRUE
  <2>1. isOpen
    BY <1>1, <1>2 DEF ReaderOk
  <2>2. isOpen \in BOOLEAN
    BY TypesAt
  <2> QED  BY <2>1, <2>2
<1>5. WireOk(S, w, from, m_qMessagesOut[p], writeOps[p], isOpen, open[p])
  BY DEF IInv, Wire
<1>6. PICK to : /\ Between(S, w, from, to)
                /\ open[p] /\ Live(writeOps[p]) => to = WriterPlace(S, m_qMessagesOut[p], writeOps[p])
  <2> HIDE DEF S, p, w, from, isOpen
  <2> QED  BY <1>4, <1>5 DEF WireOk
<1>7. /\ op2 \in ReadOperations
      /\ ReaderOk(S, R, op2, tmp, isOpen, isPrimed)
      /\ Between(S, Tail(w), to2, to)
  <2> HIDE DEF S, R, op, tmp, w, isOpen, isPrimed
  <2>1. Between(S, w, ReaderPlace(S, R, op), to)
    BY <1>6 DEF from
  <2>2. op2 = WithUnit(op, tmp, Head(w))
    BY DEF WithUnit
  <2> HIDE DEF op2, got, from
  <2> QED  BY <1>1, <1>2, <2>1, <2>2, UnitRead
<1> HIDE DEF op2
<1>8. Tail(w) \in Seq(Units)
  BY <1>1, <1>2, HeadTailProperties
<1>9. Typed'
  <2>1. /\ readOp' \in [Endpoints -> ReadOperations] /\ wire' \in [Endpoints -> Seq(Units)]
    BY <1>2, <1>3, <1>7, <1>8 DEF IInv, Typed
  <2> QED  BY <1>2, <2>1 DEF writer, IInv, Typed
<1>10. UNCHANGED <<open, primed, m_qMessagesOut, writeOps, sent, m_msgTemporaryIn, received>>
  BY <1>2 DEF writer
<1>11. ASSUME NEW x \in Endpoints PROVE Writes(x)' /\ Reads(x)' /\ Wire(x)'
  <2>1. Writes(x)'
    BY <1>10 DEF IInv, Writes
  <2>2. CASE x = e
    <3>1. readOp'[x] = op2 /\ wire'[x] = Tail(w)
      BY <1>2, <1>3, <2>2 DEF IInv, Typed
    <3>2. Reads(x)'
      BY <1>7, <1>10, <2>2, <3>1 DEF Reads
    <3>3. WireOk(S, Tail(w), to2, m_qMessagesOut[p], writeOps[p], isOpen, open[p])
      <4> HIDE DEF S, w, p, to2, isOpen
      <4> QED  BY <1>6, <1>7 DEF WireOk
    <3>4. Wire(x)'
      BY <1>10, <2>2, <3>1, <3>3 DEF Wire
    <3> QED  BY <2>1, <3>2, <3>4
  <2>3. CASE x # e
    <3>1. readOp'[x] = readOp[x] /\ wire'[x] = wire[x]
      BY <1>2, <1>3, <2>3 DEF IInv, Typed
    <3>2. Reads(x)' /\ Wire(x)'
      BY <1>10, <3>1 DEF IInv, Reads, Wire
    <3> QED  BY <2>1, <3>2
  <2> QED  BY <2>2, <2>3
<1> QED  BY <1>9, <1>11 DEF IInv

\* An operation fails.
LEMMA ReadFailsKeeps ==
  ASSUME IInv, NEW e \in Endpoints, readOp[e].state = "pending",
         readOp' = [readOp EXCEPT ![e].state = "error"],
         UNCHANGED <<open, primed, posted, writer, m_msgTemporaryIn, m_qMessagesIn, received,
                     misread, wire, sends>>
  PROVE  IInv'
<1> DEFINE S == sent[Peer(e)]
           R == received[e]
           op == readOp[e]
           tmp == m_msgTemporaryIn[e]
           isOpen == open[e]
           isPrimed == primed[e]
           op2 == [op EXCEPT !.state = "error"]
<1>1. /\ S \in Seq(Fresh) /\ R \in Seq(Messages) /\ op \in ReadOperations /\ tmp \in Temporaries
      /\ isOpen \in BOOLEAN /\ isPrimed \in BOOLEAN /\ op.state = "pending"
      /\ ReaderOk(S, R, op, tmp, isOpen, isPrimed)
  BY TypesAt, Peers
<1>2. readOp' = [readOp EXCEPT ![e] = op2]
  BY DEF IInv, Typed
<1>3. /\ op2 \in ReadOperations /\ ReaderOk(S, R, op2, tmp, isOpen, isPrimed)
      /\ ReaderPlace(S, R, op2) = ReaderPlace(S, R, op)
  <2>1. /\ op2 \in ReadOperations /\ op2.part = op.part /\ op2.got = op.got
        /\ op2.state = "error"
    BY <1>1 DEF ReadOperations, States
  <2> HIDE DEF S, R, op, tmp, isOpen, isPrimed, op2
  <2>2. ReaderOk(S, R, op2, tmp, isOpen, isPrimed)
    BY <1>1, <2>1, ReadFails
  <2>3. ReaderPlace(S, R, op2) = ReaderPlace(S, R, op)
    BY <2>1 DEF ReaderPlace
  <2> QED  BY <2>1, <2>2, <2>3
<1> HIDE DEF op2
<1>4. Typed'
  BY <1>2, <1>3 DEF writer, IInv, Typed
<1>5. readOp'[e] = op2 /\ \A x \in Endpoints \ {e} : readOp'[x] = readOp[x]
  BY <1>2 DEF IInv, Typed
<1>6. Reads(e)'
  BY <1>3, <1>5 DEF writer, Reads
<1>7. ReaderPlace(sent'[Peer(e)], received'[e], readOp'[e]) = ReaderPlace(S, R, op)
  BY <1>3, <1>5 DEF writer
<1> QED  BY <1>4, <1>5, <1>6, <1>7, ReaderMoves DEF writer

LEMMA NetEofKeeps == ASSUME IInv, NEW e \in Endpoints, NetEof(e) PROVE IInv'
  BY ReadFailsKeeps DEF NetEof

LEMMA NetResetKeeps == ASSUME IInv, NEW e \in Endpoints, NetReset(e) PROVE IInv'
<1>1. /\ wire' = [wire EXCEPT ![e] = << >>] /\ open[Peer(e)] = FALSE
      /\ UNCHANGED <<open, primed, posted, writer, reader, sends>>
  BY Peers DEF NetReset, IInv, Typed
<1>2. Typed'
  BY <1>1 DEF writer, reader, IInv, Typed
<1>3. UNCHANGED <<open, primed, m_qMessagesOut, writeOps, sent, readOp, m_msgTemporaryIn, received>>
  BY <1>1 DEF writer, reader
<1>4. ASSUME NEW x \in Endpoints PROVE Writes(x)' /\ Reads(x)' /\ Wire(x)'
  <2>1. Writes(x)' /\ Reads(x)'
    BY <1>3 DEF IInv, Writes, Reads
  <2>2. Wire(x)'
    <3>1. CASE x = e
      <4> DEFINE S == sent[Peer(e)]
                 from == ReaderPlace(S, received[e], readOp[e])
      <4>1. from \in Place
        BY TypesAt, ReaderPlaceType
      <4>2. Between(S, << >>, from, from)
        <5> HIDE DEF S, from
        <5> QED  BY <4>1, BetweenEmpty
      <4>3. wire'[x] = << >> /\ open'[Peer(x)] = FALSE
        BY <1>1, <1>3, <3>1 DEF IInv, Typed
      <4> QED  BY <1>3, <3>1, <4>2, <4>3 DEF Wire, WireOk
    <3>2. CASE x # e
      <4>1. wire'[x] = wire[x]
        BY <1>1, <3>2 DEF IInv, Typed
      <4> QED  BY <1>3, <4>1 DEF IInv, Wire
    <3> QED  BY <3>1, <3>2
  <2> QED  BY <2>1, <2>2
<1> QED  BY <1>2, <1>4 DEF IInv

LEMMA NetBreakKeeps == ASSUME IInv, NEW e \in Endpoints, NetBreak(e) PROVE IInv'
<1>1. UNCHANGED <<open, primed, posted, m_qMessagesOut, sent, m_msgTemporaryIn,
                  m_qMessagesIn, received, misread, wire, sends>>
  BY DEF NetBreak
<1>2. CASE /\ readOp[e].state = "pending"
           /\ readOp' = [readOp EXCEPT ![e].state = "error"]
           /\ UNCHANGED writeOps
  BY <1>1, <1>2, ReadFailsKeeps DEF writer
<1>3. CASE /\ \E i \in 1 .. Len(writeOps[e]) :
                /\ writeOps[e][i].state = "pending"
                /\ writeOps' = [writeOps EXCEPT ![e][i].state = "error"]
           /\ UNCHANGED readOp
  <2> DEFINE S == sent[e]
             q == m_qMessagesOut[e]
             ops == writeOps[e]
             isOpen == open[e]
             failed == [ops[1] EXCEPT !.state = "error"]
  <2>1. PICK i \in 1 .. Len(ops) : writeOps' = [writeOps EXCEPT ![e][i].state = "error"]
    BY <1>3
  <2>2. i = 1 /\ ops # << >>
    BY OnlyWrite
  <2>3. /\ S \in Seq(Fresh) /\ q \in Seq(Fresh) /\ ops \in Seq(WriteOperations)
        /\ isOpen \in BOOLEAN /\ WriterOk(S, q, ops, isOpen)
    BY TypesAt
  <2>4. failed \in WriteOperations /\ WriterOk(S, q, <<failed>>, isOpen)
    <3> HIDE DEF S, q, ops, isOpen
    <3> QED  BY <2>2, <2>3, WriteFails DEF ops
  <2>5. writeOps' = [writeOps EXCEPT ![e] = <<failed>>]
    <3>1. writeOps' = [writeOps EXCEPT ![e] = [ops EXCEPT ![1] = failed]]
      BY <2>1, <2>2
    <3>2. [ops EXCEPT ![1] = failed] = <<failed>>
      <4> HIDE DEF failed
      <4>1. Len(ops) <= 1 /\ 1 \in 1 .. Len(ops)
        BY <2>2, <2>3 DEF WriterOk
      <4> HIDE DEF ops
      <4> QED  BY <2>3, <4>1, OneWrite
    <3> QED  BY <3>1, <3>2
  <2>6. ~Live(<<failed>>)
    <3>1. failed.state = "error"
      BY <2>3, <2>4 DEF WriteOperations
    <3> HIDE DEF failed
    <3> QED  BY <3>1, PlaceOfOne DEF Live
  <2>7. m_qMessagesOut' = [m_qMessagesOut EXCEPT ![e] = q]
    BY <1>1 DEF IInv, Typed
  <2>8. <<failed>> \in Seq(WriteOperations)
    BY <2>4
  <2> HIDE DEF failed
  <2> QED  BY <1>1, <1>3, <2>3, <2>4, <2>5, <2>6, <2>7, <2>8, WriteGoesOn DEF reader
<1> QED  BY <1>2, <1>3 DEF NetBreak

\* Every step keeps the invariant.
LEMMA StepKeeps == IInv /\ [Next]_vars => IInv'
<1> SUFFICES ASSUME IInv, [Next]_vars PROVE IInv'
  OBVIOUS
<1>1. CASE UNCHANGED vars
  <2>1. UNCHANGED <<open, primed, posted, m_qMessagesOut, writeOps, sent, readOp, m_msgTemporaryIn,
                    m_qMessagesIn, received, misread, wire, sends>>
    BY <1>1 DEF vars, writer, reader
  <2>2. Typed'
    BY <2>1 DEF IInv, Typed
  <2> QED  BY <2>1, <2>2, ApplicationKeeps
<1>2. ASSUME NEW e \in Endpoints, App(e) PROVE IInv'
  BY <1>2, SendKeeps, HandleMessageKeeps, DisconnectKeeps DEF App
<1>3. ASSUME NEW e \in Endpoints, Asio(e) PROVE IInv'
  <2>1. CASE Prime(e) \/ RunSend(e) \/ RunClose(e)
    BY <2>1, PrimeKeeps, RunSendKeeps, RunCloseKeeps
  <2>2. CASE OnWriteHeader(e) \/ OnWriteBody(e)
    BY <2>2, OnWriteHeaderKeeps, OnWriteBodyKeeps
  <2>3. CASE OnReadHeader(e) \/ OnReadBody(e)
    BY <2>3, OnReadHeaderKeeps, OnReadBodyKeeps
  <2> QED  BY <1>3, <2>1, <2>2, <2>3 DEF Asio
<1>4. ASSUME NEW e \in Endpoints, Delivery(e) \/ NetReset(e) \/ NetBreak(e) PROVE IInv'
  BY <1>4, NetWriteKeeps, NetReadKeeps, NetEofKeeps, NetResetKeeps, NetBreakKeeps DEF Delivery
<1> QED  BY <1>1, <1>2, <1>3, <1>4 DEF Next

\* The invariant of every behaviour of the two ends.
THEOREM Invariance == Spec => []IInv
  BY InitiallyOk, StepKeeps, PTL DEF Spec
----------------------------------------------------------------------------
(* The properties                                                          *)

LEMMA InvChains == IInv => ChainsGoOn
<1> SUFFICES ASSUME IInv PROVE ChainsGoOn
  OBVIOUS
<1>1. ASSUME NEW e \in Endpoints
      PROVE  /\ \A i \in 1 .. Len(posted[e]) : posted[e][i].task \in {"send", "close"}
             /\ Len(writeOps[e]) <= 1
             /\ \A i \in 1 .. Len(writeOps[e]) :
                   /\ writeOps[e][i].part \in Parts \ {"none"}
                   /\ writeOps[e][i].state \in States \ {"none"}
             /\ readOp[e].part \in Parts
             /\ readOp[e].state \in States
             /\ readOp[e].part = "none" <=> readOp[e].state = "none"
             /\ sends[e] \in 0 .. MaxSends(e)
  <2>1. \A i \in 1 .. Len(posted[e]) : posted[e][i].task \in {"send", "close"}
    <3> TAKE i \in 1 .. Len(posted[e])
    <3>1. posted[e][i] \in Tasks
      BY TypesAt, ElementOfSeq
    <3> QED  BY <3>1 DEF Tasks, CloseTask
  <2>2. Len(writeOps[e]) <= 1
    BY TypesAt DEF WriterOk
  <2>3. ASSUME NEW i \in 1 .. Len(writeOps[e])
        PROVE  /\ writeOps[e][i].part \in Parts \ {"none"}
               /\ writeOps[e][i].state \in States \ {"none"}
    <3>1. writeOps[e][i] \in WriteOperations
      BY TypesAt, ElementOfSeq
    <3> QED  BY <3>1 DEF WriteOperations, Parts, States
  <2>4. /\ readOp[e].part \in Parts /\ readOp[e].state \in States
        /\ readOp[e].part = "none" <=> readOp[e].state = "none"
    BY TypesAt DEF ReadOperations, ReaderOk, ReadOk
  <2>5. sends[e] \in 0 .. MaxSends(e)
    <3>1. MaxSends(e) \in Nat
      BY BoundsAssumption DEF MaxSends
    <3> QED  BY <3>1 DEF IInv, Typed
  <2> QED  BY <2>1, <2>2, <2>3, <2>4, <2>5
<1>2. TypeOK
  BY <1>1 DEF IInv, Typed, TypeOK
<1>3. WriterBusyIffQueued
  BY DEF IInv, Writes, WriterOk, WriterBusyIffQueued
<1>4. AlwaysReading
  BY DEF IInv, Reads, ReaderOk, AlwaysReading
<1> QED  BY <1>2, <1>3, <1>4 DEF ChainsGoOn

\* Neither chain of handlers breaks off or is doubled, whatever is sent, closed or
\* broken: net_connection.h's writer and reader.
THEOREM ChainsAlwaysGoOn == Spec => []ChainsGoOn
  BY Invariance, InvChains, PTL

LEMMA InvReadAsSent == IInv => ReadAsSent
<1> SUFFICES ASSUME IInv PROVE ReadAsSent
  OBVIOUS
<1>1. NeverMisread
  BY DEF IInv, Typed, NeverMisread
<1>2. ASSUME NEW e \in Endpoints, NEW i \in 1 .. Len(received[e])
      PROVE  IF received[e][i].size > 0 THEN received[e][i] = sent[Peer(e)][i]
             ELSE received[e][i].body = << >> \/ (i > 1 /\ received[e][i].body = received[e][i - 1].body)
  <2> DEFINE S == sent[Peer(e)]
             R == received[e]
  <2>1. ReceivedOk(S, R)
    BY DEF IInv, Reads, ReaderOk
  <2>2. S \in Seq(Fresh) /\ R \in Seq(Messages) /\ i \in 1 .. Len(R)
    BY TypesAt, Peers
  <2> HIDE DEF S, R
  <2>3. i \in 1 .. Len(S)
    BY <2>1, <2>2, LenProperties DEF ReceivedOk
  <2>4. S[i].size \in Nat
    BY <2>2, <2>3, ElementOfSeq, FreshMessages
  <2>5. IF R[i].size > 0 THEN R[i] = S[i]
        ELSE R[i].body = << >> \/ (i > 1 /\ R[i].body = R[i - 1].body)
    BY <2>1, <2>2, <2>4 DEF ReceivedOk
  <2> QED  BY <2>5 DEF S, R
<1>3. BodyIsOwnOrStale
  BY <1>2 DEF BodyIsOwnOrStale
<1> QED  BY <1>1, <1>3 DEF ReadAsSent

\* The two ends never disagree on where a header ends, and what is received is what was
\* sent, but for the stale body of a message without one (net_connection.h:195).
THEOREM AlwaysReadAsSent == Spec => []ReadAsSent
  BY Invariance, InvReadAsSent, PTL

----------------------------------------------------------------------------
(* The refinement                                                          *)

\* The messages that have been received are the first ones that were sent.
LEMMA PayloadSent ==
  ASSUME NEW S \in Seq(Fresh), NEW R \in Seq(Messages), ReceivedOk(S, R)
  PROVE  /\ Len(R) \in Nat /\ Len(R) <= Len(S) /\ Len(S) \in Nat
         /\ \A i \in 1 .. Len(R) : Payload(R[i]) = S[i] /\ S[i] \in Fresh
<1>1. Len(R) \in Nat /\ Len(R) <= Len(S) /\ Len(S) \in Nat
  BY LenProperties DEF ReceivedOk
<1>2. ASSUME NEW i \in 1 .. Len(R) PROVE Payload(R[i]) = S[i] /\ S[i] \in Fresh
  <2> DEFINE m == R[i]
             n == S[i]
  <2>1. n \in Fresh /\ m \in Messages
    BY <1>1, ElementOfSeq
  <2>2. /\ n.size \in Nat /\ n.body \in Seq(Bytes) /\ Len(n.body) = n.size
        /\ n = [id |-> n.id, size |-> n.size, body |-> n.body]
    BY <2>1, FreshMessages
  <2>3. m.id = n.id /\ m.size = n.size /\ (n.size > 0 => m = n)
    BY <1>2 DEF ReceivedOk
  <2> HIDE DEF m, n
  <2>4. SubSeq(m.body, 1, m.size) = n.body
    <3>1. CASE n.size > 0
      <4>1. m.body = n.body /\ m.size = Len(n.body)
        BY <2>2, <2>3, <3>1
      <4> QED  BY <2>2, <4>1, SubSeqFull
    <3>2. CASE n.size = 0
      <4>1. n.body = << >>
        BY <2>2, <3>2, EmptySeq
      <4>2. SubSeq(m.body, 1, 0) = << >>
        BY SubSeqEmpty
      <4> QED  BY <2>3, <3>2, <4>1, <4>2
    <3> QED  BY <2>2, <3>1, <3>2
  <2>5. Payload(m) = [m EXCEPT !.body = SubSeq(m.body, 1, m.size)]
    BY DEF Payload
  <2>6. Payload(m) = [id |-> m.id, size |-> m.size, body |-> n.body]
    BY <2>1, <2>4, <2>5 DEF Messages
  <2>7. Payload(m) = n
    BY <2>2, <2>3, <2>6
  <2> QED  BY <2>1, <2>7 DEF m, n
<1> QED  BY <1>1, <1>2

DeliveredOk ==
    \A e \in Endpoints :
        /\ Len(received[e]) \in Nat /\ Len(received[e]) <= Len(sent[Peer(e)])
        /\ Delivered[e] = [i \in 1 .. Len(received[e]) |-> sent[Peer(e)][i]]
        /\ Delivered[e] \in Seq(Fresh) /\ Len(Delivered[e]) = Len(received[e])

LEMMA DeliveredSent == IInv => DeliveredOk
<1> SUFFICES ASSUME IInv, NEW e \in Endpoints
             PROVE  /\ Len(received[e]) \in Nat /\ Len(received[e]) <= Len(sent[Peer(e)])
                    /\ Delivered[e] = [i \in 1 .. Len(received[e]) |-> sent[Peer(e)][i]]
                    /\ Delivered[e] \in Seq(Fresh) /\ Len(Delivered[e]) = Len(received[e])
  BY DEF DeliveredOk
<1> DEFINE S == sent[Peer(e)]
           R == received[e]
           D == [i \in 1 .. Len(R) |-> S[i]]
<1>1. S \in Seq(Fresh) /\ R \in Seq(Messages) /\ ReceivedOk(S, R)
  BY TypesAt, Peers DEF ReaderOk
<1> HIDE DEF S, R
<1>2. /\ Len(R) \in Nat /\ Len(R) <= Len(S)
      /\ \A i \in 1 .. Len(R) : Payload(R[i]) = S[i] /\ S[i] \in Fresh
  BY <1>1, PayloadSent
<1>3. [i \in 1 .. Len(R) |-> Payload(R[i])] = D
  BY <1>2
<1>4. D \in Seq(Fresh) /\ Len(D) = Len(R)
  <2>1. D \in [1 .. Len(R) -> Fresh]
    BY <1>2
  <2> QED  BY <1>2, <2>1, SeqDef
<1> QED  BY <1>2, <1>3, <1>4 DEF Delivered, S, R

\* A message arrives.
LEMMA MessageDelivered ==
  ASSUME IInv, IInv', NEW e \in Endpoints, NEW m,
         received' = [received EXCEPT ![e] = Append(received[e], m)], sent' = sent
  PROVE  Channel!Deliver(e)
<1> DEFINE S == sent[Peer(e)]
           R == received[e]
           n == Len(R)
           D == Delivered[e]
<1>1. DeliveredOk /\ DeliveredOk'
  BY DeliveredSent, PTL
<1>2. n \in Nat /\ n <= Len(S) /\ D = [i \in 1 .. n |-> S[i]] /\ D \in Seq(Fresh) /\ Len(D) = n
  BY <1>1 DEF DeliveredOk
<1>3. received'[e] = Append(R, m) /\ R \in Seq(Messages)
  BY TypesAt DEF IInv, Typed
<1>4. Len(received'[e]) = n + 1
  BY <1>3
<1> DEFINE D2 == Delivered'[e]
<1>5. /\ n + 1 <= Len(S) /\ D2 = [i \in 1 .. n + 1 |-> S[i]]
      /\ D2 \in Seq(Fresh) /\ Len(D2) = n + 1
  <2> DEFINE R2 == received'[e]
  <2>1. /\ Len(R2) <= Len(S) /\ D2 = [i \in 1 .. Len(R2) |-> S[i]]
        /\ D2 \in Seq(Fresh) /\ Len(D2) = Len(R2)
    BY <1>1 DEF DeliveredOk
  <2> QED  BY <1>4, <2>1
<1>6. ASSUME NEW x \in Endpoints, x # e PROVE Delivered'[x] = Delivered[x]
  <2>1. received'[x] = received[x]
    BY <1>6 DEF IInv, Typed
  <2>2. Delivered[x] = [i \in 1 .. Len(received[x]) |-> Payload(received[x][i])]
    BY DEF Delivered
  <2>3. Delivered'[x] = [i \in 1 .. Len(received'[x]) |-> Payload(received'[x][i])]
    BY DEF Delivered
  <2> QED  BY <2>1, <2>2, <2>3
<1> HIDE DEF D, S, R, n, D2
<1>7. S[n + 1] \in Fresh
  <2>1. S \in Seq(Fresh)
    BY TypesAt, Peers DEF S
  <2> QED  BY <1>2, <1>5, <2>1, ElementOfSeq
<1>8. D2 = Append(D, S[n + 1])
  <2> DEFINE A == Append(D, S[n + 1])
  <2>1. /\ A \in Seq(Fresh) /\ Len(A) = n + 1 /\ A[n + 1] = S[n + 1]
        /\ \A i \in 1 .. n : A[i] = D[i]
    BY <1>2, <1>7, AppendProperties
  <2> HIDE DEF A
  <2>2. \A i \in 1 .. n + 1 : D2[i] = A[i]
    <3> TAKE i \in 1 .. n + 1
    <3>1. D2[i] = S[i]
      BY <1>5
    <3>2. CASE i = n + 1
      BY <2>1, <3>1, <3>2
    <3>3. CASE i \in 1 .. n
      BY <1>2, <2>1, <3>1, <3>3
    <3> QED  BY <1>2, <3>2, <3>3
  <2>3. D2 = A
    BY <1>5, <2>1, <2>2, SeqEqual
  <2> QED  BY <2>3 DEF A
<1>9. Delivered' = [Delivered EXCEPT ![e] = Append(Delivered[e], sent[Peer(e)][Len(Delivered[e]) + 1])]
  <2>1. Delivered'[e] = Append(Delivered[e], sent[Peer(e)][Len(Delivered[e]) + 1])
    BY <1>2, <1>8 DEF D, D2, S
  <2>2. /\ Delivered = [x \in Endpoints |-> Delivered[x]]
        /\ Delivered' = [x \in Endpoints |-> Delivered'[x]]
    BY DEF Delivered
  <2> QED  BY <1>6, <2>1, <2>2
<1>10. Len(Delivered[e]) + 1 <= Len(sent[Peer(e)])
  BY <1>2, <1>5 DEF D, S
<1> QED  BY <1>9, <1>10 DEF Channel!Deliver

\* What every step does to the two histories.
LEMMA StepOfHistories ==
  ASSUME IInv, [Next]_vars
  PROVE  \/ sent' = sent /\ received' = received
         \/ \E e \in Endpoints, m \in Fresh :
               sent' = [sent EXCEPT ![e] = Append(sent[e], m)] /\ received' = received
         \/ \E e \in Endpoints : \E m :
               received' = [received EXCEPT ![e] = Append(received[e], m)] /\ sent' = sent
<1>1. CASE UNCHANGED vars
  BY <1>1 DEF vars, writer, reader
<1>2. ASSUME NEW e \in Endpoints, App(e) PROVE sent' = sent /\ received' = received
  BY <1>2 DEF App, Send, HandleMessage, Disconnect, writer, reader
<1>3. ASSUME NEW e \in Endpoints, Delivery(e) \/ NetReset(e) \/ NetBreak(e)
      PROVE  sent' = sent /\ received' = received
  BY <1>3 DEF Delivery, NetWrite, NetRead, NetEof, NetReset, NetBreak, writer, reader
<1>4. ASSUME NEW e \in Endpoints,
             Prime(e) \/ RunClose(e) \/ OnWriteHeader(e) \/ OnWriteBody(e)
      PROVE  sent' = sent /\ received' = received
  BY <1>4 DEF Prime, RunClose, OnWriteHeader, OnWriteBody, CloseAfter, writer, reader
<1>5. ASSUME NEW e \in Endpoints, RunSend(e)
      PROVE  \E m \in Fresh : sent' = [sent EXCEPT ![e] = Append(sent[e], m)] /\ received' = received
  <2>1. posted[e] \in Seq(Tasks) /\ posted[e] # << >> /\ Head(posted[e]).task = "send"
    BY <1>5, TypesAt DEF RunSend
  <2>2. Head(posted[e]) \in Tasks
    BY <2>1, HeadTailProperties
  <2>3. Head(posted[e]).msg \in Fresh
    BY <2>1, <2>2 DEF Tasks, CloseTask
  <2> QED  BY <1>5, <2>3 DEF RunSend, reader
<1>6. ASSUME NEW e \in Endpoints, OnReadHeader(e) \/ OnReadBody(e)
      PROVE  \/ sent' = sent /\ received' = received
             \/ \E m : received' = [received EXCEPT ![e] = Append(received[e], m)] /\ sent' = sent
  BY <1>6 DEF OnReadHeader, OnReadBody, CloseAfter, AddToIncomingMessageQueue, writer
<1> QED  BY <1>1, <1>2, <1>3, <1>4, <1>5, <1>6 DEF Next, Asio

LEMMA ChannelStep == IInv /\ IInv' /\ [Next]_vars => [Channel!Next]_(Channel!vars)
<1> SUFFICES ASSUME IInv, IInv', [Next]_vars PROVE [Channel!Next]_(Channel!vars)
  OBVIOUS
<1>1. CASE sent' = sent /\ received' = received
  BY <1>1 DEF Delivered, Channel!vars
<1>2. ASSUME NEW e \in Endpoints, NEW m \in Fresh,
             sent' = [sent EXCEPT ![e] = Append(sent[e], m)], received' = received
      PROVE  Channel!Send(e, m)
  BY <1>2 DEF Delivered, Channel!Send
<1>3. ASSUME NEW e \in Endpoints, NEW m,
             received' = [received EXCEPT ![e] = Append(received[e], m)], sent' = sent
      PROVE  Channel!Deliver(e)
  BY <1>3, MessageDelivered
<1> QED  BY <1>1, <1>2, <1>3, StepOfHistories DEF Channel!Next

LEMMA ChannelInit == Init => Channel!Init
<1> SUFFICES ASSUME Init PROVE Channel!Init
  OBVIOUS
<1>1. ASSUME NEW e \in Endpoints PROVE Delivered[e] = << >>
  <2>1. received[e] = << >> /\ Len(<< >>) = 0
    BY DEF Init
  <2>2. Delivered[e] = [i \in 1 .. 0 |-> Payload(received[e][i])]
    BY <2>1 DEF Delivered
  <2> QED  BY <2>2
<1>2. Delivered = [e \in Endpoints |-> << >>]
  BY <1>1 DEF Delivered
<1> QED  BY <1>2 DEF Init, Channel!Init

\* The two ends of a connection implement a message channel: in each direction what a
\* reader that trusts header.size finds is what was queued, whole, once and in order.
THEOREM ImplementsChannel == Spec => ChannelSpec
<1>1. Init /\ [][Next]_vars => [][Channel!Next]_(Channel!vars) /\ Channel!Init
  BY Invariance, ChannelStep, ChannelInit, PTL DEF Spec
<1> QED  BY <1>1 DEF Spec, ChannelSpec, Channel!Spec
============================================================================
