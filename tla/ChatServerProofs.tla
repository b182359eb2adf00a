-------------------------- MODULE ChatServerProofs --------------------------
(***************************************************************************)
(* Safety of ChatServer for every set of clients, whatever they type: a       *)
(* session that leaves is announced once, lines enter the log in order, and   *)
(* the server implements ChatRoom.                                           *)
(***************************************************************************)
EXTENDS ChatServer, SequenceTheorems, FiniteSetTheorems, TLAPS

Posts == Entry \cup {Welcome}

\* Where the departure of c and the lines of c are in a log L.
LessIn(L, c) == {i \in 1 .. Len(L) : L[i] = OneLess(c)}
LinesIn(L, c) == {i \in 1 .. Len(L) : L[i].kind = "line" /\ L[i].who = c}

LessOk(L, c, left) == IF left THEN \E i : LessIn(L, c) = {i} ELSE LessIn(L, c) = {}

\* The lines of c are in order, and the last of them ends where the streambuf begins.
LinesOk(L, c, end) ==
    /\ \A j \in LinesIn(L, c) :
          /\ L[j].last <= end
          /\ \A i \in LinesIn(L, c) : i < j => L[i].last < L[j].first
          /\ L[j].first = 1 \/ \E i \in LinesIn(L, c) : i < j /\ L[i].last + 1 = L[j].first
    /\ end = 0 \/ \E j \in LinesIn(L, c) : L[j].last = end

\* What has been written to a session, s, and what is queued for it, q, are the welcome
\* and the log from the place where the session joined, up to its end for a member.
QueueOk(L, j, s, q, member) ==
    /\ \A i \in 1 .. Len(q) :
          \/ Len(s) + i = 1 /\ q[i] = Welcome
          \/ /\ Len(s) + i > 1
             /\ j + Len(s) + i - 1 \in 1 .. Len(L)
             /\ q[i] = L[j + Len(s) + i - 1]
    /\ member => Len(s) + Len(q) >= 1 /\ j + Len(s) + Len(q) - 1 = Len(L)

\* Never two writes, and a write is of a message that is still queued.
WriteOk(q, w) == Len(w) <= 1 /\ (w # << >> => q # << >>)
----------------------------------------------------------------------------
(* The log grows                                                           *)

LEMMA Entries ==
  ASSUME NEW m \in Entry, m.kind = "line"
  PROVE  m.first \in Nat /\ m.last \in Nat
<1>1. PICK c \in Clients : m \in {Line(c, i, j) : i, j \in Pieces(c)}
  BY DEF Entry, Newcomer, OneLess
<1>2. Pieces(c) \subseteq Nat
  BY BoundsAssumption DEF Pieces
<1> QED  BY <1>1, <1>2 DEF Line

LEMMA LogAppended ==
  ASSUME NEW L \in Seq(Entry), NEW m \in Entry
  PROVE  /\ Append(L, m) \in Seq(Entry)
         /\ Len(L) \in Nat /\ Len(Append(L, m)) = Len(L) + 1
         /\ Append(L, m)[Len(L) + 1] = m
         /\ \A i \in 1 .. Len(L) : Append(L, m)[i] = L[i]
         /\ \A i : i \in 1 .. Len(L) + 1 <=> i \in 1 .. Len(L) \/ i = Len(L) + 1
  BY AppendProperties, LenProperties

LEMMA LessAppended ==
  ASSUME NEW L \in Seq(Entry), NEW m \in Entry, NEW c \in Clients
  PROVE  /\ m # OneLess(c) => LessIn(Append(L, m), c) = LessIn(L, c)
         /\ m = OneLess(c) => LessIn(Append(L, m), c) = LessIn(L, c) \cup {Len(L) + 1}
<1> DEFINE T == Append(L, m)
<1>1. /\ Len(L) \in Nat /\ Len(T) = Len(L) + 1 /\ T[Len(L) + 1] = m
      /\ \A i \in 1 .. Len(L) : T[i] = L[i]
      /\ \A i : i \in 1 .. Len(T) <=> i \in 1 .. Len(L) \/ i = Len(L) + 1
  BY LogAppended
<1> HIDE DEF T
<1>2. \A i \in 1 .. Len(L) : i # Len(L) + 1
  BY <1>1
<1>3. \A i : i \in LessIn(T, c) <=> i \in LessIn(L, c) \/ (i = Len(L) + 1 /\ m = OneLess(c))
  BY <1>1, <1>2 DEF LessIn
<1> QED  BY <1>3 DEF T

LEMMA LinesAppended ==
  ASSUME NEW L \in Seq(Entry), NEW m \in Entry, NEW c \in Clients
  PROVE  /\ \A i \in LinesIn(L, c) : i \in 1 .. Len(L) /\ i < Len(L) + 1 /\ Append(L, m)[i] = L[i]
         /\ ~(m.kind = "line" /\ m.who = c) => LinesIn(Append(L, m), c) = LinesIn(L, c)
         /\ m.kind = "line" /\ m.who = c
              => LinesIn(Append(L, m), c) = LinesIn(L, c) \cup {Len(L) + 1}
<1> DEFINE T == Append(L, m)
<1>1. /\ Len(L) \in Nat /\ Len(T) = Len(L) + 1 /\ T[Len(L) + 1] = m
      /\ \A i \in 1 .. Len(L) : T[i] = L[i]
      /\ \A i : i \in 1 .. Len(T) <=> i \in 1 .. Len(L) \/ i = Len(L) + 1
  BY LogAppended
<1> HIDE DEF T
<1>2. \A i \in 1 .. Len(L) : i # Len(L) + 1 /\ i < Len(L) + 1
  BY <1>1
<1>3. \A i : i \in LinesIn(T, c) <=> \/ i \in LinesIn(L, c)
                                     \/ i = Len(L) + 1 /\ m.kind = "line" /\ m.who = c
  BY <1>1, <1>2 DEF LinesIn
<1>4. \A i \in LinesIn(L, c) : i \in 1 .. Len(L) /\ i < Len(L) + 1 /\ T[i] = L[i]
  BY <1>1, <1>2 DEF LinesIn
<1> QED  BY <1>3, <1>4 DEF T

\* Something else than a line of c is broadcast.
LEMMA OtherAppended ==
  ASSUME NEW L \in Seq(Entry), NEW m \in Entry, NEW c \in Clients, NEW end,
         ~(m.kind = "line" /\ m.who = c), LinesOk(L, c, end)
  PROVE  LinesOk(Append(L, m), c, end)
<1> DEFINE T == Append(L, m)
<1>1. LinesIn(T, c) = LinesIn(L, c) /\ \A i \in LinesIn(L, c) : T[i] = L[i]
  BY LinesAppended
<1> HIDE DEF T
<1>2. LinesOk(T, c, end)
  BY <1>1 DEF LinesOk
<1> QED  BY <1>2 DEF T

\* OnRead: a line of c is broadcast.
LEMMA LineAppended ==
  ASSUME NEW L \in Seq(Entry), NEW c \in Clients, NEW end \in Nat, NEW upto \in Nat,
         end < upto, Line(c, end + 1, upto) \in Entry, LinesOk(L, c, end)
  PROVE  LinesOk(Append(L, Line(c, end + 1, upto)), c, upto)
<1> DEFINE m == Line(c, end + 1, upto)
           T == Append(L, m)
           n == Len(L) + 1
<1>1. m.kind = "line" /\ m.who = c /\ m.first = end + 1 /\ m.last = upto
  BY DEF Line
<1>2. /\ LinesIn(T, c) = LinesIn(L, c) \cup {n} /\ n \in Nat /\ T[n] = m
      /\ \A i \in LinesIn(L, c) : i < n /\ T[i] = L[i]
  BY <1>1, LinesAppended, LogAppended
<1>3. \A i \in LinesIn(L, c) : i \in Nat /\ L[i].last \in Nat /\ L[i].last <= end
  <2> TAKE i \in LinesIn(L, c)
  <2>1. i \in 1 .. Len(L) /\ L[i].kind = "line"
    BY DEF LinesIn
  <2>2. L[i] \in Entry
    BY <2>1, ElementOfSeq
  <2> QED  BY <2>1, <2>2, Entries DEF LinesOk
<1> HIDE DEF m, T, n
<1>4. \A j \in LinesIn(L, c) :
         /\ T[j].last <= upto
         /\ \A i \in LinesIn(T, c) : i < j => T[i].last < T[j].first
         /\ T[j].first = 1 \/ \E i \in LinesIn(T, c) : i < j /\ T[i].last + 1 = T[j].first
  <2> TAKE j \in LinesIn(L, c)
  <2>1. T[j] = L[j] /\ j < n /\ j \in Nat
    BY <1>2, <1>3
  <2>2. T[j].last <= upto
    BY <1>3, <2>1
  <2>3. ASSUME NEW i \in LinesIn(T, c), i < j PROVE T[i].last < T[j].first
    <3>1. i # n
      BY <1>2, <2>1, <2>3
    <3>2. i \in LinesIn(L, c) /\ T[i] = L[i]
      BY <1>2, <3>1
    <3> QED  BY <2>1, <2>3, <3>2 DEF LinesOk
  <2>4. T[j].first = 1 \/ \E i \in LinesIn(T, c) : i < j /\ T[i].last + 1 = T[j].first
    <3>1. L[j].first = 1 \/ \E i \in LinesIn(L, c) : i < j /\ L[i].last + 1 = L[j].first
      BY DEF LinesOk
    <3> QED  BY <1>2, <2>1, <3>1
  <2> QED  BY <2>2, <2>3, <2>4
<1>5. /\ T[n].last = upto /\ T[n].first = end + 1
      /\ \A i \in LinesIn(T, c) : i < n => T[i].last < T[n].first
      /\ T[n].first = 1 \/ \E i \in LinesIn(T, c) : i < n /\ T[i].last + 1 = T[n].first
  <2>1. T[n].last = upto /\ T[n].first = end + 1
    BY <1>1, <1>2
  <2>2. ASSUME NEW i \in LinesIn(T, c), i < n PROVE T[i].last < T[n].first
    <3>1. i \in LinesIn(L, c) /\ T[i] = L[i]
      BY <1>2, <2>2
    <3> QED  BY <1>3, <2>1, <3>1
  <2>3. CASE end = 0
    BY <2>1, <2>2, <2>3
  <2>4. CASE end # 0
    <3>1. PICK i \in LinesIn(L, c) : L[i].last = end
      BY <2>4 DEF LinesOk
    <3> QED  BY <1>2, <2>1, <2>2, <3>1
  <2> QED  BY <2>3, <2>4
<1>6. LinesOk(T, c, upto)
  BY <1>2, <1>4, <1>5 DEF LinesOk
<1> QED  BY <1>6 DEF T, m

\* A message is broadcast: a member queues it.
LEMMA QueueAppended ==
  ASSUME NEW L \in Seq(Entry), NEW m \in Entry, NEW j \in Nat, NEW s \in Seq(Posts),
         NEW q \in Seq(Posts), NEW member \in BOOLEAN, QueueOk(L, j, s, q, member)
  PROVE  /\ QueueOk(Append(L, m), j, s, IF member THEN Append(q, m) ELSE q, member)
         /\ QueueOk(Append(L, m), j, s, q, FALSE)
         /\ QueueOk(L, j, s, q, FALSE)
<1> DEFINE T == Append(L, m)
           r == Append(q, m)
<1>1. /\ Len(L) \in Nat /\ Len(T) = Len(L) + 1 /\ T[Len(L) + 1] = m
      /\ \A i \in 1 .. Len(L) : T[i] = L[i]
      /\ \A i \in 1 .. Len(L) : i \in 1 .. Len(T)
  BY LogAppended
<1>2. /\ Len(q) \in Nat /\ Len(s) \in Nat /\ Len(r) = Len(q) + 1 /\ r[Len(q) + 1] = m
      /\ \A i \in 1 .. Len(q) : r[i] = q[i]
  <2>1. m \in Posts
    BY DEF Posts
  <2> QED  BY <2>1, AppendProperties, LenProperties
<1> HIDE DEF T, r
<1>3. \A i \in 1 .. Len(q) :
          \/ Len(s) + i = 1 /\ q[i] = Welcome
          \/ /\ Len(s) + i > 1
             /\ j + Len(s) + i - 1 \in 1 .. Len(T)
             /\ q[i] = T[j + Len(s) + i - 1]
  BY <1>1 DEF QueueOk
<1>4. QueueOk(T, j, s, q, FALSE)
  BY <1>3 DEF QueueOk
<1>5. ASSUME member PROVE QueueOk(T, j, s, r, TRUE)
  <2>1. Len(s) + Len(q) >= 1 /\ j + Len(s) + Len(q) - 1 = Len(L)
    BY <1>5 DEF QueueOk
  <2>2. ASSUME NEW i \in 1 .. Len(r)
        PROVE  \/ Len(s) + i = 1 /\ r[i] = Welcome
               \/ /\ Len(s) + i > 1
                  /\ j + Len(s) + i - 1 \in 1 .. Len(T)
                  /\ r[i] = T[j + Len(s) + i - 1]
    <3>1. CASE i = Len(q) + 1
      <4>1. Len(s) + i > 1 /\ j + Len(s) + i - 1 = Len(L) + 1
        BY <1>2, <2>1, <3>1
      <4> QED  BY <1>1, <1>2, <3>1, <4>1
    <3>2. CASE i \in 1 .. Len(q)
      BY <1>2, <1>3, <3>2
    <3> QED  BY <1>2, <3>1, <3>2
  <2>3. Len(s) + Len(r) >= 1 /\ j + Len(s) + Len(r) - 1 = Len(T)
    BY <1>1, <1>2, <2>1
  <2> QED  BY <2>2, <2>3 DEF QueueOk
<1>6. QueueOk(L, j, s, q, FALSE)
  BY DEF QueueOk
<1> QED  BY <1>4, <1>5, <1>6 DEF T, r

\* OnWrite: the first message of the queue has been written.
LEMMA QueueWritten ==
  ASSUME NEW L \in Seq(Entry), NEW j \in Nat, NEW s \in Seq(Posts), NEW q \in Seq(Posts),
         NEW member \in BOOLEAN, QueueOk(L, j, s, q, member), q # << >>
  PROVE  /\ Head(q) \in Posts /\ Tail(q) \in Seq(Posts) /\ Append(s, Head(q)) \in Seq(Posts)
         /\ QueueOk(L, j, Append(s, Head(q)), Tail(q), member)
         /\ s # << >> => j + Len(s) \in 1 .. Len(L) /\ Head(q) = L[j + Len(s)]
<1> DEFINE t == Append(s, Head(q))
           r == Tail(q)
<1>1. /\ Head(q) \in Posts /\ r \in Seq(Posts) /\ Len(q) \in Nat \ {0} /\ Len(r) = Len(q) - 1
      /\ Head(q) = q[1] /\ \A i \in 1 .. Len(r) : r[i] = q[i + 1]
  BY HeadTailProperties, LenProperties, EmptySeq
<1>2. t \in Seq(Posts) /\ Len(t) = Len(s) + 1 /\ Len(s) \in Nat
  BY <1>1, AppendProperties, LenProperties
<1> HIDE DEF t, r
<1>3. ASSUME NEW i \in 1 .. Len(r)
      PROVE  \/ Len(t) + i = 1 /\ r[i] = Welcome
             \/ /\ Len(t) + i > 1
                /\ j + Len(t) + i - 1 \in 1 .. Len(L)
                /\ r[i] = L[j + Len(t) + i - 1]
  <2>1. /\ i + 1 \in 1 .. Len(q) /\ Len(s) + (i + 1) = Len(t) + i
        /\ j + Len(s) + (i + 1) - 1 = j + Len(t) + i - 1
    BY <1>1, <1>2
  <2> QED  BY <1>1, <2>1 DEF QueueOk
<1>4. ASSUME member PROVE Len(t) + Len(r) >= 1 /\ j + Len(t) + Len(r) - 1 = Len(L)
  <2>1. j + Len(s) + Len(q) - 1 = Len(L)
    BY <1>4 DEF QueueOk
  <2> QED  BY <1>1, <1>2, <2>1
<1>5. QueueOk(L, j, t, r, member)
  BY <1>3, <1>4 DEF QueueOk
<1>6. ASSUME s # << >> PROVE j + Len(s) \in 1 .. Len(L) /\ Head(q) = L[j + Len(s)]
  <2>1. Len(s) # 0
    BY <1>6, EmptySeq
  <2>2. 1 \in 1 .. Len(q) /\ Len(s) + 1 > 1 /\ j + Len(s) + 1 - 1 = j + Len(s)
    BY <1>1, <1>2, <2>1
  <2> QED  BY <1>1, <2>2 DEF QueueOk
<1> QED  BY <1>1, <1>2, <1>5, <1>6 DEF t, r

----------------------------------------------------------------------------
(* The inductive invariant                                                 *)

Typed == /\ peer \in [Clients -> {"away", "here", "gone"}]
         /\ clients \subseteq Clients
         /\ open \in [Clients -> BOOLEAN]
         /\ outgoing \in [Clients -> Seq(Posts)]
         /\ writes \in [Clients -> Seq(OpStates)]
         /\ read \in [Clients -> OpStates \cup {"none"}]
         /\ consumed \in [Clients -> Nat]
         /\ buffered \in [Clients -> Nat]
         /\ log \in Seq(Entry)
         /\ joined \in [Clients -> Nat]
         /\ seen \in [Clients -> Seq(Posts)]

\* What is before the accept of x, and what its read has found.
Session(x) ==
    /\ x \in clients => peer[x] # "away"
    /\ peer[x] = "away" => outgoing[x] = << >> /\ seen[x] = << >> /\ read[x] = "none"
    /\ consumed[x] \in Pieces(x) /\ buffered[x] \in Pieces(x)
    /\ read[x] = "done" => consumed[x] < buffered[x]

Good(x) == /\ Session(x)
           /\ WriteOk(outgoing[x], writes[x])
           /\ LessOk(log, x, peer[x] # "away" /\ x \notin clients)
           /\ LinesOk(log, x, consumed[x])
           /\ QueueOk(log, joined[x], seen[x], outgoing[x], x \in clients)

IInv == Typed /\ \A x \in Clients : Good(x)

LEMMA InitGood == Init => IInv
<1> SUFFICES ASSUME Init PROVE IInv
  OBVIOUS
<1>1. Typed
  BY DEF Init, Typed
<1>2. ASSUME NEW x \in Clients PROVE Good(x)
  <2>1. 0 \in Pieces(x)
    BY BoundsAssumption DEF Pieces
  <2>2. Session(x)
    BY <2>1 DEF Init, Session
  <2> DEFINE e == << >>
  <2>3. Len(e) = 0 /\ \A i : i \notin 1 .. Len(e)
    OBVIOUS
  <2>4. log = e /\ outgoing[x] = e /\ writes[x] = e /\ consumed[x] = 0 /\ x \notin clients
        /\ peer[x] = "away"
    BY DEF Init
  <2>5. LessIn(log, x) = {} /\ LinesIn(log, x) = {}
    BY <2>3, <2>4 DEF LessIn, LinesIn
  <2>6. WriteOk(outgoing[x], writes[x])
    BY <2>3, <2>4 DEF WriteOk
  <2>7. LessOk(log, x, peer[x] # "away" /\ x \notin clients)
    BY <2>4, <2>5 DEF LessOk
  <2>8. LinesOk(log, x, consumed[x])
    BY <2>4, <2>5 DEF LinesOk
  <2> HIDE DEF e
  <2>9. QueueOk(log, joined[x], seen[x], outgoing[x], x \in clients)
    BY <2>3, <2>4 DEF QueueOk
  <2> QED  BY <2>2, <2>6, <2>7, <2>8, <2>9 DEF Good
<1> QED  BY <1>1, <1>2 DEF IInv

\* Different messages.
LEMMA Kinds ==
  ASSUME NEW c \in Clients, NEW x \in Clients, NEW i, NEW j
  PROVE  /\ Newcomer(c) \in Entry /\ OneLess(c) \in Entry
         /\ Newcomer(c) # OneLess(x) /\ Line(c, i, j) # OneLess(x)
         /\ c # x => OneLess(c) # OneLess(x) /\ Line(c, i, j).who # x
         /\ Newcomer(c).kind # "line" /\ OneLess(c).kind # "line"
         /\ i \in Pieces(c) /\ j \in Pieces(c) => Line(c, i, j) \in Entry
<1>1. Newcomer(c) \in Entry /\ OneLess(c) \in Entry
  BY DEF Entry
<1>2. Newcomer(c).kind # "line" /\ OneLess(c).kind # "line"
  BY DEF Newcomer, OneLess
<1>3. OneLess(x).kind = "less" /\ Newcomer(c).kind = "newcomer" /\ Line(c, i, j).kind = "line"
  BY DEF Newcomer, OneLess, Line
<1>4. Newcomer(c) # OneLess(x) /\ Line(c, i, j) # OneLess(x)
  BY <1>3
<1>5. OneLess(c).who = c /\ OneLess(x).who = x /\ Line(c, i, j).who = c
  BY DEF OneLess, Line
<1>6. i \in Pieces(c) /\ j \in Pieces(c) => Line(c, i, j) \in Entry
  BY DEF Entry
<1> QED  BY <1>1, <1>2, <1>4, <1>5, <1>6

\* Something else than the departure of x is broadcast, or this is.
LEMMA LessKept ==
  ASSUME NEW L \in Seq(Entry), NEW m \in Entry, NEW x \in Clients, NEW left,
         m # OneLess(x), LessOk(L, x, left)
  PROVE  LessOk(Append(L, m), x, left)
BY LessAppended DEF LessOk

LEMMA LessOnce ==
  ASSUME NEW L \in Seq(Entry), NEW x \in Clients, LessOk(L, x, FALSE)
  PROVE  LessOk(Append(L, OneLess(x)), x, TRUE)
<1>1. OneLess(x) \in Entry
  BY Kinds
<1>2. LessIn(Append(L, OneLess(x)), x) = {Len(L) + 1}
  BY <1>1, LessAppended DEF LessOk
<1> QED  BY <1>2 DEF LessOk

LEMMA PostTypes ==
  ASSUME NEW m \in Entry, NEW members, NEW out \in [Clients -> Seq(Posts)],
         NEW wr \in [Clients -> Seq(OpStates)], NEW isOpen \in [Clients -> BOOLEAN],
         log \in Seq(Entry), Post(m, members, out, wr, isOpen)
  PROVE  /\ log' \in Seq(Entry)
         /\ outgoing' \in [Clients -> Seq(Posts)]
         /\ writes' \in [Clients -> Seq(OpStates)]
<1>1. log' \in Seq(Entry)
  BY LogAppended DEF Post
<1>2. ASSUME NEW x \in Clients
      PROVE  /\ (IF x \in members THEN Append(out[x], m) ELSE out[x]) \in Seq(Posts)
             /\ (IF x \in members /\ out[x] = << >>
                  THEN Append(wr[x], OpState(isOpen[x])) ELSE wr[x]) \in Seq(OpStates)
  <2>1. m \in Posts /\ OpState(isOpen[x]) \in OpStates
    BY DEF Posts, OpState, OpStates
  <2>2. out[x] \in Seq(Posts) /\ wr[x] \in Seq(OpStates)
    OBVIOUS
  <2>3. Append(out[x], m) \in Seq(Posts) /\ Append(wr[x], OpState(isOpen[x])) \in Seq(OpStates)
    BY <2>1, <2>2, AppendProperties
  <2> QED  BY <2>2, <2>3
<1> QED  BY <1>1, <1>2 DEF Post

LEMMA NewWrite == ASSUME NEW x PROVE Append(<< >>, x) = <<x>> /\ Len(<<x>>) = 1
  OBVIOUS

\* A write is started when, and only when, the queue was empty.
LEMMA WriteStarted ==
  ASSUME NEW q \in Seq(Posts), NEW w \in Seq(OpStates), NEW m \in Posts, NEW state \in OpStates,
         WriteOk(q, w)
  PROVE  WriteOk(Append(q, m), IF q = << >> THEN Append(w, state) ELSE w)
<1>1. Append(q, m) # << >>
  BY AppendProperties
<1>2. CASE q = << >>
  <2>1. w = << >> /\ Len(Append(w, state)) = 1
    BY <1>2, NewWrite DEF WriteOk
  <2> QED  BY <1>1, <1>2, <2>1 DEF WriteOk
<1>3. CASE q # << >>
  BY <1>1, <1>3 DEF WriteOk
<1> QED  BY <1>2, <1>3

\* What a broadcast does to the session of x.
LEMMA Hears ==
  ASSUME NEW x \in Clients, NEW m \in Entry, NEW members, NEW out, NEW wr,
         NEW isOpen \in [Clients -> BOOLEAN], NEW q \in Seq(Posts), NEW w \in Seq(OpStates),
         NEW j \in Nat, NEW s \in Seq(Posts),
         log \in Seq(Entry), q = out[x], w = wr[x], WriteOk(q, w),
         QueueOk(log, j, s, q, x \in members), Post(m, members, out, wr, isOpen)
  PROVE  /\ WriteOk(outgoing'[x], writes'[x])
         /\ QueueOk(log', j, s, outgoing'[x], x \in members)
<1> DEFINE member == x \in members
           state == OpState(isOpen[x])
<1>1. /\ log' = Append(log, m)
      /\ outgoing'[x] = IF member THEN Append(q, m) ELSE q
      /\ writes'[x] = IF member THEN IF q = << >> THEN Append(w, state) ELSE w ELSE w
  BY DEF Post
<1>2. m \in Posts /\ state \in OpStates
  BY DEF Posts, OpState, OpStates
<1>3. member \in BOOLEAN /\ QueueOk(log, j, s, q, member)
  OBVIOUS
<1> HIDE DEF member, state
<1>4. WriteOk(outgoing'[x], writes'[x])
  BY <1>1, <1>2, WriteStarted
<1>5. QueueOk(log', j, s, outgoing'[x], member)
  <2> DEFINE r == IF member THEN Append(q, m) ELSE q
  <2>1. QueueOk(Append(log, m), j, s, r, member)
    BY <1>3, QueueAppended
  <2> HIDE DEF r
  <2>2. log' = Append(log, m) /\ outgoing'[x] = r
    BY <1>1 DEF r
  <2> QED  BY <2>1, <2>2
<1> QED  BY <1>4, <1>5 DEF member

\* ... if x is not the one who acts.
LEMMA OthersHear ==
  ASSUME Typed, NEW x \in Clients, Good(x), NEW m \in Entry, NEW members, NEW out, NEW wr,
         NEW isOpen \in [Clients -> BOOLEAN],
         Post(m, members, out, wr, isOpen), out[x] = outgoing[x], wr[x] = writes[x],
         x \in members <=> x \in clients, x \in clients' <=> x \in clients,
         m # OneLess(x), ~(m.kind = "line" /\ m.who = x),
         peer'[x] = peer[x], read'[x] = read[x], consumed'[x] = consumed[x],
         buffered'[x] = buffered[x], joined'[x] = joined[x], seen'[x] = seen[x]
  PROVE  Good(x)'
<1>1. /\ outgoing[x] \in Seq(Posts) /\ writes[x] \in Seq(OpStates) /\ log \in Seq(Entry)
      /\ joined[x] \in Nat /\ seen[x] \in Seq(Posts)
  BY DEF Typed
<1>2. (x \in members) = (x \in clients) /\ (x \in clients') = (x \in clients)
  OBVIOUS
<1>3. WriteOk(outgoing'[x], writes'[x]) /\ QueueOk(log', joined[x], seen[x], outgoing'[x], x \in members)
  BY <1>1, <1>2, Hears DEF Good
<1>4. log' = Append(log, m) /\ outgoing'[x] = IF x \in members THEN Append(outgoing[x], m) ELSE outgoing[x]
  BY DEF Post
<1>5. LessOk(log', x, peer[x] # "away" /\ x \notin clients)
  BY <1>1, <1>4, LessKept DEF Good
<1>6. LinesOk(log', x, consumed[x])
  BY <1>1, <1>4, OtherAppended DEF Good
<1>7. Session(x)'
  BY <1>4 DEF Session, Good
<1> QED  BY <1>2, <1>3, <1>5, <1>6, <1>7 DEF Good
----------------------------------------------------------------------------
(* Every step keeps the invariant                                          *)

\* A session of whom nothing changes.
LEMMA Untouched ==
  ASSUME NEW x \in Clients, Good(x), log' = log,
         peer'[x] = peer[x], x \in clients' <=> x \in clients, outgoing'[x] = outgoing[x],
         writes'[x] = writes[x], read'[x] = read[x], consumed'[x] = consumed[x],
         buffered'[x] = buffered[x], joined'[x] = joined[x], seen'[x] = seen[x]
  PROVE  Good(x)'
<1>1. (x \in clients') = (x \in clients)
  OBVIOUS
<1>2. Session(x)' /\ WriteOk(outgoing'[x], writes'[x]) /\ LinesOk(log', x, consumed'[x])
  BY DEF Good, Session
<1>3. LessOk(log', x, peer'[x] # "away" /\ x \notin clients')
  BY <1>1 DEF Good
<1>4. QueueOk(log', joined'[x], seen'[x], outgoing'[x], x \in clients')
  BY <1>1 DEF Good
<1> QED  BY <1>2, <1>3, <1>4 DEF Good

LEMMA OnlyOne ==
  ASSUME NEW n \in Nat, n <= 1, NEW i \in 1 .. n
  PROVE  n = 1 /\ i = 1
  OBVIOUS

LEMMA OneWrite ==
  ASSUME NEW w \in Seq(OpStates), Len(w) <= 1, NEW i \in 1 .. Len(w)
  PROVE  /\ Remove(w, i) = << >>
         /\ \A y \in OpStates : [w EXCEPT ![i] = y] \in Seq(OpStates)
                                /\ Len([w EXCEPT ![i] = y]) = Len(w)
<1>1. Len(w) \in Nat
  BY LenProperties
<1>2. Len(w) = 1 /\ i = 1
  BY <1>1, OnlyOne
<1>3. SubSeq(w, 1, 0) = << >> /\ SubSeq(w, 2, 1) = << >>
  BY SubSeqEmpty
<1>4. Remove(w, i) = << >>
  BY <1>2, <1>3 DEF Remove
<1> QED  BY <1>4, ExceptSeq

LEMMA AcceptKeeps ==
  ASSUME IInv, NEW c \in Clients, NEW ok \in BOOLEAN, Accept(c, ok)
  PROVE  IInv'
<1> DEFINE m == Newcomer(c)
           out == [outgoing EXCEPT ![c] = <<Welcome>>]
           wr == [writes EXCEPT ![c] = <<OpState(ok)>>]
<1>1. Typed /\ \A x \in Clients : Good(x)
  BY DEF IInv
<1>2. OpState(ok) \in OpStates /\ OpState(ok) # "done" /\ OpState(ok) # "none"
  BY DEF OpState, OpStates
<1>3. <<Welcome>> \in Seq(Posts) /\ <<OpState(ok)>> \in Seq(OpStates)
  BY <1>2 DEF Posts
<1>4. open' \in [Clients -> BOOLEAN] /\ peer' \in [Clients -> {"away", "here", "gone"}]
  BY <1>1 DEF Accept, Typed
<1>5. out \in [Clients -> Seq(Posts)] /\ wr \in [Clients -> Seq(OpStates)]
  BY <1>1, <1>3 DEF Typed
<1>6. Post(m, clients, out, wr, open') /\ m \in Entry /\ log \in Seq(Entry)
  BY <1>1, Kinds DEF Accept, Typed
<1>7. log' = Append(log, m) /\ log' \in Seq(Entry) /\ Len(log') \in Nat
  BY <1>6, LogAppended, LenProperties DEF Post
<1>8. Typed'
  <2>1. /\ log' \in Seq(Entry)
        /\ outgoing' \in [Clients -> Seq(Posts)]
        /\ writes' \in [Clients -> Seq(OpStates)]
    BY <1>4, <1>5, <1>6, PostTypes
  <2>2. joined' \in [Clients -> Nat] /\ read' \in [Clients -> OpStates \cup {"none"}]
        /\ clients' \subseteq Clients
    BY <1>1, <1>2, <1>7 DEF Accept, Typed
  <2>3. consumed' = consumed /\ buffered' = buffered /\ seen' = seen
    BY DEF Accept
  <2> QED  BY <1>1, <1>4, <2>1, <2>2, <2>3 DEF Typed
<1>9. ASSUME NEW x \in Clients, x # c PROVE Good(x)'
  <2>1. out[x] = outgoing[x] /\ wr[x] = writes[x]
    BY <1>1, <1>9 DEF Typed
  <2>2. /\ x \in clients' <=> x \in clients
        /\ peer'[x] = peer[x] /\ read'[x] = read[x] /\ joined'[x] = joined[x]
        /\ consumed'[x] = consumed[x] /\ buffered'[x] = buffered[x] /\ seen'[x] = seen[x]
    BY <1>1, <1>9 DEF Accept, Typed
  <2>3. m # OneLess(x) /\ ~(m.kind = "line" /\ m.who = x)
    BY Kinds
  <2> HIDE DEF m, out, wr
  <2> QED  BY <1>1, <1>4, <1>6, <2>1, <2>2, <2>3, OthersHear
<1>10. Good(c)'
  <2>1. /\ peer[c] = "away" /\ c \notin clients /\ seen[c] = << >>
        /\ LessOk(log, c, FALSE) /\ LinesOk(log, c, consumed[c])
        /\ consumed[c] \in Pieces(c) /\ buffered[c] \in Pieces(c)
    BY <1>1 DEF Accept, Good, Session
  <2>2. /\ peer'[c] # "away" /\ c \in clients' /\ joined'[c] = Len(log') /\ seen'[c] = << >>
        /\ read'[c] # "done" /\ consumed'[c] = consumed[c] /\ buffered'[c] = buffered[c]
    BY <1>1, <1>2, <2>1 DEF Accept, Typed
  <2>3. outgoing'[c] = <<Welcome>> /\ writes'[c] = <<OpState(ok)>>
    <3>1. out[c] = <<Welcome>> /\ wr[c] = <<OpState(ok)>>
      BY <1>1 DEF Typed
    <3> QED  BY <1>6, <2>1, <3>1 DEF Post
  <2>4. Session(c)'
    BY <2>1, <2>2 DEF Session
  <2>5. LessOk(log', c, FALSE)
    BY <1>6, <1>7, <2>1, LessKept, Kinds
  <2>6. LinesOk(log', c, consumed'[c])
    BY <1>6, <1>7, <2>1, <2>2, OtherAppended, Kinds
  <2> DEFINE q == <<Welcome>>
             w == <<OpState(ok)>>
  <2>7. Len(q) = 1 /\ q[1] = Welcome /\ Len(w) = 1 /\ q # << >> /\ Len(<< >>) = 0
    OBVIOUS
  <2>8. outgoing'[c] = q /\ writes'[c] = w
    BY <2>3
  <2> HIDE DEF q, w
  <2>9. WriteOk(outgoing'[c], writes'[c])
    <3>1. WriteOk(q, w)
      BY <2>7 DEF WriteOk
    <3> QED  BY <2>8, <3>1
  <2>10. QueueOk(log', Len(log'), << >>, q, TRUE)
    <3> DEFINE e == << >>
    <3>1. Len(e) = 0 /\ \A i \in 1 .. Len(q) : i = 1
      BY <2>7
    <3> HIDE DEF e
    <3>2. QueueOk(log', Len(log'), e, q, TRUE)
      BY <1>7, <2>7, <3>1 DEF QueueOk
    <3> QED  BY <3>2 DEF e
  <2>11. QueueOk(log', joined'[c], seen'[c], outgoing'[c], c \in clients')
    BY <2>2, <2>8, <2>10
  <2>12. LessOk(log', c, peer'[c] # "away" /\ c \notin clients')
    BY <2>2, <2>5
  <2> QED  BY <2>4, <2>6, <2>9, <2>11, <2>12 DEF Good
<1> QED  BY <1>8, <1>9, <1>10 DEF IInv

\* The first or a later error of a session; w is its writes and rd its read without
\* the one that has failed.
LEMMA LeaveKeeps ==
  ASSUME IInv, NEW c \in Clients, NEW w \in Seq(OpStates), NEW rd \in OpStates \cup {"none"},
         WriteOk(outgoing[c], w), peer[c] # "away", rd = "none" \/ rd = read[c], Leave(c, w, rd),
         UNCHANGED <<peer, consumed, buffered, joined, seen>>
  PROVE  IInv'
<1> DEFINE m == OneLess(c)
           wr == [writes EXCEPT ![c] = AbortAll(w)]
<1>1. Typed /\ \A x \in Clients : Good(x)
  BY DEF IInv
<1>2. AbortAll(w) \in Seq(OpStates) /\ Len(AbortAll(w)) = Len(w)
  <2>1. \A i \in 1 .. Len(w) : Abort(w[i]) \in OpStates
    BY ElementOfSeq DEF Abort, OpStates
  <2>2. Len(w) \in Nat
    BY LenProperties
  <2> QED  BY <2>1, <2>2, IsASeq DEF AbortAll
<1>3. WriteOk(outgoing[c], AbortAll(w))
  <2>1. AbortAll(w) # << >> => w # << >>
    BY <1>2, EmptySeq
  <2> QED  BY <1>2, <2>1 DEF WriteOk
<1>4. /\ open' \in [Clients -> BOOLEAN]
      /\ clients' = clients \ {c}
      /\ clients' \subseteq Clients
      /\ read' \in [Clients -> OpStates \cup {"none"}]
      /\ read'[c] = "done" => read[c] = "done"
      /\ \A x \in Clients : x # c => read'[x] = read[x]
  BY <1>1 DEF Leave, Typed, Abort, OpStates
<1>5. wr \in [Clients -> Seq(OpStates)] /\ wr[c] = AbortAll(w) /\ \A x \in Clients : x # c => wr[x] = writes[x]
  BY <1>1, <1>2 DEF Typed
<1>6. peer' = peer /\ consumed' = consumed /\ buffered' = buffered /\ joined' = joined /\ seen' = seen
  OBVIOUS
<1>7. m \in Entry /\ log \in Seq(Entry) /\ outgoing \in [Clients -> Seq(Posts)]
  BY <1>1, Kinds DEF Typed
<1>8. Session(c)'
  BY <1>1, <1>4, <1>6 DEF Session, Good
<1>9. CASE c \in clients
  <2>1. Post(m, clients', outgoing, wr, open')
    BY <1>9 DEF Leave
  <2> HIDE DEF m, wr
  <2>2. /\ log' \in Seq(Entry)
        /\ outgoing' \in [Clients -> Seq(Posts)]
        /\ writes' \in [Clients -> Seq(OpStates)]
    BY <1>4, <1>5, <1>7, <2>1, PostTypes
  <2>3. Typed'
    BY <1>1, <1>4, <1>6, <2>2 DEF Typed
  <2>4. ASSUME NEW x \in Clients, x # c PROVE Good(x)'
    <3>1. x \in clients' <=> x \in clients
      BY <1>4, <2>4
    <3>2. m # OneLess(x) /\ ~(m.kind = "line" /\ m.who = x)
      BY <2>4, Kinds DEF m
    <3> QED  BY <1>1, <1>4, <1>5, <1>6, <1>7, <2>1, <2>4, <3>1, <3>2, OthersHear
  <2>5. /\ log' = Append(log, m)
        /\ outgoing'[c] = outgoing[c]
        /\ writes'[c] = AbortAll(w)
        /\ c \notin clients'
    BY <1>4, <1>5, <2>1 DEF Post
  <2>6. LessOk(log', c, TRUE)
    <3>1. LessOk(log, c, FALSE)
      BY <1>1, <1>9 DEF Good
    <3> QED  BY <1>7, <2>5, <3>1, LessOnce DEF m
  <2>7. LinesOk(log', c, consumed[c])
    <3>1. LinesOk(log, c, consumed[c]) /\ ~(m.kind = "line" /\ m.who = c)
      BY <1>1, Kinds DEF Good, m
    <3> QED  BY <1>7, <2>5, <3>1, OtherAppended
  <2>8. QueueOk(log', joined[c], seen[c], outgoing[c], FALSE)
    <3>1. /\ joined[c] \in Nat /\ seen[c] \in Seq(Posts) /\ outgoing[c] \in Seq(Posts)
          /\ QueueOk(log, joined[c], seen[c], outgoing[c], TRUE)
      BY <1>1, <1>9 DEF Typed, Good
    <3> QED  BY <1>7, <2>5, <3>1, QueueAppended
  <2>9. Good(c)'
    <3>1. LessOk(log', c, peer'[c] # "away" /\ c \notin clients')
      BY <1>6, <2>5, <2>6
    <3>2. QueueOk(log', joined'[c], seen'[c], outgoing'[c], c \in clients')
      <4>1. (c \in clients') = FALSE
        BY <2>5
      <4> QED  BY <1>6, <2>5, <2>8, <4>1
    <3>3. WriteOk(outgoing'[c], writes'[c]) /\ LinesOk(log', c, consumed'[c])
      BY <1>3, <1>6, <2>5, <2>7
    <3> QED  BY <1>8, <3>1, <3>2, <3>3 DEF Good
  <2> QED  BY <2>3, <2>4, <2>9 DEF IInv
<1>10. CASE c \notin clients
  <2>1. log' = log /\ outgoing' = outgoing /\ writes' = wr /\ clients' = clients
    BY <1>4, <1>10 DEF Leave
  <2> HIDE DEF m, wr
  <2>2. Typed'
    BY <1>1, <1>4, <1>5, <1>6, <2>1 DEF Typed
  <2>3. ASSUME NEW x \in Clients, x # c PROVE Good(x)'
    BY <1>1, <1>4, <1>5, <1>6, <2>1, <2>3, Untouched
  <2>4. Good(c)'
    <3>1. WriteOk(outgoing'[c], writes'[c]) /\ LinesOk(log', c, consumed'[c])
      BY <1>1, <1>3, <1>5, <1>6, <2>1 DEF Good
    <3>2. /\ LessOk(log', c, peer'[c] # "away" /\ c \notin clients')
          /\ QueueOk(log', joined'[c], seen'[c], outgoing'[c], c \in clients')
      BY <1>1, <1>6, <2>1 DEF Good
    <3> QED  BY <1>8, <3>1, <3>2 DEF Good
  <2> QED  BY <2>2, <2>3, <2>4 DEF IInv
<1> QED  BY <1>9, <1>10

LEMMA OnReadKeeps ==
  ASSUME IInv, NEW c \in Clients, OnRead(c)
  PROVE  IInv'
<1>1. Typed /\ \A x \in Clients : Good(x)
  BY DEF IInv
<1>2. CASE read[c] = "error"
  <2>1. Leave(c, writes[c], "none") /\ UNCHANGED <<peer, consumed, buffered, joined, seen>>
    BY <1>2 DEF OnRead
  <2>2. peer[c] # "away"
    BY <1>1, <1>2 DEF Good, Session
  <2>3. writes[c] \in Seq(OpStates) /\ WriteOk(outgoing[c], writes[c])
    BY <1>1 DEF Typed, Good
  <2> QED  BY <2>1, <2>2, <2>3, LeaveKeeps
<1>3. CASE read[c] = "done"
  <2> DEFINE m == Line(c, consumed[c] + 1, buffered[c])
  <2>1. /\ Post(m, clients, outgoing, writes, open)
        /\ consumed' = [consumed EXCEPT ![c] = buffered[c]]
        /\ read' = [read EXCEPT ![c] = OpState(open[c])]
        /\ open' = open /\ clients' = clients /\ peer' = peer
        /\ buffered' = buffered /\ joined' = joined /\ seen' = seen
    BY <1>3 DEF OnRead
  <2>2. /\ consumed[c] \in Nat /\ buffered[c] \in Nat /\ consumed[c] < buffered[c]
        /\ consumed[c] + 1 \in Pieces(c) /\ buffered[c] \in Pieces(c)
    <3>1. /\ consumed[c] \in Pieces(c) /\ buffered[c] \in Pieces(c) /\ consumed[c] < buffered[c]
          /\ peer[c] # "away"
      BY <1>1, <1>3 DEF Good, Session
    <3>2. MaxLines[c] \in Nat
      BY BoundsAssumption
    <3> QED  BY <3>1, <3>2 DEF Pieces
  <2>3. /\ m \in Entry /\ log \in Seq(Entry) /\ outgoing \in [Clients -> Seq(Posts)]
        /\ writes \in [Clients -> Seq(OpStates)] /\ open \in [Clients -> BOOLEAN]
    BY <1>1, <2>2, Kinds DEF Typed
  <2>4. OpState(open[c]) \in OpStates /\ OpState(open[c]) # "done"
    BY DEF OpState, OpStates
  <2>5. /\ consumed' \in [Clients -> Nat] /\ consumed'[c] = buffered[c]
        /\ read' \in [Clients -> OpStates \cup {"none"}] /\ read'[c] # "done"
        /\ \A x \in Clients : x # c => consumed'[x] = consumed[x] /\ read'[x] = read[x]
    BY <1>1, <2>1, <2>2, <2>4 DEF Typed
  <2> HIDE DEF m
  <2>6. Typed'
    <3>1. /\ log' \in Seq(Entry)
          /\ outgoing' \in [Clients -> Seq(Posts)]
          /\ writes' \in [Clients -> Seq(OpStates)]
      BY <2>1, <2>3, PostTypes
    <3> QED  BY <1>1, <2>1, <2>5, <3>1 DEF Typed
  <2>7. ASSUME NEW x \in Clients, x # c PROVE Good(x)'
    <3>1. m # OneLess(x) /\ ~(m.kind = "line" /\ m.who = x)
      BY <2>7, Kinds DEF m
    <3> QED  BY <1>1, <2>1, <2>3, <2>5, <2>7, <3>1, OthersHear
  <2>8. Good(c)'
    <3>1. /\ peer[c] # "away" /\ Session(c) /\ WriteOk(outgoing[c], writes[c])
          /\ LessOk(log, c, peer[c] # "away" /\ c \notin clients)
          /\ LinesOk(log, c, consumed[c])
          /\ QueueOk(log, joined[c], seen[c], outgoing[c], c \in clients)
      BY <1>1, <1>3 DEF Good, Session
    <3>2. outgoing[c] \in Seq(Posts) /\ writes[c] \in Seq(OpStates) /\ joined[c] \in Nat
          /\ seen[c] \in Seq(Posts)
      BY <1>1 DEF Typed
    <3>3. log' = Append(log, m)
      BY <2>1 DEF Post
    <3>4. WriteOk(outgoing'[c], writes'[c]) /\ QueueOk(log', joined[c], seen[c], outgoing'[c], c \in clients)
      BY <2>1, <2>3, <3>1, <3>2, Hears
    <3>5. Session(c)'
      BY <2>1, <2>2, <2>5, <3>1 DEF Session
    <3>6. LessOk(log', c, peer[c] # "away" /\ c \notin clients)
      <4>1. m # OneLess(c)
        BY Kinds DEF m
      <4> QED  BY <2>3, <3>1, <3>3, <4>1, LessKept
    <3>7. LinesOk(log', c, buffered[c])
      BY <2>2, <2>3, <3>1, <3>3, LineAppended DEF m
    <3> QED  BY <2>1, <2>5, <3>4, <3>5, <3>6, <3>7 DEF Good
  <2> QED  BY <2>6, <2>7, <2>8 DEF IInv
<1>4. read[c] = "done" \/ read[c] = "error"
  BY DEF OnRead
<1> QED  BY <1>2, <1>3, <1>4

\* What on_write finds.
LEMMA Written ==
  ASSUME IInv, NEW c \in Clients, NEW i \in 1 .. Len(writes[c])
  PROVE  /\ outgoing[c] \in Seq(Posts) /\ outgoing[c] # << >>
         /\ seen[c] \in Seq(Posts) /\ joined[c] \in Nat /\ log \in Seq(Entry)
         /\ peer[c] # "away"
         /\ Remove(writes[c], i) = << >>
         /\ QueueOk(log, joined[c], seen[c], outgoing[c], c \in clients)
<1>1. Typed /\ Good(c)
  BY DEF IInv
<1>2. writes[c] \in Seq(OpStates) /\ Len(writes[c]) <= 1
  BY <1>1 DEF Typed, Good, WriteOk
<1>3. writes[c] # << >>
  <2>1. Len(writes[c]) \in Nat
    BY <1>2, LenProperties
  <2>2. Len(writes[c]) # 0
    BY <2>1
  <2> QED  BY <1>2, <2>2, EmptySeq
<1>4. outgoing[c] # << >>
  BY <1>1, <1>3 DEF Good, WriteOk
<1>5. peer[c] # "away"
  BY <1>1, <1>4 DEF Good, Session
<1>6. Remove(writes[c], i) = << >>
  BY <1>2, OneWrite
<1> QED  BY <1>1, <1>4, <1>5, <1>6 DEF Typed, Good

LEMMA OnWriteKeeps ==
  ASSUME IInv, NEW c \in Clients, OnWrite(c)
  PROVE  IInv'
<1>1. Typed /\ \A x \in Clients : Good(x)
  BY DEF IInv
<1> DEFINE e == << >>
<1>2. PICK i \in 1 .. Len(writes[c]) :
        /\ \/ /\ writes[c][i] = "done"
              /\ outgoing' = [outgoing EXCEPT ![c] = Tail(@)]
              /\ seen' = [seen EXCEPT ![c] = Append(@, Head(outgoing[c]))]
              /\ writes' = [writes EXCEPT ![c] = IF Tail(outgoing[c]) = << >>
                                                   THEN Remove(writes[c], i)
                                                 ELSE Append(Remove(writes[c], i), OpState(open[c]))]
              /\ UNCHANGED <<open, clients, read, log>>
           \/ /\ writes[c][i] = "error"
              /\ Leave(c, Remove(writes[c], i), read[c])
              /\ UNCHANGED seen
        /\ UNCHANGED <<peer, consumed, buffered, joined>>
  BY DEF OnWrite
<1>3. Remove(writes[c], i) = e
  BY Written
<1>4. e \in Seq(OpStates) /\ Len(e) = 0
  OBVIOUS
<1>5. CASE writes[c][i] = "error"
  <2>1. Leave(c, e, read[c]) /\ UNCHANGED <<peer, consumed, buffered, joined, seen>>
    BY <1>2, <1>3, <1>5
  <2>2. WriteOk(outgoing[c], e)
    BY <1>4 DEF WriteOk
  <2>3. read[c] \in OpStates \cup {"none"} /\ peer[c] # "away"
    BY <1>1, Written DEF Typed
  <2> HIDE DEF e
  <2> QED  BY <1>4, <2>1, <2>2, <2>3, LeaveKeeps
<1>6. CASE writes[c][i] = "done"
  <2> DEFINE q == outgoing[c]
             s == seen[c]
             w == IF Tail(q) = << >> THEN e ELSE Append(e, OpState(open[c]))
  <2>1. /\ outgoing' = [outgoing EXCEPT ![c] = Tail(q)]
        /\ seen' = [seen EXCEPT ![c] = Append(s, Head(q))]
        /\ writes' = [writes EXCEPT ![c] = w]
        /\ open' = open /\ clients' = clients /\ read' = read /\ log' = log /\ peer' = peer
        /\ consumed' = consumed /\ buffered' = buffered /\ joined' = joined
    BY <1>2, <1>3, <1>6
  <2>2. /\ q \in Seq(Posts) /\ q # << >> /\ s \in Seq(Posts) /\ joined[c] \in Nat /\ log \in Seq(Entry)
        /\ peer[c] # "away" /\ QueueOk(log, joined[c], s, q, c \in clients)
    BY Written
  <2>3. /\ Tail(q) \in Seq(Posts) /\ Append(s, Head(q)) \in Seq(Posts)
        /\ QueueOk(log, joined[c], Append(s, Head(q)), Tail(q), c \in clients)
    <3> DEFINE member == c \in clients
    <3>1. member \in BOOLEAN /\ QueueOk(log, joined[c], s, q, member)
      BY <2>2
    <3> HIDE DEF q, s, member
    <3>2. /\ Tail(q) \in Seq(Posts) /\ Append(s, Head(q)) \in Seq(Posts)
          /\ QueueOk(log, joined[c], Append(s, Head(q)), Tail(q), member)
      BY <2>2, <3>1, QueueWritten
    <3> QED  BY <3>2 DEF member
  <2>4. w \in Seq(OpStates) /\ WriteOk(Tail(q), w)
    <3>1. OpState(open[c]) \in OpStates
      BY DEF OpState, OpStates
    <3>2. Append(e, OpState(open[c])) \in Seq(OpStates) /\ Len(Append(e, OpState(open[c]))) = 1
      BY <1>4, <3>1, AppendProperties
    <3> QED  BY <1>4, <3>2 DEF WriteOk
  <2> HIDE DEF w, e
  <2>5. Typed'
    BY <1>1, <2>1, <2>3, <2>4 DEF Typed
  <2>6. ASSUME NEW x \in Clients, x # c PROVE Good(x)'
    BY <1>1, <2>1, <2>6, Untouched DEF Typed
  <2>7. Good(c)'
    <3>1. outgoing'[c] = Tail(q) /\ seen'[c] = Append(s, Head(q)) /\ writes'[c] = w
      BY <1>1, <2>1 DEF Typed
    <3> HIDE DEF q, s
    <3>2. WriteOk(outgoing'[c], writes'[c]) /\ QueueOk(log', joined'[c], seen'[c], outgoing'[c], c \in clients')
      BY <2>1, <2>3, <2>4, <3>1
    <3>3. Session(c)' /\ LessOk(log', c, peer'[c] # "away" /\ c \notin clients') /\ LinesOk(log', c, consumed'[c])
      BY <1>1, <2>1, <2>2 DEF Good, Session
    <3> QED  BY <3>2, <3>3 DEF Good
  <2> QED  BY <2>5, <2>6, <2>7 DEF IInv
<1> QED  BY <1>2, <1>5, <1>6

LEMMA NetReadKeeps ==
  ASSUME IInv, NEW c \in Clients, NetRead(c)
  PROVE  IInv'
<1>1. Typed /\ \A x \in Clients : Good(x)
  BY DEF IInv
<1>2. PICK n \in Pieces(c) : Newlines(consumed[c], n) > 0 /\ buffered' = [buffered EXCEPT ![c] = n]
  BY DEF NetRead
<1>3. n \in Nat /\ consumed[c] \in Nat /\ consumed[c] < n
  <2>1. n \in Nat /\ consumed[c] \in Nat
    BY <1>1, BoundsAssumption DEF Pieces, Typed
  <2>2. n \div 2 - consumed[c] \div 2 > 0
    BY <1>2 DEF Newlines
  <2> QED  BY <2>1, <2>2
<1>4. /\ log' = log /\ clients' = clients /\ outgoing' = outgoing /\ writes' = writes /\ open' = open
      /\ peer' = peer /\ joined' = joined /\ seen' = seen /\ consumed' = consumed
      /\ read' = [read EXCEPT ![c] = "done"] /\ read[c] = "pending"
  BY DEF NetRead
<1>5. Typed'
  BY <1>1, <1>2, <1>3, <1>4 DEF Typed, OpStates
<1>6. ASSUME NEW x \in Clients, x # c PROVE Good(x)'
  BY <1>1, <1>2, <1>4, <1>6, Untouched DEF Typed
<1>7. Good(c)'
  <2>1. buffered'[c] = n /\ read'[c] = "done"
    BY <1>1, <1>2, <1>4 DEF Typed
  <2>2. Session(c)'
    BY <1>1, <1>3, <1>4, <2>1 DEF Good, Session
  <2> QED  BY <1>1, <1>4, <2>2 DEF Good
<1> QED  BY <1>5, <1>6, <1>7 DEF IInv

\* NetWrite and NetWriteFails: a write ends.
LEMMA WriteEnds ==
  ASSUME IInv, NEW c \in Clients, NEW i \in 1 .. Len(writes[c]), NEW y \in OpStates,
         writes' = [writes EXCEPT ![c][i] = y],
         UNCHANGED <<peer, clients, open, outgoing, read, consumed, buffered, log, joined, seen>>
  PROVE  IInv'
<1>1. Typed /\ \A x \in Clients : Good(x)
  BY DEF IInv
<1> DEFINE w == [writes[c] EXCEPT ![i] = y]
<1>2. writes[c] \in Seq(OpStates) /\ WriteOk(outgoing[c], writes[c])
  BY <1>1 DEF Typed, Good
<1>3. w \in Seq(OpStates) /\ Len(w) = Len(writes[c]) /\ outgoing[c] # << >>
  BY <1>2, Written, OneWrite DEF WriteOk
<1>4. writes' = [writes EXCEPT ![c] = w]
  OBVIOUS
<1> HIDE DEF w
<1>5. Typed'
  BY <1>1, <1>3, <1>4 DEF Typed
<1>6. writes'[c] = w /\ \A x \in Clients : x # c => writes'[x] = writes[x]
  BY <1>1, <1>4 DEF Typed
<1>7. ASSUME NEW x \in Clients, x # c PROVE Good(x)'
  BY <1>1, <1>6, <1>7, Untouched
<1>8. WriteOk(outgoing[c], w)
  BY <1>2, <1>3 DEF WriteOk
<1>9. Good(c)'
  BY <1>1, <1>6, <1>8 DEF Good, Session
<1> QED  BY <1>5, <1>7, <1>9 DEF IInv

LEMMA PeerGoesKeeps ==
  ASSUME IInv, NEW c \in Clients, PeerGoes(c)
  PROVE  IInv'
<1>1. Typed /\ \A x \in Clients : Good(x)
  BY DEF IInv
<1>2. /\ log' = log /\ clients' = clients /\ outgoing' = outgoing /\ writes' = writes /\ open' = open
      /\ joined' = joined /\ seen' = seen /\ consumed' = consumed /\ buffered' = buffered /\ read' = read
      /\ peer[c] = "here" /\ peer' = [peer EXCEPT ![c] = "gone"]
  BY DEF PeerGoes
<1>3. peer' \in [Clients -> {"away", "here", "gone"}] /\ peer'[c] = "gone"
      /\ \A x \in Clients : x # c => peer'[x] = peer[x]
  BY <1>1, <1>2 DEF Typed
<1>4. ASSUME NEW x \in Clients, x # c PROVE Good(x)'
  BY <1>1, <1>2, <1>3, <1>4, Untouched
<1>5. Good(c)'
  <2>1. (peer'[c] # "away") = (peer[c] # "away")
    BY <1>2, <1>3
  <2>2. Session(c)'
    BY <1>1, <1>2, <1>3 DEF Good, Session
  <2> QED  BY <1>1, <1>2, <2>1, <2>2 DEF Good
<1>6. Typed'
  BY <1>1, <1>2, <1>3 DEF Typed
<1> QED  BY <1>4, <1>5, <1>6 DEF IInv

LEMMA NetReadFailsKeeps ==
  ASSUME IInv, NEW c \in Clients, NetReadFails(c)
  PROVE  IInv'
<1>1. Typed /\ \A x \in Clients : Good(x)
  BY DEF IInv
<1>2. /\ log' = log /\ clients' = clients /\ outgoing' = outgoing /\ writes' = writes /\ open' = open
      /\ joined' = joined /\ seen' = seen /\ consumed' = consumed /\ buffered' = buffered /\ peer' = peer
      /\ peer[c] = "gone" /\ read' = [read EXCEPT ![c] = "error"]
  BY DEF NetReadFails
<1>3. read' \in [Clients -> OpStates \cup {"none"}] /\ read'[c] = "error"
      /\ \A x \in Clients : x # c => read'[x] = read[x]
  BY <1>1, <1>2 DEF Typed, OpStates
<1>4. ASSUME NEW x \in Clients, x # c PROVE Good(x)'
  BY <1>1, <1>2, <1>3, <1>4, Untouched
<1>5. Good(c)'
  <2>1. Session(c)'
    BY <1>1, <1>2, <1>3 DEF Good, Session
  <2> QED  BY <1>1, <1>2, <2>1 DEF Good
<1>6. Typed'
  BY <1>1, <1>2, <1>3 DEF Typed
<1> QED  BY <1>4, <1>5, <1>6 DEF IInv

LEMMA StepKeeps == IInv /\ [Next]_vars => IInv'
<1> SUFFICES ASSUME IInv, [Next]_vars PROVE IInv'
  OBVIOUS
<1>1. CASE UNCHANGED vars
  <2>1. Typed' /\ \A x \in Clients : Good(x)'
    BY <1>1 DEF IInv, Typed, Good, Session, vars
  <2> QED  BY <2>1 DEF IInv
<1>2. ASSUME NEW c \in Clients, NEW ok \in {TRUE, ~AcceptFails}, Accept(c, ok) PROVE IInv'
  BY <1>2, AcceptKeeps, BoundsAssumption
<1>3. ASSUME NEW c \in Clients, NetWrite(c) PROVE IInv'
  <2>1. PICK i \in 1 .. Len(writes[c]) : writes' = [writes EXCEPT ![c][i] = "done"]
    BY <1>3 DEF NetWrite
  <2>2. UNCHANGED <<peer, clients, open, outgoing, read, consumed, buffered, log, joined, seen>>
    BY <1>3 DEF NetWrite
  <2>3. "done" \in OpStates
    BY DEF OpStates
  <2> QED  BY <2>1, <2>2, <2>3, WriteEnds
<1>4. ASSUME NEW c \in Clients, NetWriteFails(c) PROVE IInv'
  <2>1. PICK i \in 1 .. Len(writes[c]) : writes' = [writes EXCEPT ![c][i] = "error"]
    BY <1>4 DEF NetWriteFails
  <2>2. UNCHANGED <<peer, clients, open, outgoing, read, consumed, buffered, log, joined, seen>>
    BY <1>4 DEF NetWriteFails
  <2>3. "error" \in OpStates
    BY DEF OpStates
  <2> QED  BY <2>1, <2>2, <2>3, WriteEnds
<1>5. CASE Next
  <2>1. PICK c \in Clients : \/ \E ok \in {TRUE, ~AcceptFails} : Accept(c, ok)
                             \/ OnRead(c) \/ OnWrite(c)
                             \/ NetRead(c) \/ NetWrite(c) \/ PeerGoes(c)
                             \/ NetReadFails(c) \/ NetWriteFails(c)
    BY <1>5 DEF Next, Handler
  <2>2. CASE \E ok \in {TRUE, ~AcceptFails} : Accept(c, ok)
    BY <1>2, <2>2
  <2>3. CASE OnRead(c)
    BY <2>3, OnReadKeeps
  <2>4. CASE OnWrite(c)
    BY <2>4, OnWriteKeeps
  <2>5. CASE NetRead(c)
    BY <2>5, NetReadKeeps
  <2>6. CASE NetWrite(c)
    BY <1>3, <2>6
  <2>7. CASE PeerGoes(c)
    BY <2>7, PeerGoesKeeps
  <2>8. CASE NetReadFails(c)
    BY <2>8, NetReadFailsKeeps
  <2>9. CASE NetWriteFails(c)
    BY <1>4, <2>9
  <2> QED  BY <2>1, <2>2, <2>3, <2>4, <2>5, <2>6, <2>7, <2>8, <2>9
<1> QED  BY <1>1, <1>5
----------------------------------------------------------------------------
(* The theorems                                                            *)

\* The invariant of every behaviour of the server.
THEOREM Invariance == Spec => []IInv
<1>1. Init => IInv
  BY InitGood
<1>2. IInv /\ [Next]_vars => IInv'
  BY StepKeeps
<1> QED  BY <1>1, <1>2, PTL DEF Spec

\* OneLessOnce: a session that has left the room has been announced exactly once, also
\* when its read and its write have failed one after the other.
THEOREM LeavesAreAnnouncedOnce == Spec => []OneLessOnce
<1>1. IInv => OneLessOnce
  <2> SUFFICES ASSUME IInv PROVE OneLessOnce
    OBVIOUS
  <2>1. Typed /\ \A c \in Clients : Good(c)
    BY DEF IInv
  <2>2. TypeOK
    <3>1. \A c \in Clients : Len(writes[c]) <= 1 /\ consumed[c] \in Pieces(c) /\ buffered[c] \in Pieces(c)
      BY <2>1 DEF Good, Session, WriteOk
    <3> QED  BY <2>1, <3>1 DEF TypeOK, Typed, Posts
  <2>3. ASSUME NEW c \in Clients
        PROVE  Cardinality({i \in 1 .. Len(log) : log[i] = OneLess(c)})
                   = IF peer[c] # "away" /\ c \notin clients THEN 1 ELSE 0
    <3> DEFINE left == peer[c] # "away" /\ c \notin clients
    <3>1. LessOk(log, c, left)
      BY <2>1 DEF Good
    <3> HIDE DEF left
    <3>2. CASE left
      <4>1. PICK i : LessIn(log, c) = {i}
        BY <3>1, <3>2 DEF LessOk
      <4>2. Cardinality(LessIn(log, c)) = 1
        BY <4>1, FS_Singleton
      <4> QED  BY <3>2, <4>2 DEF LessIn, left
    <3>3. CASE ~left
      <4>1. LessIn(log, c) = {}
        BY <3>1, <3>3 DEF LessOk
      <4>2. Cardinality(LessIn(log, c)) = 0
        BY <4>1, FS_EmptySet
      <4> QED  BY <3>3, <4>2 DEF LessIn, left
    <3> QED  BY <3>2, <3>3
  <2> QED  BY <2>2, <2>3 DEF OneLessOnce
<1> QED  BY <1>1, Invariance, PTL

\* LinesInOrder: the lines of a client enter the log without a gap, a repetition or a
\* change of order, however much of its stream each read has found.
THEOREM LinesStayInOrder == Spec => []LinesInOrder
<1>1. IInv => LinesInOrder
  <2> SUFFICES ASSUME IInv, NEW c \in Clients, NEW j \in Lines(c)
               PROVE  LET earlier == {i \in Lines(c) : i < j} IN
                      /\ \A i \in earlier : log[i].last < log[j].first
                      /\ log[j].first = 1 \/ \E i \in earlier : log[i].last + 1 = log[j].first
    BY DEF LinesInOrder
  <2>1. LinesOk(log, c, consumed[c])
    BY DEF IInv, Good
  <2>2. Lines(c) = LinesIn(log, c)
    BY DEF Lines, LinesIn
  <2>3. /\ \A i \in Lines(c) : i < j => log[i].last < log[j].first
        /\ log[j].first = 1 \/ \E i \in Lines(c) : i < j /\ log[i].last + 1 = log[j].first
    BY <2>1, <2>2 DEF LinesOk
  <2> QED  BY <2>3
<1> QED  BY <1>1, Invariance, PTL

\* What has been written to a session, the welcome aside.
LEMMA AfterWelcome ==
  ASSUME NEW s \in Seq(Posts), NEW m \in Posts
  PROVE  /\ s = << >> => SubSeq(s, 2, Len(s)) = << >>
         /\ s = << >> => SubSeq(Append(s, m), 2, Len(Append(s, m))) = << >>
         /\ s # << >> => /\ Len(SubSeq(s, 2, Len(s))) = Len(s) - 1
                         /\ SubSeq(Append(s, m), 2, Len(Append(s, m))) = Append(SubSeq(s, 2, Len(s)), m)
<1> DEFINE t == Append(s, m)
           r == SubSeq(s, 2, Len(s))
           u == SubSeq(t, 2, Len(t))
<1>1. /\ Len(s) \in Nat /\ t \in Seq(Posts) /\ Len(t) = Len(s) + 1 /\ t[Len(s) + 1] = m
      /\ \A i \in 1 .. Len(s) : t[i] = s[i]
  BY AppendProperties, LenProperties
<1>2. CASE s = << >>
  <2>1. Len(s) = 0 /\ Len(t) = 1
    BY <1>1, <1>2, EmptySeq
  <2> HIDE DEF t
  <2>2. SubSeq(s, 2, 0) = << >> /\ SubSeq(t, 2, 1) = << >>
    BY <1>1, SubSeqEmpty
  <2> QED  BY <1>2, <2>1, <2>2 DEF t
<1>3. CASE s # << >>
  <2>1. Len(s) >= 1
    <3>1. Len(s) # 0
      BY <1>3, EmptySeq
    <3> QED  BY <1>1, <3>1
  <2> HIDE DEF t
  <2>2. r \in Seq(Posts) /\ Len(r) = Len(s) - 1 /\ \A i \in 1 .. Len(s) - 1 : r[i] = s[i + 1]
    <3>1. r = Tail(s)
      BY <1>3, TailIsSubSeq
    <3>2. Tail(s) \in Seq(Posts) /\ Len(Tail(s)) = Len(s) - 1
          /\ \A i \in 1 .. Len(Tail(s)) : Tail(s)[i] = s[i + 1]
      BY <1>3, HeadTailProperties
    <3> HIDE DEF r
    <3> QED  BY <3>1, <3>2
  <2>3. u \in Seq(Posts) /\ Len(u) = Len(s) /\ \A i \in 1 .. Len(s) : u[i] = t[i + 1]
    BY <1>1, <2>1, SubSeqProperties
  <2> HIDE DEF r, u
  <2>4. /\ Append(r, m) \in Seq(Posts) /\ Len(Append(r, m)) = Len(s)
        /\ Append(r, m)[Len(s)] = m /\ \A i \in 1 .. Len(s) - 1 : Append(r, m)[i] = r[i]
    BY <1>1, <2>1, <2>2, AppendProperties
  <2>5. ASSUME NEW i \in 1 .. Len(s) PROVE u[i] = Append(r, m)[i]
    <3>1. CASE i = Len(s)
      BY <1>1, <2>3, <2>4, <3>1
    <3>2. CASE i # Len(s)
      <4>1. i \in 1 .. Len(s) - 1 /\ i + 1 \in 1 .. Len(s)
        BY <1>1, <3>2
      <4> QED  BY <1>1, <2>2, <2>3, <2>4, <4>1
    <3> QED  BY <3>1, <3>2
  <2>6. u = Append(r, m)
    BY <2>3, <2>4, <2>5, SeqEqual
  <2> QED  BY <1>3, <2>2, <2>6 DEF r, u, t
<1> QED  BY <1>2, <1>3

\* Something is broadcast, or nothing happens in the room.
LEMMA LeaveBroadcasts ==
  ASSUME NEW c \in Clients, NEW w, NEW rd, Leave(c, w, rd), UNCHANGED <<joined, seen>>
  PROVE  [Room!Next]_(Room!vars)
<1>1. joined' = joined /\ WithoutWelcome' = WithoutWelcome
  BY DEF WithoutWelcome
<1>2. CASE c \in clients
  <2>1. log' = Append(log, OneLess(c)) /\ OneLess(c) \in Entry
    BY <1>2, Kinds DEF Leave, Post
  <2>2. Room!Broadcast
    BY <1>1, <2>1 DEF Room!Broadcast
  <2> QED  BY <2>2 DEF Room!Next
<1>3. CASE c \notin clients
  BY <1>1, <1>3 DEF Leave, Room!vars
<1> QED  BY <1>2, <1>3

LEMMA AcceptJoins ==
  ASSUME IInv, NEW c \in Clients, NEW ok, Accept(c, ok)
  PROVE  Room!Next
<1>1. seen[c] = << >> /\ seen[c] \in Seq(Posts)
  BY DEF IInv, Typed, Good, Session, Accept
<1>2. Welcome \in Posts
  BY DEF Posts
<1>3. WithoutWelcome[c] = << >>
  BY <1>1, <1>2, AfterWelcome DEF WithoutWelcome
<1>4. Newcomer(c) \in Entry
  BY Kinds
<1>5. log' = Append(log, Newcomer(c)) /\ joined' = [joined EXCEPT ![c] = Len(log')] /\ seen' = seen
  BY DEF Accept, Post
<1>6. WithoutWelcome' = WithoutWelcome
  BY <1>5 DEF WithoutWelcome
<1>7. Room!Join(c)
  BY <1>3, <1>4, <1>5, <1>6 DEF Room!Join
<1> QED  BY <1>7 DEF Room!Next

LEMMA OnReadBroadcasts ==
  ASSUME IInv, NEW c \in Clients, OnRead(c)
  PROVE  [Room!Next]_(Room!vars)
<1>1. UNCHANGED <<joined, seen>>
  BY DEF OnRead
<1>2. CASE read[c] = "error"
  BY <1>1, <1>2, LeaveBroadcasts DEF OnRead
<1>3. CASE read[c] = "done"
  <2> DEFINE m == Line(c, consumed[c] + 1, buffered[c])
  <2>1. log' = Append(log, m)
    BY <1>3 DEF OnRead, Post
  <2>2. m \in Entry
    <3>1. consumed[c] \in Pieces(c) /\ buffered[c] \in Pieces(c) /\ consumed[c] < buffered[c]
      BY <1>3 DEF IInv, Good, Session
    <3>2. consumed[c] + 1 \in Pieces(c)
      BY <3>1, BoundsAssumption DEF Pieces
    <3> QED  BY <3>1, <3>2, Kinds
  <2>3. joined' = joined /\ WithoutWelcome' = WithoutWelcome
    BY <1>1 DEF WithoutWelcome
  <2> HIDE DEF m
  <2>4. Room!Broadcast
    BY <2>1, <2>2, <2>3 DEF Room!Broadcast
  <2> QED  BY <2>4 DEF Room!Next
<1> QED  BY <1>2, <1>3 DEF OnRead

LEMMA NextPlace ==
  ASSUME NEW j \in Nat, NEW n \in Nat, NEW end \in Nat, NEW r, r = n - 1, j + n \in 1 .. end
  PROVE  j + r + 1 = j + n /\ j + n <= end
  OBVIOUS

LEMMA OnWriteReads ==
  ASSUME IInv, NEW c \in Clients, OnWrite(c)
  PROVE  [Room!Next]_(Room!vars)
<1>1. PICK i \in 1 .. Len(writes[c]) :
        /\ \/ /\ writes[c][i] = "done"
              /\ seen' = [seen EXCEPT ![c] = Append(@, Head(outgoing[c]))]
              /\ log' = log
           \/ /\ Leave(c, Remove(writes[c], i), read[c])
              /\ seen' = seen
        /\ joined' = joined
  BY DEF OnWrite
<1>2. CASE seen' = seen /\ Leave(c, Remove(writes[c], i), read[c])
  BY <1>1, <1>2, LeaveBroadcasts
<1>3. CASE seen' = [seen EXCEPT ![c] = Append(@, Head(outgoing[c]))] /\ log' = log
  <2> DEFINE q == outgoing[c]
             s == seen[c]
             r == SubSeq(s, 2, Len(s))
             member == c \in clients
  <2>1. /\ q \in Seq(Posts) /\ q # << >> /\ s \in Seq(Posts) /\ joined[c] \in Nat
        /\ log \in Seq(Entry) /\ member \in BOOLEAN
        /\ QueueOk(log, joined[c], s, q, member)
    BY Written
  <2>2. seen \in [Clients -> Seq(Posts)] /\ seen' = [seen EXCEPT ![c] = Append(s, Head(q))]
    BY <1>3 DEF IInv, Typed
  <2>3. WithoutWelcome \in [Clients -> Seq(Posts)] /\ WithoutWelcome[c] = r
    <3>1. \A x \in Clients : SubSeq(seen[x], 2, Len(seen[x])) \in Seq(Posts)
      <4> TAKE x \in Clients
      <4>1. seen[x] \in Seq(Posts)
        BY <2>2
      <4> QED  BY <4>1
    <3> QED  BY <3>1 DEF WithoutWelcome
  <2>4. WithoutWelcome'
          = [WithoutWelcome EXCEPT ![c] = SubSeq(Append(s, Head(q)), 2, Len(Append(s, Head(q))))]
    BY <2>2 DEF WithoutWelcome
  <2> HIDE DEF q, s, r, member
  <2>5. /\ Head(q) \in Posts
        /\ s # << >> => joined[c] + Len(s) \in 1 .. Len(log) /\ Head(q) = log[joined[c] + Len(s)]
    BY <2>1, QueueWritten
  <2>6. /\ s = << >> => r = << >>
        /\ s = << >> => SubSeq(Append(s, Head(q)), 2, Len(Append(s, Head(q)))) = << >>
        /\ s # << >> => /\ Len(r) = Len(s) - 1
                        /\ SubSeq(Append(s, Head(q)), 2, Len(Append(s, Head(q)))) = Append(r, Head(q))
    BY <2>1, <2>5, AfterWelcome DEF r
  <2>7. CASE s = << >>
    <3>1. WithoutWelcome' = WithoutWelcome
      BY <2>3, <2>4, <2>6, <2>7
    <3> QED  BY <1>1, <1>3, <3>1 DEF Room!vars
  <2>8. CASE s # << >>
    <3>1. Len(s) \in Nat /\ Len(log) \in Nat
      BY <2>1, LenProperties
    <3>2. joined[c] + Len(r) + 1 = joined[c] + Len(s) /\ joined[c] + Len(s) <= Len(log)
      <4>1. joined[c] \in Nat /\ Len(r) = Len(s) - 1 /\ joined[c] + Len(s) \in 1 .. Len(log)
        BY <2>1, <2>5, <2>6, <2>8
      <4> QED  BY <3>1, <4>1, NextPlace
    <3>3. WithoutWelcome' = [WithoutWelcome EXCEPT ![c] = Append(r, log[joined[c] + Len(r) + 1])]
      BY <2>4, <2>5, <2>6, <2>8, <3>2
    <3>4. Room!Read(c)
      BY <1>1, <1>3, <2>3, <3>2, <3>3 DEF Room!Read
    <3> QED  BY <3>4 DEF Room!Next
  <2> QED  BY <2>7, <2>8
<1> QED  BY <1>1, <1>2, <1>3

\* RoomSpec: the server implements the room, in which everybody reads one and the same
\* log from where they joined it, with nothing missing, repeated or out of order.
THEOREM ImplementsRoom == Spec => RoomSpec
<1>1. Init => Room!Init
  <2> SUFFICES ASSUME Init PROVE Room!Init
    OBVIOUS
  <2>1. ASSUME NEW c \in Clients PROVE SubSeq(seen[c], 2, Len(seen[c])) = << >>
    <3>1. seen[c] = << >> /\ seen[c] \in Seq(Posts) /\ Welcome \in Posts
      BY DEF Init, Posts
    <3> QED  BY <3>1, AfterWelcome
  <2> QED  BY <2>1 DEF Init, Room!Init, WithoutWelcome
<1>2. IInv /\ [Next]_vars => [Room!Next]_(Room!vars)
  <2> SUFFICES ASSUME IInv, [Next]_vars PROVE [Room!Next]_(Room!vars)
    OBVIOUS
  <2>1. CASE UNCHANGED <<log, joined, seen>>
    BY <2>1 DEF Room!vars, WithoutWelcome
  <2>2. CASE UNCHANGED vars
    BY <2>1, <2>2 DEF vars
  <2>3. CASE Next
    <3>1. PICK c \in Clients : \/ \E ok \in {TRUE, ~AcceptFails} : Accept(c, ok)
                               \/ OnRead(c) \/ OnWrite(c)
                               \/ NetRead(c) \/ NetWrite(c) \/ PeerGoes(c)
                               \/ NetReadFails(c) \/ NetWriteFails(c)
      BY <2>3 DEF Next, Handler
    <3>2. CASE \E ok \in {TRUE, ~AcceptFails} : Accept(c, ok)
      BY <3>2, AcceptJoins
    <3>3. CASE OnRead(c)
      BY <3>3, OnReadBroadcasts
    <3>4. CASE OnWrite(c)
      BY <3>4, OnWriteReads
    <3>5. CASE NetRead(c) \/ NetWrite(c) \/ PeerGoes(c) \/ NetReadFails(c) \/ NetWriteFails(c)
      BY <2>1, <3>5 DEF NetRead, NetWrite, PeerGoes, NetReadFails, NetWriteFails
    <3> QED  BY <3>1, <3>2, <3>3, <3>4, <3>5
  <2> QED  BY <2>2, <2>3
<1> QED  BY <1>1, <1>2, Invariance, PTL DEF Spec, RoomSpec, Room!Spec
----------------------------------------------------------------------------
(* What the liveness of the room rests on: somebody has yet to report        *)

\* No write waits for the network.
Idle(w) == \A i \in 1 .. Len(w) : w[i] # "pending"

\* Each session of the set reads, and writes if it has something queued; only those of
\* the set have an open socket; nothing waits on a closed one.
Served(x) ==
    /\ x \in clients => read[x] # "none" /\ (outgoing[x] # << >> => writes[x] # << >>)
    /\ open[x] => x \in clients
    /\ ~open[x] => read[x] # "pending" /\ Idle(writes[x])

RoomIsServed == \A x \in Clients : Served(x)

\* An operation is pending only if its socket is open.
LEMMA OpStarts ==
  ASSUME NEW o \in BOOLEAN
  PROVE  /\ OpState(o) \in {"pending", "error"} /\ OpState(o) # "none"
         /\ ~o => OpState(o) # "pending"
  BY DEF OpState

\* A broadcast leaves its hearer with a write.
LEMMA HearerWrites ==
  ASSUME NEW q \in Seq(Posts), NEW w \in Seq(OpStates), NEW state \in OpStates,
         NEW o, ~o => Idle(w) /\ state # "pending", q # << >> => w # << >>
  PROVE  LET w2 == IF q = << >> THEN Append(w, state) ELSE w
         IN  w2 # << >> /\ (~o => Idle(w2))
<1>1. CASE q = << >>
  <2> DEFINE w2 == Append(w, state)
  <2>1. /\ w2 # << >> /\ Len(w2) = Len(w) + 1 /\ Len(w) \in Nat /\ w2[Len(w) + 1] = state
        /\ \A i \in 1 .. Len(w) : w2[i] = w[i]
    BY AppendProperties, LenProperties
  <2> HIDE DEF w2
  <2>2. ASSUME ~o PROVE Idle(w2)
    <3> SUFFICES ASSUME NEW i \in 1 .. Len(w2) PROVE w2[i] # "pending"
      BY DEF Idle
    <3>1. CASE i = Len(w) + 1
      BY <2>1, <2>2, <3>1
    <3>2. CASE i # Len(w) + 1
      <4>1. i \in 1 .. Len(w)
        BY <2>1, <3>2
      <4> QED  BY <2>1, <2>2, <4>1 DEF Idle
    <3> QED  BY <3>1, <3>2
  <2> QED  BY <1>1, <2>1, <2>2 DEF w2
<1>2. CASE q # << >>
  BY <1>2
<1> QED  BY <1>1, <1>2

\* A broadcast keeps a session served whose operations it leaves in order.
LEMMA PostServes ==
  ASSUME NEW x \in Clients, NEW m, NEW members, NEW out, NEW wr, NEW isOpen, isOpen[x] \in BOOLEAN,
         Post(m, members, out, wr, isOpen), out[x] \in Seq(Posts), wr[x] \in Seq(OpStates),
         out[x] # << >> /\ (x \in members \/ x \in clients') => wr[x] # << >>,
         ~isOpen[x] => Idle(wr[x])
  PROVE  /\ x \in clients' => (outgoing'[x] # << >> => writes'[x] # << >>)
         /\ ~isOpen[x] => Idle(writes'[x])
<1> DEFINE q == out[x]
           w == wr[x]
           o == isOpen[x]
           state == OpState(o)
           w2 == IF q = << >> THEN Append(w, state) ELSE w
<1>1. /\ outgoing'[x] = IF x \in members THEN Append(q, m) ELSE q
      /\ writes'[x] = IF x \in members THEN w2 ELSE w
  BY DEF Post
<1>2. state \in OpStates /\ (~o => state # "pending")
  BY OpStarts DEF OpStates
<1>3. q \in Seq(Posts) /\ w \in Seq(OpStates) /\ (~o => Idle(w))
      /\ (q # << >> /\ (x \in members \/ x \in clients') => w # << >>)
  OBVIOUS
<1> HIDE DEF q, w, o, state
<1>4. CASE x \in members
  <2>1. w2 # << >> /\ (~o => Idle(w2))
    BY <1>2, <1>3, <1>4, HearerWrites
  <2> QED  BY <1>1, <1>4, <2>1 DEF o
<1>5. CASE x \notin members
  BY <1>1, <1>3, <1>5 DEF o
<1> QED  BY <1>4, <1>5

LEMMA AllIdle == ASSUME NEW w \in Seq(OpStates) PROVE AbortAll(w) \in Seq(OpStates) /\ Idle(AbortAll(w))
<1>1. \A i \in 1 .. Len(w) : Abort(w[i]) \in OpStates /\ Abort(w[i]) # "pending"
  BY ElementOfSeq DEF Abort, OpStates
<1>2. Len(w) \in Nat
  BY LenProperties
<1>3. AbortAll(w) \in Seq(OpStates) /\ Len(AbortAll(w)) = Len(w)
  BY <1>1, <1>2, IsASeq DEF AbortAll
<1>4. \A i \in 1 .. Len(w) : AbortAll(w)[i] = Abort(w[i])
  BY DEF AbortAll
<1> QED  BY <1>1, <1>3, <1>4 DEF Idle

LEMMA StaysServed ==
  ASSUME NEW x \in Clients, Served(x), open'[x] = open[x], x \in clients' <=> x \in clients,
         read'[x] = read[x], outgoing'[x] = outgoing[x], writes'[x] = writes[x]
  PROVE  Served(x)'
  BY DEF Served

LEMMA AcceptServes ==
  ASSUME IInv, RoomIsServed, NEW c \in Clients, NEW ok \in BOOLEAN, Accept(c, ok)
  PROVE  RoomIsServed'
<1> DEFINE m == Newcomer(c)
           out == [outgoing EXCEPT ![c] = <<Welcome>>]
           wr == [writes EXCEPT ![c] = <<OpState(ok)>>]
<1>1. Typed /\ c \notin clients
  BY DEF IInv, Good, Session, Accept
<1>2. /\ Post(m, clients, out, wr, open') /\ clients' = clients \cup {c}
      /\ open' = [open EXCEPT ![c] = ok] /\ read' = [read EXCEPT ![c] = OpState(ok)]
  BY DEF Accept
<1> HIDE DEF m
<1>3. OpState(ok) \in OpStates /\ OpState(ok) # "none" /\ (~ok => OpState(ok) # "pending")
  BY OpStarts DEF OpStates
<1>4. Served(c)'
  <2>1. out[c] = <<Welcome>> /\ wr[c] = <<OpState(ok)>> /\ open'[c] = ok /\ read'[c] = OpState(ok)
    BY <1>1, <1>2 DEF Typed
  <2>2. out[c] \in Seq(Posts) /\ wr[c] \in Seq(OpStates) /\ wr[c] # << >>
    <3>1. Welcome \in Posts
      BY DEF Posts
    <3>2. <<Welcome>> \in Seq(Posts)
      BY <3>1
    <3>3. <<OpState(ok)>> \in Seq(OpStates) /\ <<OpState(ok)>> # << >>
      BY <1>3
    <3> QED  BY <2>1, <3>2, <3>3
  <2>3. ~ok => Idle(wr[c])
    BY <1>3, <2>1 DEF Idle
  <2> HIDE DEF out, wr
  <2>4. /\ c \in clients' => (outgoing'[c] # << >> => writes'[c] # << >>)
        /\ ~open'[c] => Idle(writes'[c])
    <3>1. Post(m, clients, out, wr, open') /\ open'[c] \in BOOLEAN /\ (~open'[c] => Idle(wr[c]))
      BY <1>2, <2>1, <2>3
    <3>2. out[c] # << >> /\ (c \in clients \/ c \in clients') => wr[c] # << >>
      BY <2>2
    <3> QED  BY <2>2, <3>1, <3>2, PostServes
  <2> QED  BY <1>2, <1>3, <2>1, <2>4 DEF Served
<1>5. ASSUME NEW x \in Clients, x # c PROVE Served(x)'
  <2>1. out[x] = outgoing[x] /\ wr[x] = writes[x] /\ open'[x] = open[x] /\ read'[x] = read[x]
        /\ (x \in clients' <=> x \in clients)
    BY <1>1, <1>2, <1>5 DEF Typed
  <2>2. Served(x) /\ outgoing[x] \in Seq(Posts) /\ writes[x] \in Seq(OpStates) /\ open[x] \in BOOLEAN
    BY <1>1 DEF RoomIsServed, Typed
  <2> HIDE DEF out, wr
  <2>3. /\ x \in clients' => (outgoing'[x] # << >> => writes'[x] # << >>)
        /\ ~open'[x] => Idle(writes'[x])
    <3>1. Post(m, clients, out, wr, open') /\ open'[x] \in BOOLEAN /\ (~open'[x] => Idle(wr[x]))
      BY <1>2, <2>1, <2>2 DEF Served
    <3>2. out[x] # << >> /\ (x \in clients \/ x \in clients') => wr[x] # << >>
      BY <2>1, <2>2 DEF Served
    <3>3. out[x] \in Seq(Posts) /\ wr[x] \in Seq(OpStates)
      BY <2>1, <2>2
    <3> QED  BY <3>1, <3>2, <3>3, PostServes
  <2> QED  BY <2>1, <2>2, <2>3 DEF Served
<1> QED  BY <1>4, <1>5 DEF RoomIsServed

LEMMA LeaveServes ==
  ASSUME IInv, RoomIsServed, NEW c \in Clients, NEW w \in Seq(OpStates),
         NEW rd \in OpStates \cup {"none"}, Leave(c, w, rd)
  PROVE  RoomIsServed'
<1> DEFINE m == OneLess(c)
           wr == [writes EXCEPT ![c] = AbortAll(w)]
<1>1. Typed
  BY DEF IInv
<1>2. /\ open' = [open EXCEPT ![c] = FALSE] /\ clients' = clients \ {c}
      /\ read' = [read EXCEPT ![c] = Abort(rd)]
  BY DEF Leave
<1>3. \/ Post(m, clients', outgoing, wr, open')
      \/ writes' = wr /\ outgoing' = outgoing
  BY DEF Leave
<1> HIDE DEF m
<1>4. Served(c)'
  <2>1. c \notin clients' /\ open'[c] = FALSE /\ read'[c] # "pending"
    BY <1>1, <1>2 DEF Typed, Abort
  <2>2. writes'[c] = AbortAll(w)
    BY <1>1, <1>3, <2>1 DEF Post, Typed
  <2> QED  BY <2>1, <2>2, AllIdle DEF Served
<1>5. ASSUME NEW x \in Clients, x # c PROVE Served(x)'
  <2>1. wr[x] = writes[x] /\ open'[x] = open[x] /\ read'[x] = read[x] /\ (x \in clients' <=> x \in clients)
    BY <1>1, <1>2, <1>5 DEF Typed
  <2>2. Served(x) /\ outgoing[x] \in Seq(Posts) /\ writes[x] \in Seq(OpStates) /\ open[x] \in BOOLEAN
    BY <1>1 DEF RoomIsServed, Typed
  <2> HIDE DEF wr
  <2>3. CASE Post(m, clients', outgoing, wr, open')
    <3>1. /\ x \in clients' => (outgoing'[x] # << >> => writes'[x] # << >>)
          /\ ~open'[x] => Idle(writes'[x])
      BY <2>1, <2>2, <2>3, PostServes DEF Served
    <3> QED  BY <2>1, <2>2, <3>1 DEF Served
  <2>4. CASE writes' = wr /\ outgoing' = outgoing
    BY <2>1, <2>2, <2>4, StaysServed
  <2> QED  BY <1>3, <2>3, <2>4
<1> QED  BY <1>4, <1>5 DEF RoomIsServed

LEMMA OnReadServes ==
  ASSUME IInv, RoomIsServed, NEW c \in Clients, OnRead(c)
  PROVE  RoomIsServed'
<1>1. Typed
  BY DEF IInv
<1>2. CASE Leave(c, writes[c], "none")
  <2>1. writes[c] \in Seq(OpStates)
    BY <1>1 DEF Typed
  <2> QED  BY <1>2, <2>1, LeaveServes
<1>3. CASE read[c] = "done"
  <2> DEFINE m == Line(c, consumed[c] + 1, buffered[c])
  <2>1. /\ Post(m, clients, outgoing, writes, open)
        /\ read' = [read EXCEPT ![c] = OpState(open[c])] /\ open' = open /\ clients' = clients
    BY <1>3 DEF OnRead
  <2> HIDE DEF m
  <2>2. ASSUME NEW x \in Clients PROVE Served(x)'
    <3>1. Served(x) /\ outgoing[x] \in Seq(Posts) /\ writes[x] \in Seq(OpStates) /\ open[x] \in BOOLEAN
      BY <1>1 DEF RoomIsServed, Typed
    <3>2. /\ x \in clients' => (outgoing'[x] # << >> => writes'[x] # << >>)
          /\ ~open[x] => Idle(writes'[x])
      BY <2>1, <3>1, PostServes DEF Served
    <3>3. read'[x] = read[x] \/ read'[x] = OpState(open[x])
      BY <1>1, <2>1 DEF Typed
    <3>4. OpState(open[x]) # "none" /\ (~open[x] => OpState(open[x]) # "pending")
      BY <3>1, OpStarts
    <3> QED  BY <2>1, <3>1, <3>2, <3>3, <3>4 DEF Served
  <2> QED  BY <2>2 DEF RoomIsServed
<1> QED  BY <1>2, <1>3 DEF OnRead

LEMMA OnWriteServes ==
  ASSUME IInv, RoomIsServed, NEW c \in Clients, OnWrite(c)
  PROVE  RoomIsServed'
<1>1. Typed
  BY DEF IInv
<1> DEFINE e == << >>
           q == Tail(outgoing[c])
           w == IF q = << >> THEN e ELSE Append(e, OpState(open[c]))
<1>2. \/ Leave(c, e, read[c])
      \/ /\ outgoing' = [outgoing EXCEPT ![c] = q] /\ writes' = [writes EXCEPT ![c] = w]
         /\ UNCHANGED <<open, clients, read>>
  <2>1. \A i \in 1 .. Len(writes[c]) : Remove(writes[c], i) = e
    BY Written
  <2> QED  BY <2>1 DEF OnWrite
<1>3. CASE Leave(c, e, read[c])
  <2>1. e \in Seq(OpStates) /\ read[c] \in OpStates \cup {"none"}
    BY <1>1 DEF Typed
  <2> HIDE DEF e
  <2> QED  BY <1>3, <2>1, LeaveServes
<1>4. CASE /\ outgoing' = [outgoing EXCEPT ![c] = q] /\ writes' = [writes EXCEPT ![c] = w]
           /\ UNCHANGED <<open, clients, read>>
  <2>1. (q # << >> => w # << >>) /\ (~open[c] => Idle(w))
    <3>1. CASE q = << >>
      BY <3>1 DEF Idle
    <3>2. CASE q # << >>
      <4>1. open[c] \in BOOLEAN
        BY <1>1 DEF Typed
      <4>2. w = <<OpState(open[c])>>
        BY <3>2, NewWrite
      <4> HIDE DEF w
      <4> QED  BY <4>1, <4>2, OpStarts DEF Idle
    <3> QED  BY <3>1, <3>2
  <2> HIDE DEF q, w
  <2>2. ASSUME NEW x \in Clients PROVE Served(x)'
    <3>1. Served(x)
      BY DEF RoomIsServed
    <3>2. CASE x = c
      <4>1. outgoing'[x] = q /\ writes'[x] = w
        BY <1>1, <1>4, <3>2 DEF Typed
      <4> QED  BY <1>4, <2>1, <3>1, <3>2, <4>1 DEF Served
    <3>3. CASE x # c
      <4>1. outgoing'[x] = outgoing[x] /\ writes'[x] = writes[x]
        BY <1>1, <1>4, <3>3 DEF Typed
      <4> QED  BY <1>4, <3>1, <4>1 DEF Served
    <3> QED  BY <3>2, <3>3
  <2> QED  BY <2>2 DEF RoomIsServed
<1> QED  BY <1>2, <1>3, <1>4

\* NetWrite and NetWriteFails.
LEMMA WriteEndServes ==
  ASSUME IInv, RoomIsServed, NEW c \in Clients, NEW i \in 1 .. Len(writes[c]),
         NEW y \in {"done", "error"}, writes' = [writes EXCEPT ![c][i] = y],
         UNCHANGED <<clients, open, outgoing, read>>
  PROVE  RoomIsServed'
<1>1. Typed /\ Good(c)
  BY DEF IInv
<1> DEFINE w == [writes[c] EXCEPT ![i] = y]
<1>2. writes[c] \in Seq(OpStates) /\ WriteOk(outgoing[c], writes[c])
  BY <1>1 DEF Typed, Good
<1>3. y \in OpStates /\ y # "pending"
  BY DEF OpStates
<1>4. w \in Seq(OpStates) /\ Len(w) = Len(writes[c])
  BY <1>2, <1>3, OneWrite DEF WriteOk
<1>5. w # << >>
  BY <1>4, EmptySeq
<1>6. Idle(writes[c]) => Idle(w)
  BY <1>2, <1>3, <1>4 DEF Idle
<1>7. writes' = [writes EXCEPT ![c] = w]
  OBVIOUS
<1> HIDE DEF w
<1>8. ASSUME NEW x \in Clients PROVE Served(x)'
  <2>1. Served(x)
    BY DEF RoomIsServed
  <2>2. CASE x = c
    <3>1. writes'[x] = w
      BY <1>1, <1>7, <2>2 DEF Typed
    <3> QED  BY <1>5, <1>6, <2>1, <2>2, <3>1 DEF Served
  <2>3. CASE x # c
    <3>1. writes'[x] = writes[x]
      BY <1>1, <1>7, <2>3 DEF Typed
    <3> QED  BY <2>1, <3>1 DEF Served
  <2> QED  BY <2>2, <2>3
<1> QED  BY <1>8 DEF RoomIsServed

LEMMA ReadEndServes ==
  ASSUME IInv, RoomIsServed, NEW c \in Clients, NEW y \in {"done", "error"},
         read' = [read EXCEPT ![c] = y], UNCHANGED <<clients, open, outgoing, writes>>
  PROVE  RoomIsServed'
<1> SUFFICES ASSUME NEW x \in Clients PROVE Served(x)'
  BY DEF RoomIsServed
<1>1. Served(x) /\ (read'[x] = read[x] \/ read'[x] = y)
  BY DEF RoomIsServed, IInv, Typed
<1> QED  BY <1>1 DEF Served

\* MembersHearAll and GoneAreRemoved rest on this: a session of the room never lacks the
\* operation whose handler will write the rest of its queue, or find that its client has
\* gone; and one that has closed its socket waits for nobody (dens_simple_chat_server.cpp:123).
THEOREM SessionsAreServed == Spec => []RoomIsServed
<1>1. Init => RoomIsServed
  BY DEF Init, RoomIsServed, Served, Idle
<1>2. IInv /\ RoomIsServed /\ [Next]_vars => RoomIsServed'
  <2> SUFFICES ASSUME IInv, RoomIsServed, [Next]_vars PROVE RoomIsServed'
    OBVIOUS
  <2>1. CASE UNCHANGED vars
    BY <2>1, StaysServed DEF RoomIsServed, vars
  <2>2. ASSUME NEW c \in Clients, NEW ok \in {TRUE, ~AcceptFails}, Accept(c, ok) PROVE RoomIsServed'
    BY <2>2, AcceptServes, BoundsAssumption
  <2>3. ASSUME NEW c \in Clients, NetWrite(c) \/ NetWriteFails(c) PROVE RoomIsServed'
    BY <2>3, WriteEndServes DEF NetWrite, NetWriteFails
  <2>4. ASSUME NEW c \in Clients, NetRead(c) \/ NetReadFails(c) PROVE RoomIsServed'
    BY <2>4, ReadEndServes DEF NetRead, NetReadFails
  <2>5. ASSUME NEW c \in Clients, PeerGoes(c) PROVE RoomIsServed'
    BY <2>5, StaysServed DEF RoomIsServed, PeerGoes
  <2> QED  BY <2>1, <2>2, <2>3, <2>4, <2>5, OnReadServes, OnWriteServes DEF Next, Handler
<1> QED  BY <1>1, <1>2, Invariance, PTL DEF Spec
============================================================================
