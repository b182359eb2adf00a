------------------------ MODULE ServerInterfaceProofs ------------------------
(***************************************************************************)
(* Safety of ServerInterface for every set of connections and every number *)
(* of messages: broadcasts report a departure once, and the container      *)
(* holds clients that are read from and, outside of a broadcast, nothing   *)
(* else.                                                                   *)
(***************************************************************************)
EXTENDS ServerInterface, SequenceTheorems, FiniteSetTheorems, TLAPS

Entries == Conns \cup {Null}

\* No connection is in the container twice.
Distinct(s) == \A i, j \in 1 .. Len(s) : s[i] = s[j] /\ s[i] # Null => i = j
----------------------------------------------------------------------------
(* std::remove and erase                                                   *)

Kept(s) == {i \in 1 .. Len(s) : s[i] # Null}
UpTo(s, i) == {j \in Kept(s) : j <= i}
Place(s, i) == Cardinality(UpTo(s, i))

LEMMA WithoutNullIs ==
  ASSUME NEW s
  PROVE  WithoutNull(s) = [k \in 1 .. Cardinality(Kept(s)) |-> s[CHOOSE i \in Kept(s) : Place(s, i) = k]]
  BY DEF WithoutNull, Kept, Place, UpTo

LEMMA KeptFinite ==
  ASSUME NEW s \in Seq(Entries)
  PROVE  /\ IsFiniteSet(Kept(s)) /\ Cardinality(Kept(s)) \in Nat
         /\ \A i \in Kept(s) : i \in 1 .. Len(s) /\ i \in Nat
<1>1. Len(s) \in Nat
  BY LenProperties
<1>2. IsFiniteSet(1 .. Len(s))
  BY <1>1, FS_Interval
<1>3. Kept(s) \in SUBSET (1 .. Len(s))
  BY DEF Kept
<1>4. IsFiniteSet(Kept(s))
  BY <1>2, <1>3, FS_Subset
<1> QED  BY <1>1, <1>3, <1>4, FS_CardinalityType

\* Entries that are kept are kept in different places ...
LEMMA PlaceInjective ==
  ASSUME NEW s \in Seq(Entries), NEW i \in Kept(s), NEW j \in Kept(s), i < j
  PROVE  Place(s, i) # Place(s, j)
<1>1. i \in Nat /\ j \in Nat
  BY KeptFinite
<1>2. UpTo(s, i) \in SUBSET UpTo(s, j)
  <2>1. \A k \in Kept(s) : k <= i => k <= j
    BY <1>1, KeptFinite
  <2> QED  BY <2>1 DEF UpTo
<1>3. j \in UpTo(s, j) /\ j \notin UpTo(s, i)
  BY <1>1 DEF UpTo
<1>4. UpTo(s, j) \in SUBSET Kept(s)
  BY DEF UpTo
<1>5. IsFiniteSet(UpTo(s, j))
  BY <1>4, KeptFinite, FS_Subset
<1> QED  BY <1>2, <1>3, <1>5, FS_Subset DEF Place

LEMMA PlaceRange ==
  ASSUME NEW s \in Seq(Entries), NEW i \in Kept(s)
  PROVE  Place(s, i) \in 1 .. Cardinality(Kept(s))
<1>1. UpTo(s, i) \in SUBSET Kept(s)
  BY DEF UpTo
<1>2. i \in UpTo(s, i)
  BY KeptFinite DEF UpTo
<1>3. IsFiniteSet(UpTo(s, i)) /\ Place(s, i) <= Cardinality(Kept(s))
  BY <1>1, KeptFinite, FS_Subset DEF Place
<1>4. Place(s, i) \in Nat /\ Place(s, i) # 0
  BY <1>2, <1>3, FS_CardinalityType, FS_EmptySet DEF Place
<1> QED  BY <1>3, <1>4, KeptFinite

\* ... and every place is taken.
LEMMA PlaceTaken ==
  ASSUME NEW s \in Seq(Entries), NEW k \in 1 .. Cardinality(Kept(s))
  PROVE  \E i \in Kept(s) : Place(s, i) = k
<1> DEFINE n == Cardinality(Kept(s))
           f == [i \in Kept(s) |-> Place(s, i)]
<1>1. f \in [Kept(s) -> 1 .. n]
  BY PlaceRange
<1>2. ASSUME NEW i \in Kept(s), NEW j \in Kept(s), f[i] = f[j] PROVE i = j
  <2>1. i \in Nat /\ j \in Nat
    BY KeptFinite
  <2>2. ~(i < j) /\ ~(j < i)
    BY <1>2, PlaceInjective
  <2> QED  BY <2>1, <2>2
<1>3. f \in Injection(Kept(s), 1 .. n)
  BY <1>1, <1>2 DEF Injection, IsInjective
<1>4. n \in Nat /\ IsFiniteSet(1 .. n) /\ Cardinality(1 .. n) = n
  BY KeptFinite, FS_Interval
<1>5. f \in Surjection(Kept(s), 1 .. n)
  BY <1>3, <1>4, FS_Injection
<1> QED  BY <1>5 DEF Surjection

\* What is left: entries that are not Null, as different from one another as before.
LEMMA Erased ==
  ASSUME NEW s \in Seq(Entries)
  PROVE  /\ WithoutNull(s) \in Seq(Entries)
         /\ Len(WithoutNull(s)) \in Nat
         /\ \A k \in 1 .. Len(WithoutNull(s)) :
               /\ WithoutNull(s)[k] # Null
               /\ \E i \in 1 .. Len(s) : WithoutNull(s)[k] = s[i]
         /\ Distinct(s) => Distinct(WithoutNull(s))
<1> DEFINE n == Cardinality(Kept(s))
           From(k) == CHOOSE i \in Kept(s) : Place(s, i) = k
           r == WithoutNull(s)
<1>1. \A k \in 1 .. n : From(k) \in Kept(s) /\ Place(s, From(k)) = k
  BY PlaceTaken
<1>2. n \in Nat /\ \A i \in Kept(s) : i \in 1 .. Len(s) /\ s[i] # Null /\ s[i] \in Entries
  BY KeptFinite, ElementOfSeq DEF Kept
<1>3. r = [k \in 1 .. n |-> s[From(k)]]
  BY WithoutNullIs
<1> HIDE DEF From, r, n
<1>4. r \in [1 .. n -> Entries]
  BY <1>1, <1>2, <1>3
<1>5. r \in Seq(Entries) /\ Len(r) = n
  BY <1>2, <1>4, SeqDef, LenProperties
<1>6. \A k \in 1 .. n : r[k] # Null /\ \E i \in 1 .. Len(s) : r[k] = s[i]
  BY <1>1, <1>2, <1>3
<1>7. ASSUME Distinct(s), NEW k \in 1 .. n, NEW l \in 1 .. n, r[k] = r[l] PROVE k = l
  <2>1. s[From(k)] = s[From(l)]
    BY <1>3, <1>7
  <2>2. From(k) = From(l)
    BY <1>1, <1>2, <1>7, <2>1 DEF Distinct
  <2> QED  BY <1>1, <2>2
<1>8. Distinct(s) => Distinct(r)
  BY <1>5, <1>7 DEF Distinct
<1> QED  BY <1>2, <1>5, <1>6, <1>8 DEF r

\* A last entry that is kept stays the last.
LEMMA LastStays ==
  ASSUME NEW s \in Seq(Entries), Len(s) >= 1, s[Len(s)] # Null
  PROVE  /\ Len(WithoutNull(s)) >= 1
         /\ WithoutNull(s)[Len(WithoutNull(s))] = s[Len(s)]
<1> DEFINE l == Len(s)
           n == Cardinality(Kept(s))
           From(k) == CHOOSE i \in Kept(s) : Place(s, i) = k
<1>1. l \in Nat /\ l \in Kept(s)
  BY LenProperties DEF Kept
<1>2. UpTo(s, l) = Kept(s)
  BY <1>1, KeptFinite DEF UpTo
<1>3. Place(s, l) = n /\ n \in 1 .. n /\ n \in Nat
  BY <1>1, <1>2, PlaceRange, KeptFinite DEF Place
<1>4. From(n) \in Kept(s) /\ Place(s, From(n)) = n
  BY <1>3, PlaceTaken
<1>5. From(n) = l
  <2>1. From(n) \in Nat
    BY <1>4, KeptFinite
  <2>2. ~(From(n) < l) /\ ~(l < From(n))
    BY <1>1, <1>3, <1>4, PlaceInjective
  <2> QED  BY <1>1, <2>1, <2>2
<1>6. WithoutNull(s) = [k \in 1 .. n |-> s[From(k)]]
  BY WithoutNullIs
<1> HIDE DEF From, n
<1>7. WithoutNull(s)[n] = s[l]
  BY <1>3, <1>5, <1>6
<1>8. Len(WithoutNull(s)) = n
  <2>1. WithoutNull(s) \in Seq(Entries) /\ DOMAIN WithoutNull(s) = 1 .. n
    BY <1>6, Erased
  <2> QED  BY <1>3, <2>1, LenProperties
<1> QED  BY <1>3, <1>7, <1>8

\* A sequence over a set is one over every larger set.
LEMMA SeqWider ==
  ASSUME NEW S, NEW T, S \subseteq T, NEW s \in Seq(S)
  PROVE  s \in Seq(T)
<1>1. PICK n \in Nat : s \in [1 .. n -> S]
  BY SeqDef
<1>2. s \in [1 .. n -> T]
  BY <1>1
<1> QED  BY <1>2, SeqDef
----------------------------------------------------------------------------
(* The inductive invariant                                                 *)

\* A client in the container has been accepted and no broadcast has reported it.  Its
\* connection is not the one that the accept handler is about to add.
Member(c) == c \in made /\ c # ioConn /\ reportedByAll[c] = 0

\* Connected, and nobody reads from it yet.
Unread(c) == open[c] /\ read[c] = "none"

ContainerOk ==
    /\ Distinct(m_deqConnections)
    /\ \A i \in 1 .. Len(m_deqConnections) :
          m_deqConnections[i] # Null =>
             /\ Member(m_deqConnections[i])
             /\ Unread(m_deqConnections[i]) => ioPc = "connect" /\ i = Len(m_deqConnections)

\* The connection that is being accepted, before and after push_back.
AcceptedOk ==
    /\ ioPc = "push" => ioConn \in Conns /\ ioConn \in made /\ Unread(ioConn)
    /\ ioPc = "connect" => LET n == Len(m_deqConnections)
                           IN n >= 1 /\ m_deqConnections[n] # Null /\ Unread(m_deqConnections[n])

\* A broadcast stays within the container, and remembers the pointers it has reset.
BroadcastOk ==
    IF mainPc = "iterate"
      THEN /\ pos >= 1 /\ end <= Len(m_deqConnections)
           /\ \A i \in 1 .. Len(m_deqConnections) : m_deqConnections[i] = Null => bInvalidClientExists
      ELSE \A i \in 1 .. Len(m_deqConnections) : m_deqConnections[i] # Null

\* Messages come from connections that have been made.
MessagesOk == /\ m_qMessagesIn \in Seq([remote : made, kind : Kinds])
              /\ msg.remote \in Conns => msg.remote \in made

\* Each connection is reported and read from once it has been made, reported when it has
\* been closed, and writes what it has queued.
ConnectionOk(c) == /\ reportedByAll[c] <= 1
                   /\ c \notin made => ~Reported(c) /\ read[c] = "none"
                   /\ Reported(c) => ~open[c]
                   /\ write[c] # "none" => queued[c] > 0

IInv == TypeOK /\ AcceptedOk /\ MessagesOk /\ ContainerOk /\ BroadcastOk /\ \A c \in Conns : ConnectionOk(c)

LEMMA InitGood == Init => IInv
<1> SUFFICES ASSUME Init PROVE IInv
  OBVIOUS
<1> DEFINE e == << >>
<1>1. /\ Len(e) = 0 /\ \A i : i \notin 1 .. Len(e)
      /\ e \in Seq(Entries) /\ e \in Seq([remote : Conns, kind : Kinds])
      /\ e \in Seq([remote : made, kind : Kinds])
  OBVIOUS
<1>2. /\ m_deqConnections = e /\ m_qMessagesIn = e /\ ioPc = "run" /\ mainPc # "iterate"
      /\ msg = NoMessage /\ NoMessage.remote = Null
  BY DEF Init, NoMessage
<1> HIDE DEF e
<1>3. TypeOK
  <2>1. got \in [Conns -> 0 .. MaxMessages]
    BY BoundsAssumption DEF Init
  <2> QED  BY <1>1, <1>2, <2>1 DEF Init, TypeOK, OpStates, Entries
<1>4. AcceptedOk /\ MessagesOk
  BY <1>1, <1>2, ConnsAssumption DEF AcceptedOk, MessagesOk
<1>5. ContainerOk /\ BroadcastOk
  BY <1>1, <1>2 DEF ContainerOk, BroadcastOk, Distinct
<1>6. \A c \in Conns : ConnectionOk(c)
  BY DEF Init, ConnectionOk, Reported
<1> QED  BY <1>3, <1>4, <1>5, <1>6 DEF IInv

\* What the container is made of.
LEMMA Container ==
  ASSUME TypeOK
  PROVE  /\ m_deqConnections \in Seq(Entries)
         /\ Len(m_deqConnections) \in Nat
         /\ \A i \in 1 .. Len(m_deqConnections) : m_deqConnections[i] \in Entries
<1>1. m_deqConnections \in Seq(Entries)
  BY DEF TypeOK, Entries
<1> QED  BY <1>1, LenProperties, ElementOfSeq

\* A step that leaves the container and the threads' use of it alone, and neither opens
\* a connection nor ends the reading of one that stays open and is in the container.
LEMMA ContainerKept ==
  ASSUME IInv, UNCHANGED <<m_deqConnections, io, main>>, made' = made,
         \A c \in Conns : open'[c] => open[c],
         \A i \in 1 .. Len(m_deqConnections) :
            m_deqConnections[i] # Null /\ Unread(m_deqConnections[i])' => Unread(m_deqConnections[i]),
         ioPc = "run" \/ \A c \in Conns : Unread(c) => Unread(c)'
  PROVE  AcceptedOk' /\ ContainerOk' /\ BroadcastOk'
<1>1. TypeOK /\ AcceptedOk /\ ContainerOk /\ BroadcastOk
  BY DEF IInv
<1>2. /\ m_deqConnections' = m_deqConnections /\ ioPc' = ioPc /\ ioConn' = ioConn /\ mainPc' = mainPc
      /\ pos' = pos /\ end' = end /\ bInvalidClientExists' = bInvalidClientExists
      /\ reportedByAll' = reportedByAll /\ reportedByClient' = reportedByClient
  BY DEF io, main, reports
<1> DEFINE s == m_deqConnections
<1>3. \A i \in 1 .. Len(s) : s[i] # Null => s[i] \in Conns
  BY <1>1, Container DEF Entries
<1>4. ContainerOk'
  <2>1. \A i \in 1 .. Len(s) : s[i] # Null => Member(s[i])'
    BY <1>1, <1>2 DEF ContainerOk, Member
  <2>2. \A i \in 1 .. Len(s) : s[i] # Null /\ Unread(s[i])' => ioPc = "connect" /\ i = Len(s)
    BY <1>1 DEF ContainerOk
  <2> QED  BY <1>1, <1>2, <2>1, <2>2 DEF ContainerOk, Member, Unread
<1>5. BroadcastOk'
  BY <1>1, <1>2 DEF BroadcastOk
<1>6. AcceptedOk'
  <2>1. CASE ioPc = "run"
    BY <1>2, <2>1 DEF AcceptedOk
  <2>2. CASE \A c \in Conns : Unread(c) => Unread(c)'
    <3>1. ioPc = "push" => ioConn \in Conns /\ ioConn \in made /\ open'[ioConn] /\ read'[ioConn] = "none"
      BY <1>1, <2>2 DEF AcceptedOk, Unread
    <3>2. ioPc = "connect" => Len(s) >= 1 /\ s[Len(s)] # Null /\ Unread(s[Len(s)])'
      <4>1. ioPc = "connect" => Len(s) >= 1 /\ s[Len(s)] # Null /\ Unread(s[Len(s)])
        BY <1>1 DEF AcceptedOk
      <4>2. Len(s) \in Nat
        BY <1>1, Container
      <4>3. ioPc = "connect" => s[Len(s)] \in Conns
        BY <1>3, <4>1, <4>2
      <4> QED  BY <2>2, <4>1, <4>3
    <3> QED  BY <1>2, <3>1, <3>2 DEF AcceptedOk, Unread
  <2> QED  BY <2>1, <2>2
<1> QED  BY <1>4, <1>5, <1>6

\* A connection in the container is not destroyed.
LEMMA ContainedLives ==
  ASSUME TypeOK, NEW i \in 1 .. Len(m_deqConnections)
  PROVE  ~Destroyed(m_deqConnections[i])
<1>1. m_deqConnections[i] \in ToSet(m_deqConnections)
  BY Container DEF ToSet
<1> QED  BY <1>1 DEF Destroyed, Held
----------------------------------------------------------------------------
(* The asio thread                                                         *)

LEMMA AcceptKeeps ==
  ASSUME IInv, NEW c \in Conns, Accept(c)
  PROVE  IInv'
<1>1. /\ TypeOK /\ AcceptedOk /\ MessagesOk /\ ContainerOk /\ BroadcastOk
      /\ \A d \in Conns : ConnectionOk(d)
  BY DEF IInv
<1>2. /\ c \notin made /\ made' = made \cup {c} /\ ioPc = "run"
      /\ m_deqConnections' = m_deqConnections /\ m_qMessagesIn' = m_qMessagesIn /\ mainPc' = mainPc
      /\ reportedByAll' = reportedByAll /\ reportedByClient' = reportedByClient
      /\ read' = read /\ write' = write /\ queued' = queued
      /\ pos' = pos /\ end' = end /\ bInvalidClientExists' = bInvalidClientExists /\ msg' = msg
  BY DEF Accept, main, reports
<1>3. \/ ioPc' = "push" /\ ioConn' = c /\ open' = [open EXCEPT ![c] = TRUE]
      \/ ioPc' = ioPc /\ ioConn' = ioConn /\ open' = open
  BY DEF Accept, io
<1>4. TypeOK'
  BY <1>1, <1>2, <1>3 DEF Accept, TypeOK, main, OpStates
<1>5. ~Reported(c) /\ read[c] = "none"
  BY <1>1, <1>2 DEF ConnectionOk
<1>6. \A d \in Conns : d # c => open'[d] = open[d]
  BY <1>1, <1>3 DEF TypeOK
<1>7. ASSUME NEW d \in Conns PROVE ConnectionOk(d)'
  <2>1. /\ reportedByAll'[d] <= 1 /\ (d \notin made' => ~Reported(d) /\ read[d] = "none")
        /\ Reported(d) => ~open'[d]
        /\ write'[d] # "none" => queued'[d] > 0
    BY <1>1, <1>2, <1>5, <1>6 DEF ConnectionOk
  <2> QED  BY <1>2, <2>1 DEF ConnectionOk, Reported
<1>8. AcceptedOk'
  <2>1. CASE ioPc' = "push" /\ ioConn' = c /\ open' = [open EXCEPT ![c] = TRUE]
    <3>1. open'[c] /\ read'[c] = "none" /\ c \in made'
      BY <1>1, <1>2, <1>5, <2>1 DEF TypeOK
    <3> QED  BY <2>1, <3>1 DEF AcceptedOk, Unread
  <2>2. CASE ioPc' = ioPc
    BY <1>2, <2>2 DEF AcceptedOk
  <2> QED  BY <1>3, <2>1, <2>2
<1>9. MessagesOk'
  <2>1. [remote : made, kind : Kinds] \subseteq [remote : made', kind : Kinds]
    BY <1>2
  <2>2. m_qMessagesIn' \in Seq([remote : made', kind : Kinds])
    <3> DEFINE S == [remote : made, kind : Kinds]
               T == [remote : made', kind : Kinds]
               q == m_qMessagesIn
    <3>1. S \subseteq T /\ q \in Seq(S) /\ m_qMessagesIn' = q
      BY <1>1, <1>2, <2>1 DEF MessagesOk
    <3> HIDE DEF S, T, q
    <3>2. q \in Seq(T)
      BY <3>1, SeqWider
    <3> QED  BY <3>1, <3>2 DEF T
  <2> QED  BY <1>1, <1>2, <2>2 DEF MessagesOk
<1>10. ASSUME NEW i \in 1 .. Len(m_deqConnections), m_deqConnections[i] # Null
       PROVE  Member(m_deqConnections[i])' /\ ~Unread(m_deqConnections[i])'
  <2> DEFINE d == m_deqConnections[i]
  <2>1. Member(d) /\ d \in Conns /\ ~Unread(d)
    BY <1>1, <1>2, <1>10, Container DEF ContainerOk, Entries
  <2>2. d # c
    BY <1>2, <2>1 DEF Member
  <2> HIDE DEF d
  <2>3. d \in made' /\ reportedByAll'[d] = 0 /\ d # ioConn'
    BY <1>2, <1>3, <2>1, <2>2 DEF Member
  <2>4. ~(open'[d] /\ read'[d] = "none")
    BY <1>2, <1>6, <2>1, <2>2 DEF Unread
  <2> QED  BY <1>2, <2>3, <2>4 DEF Member, Unread, d
<1>11. ContainerOk'
  BY <1>1, <1>2, <1>10 DEF ContainerOk, Member, Unread
<1>12. BroadcastOk'
  BY <1>1, <1>2 DEF BroadcastOk
<1> QED  BY <1>4, <1>7, <1>8, <1>9, <1>11, <1>12 DEF IInv

LEMMA AcceptThrowsKeeps ==
  ASSUME IInv, AcceptThrows
  PROVE  IInv'
<1>1. /\ TypeOK /\ AcceptedOk /\ MessagesOk /\ ContainerOk /\ BroadcastOk
      /\ \A d \in Conns : ConnectionOk(d)
  BY DEF IInv
<1>2. /\ ioPc = "run" /\ ioPc' = "terminated" /\ ioConn' = ioConn /\ made' = made
      /\ m_deqConnections' = m_deqConnections /\ m_qMessagesIn' = m_qMessagesIn
      /\ UNCHANGED connection /\ UNCHANGED main
  BY DEF AcceptThrows
<1>3. TypeOK'
  BY <1>1, <1>2 DEF TypeOK, connection, main, reports
<1>4. AcceptedOk' /\ MessagesOk' /\ BroadcastOk' /\ \A d \in Conns : ConnectionOk(d)'
  BY <1>1, <1>2 DEF AcceptedOk, MessagesOk, BroadcastOk, ConnectionOk, Reported, connection, main, reports
<1>5. ContainerOk'
  BY <1>1, <1>2 DEF ContainerOk, Member, Unread, connection, main, reports
<1> QED  BY <1>3, <1>4, <1>5 DEF IInv

LEMMA AcceptPushKeeps ==
  ASSUME IInv, AcceptPush
  PROVE  IInv'
<1>1. /\ TypeOK /\ AcceptedOk /\ MessagesOk /\ ContainerOk /\ BroadcastOk
      /\ \A d \in Conns : ConnectionOk(d)
  BY DEF IInv
<1> DEFINE s == m_deqConnections
           t == Append(s, ioConn)
<1>2. /\ ioPc = "push" /\ ioPc' = "connect" /\ ioConn' = Null /\ m_deqConnections' = t
      /\ made' = made /\ m_qMessagesIn' = m_qMessagesIn
      /\ UNCHANGED connection /\ UNCHANGED main
  BY DEF AcceptPush
<1>3. ioConn \in Conns /\ ioConn # Null /\ ioConn \in made /\ Unread(ioConn) /\ reportedByAll[ioConn] = 0
  <2>1. ioConn \in Conns /\ ioConn \in made /\ Unread(ioConn)
    BY <1>1, <1>2 DEF AcceptedOk
  <2>2. ~Reported(ioConn) /\ reportedByAll[ioConn] \in Nat
    BY <1>1, <2>1 DEF ConnectionOk, Unread, TypeOK
  <2> QED  BY <2>1, <2>2, ConnsAssumption DEF Reported
<1>4. s \in Seq(Entries) /\ Len(s) \in Nat /\ \A i \in 1 .. Len(s) : s[i] \in Entries
  BY <1>1, Container
<1>5. /\ t \in Seq(Entries) /\ Len(t) = Len(s) + 1 /\ t[Len(s) + 1] = ioConn
      /\ \A i \in 1 .. Len(s) : t[i] = s[i]
  BY <1>3, <1>4, AppendProperties DEF Entries
<1>6. /\ open' = open /\ read' = read /\ reportedByAll' = reportedByAll
      /\ reportedByClient' = reportedByClient
      /\ mainPc' = mainPc /\ pos' = pos /\ end' = end /\ bInvalidClientExists' = bInvalidClientExists
  BY <1>2 DEF connection, main, reports
<1>7. TypeOK'
  BY <1>1, <1>2, <1>5 DEF TypeOK, Entries, connection, main, reports
<1>8. MessagesOk' /\ \A c \in Conns : ConnectionOk(c)'
  BY <1>1, <1>2 DEF MessagesOk, ConnectionOk, Reported, connection, main, reports
<1>9. \A i \in 1 .. Len(s) : s[i] # Null =>
         Member(s[i]) /\ ~Unread(s[i]) /\ s[i] # ioConn /\ s[i] \in Conns
  BY <1>1, <1>2, <1>4 DEF ContainerOk, Member, Entries
<1> HIDE DEF s, t
<1>10. \A i \in 1 .. Len(t) : i \in 1 .. Len(s) \/ i = Len(s) + 1
  BY <1>4, <1>5
<1>11. Distinct(t)
  <2>1. ASSUME NEW i \in 1 .. Len(t), NEW j \in 1 .. Len(t), t[i] = t[j], t[i] # Null PROVE i = j
    <3>1. CASE i \in 1 .. Len(s) /\ j \in 1 .. Len(s)
      BY <1>1, <1>5, <2>1, <3>1 DEF ContainerOk, Distinct, s
    <3>2. CASE i \in 1 .. Len(s) /\ j = Len(s) + 1
      BY <1>5, <1>9, <2>1, <3>2
    <3>3. CASE i = Len(s) + 1 /\ j \in 1 .. Len(s)
      BY <1>5, <1>9, <2>1, <3>3
    <3> QED  BY <1>10, <3>1, <3>2, <3>3
  <2> QED  BY <2>1 DEF Distinct
<1>12. ASSUME NEW i \in 1 .. Len(t), t[i] # Null
       PROVE  /\ t[i] \in made' /\ t[i] # ioConn' /\ reportedByAll'[t[i]] = 0
              /\ open'[t[i]] /\ read'[t[i]] = "none" => i = Len(t)
  <2> DEFINE c == t[i]
  <2>1. c \in Conns /\ c \in made /\ reportedByAll[c] = 0 /\ (Unread(c) => i = Len(t))
    <3>1. CASE i = Len(s) + 1
      BY <1>3, <1>5, <3>1
    <3>2. CASE i \in 1 .. Len(s)
      <4>1. c = s[i] /\ Member(s[i]) /\ ~Unread(s[i]) /\ s[i] \in Conns
        BY <1>5, <1>9, <1>12, <3>2
      <4> QED  BY <4>1 DEF Member
    <3> QED  BY <1>10, <3>1, <3>2
  <2>2. c # ioConn'
    BY <1>2, <2>1, ConnsAssumption
  <2> QED  BY <1>2, <1>6, <2>1, <2>2 DEF Unread
<1>13. ContainerOk'
  <2>1. Distinct(m_deqConnections')
    BY <1>2, <1>11
  <2> QED  BY <1>2, <1>12, <2>1 DEF ContainerOk, Member, Unread
<1>14. AcceptedOk'
  <2>1. Len(t) >= 1 /\ t[Len(t)] = ioConn
    BY <1>4, <1>5
  <2>2. open'[t[Len(t)]] /\ read'[t[Len(t)]] = "none" /\ t[Len(t)] # Null
    BY <1>3, <1>6, <2>1 DEF Unread
  <2> QED  BY <1>2, <2>1, <2>2 DEF AcceptedOk, Unread
<1>15. BroadcastOk'
  <2>1. CASE mainPc = "iterate"
    <3>1. /\ pos >= 1 /\ end <= Len(s)
          /\ \A i \in 1 .. Len(s) : s[i] = Null => bInvalidClientExists
      BY <1>1, <2>1 DEF BroadcastOk, s
    <3>2. end \in Nat
      BY <1>1 DEF TypeOK
    <3>3. end <= Len(t)
      BY <1>4, <1>5, <3>1, <3>2
    <3>4. \A i \in 1 .. Len(t) : t[i] = Null => bInvalidClientExists
      BY <1>3, <1>5, <1>10, <3>1
    <3> QED  BY <1>2, <1>6, <2>1, <3>1, <3>3, <3>4 DEF BroadcastOk
  <2>2. CASE mainPc # "iterate"
    <3>1. \A i \in 1 .. Len(s) : s[i] # Null
      BY <1>1, <2>2 DEF BroadcastOk, s
    <3>2. \A i \in 1 .. Len(t) : t[i] # Null
      BY <1>3, <1>5, <1>10, <3>1
    <3> QED  BY <1>2, <1>6, <2>2, <3>2 DEF BroadcastOk
  <2> QED  BY <2>1, <2>2
<1> QED  BY <1>7, <1>8, <1>13, <1>14, <1>15 DEF IInv

\* The back of the container is still the connection that was pushed, and the only one
\* that nobody reads from.
LEMMA AcceptConnectKeeps ==
  ASSUME IInv, AcceptConnect
  PROVE  IInv'
<1>1. /\ TypeOK /\ AcceptedOk /\ MessagesOk /\ ContainerOk /\ BroadcastOk
      /\ \A d \in Conns : ConnectionOk(d)
  BY DEF IInv
<1> DEFINE s == m_deqConnections
           c == s[Len(s)]
<1>2. /\ ioPc = "connect" /\ ioPc' = "run" /\ m_deqConnections' = s /\ ioConn' = ioConn
      /\ read' = [read EXCEPT ![c] = IF open[c] THEN "pending" ELSE @]
      /\ made' = made /\ m_qMessagesIn' = m_qMessagesIn /\ open' = open /\ posted' = posted
      /\ queued' = queued /\ write' = write /\ got' = got
      /\ UNCHANGED main
  BY DEF AcceptConnect, Last
<1>3. Len(s) \in Nat /\ Len(s) >= 1 /\ c # Null /\ open[c]
  BY <1>1, <1>2, Container DEF AcceptedOk, Unread
<1>4. c \in Conns /\ Member(c)
  <2>1. Len(s) \in 1 .. Len(s)
    BY <1>3
  <2> QED  BY <1>1, <1>3, <2>1, Container DEF ContainerOk, Entries
<1>5. read' = [read EXCEPT ![c] = "pending"]
  BY <1>2, <1>3
<1>6. /\ read' \in [Conns -> OpStates \cup Kinds] /\ read'[c] # "none"
      /\ \A d \in Conns : d # c => read'[d] = read[d]
  BY <1>1, <1>4, <1>5 DEF TypeOK, OpStates
<1>7. TypeOK'
  BY <1>1, <1>2, <1>6 DEF TypeOK, main, reports
<1>8. AcceptedOk' /\ MessagesOk' /\ BroadcastOk'
  BY <1>1, <1>2 DEF AcceptedOk, MessagesOk, BroadcastOk, main
<1>9. ASSUME NEW d \in Conns PROVE ConnectionOk(d)'
  <2>1. d \notin made => read'[d] = "none"
    BY <1>1, <1>4, <1>6 DEF Member, ConnectionOk
  <2> QED  BY <1>1, <1>2, <2>1 DEF ConnectionOk, Reported, main, reports
<1> HIDE DEF s
<1>10. ASSUME NEW i \in 1 .. Len(s), s[i] # Null PROVE Member(s[i])' /\ ~Unread(s[i])'
  <2>1. Member(s[i]) /\ s[i] \in Conns /\ (Unread(s[i]) => i = Len(s))
    BY <1>1, <1>10, Container DEF ContainerOk, Entries, s
  <2>2. ~(open'[s[i]] /\ read'[s[i]] = "none")
    <3>1. CASE s[i] = c
      BY <1>6, <3>1
    <3>2. CASE s[i] # c
      BY <1>2, <1>6, <2>1, <3>2 DEF Unread
    <3> QED  BY <3>1, <3>2
  <2>3. s[i] \in made' /\ s[i] # ioConn' /\ reportedByAll'[s[i]] = 0 /\ s' = s
    BY <1>2, <2>1 DEF Member, main, reports, s
  <2> QED  BY <2>2, <2>3 DEF Member, Unread
<1>11. ContainerOk'
  BY <1>1, <1>2, <1>10 DEF ContainerOk, s
<1> QED  BY <1>7, <1>8, <1>9, <1>11 DEF IInv

LEMMA RunSendKeeps ==
  ASSUME IInv, NEW c \in Conns, RunSend(c)
  PROVE  IInv'
<1>1. TypeOK /\ MessagesOk /\ \A d \in Conns : ConnectionOk(d)
  BY DEF IInv
<1>2. /\ UNCHANGED <<m_deqConnections, io, main>> /\ made' = made /\ open' = open /\ read' = read
      /\ m_qMessagesIn' = m_qMessagesIn /\ got' = got
      /\ posted[c] > 0 /\ posted' = [posted EXCEPT ![c] = @ - 1]
  BY DEF RunSend
<1>3. \/ queued' = queued /\ write' = write
      \/ /\ queued' = [queued EXCEPT ![c] = @ + 1]
         /\ write' = [write EXCEPT ![c] = IF queued[c] = 0 THEN OpState(open[c]) ELSE @]
  BY DEF RunSend
<1>4. AcceptedOk' /\ ContainerOk' /\ BroadcastOk'
  <2>1. \A d : Unread(d)' <=> Unread(d)
    BY <1>2 DEF Unread
  <2> QED  BY <1>2, <2>1, ContainerKept
<1>5. OpState(open[c]) \in OpStates
  BY DEF OpState, OpStates
<1>6. posted' \in [Conns -> Nat]
  BY <1>1, <1>2 DEF TypeOK
<1>7. queued' \in [Conns -> Nat] /\ write' \in [Conns -> OpStates \cup {"done"}]
  <2>1. queued \in [Conns -> Nat] /\ write \in [Conns -> OpStates \cup {"done"}]
    BY <1>1 DEF TypeOK
  <2>2. CASE queued' = queued /\ write' = write
    BY <2>1, <2>2
  <2>3. CASE /\ queued' = [queued EXCEPT ![c] = @ + 1]
             /\ write' = [write EXCEPT ![c] = IF queued[c] = 0 THEN OpState(open[c]) ELSE @]
    <3>1. queued[c] + 1 \in Nat
      BY <2>1
    <3>2. (IF queued[c] = 0 THEN OpState(open[c]) ELSE write[c]) \in OpStates \cup {"done"}
      BY <1>5, <2>1
    <3> QED  BY <2>1, <2>3, <3>1, <3>2
  <2> QED  BY <1>3, <2>2, <2>3
<1>8. TypeOK'
  BY <1>1, <1>2, <1>6, <1>7 DEF TypeOK, io, main, reports
<1>9. ASSUME NEW d \in Conns PROVE ConnectionOk(d)'
  <2>1. write'[d] # "none" => queued'[d] > 0
    <3>1. (write[d] # "none" => queued[d] > 0) /\ queued[d] \in Nat
      BY <1>1 DEF ConnectionOk, TypeOK
    <3>2. CASE queued' = queued /\ write' = write
      BY <3>1, <3>2
    <3>3. CASE d # c /\ queued' = [queued EXCEPT ![c] = @ + 1]
               /\ write' = [write EXCEPT ![c] = IF queued[c] = 0 THEN OpState(open[c]) ELSE @]
      BY <1>1, <3>1, <3>3 DEF TypeOK
    <3>4. CASE d = c /\ queued' = [queued EXCEPT ![c] = @ + 1]
      <4>1. queued'[c] = queued[c] + 1
        BY <1>1, <3>4 DEF TypeOK
      <4> QED  BY <3>1, <3>4, <4>1
    <3> QED  BY <1>3, <3>2, <3>3, <3>4
  <2> QED  BY <1>1, <1>2, <2>1 DEF ConnectionOk, Reported, main, reports
<1>10. MessagesOk'
  BY <1>1, <1>2 DEF MessagesOk, main
<1> QED  BY <1>4, <1>8, <1>9, <1>10 DEF IInv

\* OnWrite, OnRead and the network, of connection c.
LEMMA HandlerKeeps ==
  ASSUME IInv, NEW c \in Conns,
         UNCHANGED <<made, m_deqConnections, posted, io, main>>,
         m_qMessagesIn' \in Seq([remote : made, kind : Kinds]),
         open' \in [Conns -> BOOLEAN], queued' \in [Conns -> Nat],
         write' \in [Conns -> OpStates \cup {"done"}], read' \in [Conns -> OpStates \cup Kinds],
         got' \in [Conns -> 0 .. MaxMessages],
         \A d \in Conns : open'[d] => open[d],
         \A d \in Conns : d # c => read'[d] = read[d] /\ write'[d] = write[d] /\ queued'[d] = queued[d],
         write'[c] # "none" => queued'[c] > 0,
         read[c] = "none" => read'[c] = "none",
         ioPc = "run" \/ open' = open,
         open'[c] /\ read[c] # "none" /\ ~Destroyed(c) => read'[c] # "none"
  PROVE  IInv'
<1>1. /\ TypeOK /\ AcceptedOk /\ MessagesOk /\ ContainerOk /\ BroadcastOk
      /\ \A d \in Conns : ConnectionOk(d)
  BY DEF IInv
<1>2. ASSUME NEW i \in 1 .. Len(m_deqConnections), m_deqConnections[i] # Null,
             Unread(m_deqConnections[i])'
      PROVE  Unread(m_deqConnections[i])
  <2> DEFINE d == m_deqConnections[i]
  <2>1. d \in Conns /\ ~Destroyed(d)
    BY <1>1, <1>2, Container, ContainedLives DEF Entries
  <2>2. m_deqConnections' = m_deqConnections
    OBVIOUS
  <2>3. open'[d] /\ read'[d] = "none"
    BY <1>2, <2>2 DEF Unread
  <2> HIDE DEF d
  <2>4. open[d] /\ read[d] = "none"
    BY <2>1, <2>3
  <2> QED  BY <2>4 DEF Unread, d
<1>3. ioPc = "run" \/ \A d \in Conns : Unread(d) => Unread(d)'
  BY DEF Unread
<1>4. AcceptedOk' /\ ContainerOk' /\ BroadcastOk'
  BY <1>2, <1>3, ContainerKept
<1>5. MessagesOk'
  BY <1>1 DEF MessagesOk, main
<1>6. m_qMessagesIn' \in Seq([remote : Conns, kind : Kinds])
  <2> DEFINE S == [remote : made, kind : Kinds]
             T == [remote : Conns, kind : Kinds]
             q == m_qMessagesIn'
  <2>1. S \subseteq T /\ q \in Seq(S)
    BY <1>1 DEF TypeOK
  <2> HIDE DEF S, T, q
  <2>2. q \in Seq(T)
    BY <2>1, SeqWider
  <2> QED  BY <2>2 DEF q, T
<1>7. TypeOK'
  BY <1>1, <1>6 DEF TypeOK, io, main, reports
<1>8. ASSUME NEW d \in Conns PROVE ConnectionOk(d)'
  <2>1. reportedByAll' = reportedByAll /\ reportedByClient' = reportedByClient /\ made' = made
    BY DEF main, reports
  <2>2. read[d] = "none" => read'[d] = "none"
    OBVIOUS
  <2> QED  BY <1>1, <2>1, <2>2 DEF ConnectionOk, Reported
<1> QED  BY <1>4, <1>5, <1>7, <1>8 DEF IInv

\* The operation that follows.
LEMMA OpStateTypes ==
  ASSUME NEW isOpen \in BOOLEAN, NEW state \in OpStates \cup Kinds \cup {"done"}
  PROVE  /\ OpState(isOpen) \in OpStates /\ OpState(isOpen) # "none"
         /\ state \in OpStates \cup Kinds => Abort(state) \in OpStates \cup Kinds
         /\ state \in OpStates \cup {"done"} => Abort(state) \in OpStates \cup {"done"}
         /\ Abort(state) = "none" <=> state = "none"
  BY DEF OpState, OpStates, Abort

LEMMA OnWriteKeeps ==
  ASSUME IInv, NEW c \in Conns, OnWrite(c)
  PROVE  IInv'
<1>1. TypeOK /\ MessagesOk /\ \A d \in Conns : ConnectionOk(d)
  BY DEF IInv
<1>2. UNCHANGED <<made, m_deqConnections, m_qMessagesIn, posted, got, io, main>> /\ ioPc = "run"
  BY DEF OnWrite
<1>3. /\ open \in [Conns -> BOOLEAN] /\ queued \in [Conns -> Nat]
      /\ write \in [Conns -> OpStates \cup {"done"}] /\ read \in [Conns -> OpStates \cup Kinds]
      /\ m_qMessagesIn' \in Seq([remote : made, kind : Kinds]) /\ got' \in [Conns -> 0 .. MaxMessages]
  BY <1>1, <1>2 DEF TypeOK, MessagesOk
<1>4. "none" \in OpStates
  BY DEF OpStates
<1>5. CASE write[c] = "done" /\ ~Destroyed(c)
  <2>1. /\ queued' = [queued EXCEPT ![c] = @ - 1]
        /\ write' = [write EXCEPT ![c] = IF queued[c] > 1 THEN OpState(open[c]) ELSE "none"]
        /\ open' = open /\ read' = read
    BY <1>5 DEF OnWrite
  <2>2. queued[c] > 0 /\ queued[c] \in Nat
    BY <1>1, <1>3, <1>5 DEF ConnectionOk
  <2>3. queued' \in [Conns -> Nat] /\ queued'[c] = queued[c] - 1
    BY <1>3, <2>1, <2>2
  <2>4. OpState(open[c]) \in OpStates
    BY <1>3, OpStateTypes
  <2>5. write' \in [Conns -> OpStates \cup {"done"}] /\ (write'[c] # "none" => queued[c] > 1)
    BY <1>3, <1>4, <2>1, <2>4
  <2>6. write'[c] # "none" => queued'[c] > 0
    BY <2>2, <2>3, <2>5
  <2>7. \A d \in Conns : d # c => read'[d] = read[d] /\ write'[d] = write[d] /\ queued'[d] = queued[d]
    BY <1>3, <2>1
  <2> QED  BY <1>2, <1>3, <2>1, <2>3, <2>5, <2>6, <2>7, HandlerKeeps
<1>6. CASE write[c] = "error" /\ ~Destroyed(c)
  <2>1. /\ open' = [open EXCEPT ![c] = FALSE]
        /\ write' = [write EXCEPT ![c] = "none"]
        /\ read' = [read EXCEPT ![c] = Abort(@)]
        /\ queued' = queued
    BY <1>6 DEF OnWrite
  <2>2. Abort(read[c]) \in OpStates \cup Kinds /\ (read[c] = "none" => Abort(read[c]) = "none")
    BY <1>3, OpStateTypes
  <2>3. /\ write' \in [Conns -> OpStates \cup {"done"}] /\ write'[c] = "none"
        /\ read' \in [Conns -> OpStates \cup Kinds] /\ (read[c] = "none" => read'[c] = "none")
        /\ open' \in [Conns -> BOOLEAN] /\ ~open'[c]
    BY <1>3, <1>4, <2>1, <2>2
  <2>4. \A d \in Conns : d # c => /\ read'[d] = read[d] /\ write'[d] = write[d]
                                  /\ queued'[d] = queued[d] /\ open'[d] = open[d]
    BY <1>3, <2>1
  <2>5. \A d \in Conns : open'[d] => open[d]
    BY <2>3, <2>4
  <2> QED  BY <1>2, <1>3, <2>1, <2>3, <2>4, <2>5, HandlerKeeps
<1>7. CASE write[c] \in {"done", "error"} /\ Destroyed(c)
  <2>1. write' = [write EXCEPT ![c] = "none"] /\ open' = open /\ read' = read /\ queued' = queued
    BY <1>7 DEF OnWrite
  <2>2. /\ write' \in [Conns -> OpStates \cup {"done"}] /\ write'[c] = "none"
        /\ \A d \in Conns : d # c => write'[d] = write[d]
    BY <1>3, <1>4, <2>1
  <2> QED  BY <1>2, <1>3, <2>1, <2>2, HandlerKeeps
<1> QED  BY <1>5, <1>6, <1>7 DEF OnWrite

LEMMA OnReadKeeps ==
  ASSUME IInv, NEW c \in Conns, OnRead(c)
  PROVE  IInv'
<1>1. TypeOK /\ MessagesOk /\ \A d \in Conns : ConnectionOk(d)
  BY DEF IInv
<1>2. UNCHANGED <<made, m_deqConnections, posted, queued, got, io, main>> /\ ioPc = "run"
  BY DEF OnRead
<1>3. /\ open \in [Conns -> BOOLEAN] /\ queued' \in [Conns -> Nat]
      /\ write \in [Conns -> OpStates \cup {"done"}] /\ read \in [Conns -> OpStates \cup Kinds]
      /\ m_qMessagesIn \in Seq([remote : made, kind : Kinds]) /\ got' \in [Conns -> 0 .. MaxMessages]
      /\ write[c] # "none" => queued'[c] > 0
  BY <1>1, <1>2 DEF TypeOK, MessagesOk, ConnectionOk
<1>4. "none" \in OpStates
  BY DEF OpStates
<1>5. CASE read[c] \in Kinds /\ ~Destroyed(c)
  <2>1. /\ m_qMessagesIn' = Append(m_qMessagesIn, [remote |-> c, kind |-> read[c]])
        /\ read' = [read EXCEPT ![c] = OpState(open[c])]
        /\ open' = open /\ write' = write
    BY <1>5 DEF OnRead, Kinds
  <2>2. /\ [remote |-> c, kind |-> read[c]] \in [remote : made, kind : Kinds]
        /\ read[c] # "none"
    BY <1>1, <1>5 DEF ConnectionOk, Kinds
  <2>3. m_qMessagesIn' \in Seq([remote : made, kind : Kinds])
    BY <1>3, <2>1, <2>2, AppendProperties
  <2>4. OpState(open[c]) \in OpStates /\ OpState(open[c]) # "none"
    BY <1>3, OpStateTypes
  <2>5. /\ read' \in [Conns -> OpStates \cup Kinds] /\ read'[c] # "none"
        /\ \A d \in Conns : d # c => read'[d] = read[d]
    BY <1>3, <2>1, <2>4
  <2> QED  BY <1>2, <1>3, <2>1, <2>2, <2>3, <2>5, HandlerKeeps
<1>6. CASE read[c] = "error" /\ ~Destroyed(c)
  <2>1. /\ open' = [open EXCEPT ![c] = FALSE]
        /\ read' = [read EXCEPT ![c] = "none"]
        /\ write' = [write EXCEPT ![c] = Abort(@)]
        /\ m_qMessagesIn' = m_qMessagesIn
    BY <1>6 DEF OnRead, Kinds
  <2>2. Abort(write[c]) \in OpStates \cup {"done"} /\ (Abort(write[c]) = "none" <=> write[c] = "none")
    BY <1>3, OpStateTypes
  <2>3. /\ write' \in [Conns -> OpStates \cup {"done"}] /\ (write'[c] = "none" <=> write[c] = "none")
        /\ read' \in [Conns -> OpStates \cup Kinds] /\ read'[c] = "none"
        /\ open' \in [Conns -> BOOLEAN] /\ ~open'[c]
    BY <1>3, <1>4, <2>1, <2>2
  <2>4. \A d \in Conns : d # c => read'[d] = read[d] /\ write'[d] = write[d] /\ open'[d] = open[d]
    BY <1>3, <2>1
  <2>5. \A d \in Conns : open'[d] => open[d]
    BY <2>3, <2>4
  <2> QED  BY <1>2, <1>3, <2>1, <2>3, <2>4, <2>5, HandlerKeeps
<1>7. CASE read[c] \in Kinds \cup {"error"} /\ Destroyed(c)
  <2>1. /\ read' = [read EXCEPT ![c] = "none"] /\ open' = open /\ write' = write
        /\ m_qMessagesIn' = m_qMessagesIn
    BY <1>7 DEF OnRead
  <2>2. /\ read' \in [Conns -> OpStates \cup Kinds] /\ read'[c] = "none"
        /\ \A d \in Conns : d # c => read'[d] = read[d]
    BY <1>3, <1>4, <2>1
  <2> QED  BY <1>2, <1>3, <1>7, <2>1, <2>2, HandlerKeeps
<1> QED  BY <1>5, <1>6, <1>7 DEF OnRead

LEMMA NetworkKeeps ==
  ASSUME IInv, NEW c \in Conns, NetWrite(c) \/ NetRead(c)
  PROVE  IInv'
<1>1. TypeOK /\ MessagesOk /\ \A d \in Conns : ConnectionOk(d)
  BY DEF IInv
<1>2. /\ open \in [Conns -> BOOLEAN] /\ queued \in [Conns -> Nat]
      /\ write \in [Conns -> OpStates \cup {"done"}] /\ read \in [Conns -> OpStates \cup Kinds]
      /\ m_qMessagesIn \in Seq([remote : made, kind : Kinds]) /\ got \in [Conns -> 0 .. MaxMessages]
      /\ write[c] # "none" => queued[c] > 0
  BY <1>1 DEF TypeOK, MessagesOk, ConnectionOk
<1>3. CASE NetWrite(c)
  <2>1. PICK s \in {"done", "error"} : write' = [write EXCEPT ![c] = s]
    BY <1>3 DEF NetWrite
  <2>2. UNCHANGED <<made, m_deqConnections, m_qMessagesIn, open, posted, queued, read, got, io, main>>
        /\ write[c] = "pending"
    BY <1>3 DEF NetWrite
  <2>3. write' \in [Conns -> OpStates \cup {"done"}] /\ \A d \in Conns : d # c => write'[d] = write[d]
    BY <1>2, <2>1 DEF OpStates
  <2> QED  BY <1>2, <2>2, <2>3, HandlerKeeps
<1>4. CASE NetRead(c)
  <2>1. UNCHANGED <<made, m_deqConnections, m_qMessagesIn, open, posted, queued, write, io, main>>
        /\ read[c] = "pending"
    BY <1>4 DEF NetRead
  <2>2. PICK s \in Kinds \cup {"error"} : read' = [read EXCEPT ![c] = s]
    BY <1>4 DEF NetRead
  <2>3. s \in OpStates \cup Kinds /\ s # "none"
    BY DEF OpStates, Kinds
  <2>4. /\ read' \in [Conns -> OpStates \cup Kinds] /\ read'[c] # "none"
        /\ \A d \in Conns : d # c => read'[d] = read[d]
    BY <1>2, <2>2, <2>3
  <2>5. got' \in [Conns -> 0 .. MaxMessages]
    <3>1. CASE got' = got
      BY <1>2, <3>1
    <3>2. CASE got[c] < MaxMessages /\ got' = [got EXCEPT ![c] = @ + 1]
      <4>1. got[c] + 1 \in 0 .. MaxMessages
        BY <1>2, <3>2, BoundsAssumption
      <4> QED  BY <1>2, <3>2, <4>1
    <3> QED  BY <1>4, <3>1, <3>2 DEF NetRead
  <2> QED  BY <1>2, <2>1, <2>4, <2>5, HandlerKeeps
<1> QED  BY <1>3, <1>4
----------------------------------------------------------------------------
(* The main thread                                                         *)

LEMMA CountedUp ==
  ASSUME NEW f \in [Conns -> Nat], NEW c
  PROVE  /\ [f EXCEPT ![c] = @ + 1] \in [Conns -> Nat]
         /\ \A d \in Conns : d # c => [f EXCEPT ![c] = @ + 1][d] = f[d]
<1>1. CASE c \in Conns
  <2>1. f[c] + 1 \in Nat
    BY <1>1
  <2> QED  BY <1>1, <2>1
<1>2. CASE c \notin Conns
  <2>1. [f EXCEPT ![c] = @ + 1] = f
    BY <1>2
  <2> QED  BY <2>1
<1> QED  BY <1>1, <1>2

\* A step of the main thread that is not a part of MessageAllClients' loop, and at
\* whose end no broadcast is under way.
LEMMA MainKeeps ==
  ASSUME IInv, UNCHANGED <<made, open, queued, write, read, got, io, reportedByAll>>,
         \/ m_deqConnections' = WithoutNull(m_deqConnections)
         \/ m_deqConnections' = m_deqConnections /\ (mainPc # "iterate" \/ ~bInvalidClientExists),
         mainPc' # "iterate",
         m_qMessagesIn' \in Seq([remote : made, kind : Kinds]),
         posted' \in [Conns -> Nat], reportedByClient' \in [Conns -> Nat],
         \A d \in Conns : reportedByClient'[d] = reportedByClient[d] \/ (d \in made /\ ~open[d]),
         mainPc' \in {"update", "iterate"} \cup Kinds,
         msg' \in [remote : made, kind : Kinds] \cup {NoMessage},
         UNCHANGED <<pos, end, bInvalidClientExists>>
  PROVE  IInv'
<1>1. /\ TypeOK /\ AcceptedOk /\ MessagesOk /\ ContainerOk /\ BroadcastOk
      /\ \A d \in Conns : ConnectionOk(d)
  BY DEF IInv
<1> DEFINE s == m_deqConnections
           t == m_deqConnections'
<1>2. s \in Seq(Entries) /\ Len(s) \in Nat /\ Distinct(s)
  BY <1>1, Container DEF ContainerOk
<1>3. ioPc' = ioPc /\ ioConn' = ioConn
  BY DEF io
<1>4. /\ t \in Seq(Entries) /\ Len(t) \in Nat /\ Distinct(t)
      /\ \A k \in 1 .. Len(t) : t[k] # Null /\ \E i \in 1 .. Len(s) : t[k] = s[i]
  <2>1. CASE t = WithoutNull(s)
    BY <1>2, <2>1, Erased
  <2>2. CASE t = s /\ (mainPc # "iterate" \/ ~bInvalidClientExists)
    <3>1. \A i \in 1 .. Len(s) : s[i] # Null
      BY <1>1, <2>2 DEF BroadcastOk
    <3> QED  BY <1>2, <2>2, <3>1
  <2> QED  BY <2>1, <2>2
<1>5. TypeOK' /\ MessagesOk'
  <2>1. m_qMessagesIn' \in Seq([remote : Conns, kind : Kinds])
    <3> DEFINE S == [remote : made, kind : Kinds]
               T == [remote : Conns, kind : Kinds]
               q == m_qMessagesIn'
    <3>1. S \subseteq T /\ q \in Seq(S)
      BY <1>1 DEF TypeOK
    <3> HIDE DEF S, T, q
    <3>2. q \in Seq(T)
      BY <3>1, SeqWider
    <3> QED  BY <3>2 DEF q, T
  <2>2. msg' \in [remote : Conns, kind : Kinds] \cup {NoMessage}
    BY <1>1 DEF TypeOK
  <2>3. msg'.remote \in Conns => msg'.remote \in made
    BY ConnsAssumption DEF NoMessage
  <2> QED  BY <1>1, <1>3, <1>4, <2>1, <2>2, <2>3 DEF TypeOK, MessagesOk, Entries
<1>6. ASSUME NEW d \in Conns PROVE ConnectionOk(d)'
  <2>1. Reported(d)' => d \in made /\ ~open[d]
    BY <1>1 DEF ConnectionOk, Reported
  <2> QED  BY <1>1, <2>1 DEF ConnectionOk
<1>7. ioPc = "connect" => Len(t) >= 1 /\ t[Len(t)] = s[Len(s)]
  <2> SUFFICES ASSUME ioPc = "connect" PROVE Len(t) >= 1 /\ t[Len(t)] = s[Len(s)]
    OBVIOUS
  <2>1. Len(s) >= 1 /\ s[Len(s)] # Null
    BY <1>1 DEF AcceptedOk
  <2>2. CASE t = WithoutNull(s)
    BY <1>2, <2>1, <2>2, LastStays
  <2>3. CASE t = s
    BY <2>1, <2>3
  <2> QED  BY <2>2, <2>3
<1>8. AcceptedOk'
  <2>1. ioPc = "push" => ioConn \in Conns /\ ioConn \in made /\ open[ioConn] /\ read[ioConn] = "none"
    BY <1>1 DEF AcceptedOk, Unread
  <2>2. ioPc = "connect" => /\ Len(t) >= 1 /\ t[Len(t)] # Null
                            /\ open[t[Len(t)]] /\ read[t[Len(t)]] = "none"
    BY <1>1, <1>7 DEF AcceptedOk, Unread
  <2> QED  BY <1>3, <2>1, <2>2 DEF AcceptedOk, Unread
<1>9. ASSUME NEW k \in 1 .. Len(t)
      PROVE  Member(t[k]) /\ (Unread(t[k]) => ioPc = "connect" /\ k = Len(t))
  <2>1. PICK i \in 1 .. Len(s) : t[k] = s[i] /\ s[i] # Null
    BY <1>4
  <2>2. Member(s[i]) /\ (Unread(s[i]) => ioPc = "connect" /\ i = Len(s))
    BY <1>1, <2>1 DEF ContainerOk
  <2>3. ASSUME Unread(s[i]) PROVE k = Len(t)
    <3>1. t[k] = t[Len(t)] /\ Len(t) \in 1 .. Len(t)
      BY <1>4, <1>7, <2>1, <2>2, <2>3
    <3> QED  BY <1>4, <2>1, <3>1 DEF Distinct
  <2> QED  BY <2>1, <2>2, <2>3
<1>10. ContainerOk'
  <2>1. \A k \in 1 .. Len(t) : /\ t[k] \in made' /\ t[k] # ioConn' /\ reportedByAll'[t[k]] = 0
                               /\ open'[t[k]] /\ read'[t[k]] = "none" => ioPc' = "connect" /\ k = Len(t)
    BY <1>3, <1>9 DEF Member, Unread
  <2> QED  BY <1>4, <2>1 DEF ContainerOk, Member, Unread
<1>11. BroadcastOk'
  BY <1>4 DEF BroadcastOk
<1> QED  BY <1>5, <1>6, <1>8, <1>10, <1>11 DEF IInv

LEMMA UpdateKeeps ==
  ASSUME IInv, PopFront \/ Ping \/ MessageClient \/ AllEnd
  PROVE  IInv'
<1>1. TypeOK /\ BroadcastOk /\ MessagesOk
  BY DEF IInv
<1>2. /\ m_qMessagesIn \in Seq([remote : made, kind : Kinds])
      /\ posted \in [Conns -> Nat] /\ reportedByClient \in [Conns -> Nat]
  BY <1>1 DEF TypeOK, MessagesOk
<1>3. NoMessage \in [remote : made, kind : Kinds] \cup {NoMessage} /\ "update" # "iterate"
  OBVIOUS
<1>4. [posted EXCEPT ![msg.remote] = @ + 1] \in [Conns -> Nat]
  BY <1>2, CountedUp
<1>5. CASE PopFront
  <2> DEFINE q == m_qMessagesIn
             R == [remote : made, kind : Kinds]
  <2>1. /\ msg' = Head(q) /\ m_qMessagesIn' = Tail(q) /\ mainPc' = msg'.kind /\ q # << >>
        /\ mainPc = "update"
        /\ UNCHANGED <<made, m_deqConnections, connection, io, pos, end, bInvalidClientExists, reports>>
    BY <1>5 DEF PopFront
  <2>2. Head(q) \in R /\ Tail(q) \in Seq(R)
    BY <1>2, <2>1, HeadTailProperties
  <2>3. mainPc' \in Kinds /\ mainPc' # "iterate"
    BY <2>1, <2>2 DEF Kinds
  <2>4. /\ UNCHANGED <<open, queued, write, read, got, reportedByAll, reportedByClient>>
        /\ posted' \in [Conns -> Nat]
    BY <1>2, <2>1 DEF connection, reports
  <2> QED  BY <1>2, <2>1, <2>2, <2>3, <2>4, MainKeeps
<1>6. CASE Ping
  <2>1. posted' \in [Conns -> Nat] /\ mainPc' = "update" /\ msg' = NoMessage /\ mainPc = "ping"
    BY <1>4, <1>6 DEF Ping, Done
  <2>2. UNCHANGED <<made, m_deqConnections, m_qMessagesIn, open, queued, write, read, got, io,
                   pos, end, bInvalidClientExists, reportedByAll, reportedByClient>>
    BY <1>6 DEF Ping, reports
  <2> QED  BY <1>2, <1>3, <2>1, <2>2, MainKeeps
<1>7. CASE MessageClient
  <2>1. mainPc' = "update" /\ msg' = NoMessage /\ mainPc = "ping"
    BY <1>7 DEF MessageClient, Done
  <2>2. /\ posted' \in [Conns -> Nat]
        /\ m_deqConnections' = m_deqConnections \/ m_deqConnections' = WithoutNull(m_deqConnections)
    BY <1>2, <1>4, <1>7 DEF MessageClient
  <2>3. UNCHANGED <<made, m_qMessagesIn, open, queued, write, read, got, io,
                   pos, end, bInvalidClientExists, reportedByAll>>
    BY <1>7 DEF MessageClient
  <2>4. /\ reportedByClient' \in [Conns -> Nat]
        /\ \A d \in Conns : reportedByClient'[d] = reportedByClient[d] \/ (d \in made /\ ~open[d])
    <3>1. CASE open[msg.remote]
      BY <1>2, <1>7, <3>1 DEF MessageClient
    <3>2. CASE ~open[msg.remote]
      <4>1. reportedByClient' = [reportedByClient EXCEPT ![msg.remote] = @ + 1]
        BY <1>7, <3>2 DEF MessageClient
      <4>2. /\ reportedByClient' \in [Conns -> Nat]
            /\ \A d \in Conns : d # msg.remote => reportedByClient'[d] = reportedByClient[d]
        BY <1>2, <4>1, CountedUp
      <4>3. msg.remote \in Conns => msg.remote \in made
        BY <1>1 DEF MessagesOk
      <4> QED  BY <3>2, <4>2, <4>3
    <3> QED  BY <3>1, <3>2
  <2> QED  BY <1>2, <1>3, <2>1, <2>2, <2>3, <2>4, MainKeeps
<1>8. CASE AllEnd
  <2>1. mainPc' = "update" /\ msg' = NoMessage
    BY <1>8 DEF AllEnd, Done
  <2>2. m_deqConnections' = IF bInvalidClientExists THEN WithoutNull(m_deqConnections) ELSE m_deqConnections
    BY <1>8 DEF AllEnd
  <2>3. UNCHANGED <<made, m_qMessagesIn, connection, io, pos, end, bInvalidClientExists, reports>>
    BY <1>8 DEF AllEnd
  <2>4. /\ UNCHANGED <<open, queued, write, read, got, reportedByAll, reportedByClient>>
        /\ posted' \in [Conns -> Nat]
    BY <1>2, <2>3 DEF connection, reports
  <2> QED  BY <1>2, <1>3, <2>1, <2>2, <2>3, <2>4, MainKeeps
<1> QED  BY <1>5, <1>6, <1>7, <1>8

LEMMA AllBeginKeeps ==
  ASSUME IInv, AllBegin
  PROVE  IInv'
<1>1. /\ TypeOK /\ AcceptedOk /\ MessagesOk /\ ContainerOk /\ BroadcastOk
      /\ \A d \in Conns : ConnectionOk(d)
  BY DEF IInv
<1>2. /\ mainPc = "all" /\ mainPc' = "iterate" /\ pos' = 1 /\ end' = Len(m_deqConnections)
      /\ bInvalidClientExists' = FALSE
      /\ UNCHANGED <<made, m_deqConnections, m_qMessagesIn, connection, io, msg, reports>>
  BY DEF AllBegin
<1>3. /\ ioPc' = ioPc /\ ioConn' = ioConn /\ UNCHANGED <<open, posted, queued, write, read, got>>
      /\ reportedByAll' = reportedByAll /\ reportedByClient' = reportedByClient
  BY <1>2 DEF io, connection, reports
<1>4. Len(m_deqConnections) \in Nat
  BY <1>1, Container
<1>5. TypeOK'
  BY <1>1, <1>2, <1>3, <1>4 DEF TypeOK
<1>6. AcceptedOk' /\ MessagesOk' /\ \A d \in Conns : ConnectionOk(d)'
  BY <1>1, <1>2, <1>3 DEF AcceptedOk, MessagesOk, ConnectionOk, Reported, Unread
<1>7. ContainerOk'
  BY <1>1, <1>2, <1>3 DEF ContainerOk, Member, Unread
<1>8. BroadcastOk'
  <2>1. \A i \in 1 .. Len(m_deqConnections) : m_deqConnections[i] # Null
    BY <1>1, <1>2 DEF BroadcastOk
  <2> QED  BY <1>2, <1>4, <2>1 DEF BroadcastOk
<1> QED  BY <1>5, <1>6, <1>7, <1>8 DEF IInv

LEMMA AllNextKeeps ==
  ASSUME IInv, AllNext
  PROVE  IInv'
<1>1. /\ TypeOK /\ AcceptedOk /\ MessagesOk /\ ContainerOk /\ BroadcastOk
      /\ \A d \in Conns : ConnectionOk(d)
  BY DEF IInv
<1> DEFINE s == m_deqConnections
           c == s[pos]
           t == [s EXCEPT ![pos] = Null]
<1>2. /\ mainPc = "iterate" /\ mainPc' = "iterate" /\ pos <= end /\ pos' = pos + 1 /\ end' = end
      /\ UNCHANGED <<made, m_qMessagesIn, open, queued, write, read, got, io, msg, reportedByClient>>
  BY DEF AllNext
<1>3. \/ /\ posted' = IF c = msg.remote THEN posted ELSE [posted EXCEPT ![c] = @ + 1]
         /\ UNCHANGED <<m_deqConnections, bInvalidClientExists, reportedByAll>>
      \/ /\ c = Null \/ ~open[c]
         /\ reportedByAll' = IF c = Null THEN reportedByAll ELSE [reportedByAll EXCEPT ![c] = @ + 1]
         /\ m_deqConnections' = t
         /\ bInvalidClientExists' = TRUE
         /\ posted' = posted
  BY DEF AllNext
<1>4. /\ s \in Seq(Entries) /\ Len(s) \in Nat /\ \A i \in 1 .. Len(s) : s[i] \in Entries
      /\ pos \in Nat /\ end \in Nat /\ pos >= 1 /\ end <= Len(s)
  BY <1>1, <1>2, Container DEF BroadcastOk, TypeOK
<1>5. pos \in 1 .. Len(s)
  BY <1>2, <1>4
<1>6. ioPc' = ioPc /\ ioConn' = ioConn
  BY <1>2 DEF io
<1>7. /\ \A i \in 1 .. Len(s) : s[i] # Null => Member(s[i]) /\ s[i] \in Conns
      /\ Distinct(s)
  BY <1>1, <1>4 DEF ContainerOk, Entries
<1>8. MessagesOk' /\ posted' \in [Conns -> Nat]
  <2>1. posted \in [Conns -> Nat]
    BY <1>1 DEF TypeOK
  <2>2. [posted EXCEPT ![c] = @ + 1] \in [Conns -> Nat]
    BY <2>1, CountedUp
  <2>3. posted' = posted \/ posted' = [posted EXCEPT ![c] = @ + 1]
    BY <1>3
  <2> QED  BY <1>1, <1>2, <2>1, <2>2, <2>3 DEF MessagesOk
<1>9. CASE UNCHANGED <<m_deqConnections, bInvalidClientExists, reportedByAll>>
  <2>1. TypeOK'
    BY <1>1, <1>2, <1>4, <1>6, <1>8, <1>9 DEF TypeOK
  <2>2. AcceptedOk' /\ ContainerOk' /\ \A d \in Conns : ConnectionOk(d)'
    BY <1>1, <1>2, <1>6, <1>9 DEF AcceptedOk, ContainerOk, Member, Unread, ConnectionOk, Reported
  <2>3. BroadcastOk'
    BY <1>1, <1>2, <1>4, <1>9 DEF BroadcastOk
  <2> QED  BY <1>8, <2>1, <2>2, <2>3 DEF IInv
<1>10. CASE /\ c = Null \/ ~open[c]
            /\ reportedByAll' = IF c = Null THEN reportedByAll ELSE [reportedByAll EXCEPT ![c] = @ + 1]
            /\ m_deqConnections' = t
            /\ bInvalidClientExists' = TRUE
  <2>1. /\ t \in Seq(Entries) /\ Len(t) = Len(s) /\ t[pos] = Null
        /\ \A i \in 1 .. Len(s) : i # pos => t[i] = s[i]
    <3>1. Null \in Entries
      BY DEF Entries
    <3> QED  BY <1>4, <1>5, <3>1, ExceptSeq
  <2>2. c # Null => c \in Conns /\ Member(c) /\ ~open[c]
    BY <1>5, <1>7, <1>10
  <2>3. reportedByAll \in [Conns -> Nat]
    BY <1>1 DEF TypeOK
  <2>4. /\ reportedByAll' \in [Conns -> Nat]
        /\ \A d \in Conns : d # c => reportedByAll'[d] = reportedByAll[d]
        /\ c # Null => reportedByAll'[c] = 1
    <3>1. CASE c = Null
      BY <1>10, <2>3, <3>1
    <3>2. CASE c # Null
      <4>1. c \in Conns /\ reportedByAll[c] = 0
        BY <2>2, <3>2 DEF Member
      <4>2. reportedByAll' = [reportedByAll EXCEPT ![c] = 1]
        BY <1>10, <2>3, <3>2, <4>1
      <4> QED  BY <2>3, <4>1, <4>2
    <3> QED  BY <3>1, <3>2
  <2>5. AcceptedOk'
    <3>1. ioPc = "connect" => Len(s) >= 1 /\ s[Len(s)] # Null /\ Unread(s[Len(s)])
      BY <1>1 DEF AcceptedOk
    <3>2. ioPc = "connect" => Len(s) # pos
      BY <1>10, <3>1 DEF Unread
    <3> HIDE DEF s, t
    <3>3. ioPc = "connect" => /\ Len(t) >= 1 /\ t[Len(t)] # Null
                              /\ open[t[Len(t)]] /\ read[t[Len(t)]] = "none"
      <4>1. ioPc = "connect" => Len(s) \in 1 .. Len(s) /\ Len(t) >= 1 /\ t[Len(t)] = s[Len(s)]
        BY <1>4, <2>1, <3>1, <3>2
      <4> QED  BY <3>1, <4>1 DEF Unread
    <3>4. ioPc = "push" => ioConn \in Conns /\ ioConn \in made /\ open[ioConn] /\ read[ioConn] = "none"
      BY <1>1 DEF AcceptedOk, Unread
    <3> HIDE DEF c
    <3> QED  BY <1>2, <1>6, <1>10, <3>3, <3>4 DEF AcceptedOk, Unread
  <2> HIDE DEF c, t
  <2>6. TypeOK'
    BY <1>1, <1>2, <1>4, <1>6, <1>8, <1>10, <2>1, <2>4 DEF TypeOK, Entries
  <2>7. \A d \in Conns : ConnectionOk(d)'
    <3> TAKE d \in Conns
    <3>1. /\ reportedByAll[d] <= 1 /\ (d \notin made => ~Reported(d) /\ read[d] = "none")
          /\ Reported(d) => ~open[d]
          /\ (write[d] # "none" => queued[d] > 0)
      BY <1>1 DEF ConnectionOk
    <3>2. CASE d = c
      <4>1. d \in made /\ reportedByAll'[d] = 1 /\ ~open[d]
        BY <2>2, <2>4, <3>2, ConnsAssumption DEF Member
      <4> QED  BY <1>2, <3>1, <4>1 DEF ConnectionOk
    <3>3. CASE d # c
      BY <1>2, <2>4, <3>1, <3>3 DEF ConnectionOk, Reported
    <3> QED  BY <3>2, <3>3
  <2>8. Distinct(t)
    <3>1. \A i \in 1 .. Len(t) : t[i] # Null => i \in 1 .. Len(s) /\ t[i] = s[i]
      BY <2>1
    <3> QED  BY <1>7, <3>1 DEF Distinct
  <2>9. ASSUME NEW i \in 1 .. Len(t), t[i] # Null
        PROVE  /\ t[i] \in made' /\ t[i] # ioConn' /\ reportedByAll'[t[i]] = 0
               /\ open'[t[i]] /\ read'[t[i]] = "none" => ioPc' = "connect" /\ i = Len(t)
    <3>1. i \in 1 .. Len(s) /\ i # pos /\ t[i] = s[i]
      BY <2>1, <2>9
    <3>2. /\ Member(s[i]) /\ s[i] \in Conns
          /\ Unread(s[i]) => ioPc = "connect" /\ i = Len(s)
      BY <1>1, <1>7, <2>9, <3>1 DEF ContainerOk
    <3>3. s[i] # c
      BY <1>5, <1>7, <2>9, <3>1 DEF Distinct, c
    <3>4. reportedByAll'[s[i]] = reportedByAll[s[i]]
      BY <2>4, <3>2, <3>3
    <3> QED  BY <1>2, <1>6, <2>1, <3>1, <3>2, <3>4 DEF Member, Unread
  <2>10. ContainerOk'
    BY <1>10, <2>8, <2>9 DEF ContainerOk, Member, Unread
  <2>11. BroadcastOk'
    BY <1>2, <1>4, <1>10, <2>1 DEF BroadcastOk
  <2> QED  BY <1>8, <2>5, <2>6, <2>7, <2>10, <2>11 DEF IInv
<1> QED  BY <1>3, <1>9, <1>10
----------------------------------------------------------------------------
(* The theorems                                                            *)

LEMMA StepKeeps == IInv /\ [Next]_vars => IInv'
<1> SUFFICES ASSUME IInv, [Next]_vars PROVE IInv'
  OBVIOUS
<1>1. CASE UNCHANGED vars
  <2>1. UNCHANGED <<made, m_deqConnections, m_qMessagesIn, open, posted, queued, write, read, got,
                    ioPc, ioConn, mainPc, msg, pos, end, bInvalidClientExists,
                    reportedByAll, reportedByClient>>
    BY <1>1 DEF vars, connection, io, main, reports
  <2>2. /\ TypeOK' /\ AcceptedOk' /\ MessagesOk' /\ ContainerOk' /\ BroadcastOk'
        /\ \A d \in Conns : ConnectionOk(d)'
    BY <2>1 DEF IInv, TypeOK, AcceptedOk, MessagesOk, ContainerOk, Member, Unread, BroadcastOk,
                ConnectionOk, Reported
  <2> QED  BY <2>2 DEF IInv
<1>2. CASE Asio
  <2>1. CASE AcceptPush \/ AcceptConnect
    BY <2>1, AcceptPushKeeps, AcceptConnectKeeps
  <2>2. CASE AcceptThrows
    BY <2>2, AcceptThrowsKeeps
  <2>3. ASSUME NEW c \in Conns, Accept(c) \/ RunSend(c) \/ OnWrite(c) \/ OnRead(c) PROVE IInv'
    BY <2>3, AcceptKeeps, RunSendKeeps, OnWriteKeeps, OnReadKeeps
  <2> QED  BY <1>2, <2>1, <2>2, <2>3 DEF Asio
<1>3. CASE Main
  BY <1>3, UpdateKeeps, AllBeginKeeps, AllNextKeeps DEF Main
<1>4. CASE \E c \in Conns : NetWrite(c) \/ NetRead(c)
  BY <1>4, NetworkKeeps
<1> QED  BY <1>1, <1>2, <1>3, <1>4 DEF Next

\* The invariant of every behaviour of the server's two threads.
THEOREM Invariance == Spec => []IInv
<1>1. Init => IInv
  BY InitGood
<1>2. IInv /\ [Next]_vars => IInv'
  BY StepKeeps
<1> QED  BY <1>1, <1>2, PTL DEF Spec

\* BroadcastsReportOnce: MessageAllClients (net_server.h:168) passes a client to
\* OnClientDisconnect at most once, whatever is accepted meanwhile and however often
\* MessageClient (:139) has reported it; and both report only who has gone.
THEOREM ReportedOnce == Spec => []BroadcastsReportOnce
<1>1. IInv => BroadcastsReportOnce
  BY DEF IInv, ConnectionOk, BroadcastsReportOnce
<1> QED  BY <1>1, Invariance, PTL

\* ContainerInv: outside of a broadcast the container holds no pointer that has been
\* reset; every client in it whose socket is open is being read from, but for the one
\* between push_back and ConnectToClient (net_server.h:101-105), which is the last.
THEOREM ContainerIsSound == Spec => []ContainerInv
<1>1. IInv => ContainerInv
  <2> SUFFICES ASSUME IInv PROVE ContainerInv
    OBVIOUS
  <2> DEFINE s == m_deqConnections
  <2>1. TypeOK /\ ContainerOk /\ AcceptedOk /\ BroadcastOk
    BY DEF IInv
  <2>2. \A c \in ToSet(s) : \E i \in 1 .. Len(s) : c = s[i]
    BY <2>1, Container DEF ToSet
  <2>3. mainPc # "iterate" => Null \notin ToSet(s)
    BY <2>1, <2>2 DEF BroadcastOk
  <2>4. \A c \in ToSet(s) \ {Null} : open[c] /\ read[c] = "none" => ioPc = "connect" /\ c = s[Len(s)]
    BY <2>1, <2>2 DEF ContainerOk, Unread
  <2>5. ioPc = "connect" => /\ s # << >> /\ s[Len(s)] # Null
                            /\ open[s[Len(s)]] /\ read[s[Len(s)]] = "none"
    <3>1. s = << >> => Len(s) = 0
      OBVIOUS
    <3> QED  BY <2>1, <3>1 DEF AcceptedOk, Unread
  <2> QED  BY <2>1, <2>3, <2>4, <2>5 DEF ContainerInv, Last
<1> QED  BY <1>1, Invariance, PTL
============================================================================
