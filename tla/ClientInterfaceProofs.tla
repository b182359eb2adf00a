------------------------ MODULE ClientInterfaceProofs ------------------------
(***************************************************************************)
(* Safety of ClientInterface, for every number of connections, messages and   *)
(* bytes in a size_t: what main pops from a message is what the server has     *)
(* pushed.  It rests on two theorems about the bodies of messages, for every   *)
(* kind of byte and every length.                                            *)
(***************************************************************************)
EXTENDS ClientInterface, SequenceTheorems, FiniteSetTheorems, TLAPS

\* operator>> computes i without wrapping round exactly if there are as many bytes
\* in the body as it wants (net_message.h:95).
THEOREM PopDefinedIff ==
    ASSUME NEW S, NEW msg, msg.body \in Seq(S), NEW n \in Nat,
           Len(msg.body) < SizeModulus, n <= SizeModulus
    PROVE  PopDefined(msg, n) <=> n <= Len(msg.body)
<1> DEFINE l == Len(msg.body)
<1>1. l \in Nat /\ SizeModulus \in Nat /\ l < SizeModulus
  BY ModulusAssumption
<1> SUFFICES PopDefined(msg, n) <=> n <= l
  OBVIOUS
<1> HIDE DEF l
<1>2. PopDefined(msg, n) <=> ((l + SizeModulus - n) % SizeModulus) + n = l
  BY DEF PopDefined, PopIndex, l
<1>3. CASE n <= l
  <2>1. (l + SizeModulus - n) % SizeModulus = l - n
    <3>1. PICK k \in Nat : k = l - n
      BY <1>1, <1>3
    <3>2. k < SizeModulus /\ l + SizeModulus - n = k + SizeModulus
      BY <1>1, <1>3, <3>1
    <3>3. (k + SizeModulus) % SizeModulus = k
      BY <1>1, <3>2, SMTT(30)
    <3> QED  BY <3>1, <3>2, <3>3
  <2> QED  BY <1>1, <1>2, <1>3, <2>1
<1>4. CASE n > l
  <2>1. PICK k \in Nat : k = l + SizeModulus - n /\ k < SizeModulus
    BY <1>1, <1>4
  <2>2. k % SizeModulus = k
    BY <1>1, <2>1, SMTT(30)
  <2> QED  BY <1>1, <1>2, <1>4, <2>1, <2>2
<1> QED  BY <1>1, <1>3, <1>4

\* "Last out" (net_message.h:52): operator>> returns what operator<< has pushed,
\* and leaves the body and the header that were there before.
THEOREM PopUndoesPush ==
    ASSUME NEW Id, NEW S, NEW data \in Seq(S),
           NEW msg \in [id : Id, size : Nat, body : Seq(S)],
           msg.size = Len(msg.body) % HeaderModulus,
           Len(msg.body) + Len(data) < SizeModulus
    PROVE  /\ PopDefined(Push(msg, data), Len(data))
           /\ Popped(Push(msg, data), Len(data)) = data
           /\ Pop(Push(msg, data), Len(data)) = msg
<1> DEFINE b == msg.body
           n == Len(data)
           l == Len(b)
<1>1. PICK new : new = Push(msg, data)
  OBVIOUS
<1>2. new.id = msg.id /\ new.body = b \o data
  BY <1>1 DEF Push, Resized
<1>3. b \in Seq(S) /\ b \o data \in Seq(S) /\ l \in Nat /\ n \in Nat /\ Len(new.body) = l + n
  BY <1>2
<1>4. PopDefined(new, n)
  <2>1. n <= SizeModulus /\ Len(new.body) < SizeModulus /\ n <= Len(new.body)
    BY <1>3, ModulusAssumption
  <2>2. new.body \in Seq(S)
    BY <1>2, <1>3
  <2> HIDE DEF n
  <2> QED  BY <1>3, <2>1, <2>2, PopDefinedIff
<1>5. PopIndex(new, n) = l
  <2>1. PopIndex(new, n) + n = l + n
    BY <1>3, <1>4 DEF PopDefined
  <2>2. PopIndex(new, n) \in Int
    BY <1>3, ModulusAssumption DEF PopIndex
  <2> QED  BY <1>3, <2>1, <2>2
<1>6. Popped(new, n) = data
  <2>1. Popped(new, n) = SubSeq(b \o data, l + 1, l + n)
    BY <1>2, <1>5 DEF Popped
  <2>2. SubSeq(b \o data, l + 1, l + n) = data
    BY <1>3, SubSeqOfConcat2, SubSeqFull
  <2> QED  BY <2>1, <2>2
<1>7. SubSeq(new.body, 1, PopIndex(new, n)) = b
  BY <1>2, <1>3, <1>5
<1>8. Pop(new, n) = [id |-> msg.id, size |-> l % HeaderModulus, body |-> b]
  BY <1>2, <1>7 DEF Pop, Resized
<1>9. Pop(new, n) = msg
  BY <1>8
<1> QED  BY <1>1, <1>4, <1>6, <1>9
----------------------------------------------------------------------------
(* What the server sends                                                   *)

Ids == {"ServerAccept", "ServerPing", "ServerMessage"}

\* A message is as the server made it, but for a body where it has pushed none.
AsPushed(m) == /\ m.id \in Ids
               /\ Len(Data[m.id]) > 0 => m.body = Data[m.id]

\* The bytes of a time_point and of a client's id.
Bytes == {"time", "id"}

LEMMA Repeated ==
  ASSUME NEW n \in Nat, NEW x \in Bytes
  PROVE  [b \in 1 .. n |-> x] \in Seq(Bytes) /\ Len([b \in 1 .. n |-> x]) = n
<1> DEFINE s == [b \in 1 .. n |-> x]
<1>1. s \in [1 .. n -> Bytes]
  OBVIOUS
<1> HIDE DEF s
<1>2. s \in Seq(Bytes)
  BY <1>1, SeqDef
<1>3. Len(s) = n
  BY <1>1, <1>2, LenProperties
<1> QED  BY <1>2, <1>3 DEF s

LEMMA DataIs ==
  /\ Data["ServerAccept"] = << >> /\ Data["ServerAccept"] \in Seq(Bytes)
  /\ Data["ServerPing"] \in Seq(Bytes) /\ Len(Data["ServerPing"]) = 8
  /\ Data["ServerMessage"] \in Seq(Bytes) /\ Len(Data["ServerMessage"]) = 4
<1> DEFINE ping == [b \in 1 .. 8 |-> "time"]
           message == [b \in 1 .. 4 |-> "id"]
<1>1. ping \in Seq(Bytes) /\ Len(ping) = 8
  <2> DEFINE n == 8
             x == "time"
  <2>1. n \in Nat /\ x \in Bytes
    BY DEF Bytes
  <2>2. ping = [b \in 1 .. n |-> x]
    OBVIOUS
  <2> HIDE DEF n, x, ping
  <2>3. ping \in Seq(Bytes) /\ Len(ping) = n
    BY <2>1, <2>2, Repeated
  <2> QED  BY <2>3 DEF n
<1>2. message \in Seq(Bytes) /\ Len(message) = 4
  <2> DEFINE n == 4
             x == "id"
  <2>1. n \in Nat /\ x \in Bytes
    BY DEF Bytes
  <2>2. message = [b \in 1 .. n |-> x]
    OBVIOUS
  <2> HIDE DEF n, x, message
  <2>3. message \in Seq(Bytes) /\ Len(message) = n
    BY <2>1, <2>2, Repeated
  <2> QED  BY <2>3 DEF n
<1> HIDE DEF ping, message
<1>3. Data = [ServerAccept |-> << >>, ServerPing |-> ping, ServerMessage |-> message]
  BY DEF Data, ping, message
<1>4. Data["ServerAccept"] = << >> /\ Data["ServerPing"] = ping /\ Data["ServerMessage"] = message
  BY <1>3
<1> QED  BY <1>1, <1>2, <1>4

LEMMA DataShort ==
  ASSUME NEW id \in Ids
  PROVE  Data[id] \in Seq(Bytes) /\ Len(Data[id]) \in Nat /\ Len(Data[id]) <= 8
<1>1. CASE id = "ServerAccept"
  BY <1>1, DataIs
<1>2. CASE id = "ServerPing"
  BY <1>2, DataIs
<1>3. CASE id = "ServerMessage"
  BY <1>3, DataIs
<1> QED  BY <1>1, <1>2, <1>3 DEF Ids

\* What has been pushed on a blank message.
LEMMA PushedOnBlank ==
  ASSUME NEW id, NEW data \in Seq(Bytes), Len(data) <= 8
  PROVE  /\ Push(Blank(id), data).id = id
         /\ Push(Blank(id), data).body = data
         /\ Push(Blank(id), data).size = Len(data)
<1>1. << >> \o data = data
  BY ConcatEmptySeq
<1>2. Push(Blank(id), data) = [id |-> id, size |-> Len(data) % HeaderModulus, body |-> data]
  BY <1>1 DEF Push, Blank, Resized
<1>3. Len(data) % HeaderModulus = Len(data)
  <2> DEFINE n == Len(data)
  <2>1. n \in Nat /\ n < HeaderModulus /\ HeaderModulus \in Nat
    BY LenProperties, ModulusAssumption, WidthAssumption
  <2> HIDE DEF n
  <2>2. n % HeaderModulus = n
    BY <2>1, SMTT(30)
  <2> QED  BY <2>2 DEF n
<1> QED  BY <1>2, <1>3

Messages == [id : Ids, size : Nat, body : Seq(Bytes)]
Incoming == {m \in Messages : AsPushed(m)}

LEMMA FromServerIs ==
  ASSUME NEW m \in FromServer
  PROVE  /\ m \in Messages
         /\ m.size = Len(Data[m.id])
         /\ m.body = Data[m.id]
<1>1. CASE m = Blank("ServerAccept")
  <2>1. m.id = "ServerAccept" /\ m.size = 0 /\ m.body = << >>
    BY <1>1 DEF Blank
  <2>2. m \in Messages
    BY <1>1 DEF Blank, Messages, Ids
  <2> QED  BY <2>1, <2>2, DataIs
<1>2. ASSUME NEW id \in Ids, m = Push(Blank(id), Data[id])
      PROVE  m \in Messages /\ m.size = Len(Data[m.id]) /\ m.body = Data[m.id]
  <2>1. m.id = id /\ m.body = Data[id] /\ m.size = Len(Data[id])
    BY <1>2, DataShort, PushedOnBlank
  <2>2. m = [id |-> m.id, size |-> m.size, body |-> m.body]
    BY <1>2 DEF Push, Resized
  <2> QED  BY <2>1, <2>2, DataShort DEF Messages
<1>3. CASE m = Push(Blank("ServerPing"), Data.ServerPing)
  <2>1. "ServerPing" \in Ids
    BY DEF Ids
  <2> QED  BY <1>2, <1>3, <2>1
<1>4. CASE m = Push(Blank("ServerMessage"), Data.ServerMessage)
  <2>1. "ServerMessage" \in Ids
    BY DEF Ids
  <2> QED  BY <1>2, <1>4, <2>1
<1> QED  BY <1>1, <1>3, <1>4 DEF FromServer

LEMMA Arrived ==
  ASSUME NEW m \in FromServer, NEW left \in Seq(Bytes)
  PROVE  [m EXCEPT !.body = IF m.size > 0 THEN @ ELSE left] \in Incoming
<1> DEFINE new == [m EXCEPT !.body = IF m.size > 0 THEN @ ELSE left]
<1>1. m \in Messages /\ m.size = Len(Data[m.id]) /\ m.body = Data[m.id]
  BY FromServerIs
<1>2. new \in Messages /\ new.id = m.id /\ new.body = IF m.size > 0 THEN m.body ELSE left
  BY <1>1 DEF Messages
<1>3. new.id \in Ids
  BY <1>2 DEF Messages
<1> HIDE DEF new
<1>4. new \in Incoming
  BY <1>1, <1>2, <1>3 DEF Incoming, AsPushed
<1> QED  BY <1>4 DEF new

LEMMA Pops ==
  ASSUME NEW m, AsPushed(m), Len(Data[m.id]) > 0
  PROVE  /\ PopDefined(m, Len(Data[m.id]))
         /\ Popped(m, Len(Data[m.id])) = Data[m.id]
<1> DEFINE n == Len(Data[m.id])
<1>1. m.body = Data[m.id] /\ m.body \in Seq(Bytes) /\ n \in Nat /\ n < SizeModulus
      /\ SizeModulus \in Nat
  BY DataShort, ModulusAssumption, WidthAssumption DEF AsPushed
<1>2. n = Len(m.body)
  BY <1>1
<1> HIDE DEF n
<1>3. PopDefined(m, n)
  BY <1>1, <1>2, PopDefinedIff
<1>4. PopIndex(m, n) \in Int
  BY <1>1, <1>2 DEF PopIndex
<1>5. PopIndex(m, n) = 0
  BY <1>1, <1>2, <1>3, <1>4 DEF PopDefined
<1>6. Popped(m, n) = SubSeq(m.body, 1, n)
  BY <1>1, <1>5 DEF Popped
<1>7. SubSeq(m.body, 1, n) = m.body
  BY <1>1, <1>2, SubSeqFull
<1> QED  BY <1>1, <1>3, <1>6, <1>7 DEF n
----------------------------------------------------------------------------
(* The inductive invariant                                                 *)

\* The tasks of Send that have not run.
SendsIn(t) == {i \in 1 .. Len(t) : t[i] = "send"}

\* What a connection has queued was sent, and what is in the queue is as it was pushed.
IInv == /\ TypeOK
        /\ \A k \in Connections : sentOut[k] + Cardinality(SendsIn(tasks)) <= sends
        /\ m_msgTemporaryIn \in Messages
        /\ m_qMessagesIn \in Seq(Incoming)

LEMMA SendsFinite ==
  ASSUME NEW t \in Seq({"send", "close"})
  PROVE  IsFiniteSet(SendsIn(t)) /\ Cardinality(SendsIn(t)) \in Nat
<1>1. IsFiniteSet(1 .. Len(t))
  BY LenProperties, FS_Interval
<1>2. SendsIn(t) \in SUBSET (1 .. Len(t))
  BY DEF SendsIn
<1> QED  BY <1>1, <1>2, FS_Subset, FS_CardinalityType

LEMMA SendsAppended ==
  ASSUME NEW t \in Seq({"send", "close"})
  PROVE  /\ Cardinality(SendsIn(Append(t, "send"))) = Cardinality(SendsIn(t)) + 1
         /\ Cardinality(SendsIn(Append(t, "close"))) = Cardinality(SendsIn(t))
<1>1. Len(t) \in Nat /\ Len(t) + 1 \notin SendsIn(t)
  BY LenProperties DEF SendsIn
<1>2. ASSUME NEW x \in {"send", "close"}
      PROVE  SendsIn(Append(t, x)) = SendsIn(t) \cup (IF x = "send" THEN {Len(t) + 1} ELSE {})
  <2> DEFINE u == Append(t, x)
  <2>1. Len(u) = Len(t) + 1 /\ u[Len(t) + 1] = x /\ \A i \in 1 .. Len(t) : u[i] = t[i]
    BY AppendProperties
  <2> HIDE DEF u
  <2>2. \A i : i \in 1 .. Len(u) <=> i \in 1 .. Len(t) \/ i = Len(t) + 1
    BY <1>1, <2>1
  <2>3. \A i : i \in SendsIn(u) <=> i \in SendsIn(t) \/ (i = Len(t) + 1 /\ x = "send")
    BY <1>1, <2>1, <2>2 DEF SendsIn
  <2> QED  BY <2>3 DEF u
<1>3. SendsIn(Append(t, "send")) = SendsIn(t) \cup {Len(t) + 1}
  BY <1>2
<1>4. SendsIn(Append(t, "close")) = SendsIn(t)
  BY <1>2
<1>5. Cardinality(SendsIn(t) \cup {Len(t) + 1}) = Cardinality(SendsIn(t)) + 1
  BY <1>1, SendsFinite, FS_AddElement
<1> QED  BY <1>3, <1>4, <1>5

\* A task is run.
LEMMA SendsTail ==
  ASSUME NEW t \in Seq({"send", "close"}), t # << >>
  PROVE  /\ Tail(t) \in Seq({"send", "close"})
         /\ Cardinality(SendsIn(Tail(t))) <= Cardinality(SendsIn(t))
         /\ Head(t) = "send" => Cardinality(SendsIn(Tail(t))) + 1 <= Cardinality(SendsIn(t))
<1> DEFINE u == Tail(t)
           rest == SendsIn(t) \ {1}
           f == [i \in SendsIn(u) |-> i + 1]
<1>1. /\ u \in Seq({"send", "close"}) /\ Len(t) \in Nat \ {0} /\ Len(u) = Len(t) - 1
      /\ Head(t) = t[1] /\ \A i \in 1 .. Len(u) : u[i] = t[i + 1]
  BY HeadTailProperties, LenProperties, EmptySeq
<1> HIDE DEF u
<1>2. \A i \in SendsIn(u) : i \in Nat /\ i + 1 \in rest
  <2> TAKE i \in SendsIn(u)
  <2>1. i \in 1 .. Len(u) /\ u[i] = "send"
    BY DEF SendsIn
  <2>2. i \in Nat /\ i + 1 \in 1 .. Len(t) /\ i + 1 # 1
    BY <1>1, <2>1
  <2>3. t[i + 1] = "send"
    BY <1>1, <2>1
  <2> QED  BY <2>2, <2>3 DEF SendsIn
<1>3. f \in Injection(SendsIn(u), rest)
  <2>1. f \in [SendsIn(u) -> rest]
    BY <1>2
  <2>2. \A i, j \in SendsIn(u) : f[i] = f[j] => i = j
    BY <1>2
  <2> QED  BY <2>1, <2>2 DEF Injection, IsInjective
<1>4. /\ IsFiniteSet(rest)
      /\ Cardinality(rest) = IF 1 \in SendsIn(t) THEN Cardinality(SendsIn(t)) - 1 ELSE Cardinality(SendsIn(t))
  BY SendsFinite, FS_RemoveElement
<1>5. Cardinality(SendsIn(u)) <= Cardinality(rest)
  BY <1>3, <1>4, FS_Injection
<1>6. Cardinality(SendsIn(u)) \in Nat /\ Cardinality(SendsIn(t)) \in Nat
  BY <1>1, SendsFinite
<1>7. Head(t) = "send" => 1 \in SendsIn(t)
  BY <1>1 DEF SendsIn
<1>8. /\ Cardinality(SendsIn(u)) <= Cardinality(SendsIn(t))
      /\ Head(t) = "send" => Cardinality(SendsIn(u)) + 1 <= Cardinality(SendsIn(t))
  BY <1>4, <1>5, <1>6, <1>7
<1> QED  BY <1>1, <1>8 DEF u

LEMMA InitGood == Init => IInv
<1> SUFFICES ASSUME Init PROVE IInv
  OBVIOUS
<1>1. TypeOK
  <2>1. tasks \in Seq({"send", "close"})
    BY DEF Init
  <2>2. 0 \in 0 .. MaxConnects /\ 0 \in 0 .. MaxSends
    BY BoundsAssumption
  <2> QED  BY <2>1, <2>2 DEF Init, TypeOK
<1>2. Cardinality(SendsIn(tasks)) = 0
  <2> DEFINE e == << >>
  <2>1. Len(e) = 0 /\ tasks = e
    BY DEF Init
  <2> HIDE DEF e
  <2>2. SendsIn(tasks) = {}
    BY <2>1 DEF SendsIn
  <2> QED  BY <2>2, FS_EmptySet
<1>3. m_msgTemporaryIn \in Messages /\ m_qMessagesIn \in Seq(Incoming)
  BY DEF Init, Blank, Messages, Ids
<1> QED  BY <1>1, <1>2, <1>3 DEF Init, IInv

\* Steps that neither send nor receive anything.
LEMMA QuietKeeps ==
  ASSUME IInv, TypeOK', UNCHANGED <<sends, sentOut, m_qMessagesIn>>,
         tasks' = tasks \/ tasks' = Append(tasks, "close"),
         m_msgTemporaryIn' \in Messages
  PROVE  IInv'
<1>1. tasks \in Seq({"send", "close"})
  BY DEF IInv, TypeOK
<1>2. Cardinality(SendsIn(tasks')) = Cardinality(SendsIn(tasks))
  BY <1>1, SendsAppended
<1> QED  BY <1>2 DEF IInv

LEMMA ApplicationKeeps ==
  ASSUME IInv, Application
  PROVE  IInv'
<1>1. TypeOK /\ m_msgTemporaryIn \in Messages
  BY DEF IInv
<1>2. CASE Connect
  <2>1. /\ connects < MaxConnects /\ connects' = connects + 1 /\ m_connection' = connects'
        /\ m_msgTemporaryIn' = Blank("ServerAccept")
        /\ socket' = [socket EXCEPT ![connects'] = "connecting"]
        /\ thrContext' = "running"
        /\ UNCHANGED <<stopped, tasks, pc, sends, sentOut, m_qMessagesIn>>
    BY <1>2 DEF Connect
  <2>2. connects' \in Connections /\ connects' \in 0 .. MaxConnects /\ connects' # NoConnection
    BY <1>1, <2>1, BoundsAssumption DEF TypeOK, Connections, NoConnection
  <2>3. TypeOK'
    BY <1>1, <2>1, <2>2 DEF TypeOK
  <2>4. m_msgTemporaryIn' \in Messages
    BY <2>1 DEF Blank, Messages, Ids
  <2> QED  BY <2>1, <2>3, <2>4, QuietKeeps
<1>3. CASE Send
  <2>1. /\ sends < MaxSends /\ sends' = sends + 1 /\ tasks' = Append(tasks, "send")
        /\ UNCHANGED <<m_connection, socket, stopped, thrContext, pc, connects, sentOut, incoming>>
    BY <1>3 DEF Send
  <2>2. tasks \in Seq({"send", "close"}) /\ sends \in 0 .. MaxSends
    BY <1>1 DEF TypeOK
  <2>3. tasks' \in Seq({"send", "close"}) /\ Cardinality(SendsIn(tasks')) = Cardinality(SendsIn(tasks)) + 1
    BY <2>1, <2>2, SendsAppended, AppendProperties
  <2>4. sends' \in 0 .. MaxSends
    BY <2>1, <2>2, BoundsAssumption
  <2>5. TypeOK'
    BY <1>1, <2>1, <2>3, <2>4 DEF TypeOK
  <2>6. ASSUME NEW k \in Connections PROVE sentOut'[k] + Cardinality(SendsIn(tasks')) <= sends'
    <3>1. sentOut[k] \in Nat /\ sends \in Nat /\ Cardinality(SendsIn(tasks)) \in Nat
      BY <1>1, <2>2, SendsFinite DEF TypeOK
    <3>2. sentOut[k] + Cardinality(SendsIn(tasks)) <= sends
      BY DEF IInv
    <3> QED  BY <2>1, <2>3, <3>1, <3>2
  <2> QED  BY <2>1, <2>5, <2>6 DEF IInv, incoming
<1>4. CASE HandleMessage
  <2>1. /\ m_qMessagesIn # << >> /\ m_qMessagesIn' = Tail(m_qMessagesIn)
        /\ UNCHANGED <<m_connection, socket, stopped, thrContext, tasks, pc, m_msgTemporaryIn,
                       connects, sends, sentOut>>
    BY <1>4 DEF HandleMessage
  <2>2. m_qMessagesIn' \in Seq(Incoming)
    BY <2>1, HeadTailProperties DEF IInv
  <2>3. TypeOK'
    BY <1>1, <2>1 DEF TypeOK
  <2> QED  BY <2>1, <2>2, <2>3 DEF IInv
<1>5. CASE DisconnectPost
  <2>1. /\ pc' = "stop"
        /\ tasks' = tasks \/ tasks' = Append(tasks, "close")
        /\ UNCHANGED <<m_connection, socket, stopped, thrContext, connects, sends, sentOut, incoming>>
    BY <1>5 DEF DisconnectPost
  <2>2. tasks \in Seq({"send", "close"}) /\ Append(tasks, "close") \in Seq({"send", "close"})
    BY <1>1, AppendProperties DEF TypeOK
  <2>3. pc' = "stop"
    BY <1>5 DEF DisconnectPost
  <2>4. tasks' = tasks \/ tasks' = Append(tasks, "close")
    BY <1>5 DEF DisconnectPost
  <2>5. TypeOK'
    BY <1>1, <2>1, <2>2, <2>3, <2>4 DEF TypeOK
  <2> QED  BY <1>1, <2>1, <2>4, <2>5, QuietKeeps DEF incoming
<1>6. CASE DisconnectStop \/ DisconnectRelease
  <2>1. TypeOK'
    BY <1>1, <1>6 DEF TypeOK, DisconnectStop, DisconnectRelease
  <2>2. UNCHANGED <<sends, sentOut, m_qMessagesIn, m_msgTemporaryIn, tasks>>
    BY <1>6 DEF DisconnectStop, DisconnectRelease, incoming
  <2> QED  BY <1>1, <2>1, <2>2, QuietKeeps
<1> QED  BY <1>2, <1>3, <1>4, <1>5, <1>6 DEF Application

LEMMA ContextKeeps ==
  ASSUME IInv, Context
  PROVE  IInv'
<1>1. TypeOK /\ m_msgTemporaryIn \in Messages
  BY DEF IInv
<1>2. ASSUME NEW k \in Connections, ConnectDone(k) \/ ServerGone(k) \/ WriteFails(k) PROVE IInv'
  <2>1. TypeOK'
    BY <1>1, <1>2 DEF TypeOK, ConnectDone, ServerGone, WriteFails
  <2>2. UNCHANGED <<sends, sentOut, m_qMessagesIn, m_msgTemporaryIn, tasks>>
    BY <1>2 DEF ConnectDone, ServerGone, WriteFails, incoming
  <2> QED  BY <1>1, <2>1, <2>2, QuietKeeps
<1>3. ASSUME NEW k \in Connections, Arrives(k) PROVE IInv'
  <2>1. PICK m \in FromServer :
          m_msgTemporaryIn' = [m EXCEPT !.body = IF m.size > 0 THEN @ ELSE m_msgTemporaryIn.body]
    BY <1>3 DEF Arrives
  <2>2. /\ m_qMessagesIn' = Append(m_qMessagesIn, m_msgTemporaryIn')
        /\ UNCHANGED <<m_connection, socket, stopped, thrContext, tasks, pc, connects, sends, sentOut>>
    BY <1>3 DEF Arrives
  <2>3. m_msgTemporaryIn.body \in Seq(Bytes)
    BY <1>1 DEF Messages
  <2>4. m_msgTemporaryIn' \in Incoming
    BY <2>1, <2>3, Arrived
  <2>5. m_msgTemporaryIn' \in Messages /\ m_qMessagesIn' \in Seq(Incoming)
    BY <2>2, <2>4, AppendProperties DEF IInv, Incoming
  <2>6. TypeOK'
    BY <1>1, <2>2 DEF TypeOK
  <2> QED  BY <2>2, <2>5, <2>6 DEF IInv
<1>4. CASE RunTask
  <2>1. /\ thrContext = "running" /\ tasks # << >> /\ tasks' = Tail(tasks)
        /\ UNCHANGED <<m_connection, stopped, thrContext, pc, connects, sends, incoming>>
    BY <1>4 DEF RunTask, Runs
  <2>2. m_connection \in Connections
    BY <1>1, <2>1 DEF TypeOK
  <2>3. tasks \in Seq({"send", "close"}) /\ sends \in 0 .. MaxSends /\ sentOut \in [Connections -> 0 .. MaxSends]
    BY <1>1 DEF TypeOK
  <2> DEFINE n == Cardinality(SendsIn(tasks))
             n1 == Cardinality(SendsIn(Tail(tasks)))
  <2>4. /\ tasks' \in Seq({"send", "close"})
        /\ n1 <= n
        /\ Head(tasks) = "send" => n1 + 1 <= n
    BY <2>1, <2>3, SendsTail
  <2>5. n \in Nat /\ n1 \in Nat /\ sends \in Nat /\ MaxSends \in Nat /\ sends <= MaxSends
    <3>1. Tail(tasks) \in Seq({"send", "close"})
      BY <2>1, <2>4
    <3>2. n \in Nat
      BY <2>3, SendsFinite
    <3>3. n1 \in Nat
      BY <3>1, SendsFinite
    <3> HIDE DEF n, n1
    <3> QED  BY <2>3, <3>2, <3>3, BoundsAssumption
  <2>6. \A k \in Connections : sentOut[k] \in Nat /\ sentOut[k] + n <= sends
    BY <2>3 DEF IInv
  <2>7. m_msgTemporaryIn' \in Messages /\ m_qMessagesIn' \in Seq(Incoming)
    BY <2>1 DEF IInv, incoming
  <2> HIDE DEF n, n1
  <2>8. CASE Head(tasks) = "send" /\ sentOut' = [sentOut EXCEPT ![m_connection] = @ + 1] /\ UNCHANGED socket
    <3>1. sentOut'[m_connection] = sentOut[m_connection] + 1
          /\ \A k \in Connections : k # m_connection => sentOut'[k] = sentOut[k]
      BY <2>2, <2>3, <2>8
    <3>2. ASSUME NEW k \in Connections PROVE sentOut'[k] \in 0 .. MaxSends /\ sentOut'[k] + n1 <= sends
      <4>1. sentOut[k] \in Nat /\ sentOut[k] + n <= sends /\ n1 + 1 <= n
        BY <2>4, <2>6, <2>8
      <4>2. sentOut'[k] = sentOut[k] \/ sentOut'[k] = sentOut[k] + 1
        BY <3>1
      <4> QED  BY <2>5, <4>1, <4>2
    <3>3. sentOut' \in [Connections -> 0 .. MaxSends]
      BY <2>3, <2>8, <3>2
    <3>4. TypeOK'
      BY <1>1, <2>1, <2>4, <2>8, <3>3 DEF TypeOK
    <3> QED  BY <2>1, <2>7, <3>2, <3>4 DEF IInv, n1
  <2>9. CASE socket' = [socket EXCEPT ![m_connection] = "closed"] /\ UNCHANGED sentOut
    <3>1. \A k \in Connections : sentOut'[k] + n1 <= sends
      BY <2>4, <2>5, <2>6, <2>9
    <3>2. TypeOK'
      BY <1>1, <2>1, <2>4, <2>9 DEF TypeOK
    <3> QED  BY <2>1, <2>7, <3>1, <3>2 DEF IInv, n1
  <2> QED  BY <1>4, <2>8, <2>9 DEF RunTask
<1>5. CASE RunReturns
  <2>1. TypeOK'
    BY <1>1, <1>5 DEF TypeOK, RunReturns
  <2>2. UNCHANGED <<sends, sentOut, m_qMessagesIn, m_msgTemporaryIn, tasks>>
    BY <1>5 DEF RunReturns, incoming
  <2> QED  BY <1>1, <2>1, <2>2, QuietKeeps
<1> QED  BY <1>2, <1>3, <1>4, <1>5 DEF Context

\* The invariant of every behaviour of the two threads.
THEOREM Invariance == Spec => []IInv
<1>1. Init => IInv
  BY InitGood
<1>2. IInv /\ [Next]_vars => IInv'
  <2> SUFFICES ASSUME IInv, [Next]_vars PROVE IInv'
    OBVIOUS
  <2>1. CASE UNCHANGED vars
    BY <2>1 DEF vars, incoming, IInv, TypeOK
  <2>2. CASE Next
    BY <2>2, ApplicationKeeps, ContextKeeps DEF Next
  <2> QED  BY <2>1, <2>2
<1> QED  BY <1>1, <1>2, PTL DEF Spec

\* PopsWhatWasPushed: what main pops from a message in its queue is there, and is what
\* the server pushed, whatever the connection had read before; and the application
\* never goes on with a context thread that it has not joined.
THEOREM PopsAsPushed == Spec => []PopsWhatWasPushed
<1>1. IInv => PopsWhatWasPushed
  <2> SUFFICES ASSUME IInv PROVE PopsWhatWasPushed
    OBVIOUS
  <2>1. TypeOK
    BY DEF IInv
  <2>2. ASSUME NEW i \in 1 .. Len(m_qMessagesIn)
        PROVE  LET m == m_qMessagesIn[i]
                   n == Len(Data[m.id])
               IN n > 0 => PopDefined(m, n) /\ Popped(m, n) = Data[m.id]
    <3>1. AsPushed(m_qMessagesIn[i])
      BY ElementOfSeq DEF IInv, Incoming
    <3> QED  BY <3>1, Pops
  <2> QED  BY <2>1, <2>2 DEF PopsWhatWasPushed
<1> QED  BY <1>1, Invariance, PTL
----------------------------------------------------------------------------
(* An attempt to connect has a thread to wait for it                       *)

\* A connection that is being made, while the context has not been stopped, is the
\* application's, and a thread runs the context for it.
AttemptIsAwaited ==
    \A k \in Connections : socket[k] = "connecting" /\ ~stopped =>
        k = m_connection /\ thrContext = "running"

\* The context thread has only returned, and is only waited for, once the context is
\* stopped, which nobody undoes.
Awaited ==
    /\ ~stopped /\ m_connection # NoConnection => thrContext = "running"
    /\ \A k \in Connections : ~stopped /\ socket[k] = "connecting" => k = m_connection
    /\ thrContext = "returned" => stopped
    /\ pc = "join" => stopped

LEMMA AwaitedKeeps == TypeOK /\ Awaited /\ [Next]_vars => Awaited'
<1> SUFFICES ASSUME TypeOK, Awaited, [Next]_vars PROVE Awaited'
  OBVIOUS
<1>1. socket \in [Connections -> {"none", "connecting", "connected", "failed", "closed"}]
  BY DEF TypeOK
<1>2. CASE Connect
  <2>1. /\ thrContext = "none" /\ thrContext' = "running" /\ m_connection' = connects'
        /\ socket' = [socket EXCEPT ![connects'] = "connecting"]
        /\ UNCHANGED <<stopped, pc>>
    BY <1>2 DEF Connect
  <2>2. \A k \in Connections : k # connects' => socket'[k] = socket[k]
    BY <1>1, <2>1
  <2>3. NoConnection \notin Connections
    BY DEF NoConnection, Connections
  <2>4. \A k \in Connections : ~stopped => socket[k] # "connecting"
    BY <2>1, <2>3 DEF Awaited
  <2> QED  BY <2>1, <2>2, <2>4 DEF Awaited
<1>3. CASE Send \/ HandleMessage \/ DisconnectPost \/ DisconnectStop
  BY <1>3 DEF Awaited, Send, HandleMessage, DisconnectPost, DisconnectStop, incoming
<1>4. CASE DisconnectRelease
  BY <1>4 DEF Awaited, DisconnectRelease
<1>5. ASSUME NEW k \in Connections, ConnectDone(k) \/ ServerGone(k) \/ WriteFails(k) PROVE Awaited'
  <2>1. /\ UNCHANGED <<m_connection, stopped, thrContext, pc>>
        /\ \E s \in {"connected", "failed", "closed"} : socket' = [socket EXCEPT ![k] = s]
    BY <1>5 DEF ConnectDone, ServerGone, WriteFails
  <2>2. \A l \in Connections : socket'[l] = "connecting" => socket[l] = "connecting"
    BY <1>1, <2>1
  <2> QED  BY <2>1, <2>2 DEF Awaited
<1>6. ASSUME NEW k \in Connections, Arrives(k) PROVE Awaited'
  BY <1>6 DEF Awaited, Arrives
<1>7. CASE RunTask
  <2>1. /\ UNCHANGED <<m_connection, stopped, thrContext, pc>>
        /\ socket' = socket \/ socket' = [socket EXCEPT ![m_connection] = "closed"]
    BY <1>7 DEF RunTask
  <2>2. \A l \in Connections : socket'[l] = "connecting" => socket[l] = "connecting"
    BY <1>1, <2>1
  <2> QED  BY <2>1, <2>2 DEF Awaited
<1>8. CASE RunReturns
  BY <1>8 DEF Awaited, RunReturns
<1>9. CASE UNCHANGED vars
  BY <1>9 DEF Awaited, vars
<1> QED  BY <1>2, <1>3, <1>4, <1>5, <1>6, <1>7, <1>8, <1>9 DEF Next, Application, Context

\* What CallsEnd rests on: async_connect is given to the context before its thread starts,
\* so that run() does not return before the attempt has ended, and there is no attempt
\* without a thread unless the context was stopped (net_client.h:47, :50).
THEOREM ConnectIsAwaited == Spec => []AttemptIsAwaited
<1>1. Init => Awaited
  BY DEF Init, Awaited
<1>2. IInv /\ Awaited => AttemptIsAwaited
  <2> SUFFICES ASSUME Awaited, NEW k \in Connections, socket[k] = "connecting", ~stopped
               PROVE  k = m_connection /\ thrContext = "running"
    BY DEF AttemptIsAwaited
  <2>1. k # NoConnection
    BY DEF NoConnection, Connections
  <2> QED  BY <2>1 DEF Awaited
<1>3. IInv => TypeOK
  BY DEF IInv
<1> QED  BY <1>1, <1>2, <1>3, AwaitedKeeps, Invariance, PTL DEF Spec
============================================================================
