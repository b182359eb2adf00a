------------------------ MODULE AsyncTCPServerProofs ------------------------
(***************************************************************************)
(* Safety of AsyncTCPServer for every number of clients, pool threads and    *)
(* failures of accept.                                                       *)
(***************************************************************************)
EXTENDS AsyncTCPServer, TLAPS

\* A client that has been accepted has no Service until its handler runs.
AcceptedIsNew == accepting = "accepted" => service[accepted] = "none"

\* Main is past StopAcceptor only with the flag set.
FlagIsSet == mainPc # "running" => m_is_stopped = TRUE

\* The inductive invariant of the server.
IInv == TypeOK /\ UsedWhileLive /\ KeepsListening /\ AcceptedIsNew /\ FlagIsSet
----------------------------------------------------------------------------
\* The inductive invariant holds when the server has been started.
LEMMA InitIInv == Init => IInv
<1> SUFFICES ASSUME Init PROVE IInv
  OBVIOUS
<1> USE DEF Init
<1>1. TypeOK
  <2>1. NoOp \in [kind : {"none", "read", "write"},
                  state : {"none", "pending", "done", "failed"}]
    BY DEF NoOp
  <2>2. accepting = "accepted" <=> accepted # NoClient
    OBVIOUS
  <2>3. \A t \in Pool : pc[t] = "process" <=> client[t] # NoClient
    OBVIOUS
  <2>4. op \in [Clients -> [kind : {"none", "read", "write"},
                            state : {"none", "pending", "done", "failed"}]]
    BY <2>1
  <2>5. failures \in 0 .. MaxFailures
    BY FailuresAssumption
  <2> QED  BY <2>2, <2>3, <2>4, <2>5 DEF TypeOK
<1>2. UsedWhileLive
  BY NoClientAssumption DEF UsedWhileLive, Users
<1>3. KeepsListening /\ AcceptedIsNew /\ FlagIsSet
  BY DEF KeepsListening, Accepters, AcceptedIsNew, FlagIsSet
<1> QED  BY <1>1, <1>2, <1>3 DEF IInv

\* Every handler of the acceptor keeps it.
LEMMA AcceptorIInv ==
  ASSUME IInv, NEW t \in Pool, OnAccept(t) \/ InitAccept(t) PROVE IInv'
<1> USE NoClientAssumption DEF IInv, AcceptedIsNew, FlagIsSet, main, acceptor
<1>1. CASE OnAccept(t)
  <2> USE <1>1 DEF OnAccept, Takes
  <2>1. TypeOK'
    <3>1. /\ service' \in [Clients -> {"none", "live", "freed"}]
          /\ op' \in [Clients -> [kind : {"none", "read", "write"},
                                 state : {"none", "pending", "done", "failed"}]]
      <4>1. CASE accepting = "accepted"
        <5>1. Pending("read") \in [kind : {"none", "read", "write"},
                                  state : {"none", "pending", "done", "failed"}]
          BY DEF Pending
        <5>2. /\ service' = [service EXCEPT ![accepted] = "live"]
              /\ op' = [op EXCEPT ![accepted] = Pending("read")]
          BY <4>1
        <5> QED  BY <5>1, <5>2 DEF TypeOK
      <4>2. CASE accepting = "failed"
        BY <4>2 DEF TypeOK
      <4> QED  BY <4>1, <4>2
    <3>2. /\ pc' \in [Pool -> {"idle", "accepted", "process", "exited"}]
          /\ \A u \in Pool : pc'[u] = "process" <=> client'[u] # NoClient
      BY DEF TypeOK
    <3> QED  BY <3>1, <3>2 DEF TypeOK
  <2>2. UsedWhileLive'
    <3> SUFFICES ASSUME NEW c \in Clients
                 PROVE  /\ service'[c] = "live" /\ mainPc' # "destroyed" =>
                               op'[c] # NoOp \/ Users(c)' # {}
                        /\ service'[c] # "live" => op'[c] = NoOp /\ Users(c)' = {}
                        /\ op'[c] # NoOp => Users(c)' = {}
                        /\ \A s, u \in Users(c)' : s = u
      BY DEF UsedWhileLive
    <3>1. Users(c)' = Users(c)
      BY DEF Users
    <3>2. CASE accepting = "accepted" /\ c = accepted
      <4>1. service[c] = "none" /\ service'[c] = "live" /\ op'[c] = Pending("read")
        BY <3>2 DEF TypeOK
      <4>2. op'[c] # NoOp
        BY <4>1 DEF NoOp, Pending
      <4> QED  BY <3>1, <4>1, <4>2 DEF UsedWhileLive
    <3>3. CASE ~(accepting = "accepted" /\ c = accepted)
      <4>1. service'[c] = service[c] /\ op'[c] = op[c]
        BY <3>3 DEF TypeOK
      <4> QED  BY <3>1, <4>1 DEF UsedWhileLive
    <3> QED  BY <3>2, <3>3
  <2>3. KeepsListening'
    BY DEF KeepsListening, Accepters, TypeOK
  <2> QED  BY <2>1, <2>2, <2>3
<1>2. CASE InitAccept(t)
  <2> USE <1>2 DEF InitAccept
  <2>1. TypeOK'
    BY DEF TypeOK, KeepsListening, Accepters
  <2>2. UsedWhileLive'
    BY DEF UsedWhileLive, Users
  <2>3. KeepsListening'
    BY DEF KeepsListening, Accepters, TypeOK
  <2> QED  BY <2>1, <2>2, <2>3
<1> QED  BY <1>1, <1>2

\* Every handler of a Service keeps it.
LEMMA ServiceIInv ==
  ASSUME IInv, NEW t \in Pool, NEW c \in Clients,
         OnRequestReceived(t, c) \/ OnResponseSent(t, c)
  PROVE  IInv'
<1> USE NoClientAssumption DEF IInv, AcceptedIsNew, FlagIsSet, main, acceptor, NoOp, Takes
<1>1. CASE OnRequestReceived(t, c)
  <2> USE <1>1 DEF OnRequestReceived, OnFinish
  <2>1. TypeOK'
    <3>1. /\ op' \in [Clients -> [kind : {"none", "read", "write"},
                                 state : {"none", "pending", "done", "failed"}]]
          /\ service' \in [Clients -> {"none", "live", "freed"}]
      BY DEF TypeOK
    <3>2. /\ pc' \in [Pool -> {"idle", "accepted", "process", "exited"}]
          /\ client' \in [Pool -> Clients \cup {NoClient}]
      BY DEF TypeOK
    <3>3. \A u \in Pool : pc'[u] = "process" <=> client'[u] # NoClient
      <4>1. CASE UNCHANGED <<pc, client>>
        BY <4>1 DEF TypeOK
      <4>2. CASE /\ pc' = [pc EXCEPT ![t] = "process"]
                 /\ client' = [client EXCEPT ![t] = c]
        BY <4>2 DEF TypeOK
      <4> QED  BY <4>1, <4>2
    <3> QED  BY <3>1, <3>2, <3>3 DEF TypeOK
  <2>2. UsedWhileLive'
    BY DEF UsedWhileLive, Users, TypeOK
  <2>3. KeepsListening' /\ AcceptedIsNew'
    BY DEF KeepsListening, Accepters, TypeOK, UsedWhileLive
  <2> QED  BY <2>1, <2>2, <2>3
<1>2. CASE OnResponseSent(t, c)
  <2> USE <1>2 DEF OnResponseSent, OnFinish
  <2>1. TypeOK'
    BY DEF TypeOK
  <2>2. UsedWhileLive'
    BY DEF UsedWhileLive, Users, TypeOK
  <2>3. KeepsListening' /\ AcceptedIsNew'
    BY DEF KeepsListening, Accepters, TypeOK, UsedWhileLive
  <2> QED  BY <2>1, <2>2, <2>3
<1> QED  BY <1>1, <1>2

\* So do the end of ProcessRequest and the end of run().
LEMMA ThreadIInv ==
  ASSUME IInv, NEW t \in Pool, SendResponse(t) \/ RunReturns(t) PROVE IInv'
<1> USE NoClientAssumption DEF IInv, AcceptedIsNew, FlagIsSet, main, acceptor, NoOp
<1>1. CASE SendResponse(t)
  <2> USE <1>1 DEF SendResponse, Pending
  <2>1. TypeOK'
    BY DEF TypeOK
  <2>2. UsedWhileLive'
    BY DEF UsedWhileLive, Users, TypeOK
  <2>3. KeepsListening'
    BY DEF KeepsListening, Accepters, TypeOK
  <2> QED  BY <2>1, <2>2, <2>3
<1>2. CASE RunReturns(t)
  BY <1>2 DEF RunReturns, TypeOK, UsedWhileLive, Users, KeepsListening, Accepters
<1> QED  BY <1>1, <1>2

\* The steps of main keep it.
LEMMA MainIInv == ASSUME IInv, Main PROVE IInv'
<1> USE NoClientAssumption
    DEF IInv, AcceptedIsNew, FlagIsSet, acceptor, TypeOK, UsedWhileLive, Users,
        KeepsListening, Accepters, NoOp
<1>1. CASE StopAcceptor
  BY <1>1 DEF StopAcceptor
<1>2. CASE StopContext
  BY <1>2 DEF StopContext
<1>3. CASE Join
  BY <1>3 DEF Join
<1>4. CASE Destroy
  <2> USE <1>4 DEF Destroy
  <2>1. TypeOK'
    OBVIOUS
  <2>2. UsedWhileLive'
    OBVIOUS
  <2>3. KeepsListening' /\ AcceptedIsNew' /\ FlagIsSet'
    OBVIOUS
  <2> QED  BY <2>1, <2>2, <2>3
<1> HIDE DEF IInv
<1> QED  BY <1>1, <1>2, <1>3, <1>4 DEF Main

\* So do the network and the clients.
LEMMA NetworkIInv ==
  ASSUME IInv,
         \/ NetAcceptFails
         \/ \E c \in Clients : Network(c) \/ ClientConnects(c) \/ ClientGoes(c)
  PROVE  IInv'
<1> USE NoClientAssumption, FailuresAssumption
    DEF IInv, AcceptedIsNew, FlagIsSet, main, acceptor, TypeOK, UsedWhileLive, Users,
        KeepsListening, Accepters, NoOp
<1>1. CASE NetAcceptFails
  BY <1>1 DEF NetAcceptFails
<1>2. ASSUME NEW c \in Clients, NetAccept(c) PROVE IInv'
  BY <1>2 DEF NetAccept
<1>3. ASSUME NEW c \in Clients, NetDone(c) PROVE IInv'
  BY <1>3 DEF NetDone
<1>4. ASSUME NEW c \in Clients, NetFails(c) PROVE IInv'
  BY <1>4 DEF NetFails
<1>5. ASSUME NEW c \in Clients, ClientConnects(c) PROVE IInv'
  BY <1>5 DEF ClientConnects
<1>6. ASSUME NEW c \in Clients, ClientGoes(c) PROVE IInv'
  BY <1>6 DEF ClientGoes
<1> HIDE DEF IInv
<1> QED  BY <1>1, <1>2, <1>3, <1>4, <1>5, <1>6 DEF Network

\* The inductive invariant is an invariant of the server.
LEMMA Inductive == Spec => []IInv
<1>1. IInv /\ UNCHANGED vars => IInv'
  BY DEF IInv, TypeOK, UsedWhileLive, Users, KeepsListening, Accepters, AcceptedIsNew,
         FlagIsSet, vars, main, acceptor
<1>2. IInv /\ [Next]_vars => IInv'
  BY <1>1, AcceptorIInv, ServiceIInv, ThreadIInv, MainIInv, NetworkIInv DEF Next, Thread
<1> QED  BY InitIInv, <1>2, PTL DEF Spec
----------------------------------------------------------------------------
\* Every variable stays in its range.
THEOREM TypeCorrect == Spec => []TypeOK
<1>1. IInv => TypeOK
  BY DEF IInv
<1> QED  BY <1>1, Inductive, PTL

\* No handler and no thread is left to use a Service that has deleted itself.
THEOREM NothingUsesFreed == Spec => []UsedWhileLive
<1>1. IInv => UsedWhileLive
  BY DEF IInv
<1> QED  BY <1>1, Inductive, PTL

\* Until it is stopped the acceptor has exactly one accept outstanding or about
\* to be initiated.
THEOREM ListensUntilStopped == Spec => []KeepsListening
<1>1. IInv => KeepsListening
  BY DEF IInv
<1> QED  BY <1>1, Inductive, PTL
============================================================================
