-------------------------- MODULE WsSessionProofs --------------------------
(***************************************************************************)
(* Proofs about WsSession, for every number of subscriptions, requests,    *)
(* attempts and faults, and any limit of reconnecting: what the socket,    *)
(* the requests in flight, the streams and the exchange's streaming have   *)
(* to do with each other; and about LocalBooks, for any number of symbols, *)
(* books, changes and faults and any limits of frames and recoveries: what *)
(* a live book shows.                                                      *)
(***************************************************************************)
EXTENDS MCWsSession, FiniteSetTheorems, SequenceTheorems, WellFoundedInduction, TLAPS

-----------------------------------------------------------------------------
(***************************************************************************)
(* Type correctness.                                                       *)
(***************************************************************************)
States   == {"idle", "connecting", "open", "reconnecting", "closed"}
Outcomes == {"none", "ok", "err"}
Phases   == {"none", "headers", "creating", "socket", "late", "ended"}
Socks    == {"none", "connecting", "open", "closed"}
Pends    == {"none", "first", "again", "replay"}
Readies  == {"none", "pending", "ok", "err"}
Streams  == {"none", "active", "reconnecting", "failed", "closed"}
Rpcs     == {"idle", "connecting", "await", "ok", "err"}
Frames   == {"subscribe", "unsubscribe", "request"} \X Callers

ConnType == state \in States /\ waiting \in SUBSET Callers /\ cont \in [Callers -> Outcomes]
AttType ==
  /\ seq \in Nat /\ active \in Attempts \cup {0} /\ phase \in [Attempts -> Phases]
  /\ initial \in SUBSET Attempts /\ by \in [Attempts -> Callers \cup {None}] /\ catches \in SUBSET Attempts
SockType ==
  /\ socket \in Attempts \cup {0} /\ sock \in [Attempts -> Socks] /\ timer \in BOOLEAN
  /\ stable \in Attempts \cup {0} /\ tries \in Nat /\ replaying \in Attempts \cup {0}
MapType ==
  /\ subs \in SUBSET Subs /\ sent \in SUBSET Subs /\ replay \in SUBSET Subs
  /\ IsFiniteSet(subs) /\ IsFiniteSet(replay)
  /\ pend \in [Subs -> Pends] /\ ready \in [Subs -> Readies] /\ gone \in SUBSET Subs
LocalType == sentHere \in SUBSET Subs /\ openAt \in [Subs -> Nat] /\ unsubs \in SUBSET Subs
StreamType == stream \in [Subs -> Streams]
RpcType == rpc \in [Reqs -> Rpcs] /\ pending \in SUBSET Reqs
WriteType == sentOn \in [Reqs -> Attempts \cup {0}] /\ late \in SUBSET Reqs
NetType == wire \in Seq(Frames) /\ server \in SUBSET Subs

TypeOK ==
  /\ ConnType /\ AttType /\ SockType /\ MapType /\ LocalType /\ StreamType
  /\ RpcType /\ WriteType /\ NetType /\ faults \in Nat

LEMMA InitType == Init => TypeOK
<1> SUFFICES ASSUME Init PROVE TypeOK
  OBVIOUS
<1>1. ConnType /\ AttType /\ SockType
  BY DEF Init, ConnType, AttType, SockType, States, Outcomes, Phases, Socks, Callers
<1>2. MapType /\ LocalType /\ StreamType
  BY FS_EmptySet DEF Init, MapType, LocalType, StreamType, Pends, Readies, Streams
<1>3. RpcType /\ WriteType /\ NetType
  BY DEF Init, RpcType, WriteType, NetType, Rpcs
<1> QED BY <1>1, <1>2, <1>3 DEF TypeOK, Init

\* Variables of a group left alone keep their types.
LEMMA Unch ==
  ASSUME TypeOK
  PROVE  /\ UNCHANGED connVars => ConnType'
         /\ UNCHANGED attVars => AttType'
         /\ UNCHANGED sockVars => SockType'
         /\ UNCHANGED <<subs, sent, replay, pend, ready, gone>> => MapType'
         /\ UNCHANGED <<sentHere, openAt, unsubs>> => LocalType'
         /\ UNCHANGED stream => StreamType'
         /\ UNCHANGED <<rpc, pending>> => RpcType'
         /\ UNCHANGED <<sentOn, late>> => WriteType'
         /\ UNCHANGED netVars => NetType'
         /\ UNCHANGED subVars => MapType' /\ LocalType' /\ StreamType'
         /\ UNCHANGED reqVars => RpcType' /\ WriteType'
         /\ UNCHANGED faults => faults' \in Nat
<1>1. UNCHANGED connVars => ConnType'
  BY DEF TypeOK, ConnType, connVars
<1>2. UNCHANGED attVars => AttType'
  BY DEF TypeOK, AttType, attVars
<1>3. UNCHANGED sockVars => SockType'
  BY DEF TypeOK, SockType, sockVars
<1>4. UNCHANGED <<subs, sent, replay, pend, ready, gone>> => MapType'
  BY DEF TypeOK, MapType
<1>5. UNCHANGED <<sentHere, openAt, unsubs>> => LocalType'
  BY DEF TypeOK, LocalType
<1>6. UNCHANGED stream => StreamType'
  BY DEF TypeOK, StreamType
<1>7. UNCHANGED <<rpc, pending>> => RpcType'
  BY DEF TypeOK, RpcType
<1>8. UNCHANGED <<sentOn, late>> => WriteType'
  BY DEF TypeOK, WriteType
<1>9. UNCHANGED netVars => NetType'
  BY DEF TypeOK, NetType, netVars
<1>10. UNCHANGED subVars => MapType' /\ LocalType' /\ StreamType'
  BY <1>4, <1>5, <1>6 DEF subVars
<1>11. UNCHANGED reqVars => RpcType' /\ WriteType'
  BY <1>7, <1>8 DEF reqVars
<1> QED BY <1>1, <1>2, <1>3, <1>4, <1>5, <1>6, <1>7, <1>8, <1>9, <1>10, <1>11 DEF TypeOK

\* The parts of handlers and the types of what they assign.
LEMMA FaultType == TypeOK /\ Fault => faults' \in Nat
  BY DEF TypeOK, Fault

LEMMA SettleType ==
  ASSUME TypeOK, NEW o \in Outcomes, Settle(o)
  PROVE  waiting' \in SUBSET Callers /\ cont' \in [Callers -> Outcomes]
  BY DEF TypeOK, ConnType, Settle

LEMMA RejectType ==
  ASSUME TypeOK, RejectRequests
  PROVE  RpcType'
  BY DEF TypeOK, RpcType, RejectRequests, Rpcs

LEMMA DropType ==
  ASSUME TypeOK, NEW X \in SUBSET Subs, Drop(X)
  PROVE  MapType'
<1>1. IsFiniteSet(subs') /\ IsFiniteSet(replay')
  BY FS_Subset DEF TypeOK, MapType, Drop
<1> QED BY <1>1 DEF TypeOK, MapType, Drop, Pends, Readies

LEMMA FailType ==
  ASSUME TypeOK, NEW X, Fail(X)
  PROVE  StreamType'
  BY DEF TypeOK, StreamType, Fail, Streams

LEMMA OnReconnectingType ==
  ASSUME TypeOK, StreamsOnReconnecting
  PROVE  StreamType'
  BY DEF TypeOK, StreamType, StreamsOnReconnecting, Streams

LEMMA AbortedType ==
  ASSUME NEW at \in Phases
  PROVE  Aborted(at) \in Phases
  BY DEF Phases, Aborted

LEMMA OpenSocketType ==
  ASSUME TypeOK, NEW c \in Callers \cup {None}, OpenSocket(c)
  PROVE  AttType'
<1>1. seq + 1 \in Attempts /\ seq' \in Nat
  BY WsSessionAssumption DEF TypeOK, AttType, OpenSocket, Attempts
<1>2. phase' \in [Attempts -> Phases] /\ by' \in [Attempts -> Callers \cup {None}]
  BY <1>1 DEF TypeOK, AttType, OpenSocket, Phases
<1> QED BY <1>1, <1>2 DEF TypeOK, AttType, OpenSocket

LEMMA EnsureType ==
  ASSUME TypeOK, NEW c \in Callers, EnsureConnected(c)
  PROVE  ConnType' /\ AttType'
<1>1. CASE state = "open"
  BY <1>1, Unch DEF EnsureConnected, TypeOK, ConnType, Outcomes
<1>2. CASE state # "open"
  <2>1. ConnType'
    BY <1>2 DEF EnsureConnected, TypeOK, ConnType, States
  <2>2. AttType'
    BY <1>2, Unch, OpenSocketType DEF EnsureConnected
  <2> QED BY <2>1, <2>2
<1> QED BY <1>1, <1>2

\* What scheduleReconnect assigns, but for the socket.
TimerType == timer \in BOOLEAN /\ stable \in Attempts \cup {0} /\ tries \in Nat
LinkType == ConnType /\ AttType /\ TimerType /\ MapType /\ LocalType /\ StreamType /\ RpcType /\ WriteType

LEMMA ScheduleType ==
  ASSUME TypeOK, NEW fatal \in BOOLEAN, NEW bump \in Nat, NEW k \in Attempts \cup {0},
         NEW at \in [Attempts -> Phases], NEW failed \in SUBSET Attempts,
         ScheduleReconnect(fatal, bump, k, at, failed)
  PROVE  LinkType'
<1>1. LocalType' /\ WriteType' /\ UNCHANGED <<initial, by>>
  BY Unch DEF ScheduleReconnect
<1>2. seq \in Nat /\ TimerType /\ initial \in SUBSET Attempts /\ by \in [Attempts -> Callers \cup {None}]
  BY DEF TypeOK, AttType, SockType, TimerType
<1>3. CASE timer \/ state = "closed"
  <2>1. ConnType' /\ MapType' /\ StreamType' /\ RpcType'
    BY <1>3, Unch DEF ScheduleReconnect
  <2>2. TimerType'
    BY <1>3, <1>2 DEF ScheduleReconnect, TimerType
  <2>3. AttType'
    BY <1>3, <1>1, <1>2 DEF ScheduleReconnect, AttType
  <2> QED BY <1>1, <2>1, <2>2, <2>3 DEF LinkType
<1>4. CASE ~(timer \/ state = "closed") /\ ~fatal /\ RetriesLeft
  <2> USE <1>4 DEF ScheduleReconnect
  <2>1. ConnType'
    BY DEF TypeOK, ConnType, Retry, States
  <2>2. AttType'
    BY <1>1, <1>2 DEF AttType
  <2>3. TimerType'
    BY <1>2 DEF Retry, TimerType
  <2>4. pend' \in [Subs -> Pends]
    BY DEF TypeOK, MapType, Retry, PendAgain, Pends
  <2>5. MapType'
    <3>1. IsFiniteSet(replay \cup subs)
      BY FS_Union DEF TypeOK, MapType
    <3> QED BY <2>4, <3>1 DEF TypeOK, MapType, Retry, MarkReplay
  <2>6. StreamType' /\ RpcType'
    BY OnReconnectingType, RejectType DEF Retry
  <2> QED BY <1>1, <2>1, <2>2, <2>3, <2>5, <2>6 DEF LinkType
<1>5. CASE ~(timer \/ state = "closed") /\ ~(~fatal /\ RetriesLeft)
  <2>0. FailConnection(k, at, failed) /\ seq' = seq + bump + 1
    BY <1>5 DEF ScheduleReconnect
  <2>1. ConnType'
    BY <2>0, SettleType DEF FailConnection, ConnType, States, Outcomes
  <2>2. \A j \in Attempts : Aborted(at[j]) \in Phases
    BY AbortedType
  <2>3. phase' \in [Attempts -> Phases]
    BY <2>0, <2>2 DEF FailConnection
  <2>4. AttType'
    BY <2>0, <2>3, <1>1, <1>2 DEF FailConnection, AttType
  <2>5. TimerType'
    BY <2>0, <1>2 DEF FailConnection, TimerType
  <2>6. MapType'
    BY <2>0, DropType DEF FailConnection, TypeOK, MapType
  <2>7. StreamType' /\ RpcType'
    BY <2>0, FailType, RejectType DEF FailConnection
  <2> QED BY <1>1, <2>1, <2>4, <2>5, <2>6, <2>7 DEF LinkType
<1> QED BY <1>3, <1>4, <1>5

LEMMA ReplaceType ==
  ASSUME TypeOK, NEW fatal \in BOOLEAN, Replace(fatal)
  PROVE  LinkType' /\ socket' = 0 /\ sock' \in [Attempts -> Socks]
<1>1. sock' \in [Attempts -> Socks] /\ socket' = 0
  BY DEF TypeOK, SockType, Replace, Socks
<1>2. active \in Attempts \cup {0} /\ phase \in [Attempts -> Phases] /\ catches \in SUBSET Attempts
  BY DEF TypeOK, AttType
<1> DEFINE k == IF active = socket THEN 0 ELSE active
<1>3. k \in Attempts \cup {0}
  BY <1>2
<1>4. ScheduleReconnect(fatal, 0, k, phase, catches)
  BY DEF Replace
<1> HIDE DEF k
<1> QED BY <1>1, <1>2, <1>3, <1>4, ScheduleType

\* Steps of the connection: attempts, timers, events of the socket.
AttemptStep(k) ==
  HeadersReady(k) \/ AttemptFails(k) \/ Created(k) \/ LateSocket(k) \/ AttemptDeadline(k) \/ AttemptCaught(k)
SocketStep ==
  \/ TimerFires \/ StableFires \/ OnOpen \/ ReplayOnOpen \/ ReplayFails \/ OnError \/ OnClose
  \/ OnMalformedFrame \/ OnBadFrame \/ Reconnect \/ LivenessFails \/ Close
\* ... of a subscription, and of a request.
SubStep(s) ==
  \/ Subscribe(s) \/ SubscribeContinues(s) \/ ReadyDeadline(s) \/ CloseStream(s) \/ SendUnsubscribe(s)
  \/ Acknowledged(s) \/ Refused(s) \/ Unsubscribed(s)
RequestStep(r) == Request(r) \/ RequestContinues(r) \/ RequestDeadline(r) \/ Answered(r)

LEMMA NextSteps ==
  ASSUME [Next]_vars
  PROVE  \/ \E k \in Attempts : AttemptStep(k)
         \/ SocketStep
         \/ \E s \in Subs : SubStep(s)
         \/ \E r \in Reqs : RequestStep(r)
         \/ UNCHANGED vars
  BY DEF Next, Step, AttemptStep, SocketStep, SubStep, RequestStep

\* As long as no attempt is disowned, a failure is caught while none is active.
OwningStep(k) ==
  \/ HeadersReady(k) \/ AttemptFails(k) \/ Created(k) \/ LateSocket(k) \/ AttemptDeadline(k)
  \/ active = 0 /\ AttemptCaught(k)

LEMMA OwningSteps ==
  ASSUME [Next]_vars, ~disowned'
  PROVE  \/ \E k \in Attempts : OwningStep(k)
         \/ SocketStep
         \/ \E s \in Subs : SubStep(s)
         \/ \E r \in Reqs : RequestStep(r)
         \/ UNCHANGED vars
  BY DEF Next, Step, OwningStep, SocketStep, SubStep, RequestStep

\* The history is not forgotten.
LEMMA DisownedStays ==
  ASSUME [Next]_vars, ~disowned'
  PROVE  ~disowned
<1>1. CASE UNCHANGED disowned
  BY <1>1
<1>2. ASSUME disowned' = (disowned \/ active # 0) PROVE ~disowned
  BY <1>2
<1> QED BY <1>1, <1>2 DEF Next, vars

LEMMA AttemptType ==
  ASSUME TypeOK, NEW k \in Attempts, AttemptStep(k)
  PROVE  TypeOK'
<1> USE DEF AttType, SockType
<1>0. /\ ConnType /\ AttType /\ SockType /\ faults \in Nat
      /\ \A at \in Phases : Aborted(at) \in Phases
  BY AbortedType DEF TypeOK
<1>1. CASE HeadersReady(k)
  <2>1. AttType'
    BY <1>0, <1>1 DEF HeadersReady, Phases
  <2> QED BY <1>1, <2>1, Unch DEF HeadersReady, TypeOK
<1>2. CASE AttemptFails(k)
  <2> DEFINE left == IF active = k THEN 0 ELSE active
             at   == [phase EXCEPT ![k] = "ended"]
  <2>1. left \in Attempts \cup {0} /\ at \in [Attempts -> Phases] /\ catches \in SUBSET Attempts
    BY <1>0 DEF Phases
  <2>2. NetType' /\ faults' \in Nat /\ UNCHANGED <<socket, sock, replaying>>
    BY <1>2, Unch, FaultType DEF AttemptFails
  <2>3. ASSUME (IF state = "connecting" THEN GiveUp ELSE UNCHANGED connVars),
               active' = left, phase' = at, UNCHANGED <<seq, catches>>, NoReconnect
        PROVE  LinkType'
    <3>1. ConnType'
      BY <2>3, SettleType, Unch DEF GiveUp, ConnType, States, Outcomes
    <3>2. AttType' /\ TimerType'
      BY <1>0, <2>1, <2>3 DEF NoReconnect, TimerType
    <3> QED BY <2>3, <3>1, <3>2, Unch DEF NoReconnect, LinkType
  <2>4. \/ /\ (IF state = "connecting" THEN GiveUp ELSE UNCHANGED connVars)
           /\ active' = left /\ phase' = at /\ UNCHANGED <<seq, catches>> /\ NoReconnect
        \/ ScheduleReconnect(phase[k] = "headers", 0, left, at, catches)
    BY <1>2 DEF AttemptFails
  <2> HIDE DEF left, at
  <2>5. LinkType'
    BY <2>1, <2>3, <2>4, ScheduleType
  <2> QED BY <1>0, <2>2, <2>5 DEF LinkType, TimerType, TypeOK
<1>3. CASE Created(k)
  <2>1. AttType'
    BY <1>0, <1>3 DEF Created, Phases
  <2>2. SockType'
    BY <1>0, <1>3 DEF Created, Socks
  <2>3. NetType'
    BY <1>3 DEF Created, NetType
  <2> QED BY <1>3, <2>1, <2>2, <2>3, Unch DEF Created, TypeOK
<1>4. CASE LateSocket(k)
  <2>1. AttType'
    BY <1>0, <1>4 DEF LateSocket, Phases
  <2>2. SockType'
    BY <1>0, <1>4 DEF LateSocket, Socks
  <2> QED BY <1>4, <2>1, <2>2, Unch DEF LateSocket, TypeOK
<1>5. CASE AttemptDeadline(k)
  <2> DEFINE at     == [phase EXCEPT ![k] = Aborted(@)]
             failed == IF phase[k] = "socket" THEN catches ELSE catches \cup {k}
  <2>1. at \in [Attempts -> Phases] /\ failed \in SUBSET Attempts
    BY <1>0
  <2>2. NetType' /\ faults' \in Nat /\ replaying' = replaying /\ socket' \in Attempts \cup {0}
    BY <1>0, <1>5, Unch, FaultType DEF AttemptDeadline
  <2>3. sock' \in [Attempts -> Socks]
    BY <1>0, <1>5 DEF AttemptDeadline, Socks
  <2>4. ASSUME GiveUp, seq' = seq + 1, active' = 0, phase' = at, catches' = failed,
               late' = late \cup ({by[k]} \cap Reqs),
               UNCHANGED <<timer, stable, tries, subVars, rpc, pending, sentOn, initial, by>>
        PROVE  LinkType'
    <3>1. ConnType'
      BY <2>4, SettleType DEF GiveUp, ConnType, States, Outcomes
    <3>2. AttType' /\ TimerType'
      BY <1>0, <2>1, <2>4 DEF TimerType
    <3>3. WriteType'
      BY <2>4 DEF TypeOK, WriteType
    <3> QED BY <2>4, <3>1, <3>2, <3>3, Unch DEF LinkType
  <2>5. \/ /\ GiveUp /\ seq' = seq + 1 /\ active' = 0 /\ phase' = at /\ catches' = failed
           /\ late' = late \cup ({by[k]} \cap Reqs)
           /\ UNCHANGED <<timer, stable, tries, subVars, rpc, pending, sentOn, initial, by>>
        \/ ScheduleReconnect(FALSE, 1, 0, at, failed)
    BY <1>5 DEF AttemptDeadline
  <2> HIDE DEF at, failed
  <2>6. LinkType'
    BY <2>1, <2>4, <2>5, ScheduleType
  <2> QED BY <2>2, <2>3, <2>6 DEF LinkType, TimerType, TypeOK, SockType
<1>6. CASE AttemptCaught(k)
  <2>1. NetType' /\ faults' \in Nat /\ UNCHANGED <<socket, sock, replaying>>
    BY <1>6, Unch DEF AttemptCaught
  <2>2. catches \ {k} \in SUBSET Attempts
    BY <1>0
  <2>3. ASSUME catches' = catches \ {k}, PreparedFails, UNCHANGED <<seq, active, phase>>, NoReconnect
        PROVE  LinkType'
    <3>1. ConnType'
      BY <2>3, SettleType, Unch DEF PreparedFails, GiveUp, ConnType, States, Outcomes
    <3>2. AttType' /\ TimerType'
      BY <1>0, <2>2, <2>3 DEF NoReconnect, TimerType
    <3> QED BY <2>3, <3>1, <3>2, Unch DEF NoReconnect, LinkType
  <2>4. LinkType'
    BY <1>0, <1>6, <2>2, <2>3, ScheduleType DEF AttemptCaught
  <2> QED BY <1>0, <2>1, <2>4 DEF LinkType, TimerType, TypeOK
<1> QED BY <1>1, <1>2, <1>3, <1>4, <1>5, <1>6 DEF AttemptStep

\* SetToSeq puts every member of a finite set at one position.
LEMMA SetToSeqFacts ==
  ASSUME NEW T, IsFiniteSet(T)
  PROVE  LET q == SetToSeq(T) IN
         /\ q \in Seq(T)
         /\ \A i, j \in DOMAIN q : q[i] = q[j] => i = j
         /\ \A x \in T : \E i \in DOMAIN q : q[i] = x
<1> DEFINE n == Cardinality(T)
<1>1. n \in Nat /\ ExistsBijection(1 .. n, T)
  BY FS_CardinalityType
<1>2. PICK f \in [1 .. n -> T] : IsInjective(f)
  BY <1>1 DEF ExistsBijection, Bijection, Injection
<1> DEFINE q == SetToSeq(T)
<1>3. q \in [1 .. n -> T] /\ IsInjective(q)
  BY <1>2 DEF SetToSeq
<1>4. q \in Injection(1 .. n, T)
  BY <1>3 DEF Injection
<1>5. Cardinality(1 .. n) = n /\ IsFiniteSet(1 .. n)
  BY <1>1, FS_Interval
<1>6. q \in Surjection(1 .. n, T)
  BY <1>4, <1>5, FS_Injection
<1>7. q \in Seq(T)
  BY <1>1, <1>3
<1>8. DOMAIN q = 1 .. n
  BY <1>3
<1>9. \A x \in T : \E i \in DOMAIN q : q[i] = x
  BY <1>6, <1>8 DEF Surjection
<1>10. \A i, j \in DOMAIN q : q[i] = q[j] => i = j
  BY <1>3 DEF IsInjective
<1> QED BY <1>7, <1>9, <1>10

\* The frames of a replay.
Replayed == {<<"subscribe", s>> : s \in replay}

LEMMA ReplayFinite == IsFiniteSet(replay) => IsFiniteSet(Replayed)
<1> SUFFICES ASSUME IsFiniteSet(replay) PROVE IsFiniteSet(Replayed)
  OBVIOUS
<1> DEFINE g == [s \in replay |-> <<"subscribe", s>>]
<1>1. g \in Surjection(replay, Replayed)
  BY DEF Surjection, Replayed
<1> QED BY <1>1, FS_Surjection

LEMMA ReplaySeqType ==
  ASSUME IsFiniteSet(replay), replay \in SUBSET Subs
  PROVE  SetToSeq({<<"subscribe", s>> : s \in replay}) \in Seq(Frames)
<1>1. SetToSeq(Replayed) \in Seq(Replayed)
  BY ReplayFinite, SetToSeqFacts
<1>2. Replayed \subseteq Frames
  BY DEF Replayed, Frames, Callers
<1>3. SetToSeq(Replayed) \in Seq(Frames)
  BY <1>1, <1>2
<1> QED BY <1>3 DEF Replayed

LEMMA WriteType0 ==
  ASSUME TypeOK
  PROVE  \A m \in {"subscribe", "unsubscribe", "request"}, c \in Callers : Write(<<m, c>>) => wire' \in Seq(Frames)
  BY DEF TypeOK, NetType, Write, Frames

LEMMA SocketType ==
  ASSUME TypeOK, SocketStep
  PROVE  TypeOK'
<1>0. /\ ConnType /\ AttType /\ SockType /\ MapType /\ NetType /\ faults \in Nat
      /\ None \in Callers \cup {None}
  BY DEF TypeOK
\* A step that replaces the socket and leaves the wire alone.
<1>a. ASSUME NEW fatal \in BOOLEAN, Replace(fatal), replaying' \in Attempts \cup {0}, UNCHANGED netVars, faults' \in Nat
      PROVE  TypeOK'
  <2>1. LinkType' /\ socket' = 0 /\ sock' \in [Attempts -> Socks]
    BY <1>a, ReplaceType
  <2>2. SockType'
    BY <1>0, <1>a, <2>1 DEF LinkType, TimerType, SockType
  <2> QED BY <1>a, <2>1, <2>2, Unch DEF LinkType, TypeOK
<1>1. CASE TimerFires
  <2>1. AttType'
    BY <1>0, <1>1, OpenSocketType DEF TimerFires
  <2>2. ConnType'
    BY <1>0, <1>1 DEF TimerFires, ConnType, States
  <2>3. SockType'
    BY <1>0, <1>1 DEF TimerFires, SockType
  <2> QED BY <1>1, <2>1, <2>2, <2>3, Unch DEF TimerFires, TypeOK
<1>2. CASE StableFires
  <2>1. SockType'
    BY <1>0, <1>2 DEF StableFires, SockType
  <2> QED BY <1>2, <2>1, Unch DEF StableFires, TypeOK
<1>3. CASE OnOpen
  <2>1. ConnType'
    BY <1>3, SettleType DEF OnOpen, ConnType, States, Outcomes
  <2>2. SockType'
    BY <1>0, <1>3 DEF OnOpen, SockType, Socks
  <2>3. AttType'
    BY <1>0, <1>3 DEF OnOpen, AttType
  <2> QED BY <1>3, <2>1, <2>2, <2>3, Unch DEF OnOpen, TypeOK
<1>4. CASE ReplayOnOpen
  <2>1. MapType'
    BY <1>0, <1>4, FS_EmptySet DEF ReplayOnOpen, MapType
  <2>2. wire' \in Seq(Frames)
    <3>1. CASE Current(replaying)
      <4> DEFINE q == SetToSeq({<<"subscribe", s>> : s \in replay})
      <4>1. q \in Seq(Frames) /\ wire \in Seq(Frames)
        BY <1>0, ReplaySeqType DEF MapType, NetType
      <4>2. wire' = wire \o q
        BY <1>4, <3>1 DEF ReplayOnOpen
      <4> HIDE DEF q
      <4> QED BY <4>1, <4>2
    <3> QED BY <1>0, <1>4, <3>1 DEF ReplayOnOpen, NetType
  <2>3. NetType' /\ SockType'
    BY <1>0, <1>4, <2>2 DEF ReplayOnOpen, NetType, SockType
  <2> QED BY <1>4, <2>1, <2>3, Unch DEF ReplayOnOpen, TypeOK
<1>5. CASE ReplayFails \/ OnError
  BY <1>0, <1>5, <1>a, FaultType DEF ReplayFails, OnError, SockType
<1>6. CASE OnClose
  <2>1. faults' \in Nat /\ UNCHANGED <<replaying, netVars>>
    BY <1>0, <1>6, FaultType DEF OnClose
  <2>2. CASE state = "reconnecting"
    <3>1. SockType' /\ AttType'
      BY <1>0, <1>6, <2>2 DEF OnClose, SockType, AttType, Socks
    <3> QED BY <1>6, <2>1, <2>2, <3>1, Unch DEF OnClose, TypeOK
  <2>3. CASE state # "reconnecting"
    BY <1>0, <1>6, <1>a, <2>1, <2>3 DEF OnClose, SockType
  <2> QED BY <2>2, <2>3
<1>7. CASE OnMalformedFrame
  BY <1>7, RejectType, FailType, FaultType, Unch DEF OnMalformedFrame, StreamsOnError, TypeOK
<1>8. CASE OnBadFrame
  <2>1. SockType'
    BY <1>0, <1>8 DEF OnBadFrame, SockType, Socks
  <2> QED BY <1>8, <2>1, FailType, FaultType, Unch DEF OnBadFrame, StreamsOnError, TypeOK
<1>9. CASE Reconnect
  BY <1>0, <1>9, <1>a, FaultType DEF Reconnect, SockType
<1>10. CASE LivenessFails
  <2>1. CASE state = "open"
    BY <1>0, <1>10, <1>a, <2>1 DEF LivenessFails, SockType
  <2>2. CASE state # "open"
    <3>1. RpcType'
      BY <1>10, <2>2 DEF LivenessFails, TypeOK, RpcType, Rpcs
    <3>2. SockType'
      BY <1>0, <1>10, <2>2 DEF LivenessFails, SockType
    <3> QED BY <1>10, <2>2, <3>1, <3>2, Unch DEF LivenessFails, TypeOK
  <2> QED BY <2>1, <2>2
<1>11. CASE Close
  <2>1. ConnType'
    BY <1>11, SettleType DEF Close, ConnType, States, Outcomes
  <2>2. phase' \in [Attempts -> Phases]
    BY <1>0, <1>11, AbortedType DEF Close, AttType
  <2>3. AttType'
    BY <1>0, <1>11, <2>2 DEF Close, AttType
  <2>4. SockType'
    BY <1>0, <1>11 DEF Close, SockType, Socks
  <2>5. MapType'
    BY <1>0, <1>11, DropType DEF Close, MapType
  <2>6. StreamType'
    BY <1>11 DEF Close, TypeOK, StreamType, Streams
  <2>7. RpcType'
    BY <1>11, RejectType DEF Close
  <2> QED BY <1>11, <2>1, <2>3, <2>4, <2>5, <2>6, <2>7, Unch DEF Close, TypeOK
<1> QED BY <1>1, <1>2, <1>3, <1>4, <1>5, <1>6, <1>7, <1>8, <1>9, <1>10, <1>11 DEF SocketStep

LEMMA SubType ==
  ASSUME TypeOK, NEW s \in Subs, SubStep(s)
  PROVE  TypeOK'
<1>0. /\ ConnType /\ AttType /\ MapType /\ LocalType /\ StreamType /\ NetType /\ faults \in Nat
      /\ s \in Callers
  BY DEF TypeOK, Callers
<1>1. CASE Subscribe(s)
  <2>1. ConnType' /\ AttType'
    BY <1>0, <1>1, EnsureType DEF Subscribe
  <2>2. IsFiniteSet(subs') /\ IsFiniteSet(replay')
    BY <1>0, <1>1, FS_AddElement DEF Subscribe, MapType
  <2>3. MapType'
    BY <1>0, <1>1, <2>2 DEF Subscribe, MapType, Pends, Readies
  <2>4. LocalType'
    BY <1>0, <1>1 DEF Subscribe, LocalType, AttType
  <2>5. StreamType'
    BY <1>0, <1>1 DEF Subscribe, StreamType, Streams
  <2> QED BY <1>1, <2>1, <2>3, <2>4, <2>5, Unch DEF Subscribe, TypeOK
<1>2. CASE SubscribeContinues(s)
  <2>1. ConnType'
    BY <1>0, <1>2 DEF SubscribeContinues, ConnType, Outcomes
  <2>2. server' = server /\ UNCHANGED <<attVars, sockVars, openAt, unsubs, reqVars>>
    BY <1>2 DEF SubscribeContinues
  <2>3. MapType' /\ StreamType' /\ sentHere' \in SUBSET Subs /\ wire' \in Seq(Frames) /\ faults' \in Nat
    <3>1. ASSUME Write(<<"subscribe", s>>), sentHere' = sentHere \cup {s}, sent' = sent \cup {s},
                 UNCHANGED <<subs, replay, pend, ready, gone, stream, faults>>
          PROVE  MapType' /\ StreamType' /\ sentHere' \in SUBSET Subs /\ wire' \in Seq(Frames) /\ faults' \in Nat
      <4>1. wire' \in Seq(Frames)
        BY <1>0, <3>1, WriteType0
      <4> QED BY <1>0, <3>1, <4>1 DEF MapType, StreamType, LocalType
    <3>2. ASSUME Drop({s}), Fail({s}), faults' \in Nat, UNCHANGED <<wire, sentHere>>
          PROVE  MapType' /\ StreamType' /\ sentHere' \in SUBSET Subs /\ wire' \in Seq(Frames) /\ faults' \in Nat
      BY <1>0, <3>2, DropType, FailType DEF LocalType, NetType
    <3>3. ASSUME UNCHANGED <<subs, sent, replay, pend, ready, gone, stream, wire, sentHere, faults>>
          PROVE  MapType' /\ StreamType' /\ sentHere' \in SUBSET Subs /\ wire' \in Seq(Frames) /\ faults' \in Nat
      BY <1>0, <3>3 DEF MapType, StreamType, LocalType, NetType
    <3> QED BY <1>0, <1>2, <3>1, <3>2, <3>3, FaultType DEF SubscribeContinues
  <2>4. LocalType' /\ NetType'
    BY <1>0, <2>2, <2>3 DEF LocalType, NetType
  <2> QED BY <1>2, <2>1, <2>2, <2>3, <2>4, Unch DEF TypeOK
<1>3. CASE ReadyDeadline(s)
  <2>1. LocalType'
    BY <1>0, <1>3 DEF ReadyDeadline, QueueUnsubscribe, LocalType
  <2> QED BY <1>3, <2>1, DropType, FailType, FaultType, Unch DEF ReadyDeadline, TypeOK
<1>4. CASE CloseStream(s)
  <2>1. LocalType'
    BY <1>0, <1>4 DEF CloseStream, QueueUnsubscribe, LocalType
  <2>2. IsFiniteSet(subs') /\ IsFiniteSet(replay')
    BY <1>0, <1>4, FS_Subset DEF CloseStream, MapType
  <2>3. MapType' /\ StreamType'
    BY <1>0, <1>4, <2>2 DEF CloseStream, MapType, StreamType, Pends, Readies, Streams
  <2> QED BY <1>4, <2>1, <2>3, Unch DEF CloseStream, TypeOK
<1>5. CASE SendUnsubscribe(s)
  <2>1. LocalType'
    BY <1>0, <1>5 DEF SendUnsubscribe, LocalType
  <2>2. NetType'
    BY <1>0, <1>5, WriteType0 DEF SendUnsubscribe, NetType
  <2> QED BY <1>5, <2>1, <2>2, Unch DEF SendUnsubscribe, TypeOK
<1>6. ASSUME NEW m, Handled(m, s)
      PROVE  /\ wire' \in Seq(Frames) /\ ConnType' /\ AttType' /\ SockType' /\ LocalType' /\ WriteType'
  <2>1. wire' \in Seq(Frames)
    BY <1>0, <1>6 DEF Handled, NetType
  <2> QED BY <1>6, <2>1, Unch DEF Handled
<1>7. CASE Acknowledged(s)
  <2>1. MapType'
    BY <1>0, <1>7 DEF Acknowledged, MapType, Pends, Readies
  <2>2. StreamType'
    BY <1>0, <1>7 DEF Acknowledged, StreamOnResubscribed, StreamType, Streams
  <2>3. NetType'
    BY <1>0, <1>6, <1>7 DEF Acknowledged, NetType
  <2> QED BY <1>6, <1>7, <2>1, <2>2, <2>3, Unch DEF Acknowledged, TypeOK
<1>8. CASE Refused(s)
  <2>1. MapType' /\ StreamType'
    BY <1>8, DropType, FailType, Unch DEF Refused
  <2>2. NetType'
    BY <1>0, <1>6, <1>8 DEF Refused, NetType
  <2> QED BY <1>6, <1>8, <2>1, <2>2, FaultType, Unch DEF Refused, TypeOK
<1>9. CASE Unsubscribed(s)
  <2>1. NetType'
    BY <1>0, <1>6, <1>9 DEF Unsubscribed, NetType
  <2> QED BY <1>6, <1>9, <2>1, Unch DEF Unsubscribed, TypeOK
<1> QED BY <1>1, <1>2, <1>3, <1>4, <1>5, <1>7, <1>8, <1>9 DEF SubStep

LEMMA RequestType ==
  ASSUME TypeOK, NEW r \in Reqs, RequestStep(r)
  PROVE  TypeOK'
<1>0. /\ ConnType /\ AttType /\ SockType /\ RpcType /\ WriteType /\ NetType /\ faults \in Nat
      /\ r \in Callers
  BY DEF TypeOK, Callers
<1>1. CASE Request(r)
  <2>1. ConnType' /\ AttType'
    BY <1>0, <1>1, EnsureType DEF Request
  <2>2. RpcType' /\ WriteType'
    BY <1>0, <1>1 DEF Request, RpcType, WriteType, Rpcs
  <2> QED BY <1>1, <2>1, <2>2, Unch DEF Request, TypeOK
<1>2. CASE RequestContinues(r)
  <2>1. ConnType'
    BY <1>0, <1>2 DEF RequestContinues, ConnType, Outcomes
  <2>2. RpcType'
    BY <1>0, <1>2 DEF RequestContinues, RpcType, Rpcs
  <2>3. WriteType' /\ faults' \in Nat
    BY <1>0, <1>2, FaultType DEF RequestContinues, WriteType, SockType
  <2>4. NetType'
    BY <1>0, <1>2, WriteType0 DEF RequestContinues, NetType
  <2> QED BY <1>2, <2>1, <2>2, <2>3, <2>4, Unch DEF RequestContinues, TypeOK
<1>3. CASE RequestDeadline(r)
  <2>1. RpcType' /\ WriteType' /\ faults' \in Nat
    BY <1>0, <1>3, FaultType DEF RequestDeadline, RpcType, WriteType, Rpcs
  <2> QED BY <1>3, <2>1, Unch DEF RequestDeadline, TypeOK
<1>4. CASE Answered(r)
  <2>1. NetType'
    BY <1>0, <1>4 DEF Answered, Handled, NetType
  <2>2. RpcType'
    BY <1>0, <1>4 DEF Answered, Handled, RpcType, Rpcs
  <2>3. MapType' /\ StreamType' /\ LocalType' /\ WriteType'
    BY <1>4, Unch DEF Answered, Handled
  <2> QED BY <1>4, <2>1, <2>2, <2>3, Unch DEF Answered, Handled, TypeOK
<1> QED BY <1>1, <1>2, <1>3, <1>4 DEF RequestStep

LEMMA TypeStep == TypeOK /\ [Next]_vars => TypeOK'
<1> SUFFICES ASSUME TypeOK, [Next]_vars PROVE TypeOK'
  OBVIOUS
<1>1. CASE UNCHANGED vars
  BY <1>1, Unch DEF vars, sessionVars, TypeOK
<1> QED BY <1>1, NextSteps, AttemptType, SocketType, SubType, RequestType

-----------------------------------------------------------------------------
(***************************************************************************)
(* The connection: there is an active attempt exactly while the state is   *)
(* connecting, it is the last one, and no socket is left from another.     *)
(* The failures that are still to be caught belong to attempts whose state *)
(* was given up with them.                                                 *)
(***************************************************************************)
Down == {"idle", "reconnecting", "closed"}

ActiveInv ==
  /\ active # 0 <=> state = "connecting"
  /\ active # 0 => active = seq /\ phase[active] \in {"headers", "creating", "socket"}
  /\ \A k \in Attempts : phase[k] \in {"headers", "creating"} => k = active
  /\ catches # {} => state # "open"

SocketInv ==
  /\ timer <=> state = "reconnecting"
  /\ state \in Down => socket = 0
  /\ state = "open" => socket # 0 /\ sock[socket] \in {"open", "closed"}
  /\ state = "connecting" => socket \in {0, active}
  /\ active # 0 /\ socket = active => phase[active] = "socket" /\ sock[socket] = "connecting"
  /\ active # 0 /\ phase[active] = "socket" => socket = active
  /\ \A k \in Attempts : sock[k] \in {"connecting", "open"} => k = socket

ConnInv == ActiveInv /\ SocketInv

LEMMA ConnUnch ==
  ASSUME ConnInv, UNCHANGED <<state, seq, active, phase, catches, socket, sock, timer>>
  PROVE  ConnInv'
<1>1. ActiveInv'
  BY DEF ConnInv, ActiveInv
<1>2. SocketInv'
  BY DEF ConnInv, SocketInv
<1> QED BY <1>1, <1>2 DEF ConnInv

\* After scheduleReconnect without a socket nothing is under way.
LEMMA ScheduleConn ==
  ASSUME TypeOK, ConnInv, NEW fatal \in BOOLEAN, NEW bump \in Nat, NEW at \in [Attempts -> Phases],
         NEW failed \in SUBSET Attempts, ScheduleReconnect(fatal, bump, 0, at, failed),
         \A k \in Attempts : at[k] \notin {"headers", "creating"},
         socket' = 0, \A k \in Attempts : sock'[k] \notin {"connecting", "open"}
  PROVE  ConnInv' /\ state' \in Down
<1>0. 0 \notin Attempts
  BY DEF Attempts
<1>1. active' = 0
  BY DEF ScheduleReconnect, FailConnection
<1>2. \A k \in Attempts : phase'[k] = at[k]
  BY <1>0 DEF ScheduleReconnect, FailConnection
<1>3. state' \in Down /\ (timer' <=> state' = "reconnecting")
  <2>1. CASE timer \/ state = "closed"
    BY <2>1 DEF ScheduleReconnect, ConnInv, SocketInv, Down, connVars
  <2>2. CASE ~(timer \/ state = "closed") /\ ~fatal /\ RetriesLeft
    BY <2>2 DEF ScheduleReconnect, Retry, Down
  <2>3. CASE ~(timer \/ state = "closed") /\ ~(~fatal /\ RetriesLeft)
    BY <2>3 DEF ScheduleReconnect, FailConnection, Down
  <2> QED BY <2>1, <2>2, <2>3
<1>4. ActiveInv'
  BY <1>1, <1>2, <1>3 DEF ActiveInv, Down
<1>5. SocketInv'
  BY <1>1, <1>3 DEF SocketInv, Down
<1> QED BY <1>3, <1>4, <1>5 DEF ConnInv

\* The state that GiveUp leaves, when the attempt had no socket or it is closed.
LEMMA IdleConn ==
  ASSUME TypeOK, ConnInv, state' = "idle", active' = 0, socket' = 0, timer' = FALSE,
         \A k \in Attempts : phase'[k] \notin {"headers", "creating"},
         \A k \in Attempts : sock'[k] \notin {"connecting", "open"}
  PROVE  ConnInv'
<1>1. ActiveInv'
  BY DEF ActiveInv, Down
<1>2. SocketInv'
  BY DEF SocketInv, Down
<1> QED BY <1>1, <1>2 DEF ConnInv

LEMMA ReplaceConn ==
  ASSUME TypeOK, ConnInv, NEW fatal \in BOOLEAN, Replace(fatal), socket # 0
  PROVE  ConnInv' /\ state' \in Down /\ ScheduleReconnect(fatal, 0, 0, phase, catches)
<1>1. (IF active = socket THEN 0 ELSE active) = 0
  BY DEF TypeOK, ConnType, ConnInv, ActiveInv, SocketInv, Down, States
<1>2. ScheduleReconnect(fatal, 0, 0, phase, catches) /\ socket' = 0
  BY <1>1 DEF Replace
<1>3. \A k \in Attempts : sock'[k] \notin {"connecting", "open"}
  BY DEF Replace, ConnInv, SocketInv
<1>4. \A k \in Attempts : phase[k] \notin {"headers", "creating"}
  BY <1>1 DEF ConnInv, ActiveInv, SocketInv, Attempts
<1>5. phase \in [Attempts -> Phases] /\ catches \in SUBSET Attempts
  BY DEF TypeOK, AttType
<1> QED BY <1>2, <1>3, <1>4, <1>5, ScheduleConn

\* An attempt begins, while nothing is under way.
LEMMA OpenSocketConn ==
  ASSUME TypeOK, ConnInv, NEW c, OpenSocket(c), state \in Down, state' = "connecting",
         timer' = FALSE, UNCHANGED <<socket, sock>>
  PROVE  ConnInv'
<1>1. /\ seq + 1 \in Attempts /\ seq + 1 # 0 /\ socket = 0
      /\ active' = seq + 1 /\ seq' = seq + 1
  BY WsSessionAssumption DEF TypeOK, AttType, OpenSocket, Attempts, ConnInv, SocketInv
<1>2. /\ phase'[seq + 1] \in {"headers", "creating"}
      /\ \A k \in Attempts : k # seq + 1 => phase'[k] = phase[k]
  BY <1>1 DEF TypeOK, AttType, OpenSocket
<1>3. \A k \in Attempts : phase[k] \notin {"headers", "creating"}
  BY DEF ConnInv, ActiveInv, Down, Attempts
<1>4. ActiveInv'
  BY <1>1, <1>2, <1>3 DEF ActiveInv
<1>5. SocketInv'
  BY <1>1, <1>2 DEF ConnInv, SocketInv, Down
<1> QED BY <1>4, <1>5 DEF ConnInv

LEMMA EnsureConn ==
  ASSUME TypeOK, ConnInv, NEW c, EnsureConnected(c), UNCHANGED sockVars
  PROVE  ConnInv'
<1>1. CASE state = "idle"
  <2>1. OpenSocket(c) /\ state' = "connecting" /\ state \in Down
    BY <1>1 DEF EnsureConnected, Down
  <2>2. timer' = FALSE /\ UNCHANGED <<socket, sock>>
    BY <1>1 DEF sockVars, ConnInv, SocketInv, TypeOK, SockType
  <2> QED BY <2>1, <2>2, OpenSocketConn
<1>2. CASE state # "idle"
  BY <1>2, ConnUnch DEF EnsureConnected, attVars, sockVars
<1> QED BY <1>1, <1>2

(***************************************************************************)
(* What losing the connection, or giving up an attempt to make it, means   *)
(* to subscriptions and requests.                                          *)
(***************************************************************************)
GivesUp == state = "connecting" /\ GiveUp /\ UNCHANGED <<subVars, rpc, pending, sentOn>>
Skips   == state \in Down /\ UNCHANGED <<connVars, subVars, rpc, pending, sentOn>>
Retries == Retry /\ UNCHANGED <<sentHere, openAt, unsubs, sentOn>>
GivesAllUp ==
  /\ state' = "idle" /\ Settle("err") /\ Drop(subs) /\ Fail(subs) /\ RejectRequests
  /\ UNCHANGED <<sentHere, openAt, unsubs, sentOn>>
LinkLost == GivesUp \/ Skips \/ Retries \/ GivesAllUp

LEMMA ScheduleLink ==
  ASSUME ConnInv, NEW fatal, NEW bump, NEW at, NEW failed, ScheduleReconnect(fatal, bump, 0, at, failed)
  PROVE  LinkLost
<1>1. CASE timer \/ state = "closed"
  BY <1>1 DEF ScheduleReconnect, LinkLost, Skips, Down, ConnInv, SocketInv, subVars
<1>2. CASE ~(timer \/ state = "closed") /\ ~fatal /\ RetriesLeft
  BY <1>2 DEF ScheduleReconnect, LinkLost, Retries
<1>3. CASE ~(timer \/ state = "closed") /\ ~(~fatal /\ RetriesLeft)
  BY <1>3 DEF ScheduleReconnect, FailConnection, LinkLost, GivesAllUp
<1> QED BY <1>1, <1>2, <1>3

LEMMA AttemptFailsConn ==
  ASSUME TypeOK, ConnInv, NEW k \in Attempts, AttemptFails(k)
  PROVE  ConnInv' /\ LinkLost /\ state' \in Down /\ socket' = 0 /\ UNCHANGED <<netVars, replaying>>
<1> DEFINE at == [phase EXCEPT ![k] = "ended"]
<1>1. k = active /\ state = "connecting" /\ k # 0 /\ phase[k] # "socket"
  BY DEF AttemptFails, ConnInv, ActiveInv, Attempts
<1>2. socket = 0 /\ timer = FALSE /\ catches \in SUBSET Attempts
  BY <1>1 DEF ConnInv, SocketInv, TypeOK, SockType, AttType
<1>3. at \in [Attempts -> Phases] /\ \A j \in Attempts : at[j] \notin {"headers", "creating"}
  BY <1>1 DEF TypeOK, AttType, Phases, ConnInv, ActiveInv
<1>4. socket' = 0 /\ \A j \in Attempts : sock'[j] \notin {"connecting", "open"}
  BY <1>2 DEF AttemptFails, ConnInv, SocketInv, Attempts
<1>5. \/ GiveUp /\ active' = 0 /\ phase' = at /\ NoReconnect
      \/ ScheduleReconnect(phase[k] = "headers", 0, 0, at, catches)
  BY <1>1 DEF AttemptFails
<1>6. UNCHANGED <<netVars, replaying>>
  BY DEF AttemptFails
<1> HIDE DEF at
<1>7. CASE GiveUp /\ active' = 0 /\ phase' = at /\ NoReconnect
  <2>1. ConnInv'
    BY <1>2, <1>3, <1>4, <1>7, IdleConn DEF GiveUp, NoReconnect
  <2> QED BY <1>1, <1>4, <1>6, <1>7, <2>1 DEF LinkLost, GivesUp, GiveUp, NoReconnect, Down, reqVars
<1>8. CASE ScheduleReconnect(phase[k] = "headers", 0, 0, at, catches)
  <2>1. (phase[k] = "headers") \in BOOLEAN
    OBVIOUS
  <2> DEFINE fatal == phase[k] = "headers"
  <2>2. ConnInv' /\ state' \in Down
    BY <1>2, <1>3, <1>4, <1>8, <2>1, ScheduleConn
  <2>3. LinkLost
    BY <1>8, ScheduleLink
  <2> QED BY <1>4, <1>6, <2>2, <2>3
<1> QED BY <1>5, <1>7, <1>8

LEMMA AttemptDeadlineConn ==
  ASSUME TypeOK, ConnInv, NEW k \in Attempts, AttemptDeadline(k)
  PROVE  ConnInv' /\ LinkLost /\ state' \in Down /\ socket' = 0 /\ UNCHANGED <<netVars, replaying>>
<1> DEFINE at     == [phase EXCEPT ![k] = Aborted(@)]
           failed == IF phase[k] = "socket" THEN catches ELSE catches \cup {k}
<1>1. k = active /\ state = "connecting" /\ k # 0
  BY DEF AttemptDeadline, ConnInv, ActiveInv, Attempts
<1>2. timer = FALSE /\ socket \in {0, k}
  BY <1>1 DEF ConnInv, SocketInv, TypeOK, SockType
<1>3. at \in [Attempts -> Phases]
  BY AbortedType DEF TypeOK, AttType
<1>4. \A j \in Attempts : at[j] \notin {"headers", "creating"}
  BY <1>1 DEF TypeOK, AttType, ConnInv, ActiveInv, Aborted
<1>5. failed \in SUBSET Attempts
  BY DEF TypeOK, AttType
<1>6. socket' = 0 /\ \A j \in Attempts : sock'[j] \notin {"connecting", "open"}
  <2>1. socket' = 0
    BY <1>2 DEF AttemptDeadline
  <2>2. /\ sock'[k] = IF socket = k THEN "closed" ELSE sock[k]
        /\ \A j \in Attempts : j # k => sock'[j] = sock[j]
    BY DEF AttemptDeadline, TypeOK, SockType
  <2>3. \A j \in Attempts : sock[j] \in {"connecting", "open"} => j = k /\ socket = k
    BY <1>2 DEF ConnInv, SocketInv, Attempts
  <2> QED BY <2>1, <2>2, <2>3
<1>7. \/ /\ GiveUp /\ active' = 0 /\ phase' = at
         /\ UNCHANGED <<timer, subVars, rpc, pending, sentOn>>
      \/ ScheduleReconnect(FALSE, 1, 0, at, failed)
  BY DEF AttemptDeadline
<1>8. UNCHANGED <<netVars, replaying>>
  BY DEF AttemptDeadline
<1> HIDE DEF at, failed
<1>9. CASE GiveUp /\ active' = 0 /\ phase' = at /\ UNCHANGED <<timer, subVars, rpc, pending, sentOn>>
  <2>1. ConnInv'
    BY <1>2, <1>3, <1>4, <1>6, <1>9, IdleConn DEF GiveUp
  <2> QED BY <1>1, <1>6, <1>8, <1>9, <2>1 DEF LinkLost, GivesUp, GiveUp, Down
<1>10. CASE ScheduleReconnect(FALSE, 1, 0, at, failed)
  <2>1. ConnInv' /\ state' \in Down
    BY <1>3, <1>4, <1>5, <1>6, <1>10, ScheduleConn
  <2>2. LinkLost
    BY <1>10, ScheduleLink
  <2> QED BY <1>6, <1>8, <2>1, <2>2
<1> QED BY <1>7, <1>9, <1>10

LEMMA AttemptCaughtConn ==
  ASSUME TypeOK, ConnInv, NEW k \in Attempts, active = 0, AttemptCaught(k)
  PROVE  ConnInv' /\ LinkLost /\ state' \in Down /\ socket' = 0 /\ UNCHANGED <<netVars, replaying>>
<1>1. state \in Down /\ active = 0 /\ socket = 0
  BY DEF AttemptCaught, ConnInv, ActiveInv, SocketInv, Down, TypeOK, ConnType, States
<1>2. catches \ {k} \in SUBSET Attempts /\ phase \in [Attempts -> Phases]
  BY DEF TypeOK, AttType
<1>3. /\ \A j \in Attempts : phase[j] \notin {"headers", "creating"}
      /\ \A j \in Attempts : sock[j] \notin {"connecting", "open"}
  BY <1>1 DEF ConnInv, ActiveInv, SocketInv, Attempts
<1>4. UNCHANGED <<netVars, replaying, socket, sock>>
  BY DEF AttemptCaught
<1>5. \/ /\ PreparedFails /\ catches' = catches \ {k} /\ UNCHANGED <<seq, active, phase>> /\ NoReconnect
      \/ ScheduleReconnect(FALSE, 0, 0, phase, catches \ {k})
  BY <1>1 DEF AttemptCaught
<1>6. CASE PreparedFails /\ catches' = catches \ {k} /\ UNCHANGED <<seq, active, phase>> /\ NoReconnect
  <2>1. UNCHANGED connVars
    BY <1>1, <1>6 DEF PreparedFails, Down
  <2>2. ActiveInv'
    BY <1>1, <1>3, <1>6, <2>1 DEF ActiveInv, connVars, Down
  <2>3. SocketInv'
    BY <1>4, <1>6, <2>1 DEF ConnInv, SocketInv, connVars, NoReconnect
  <2> QED BY <1>1, <1>4, <1>6, <2>1, <2>2, <2>3 DEF ConnInv, LinkLost, Skips, NoReconnect, reqVars, connVars
<1>7. CASE ScheduleReconnect(FALSE, 0, 0, phase, catches \ {k})
  <2>1. ConnInv' /\ state' \in Down
    BY <1>1, <1>2, <1>3, <1>4, <1>7, ScheduleConn
  <2>2. LinkLost
    BY <1>7, ScheduleLink
  <2> QED BY <1>1, <1>4, <2>1, <2>2
<1> QED BY <1>5, <1>6, <1>7

LEMMA AttemptConn ==
  ASSUME TypeOK, ConnInv, NEW k \in Attempts, OwningStep(k)
  PROVE  ConnInv'
<1>0. k # 0 /\ phase \in [Attempts -> Phases] /\ sock \in [Attempts -> Socks]
  BY DEF Attempts, TypeOK, AttType, SockType
<1>1. CASE HeadersReady(k)
  <2>1. k = active
    BY <1>1 DEF HeadersReady, ConnInv, ActiveInv
  <2>2. phase'[k] = "creating" /\ \A j \in Attempts : j # k => phase'[j] = phase[j]
    BY <1>0, <1>1, <2>1 DEF HeadersReady
  <2>3. ActiveInv'
    BY <1>1, <2>1, <2>2 DEF HeadersReady, ConnInv, ActiveInv, connVars
  <2>4. SocketInv'
    BY <1>0, <1>1, <2>1, <2>2 DEF HeadersReady, ConnInv, SocketInv, connVars, sockVars
  <2> QED BY <2>3, <2>4 DEF ConnInv
<1>2. CASE Created(k)
  <2>1. k = active /\ socket = 0 /\ state = "connecting"
    BY <1>0, <1>2 DEF Created, ConnInv, ActiveInv, SocketInv
  <2>2. phase'[k] = "socket" /\ \A j \in Attempts : j # k => phase'[j] = phase[j]
    BY <1>0, <1>2 DEF Created
  <2>3. sock'[k] = "connecting" /\ \A j \in Attempts : j # k => sock'[j] = sock[j]
    BY <1>0, <1>2 DEF Created
  <2>4. ActiveInv'
    BY <1>2, <2>1, <2>2 DEF Created, ConnInv, ActiveInv, connVars
  <2>5. SocketInv'
    BY <1>0, <1>2, <2>1, <2>2, <2>3 DEF Created, ConnInv, SocketInv, connVars, Down, Attempts
  <2> QED BY <2>4, <2>5 DEF ConnInv
<1>3. CASE LateSocket(k)
  <2>1. k # active /\ phase[k] = "late"
    BY <1>0, <1>3 DEF LateSocket, Unwanted, ConnInv, ActiveInv
  <2>2. phase'[k] = "ended" /\ \A j \in Attempts : j # k => phase'[j] = phase[j]
    BY <1>0, <1>3 DEF LateSocket
  <2>3. sock'[k] = "closed" /\ \A j \in Attempts : j # k => sock'[j] = sock[j]
    BY <1>0, <1>3 DEF LateSocket
  <2>4. active # 0 => active \in Attempts
    BY DEF TypeOK, AttType
  <2>5. ActiveInv'
    BY <1>3, <2>1, <2>2, <2>4 DEF LateSocket, ConnInv, ActiveInv, connVars
  <2>6. socket # 0 => socket \in Attempts
    BY DEF TypeOK, SockType
  <2>7. SocketInv'
    BY <1>3, <2>1, <2>2, <2>3, <2>4, <2>6 DEF LateSocket, ConnInv, SocketInv, connVars
  <2> QED BY <2>5, <2>7 DEF ConnInv
<1> QED BY <1>1, <1>2, <1>3, AttemptFailsConn, AttemptDeadlineConn, AttemptCaughtConn DEF OwningStep

LEMMA SocketStepConn ==
  ASSUME TypeOK, ConnInv, SocketStep
  PROVE  ConnInv'
<1>0. /\ socket \in Attempts \cup {0} /\ sock \in [Attempts -> Socks] /\ 0 \notin Attempts
      /\ timer \in BOOLEAN
  BY DEF Attempts, TypeOK, SockType
<1>1. CASE TimerFires
  <2>1. state \in Down /\ state' = "connecting"
    BY <1>0, <1>1 DEF TimerFires, Quiet, ConnInv, SocketInv, Down
  <2>2. OpenSocket(None) /\ timer' = FALSE /\ UNCHANGED <<socket, sock>>
    BY <1>1 DEF TimerFires
  <2> QED BY <2>1, <2>2, OpenSocketConn
<1>2. CASE StableFires \/ ReplayOnOpen \/ OnMalformedFrame
  BY <1>2, ConnUnch DEF StableFires, ReplayOnOpen, OnMalformedFrame, connVars, attVars, sockVars
<1>3. CASE OnOpen
  <2>1. active = socket /\ state = "connecting" /\ catches = {} /\ socket \in Attempts
    <3>1. state \notin Down /\ state # "open"
      BY <1>0, <1>3 DEF OnOpen, ConnInv, SocketInv
    <3>2. state = "connecting"
      BY <3>1 DEF Down, TypeOK, ConnType, States
    <3> QED BY <1>0, <1>3, <3>2 DEF OnOpen, ConnInv, SocketInv, Quiet
  <2>2. sock'[socket] = "open" /\ \A j \in Attempts : j # socket => sock'[j] = sock[j]
    BY <1>0, <1>3, <2>1 DEF OnOpen
  <2>3. /\ active' = 0 /\ socket' = socket /\ state' = "open" /\ phase' = phase
        /\ timer' = timer /\ catches' = {}
    BY <1>3, <2>1 DEF OnOpen
  <2>4. \A j \in Attempts : phase[j] \notin {"headers", "creating"}
    BY <2>1 DEF ConnInv, ActiveInv, SocketInv
  <2>5. ActiveInv'
    BY <2>3, <2>4 DEF ActiveInv
  <2>6. SocketInv'
    BY <1>0, <2>1, <2>2, <2>3 DEF ConnInv, SocketInv, Down
  <2> QED BY <2>5, <2>6 DEF ConnInv
<1>4. CASE ReplayFails
  <2>1. Replace(FALSE) /\ socket # 0
    BY <1>4 DEF ReplayFails, Current
  <2> QED BY <2>1, ReplaceConn
<1>5. CASE OnError
  BY <1>5, ReplaceConn DEF OnError
<1>6. CASE OnClose
  <2>1. state # "reconnecting"
    BY <1>6 DEF OnClose, ConnInv, SocketInv, Down
  <2> QED BY <1>6, <2>1, ReplaceConn DEF OnClose
<1>7. CASE OnBadFrame
  <2>1. sock'[socket] = "closed" /\ \A j \in Attempts : j # socket => sock'[j] = sock[j]
    BY <1>0, <1>7 DEF OnBadFrame, ConnInv, SocketInv
  <2>2. UNCHANGED <<state, seq, active, phase, catches, socket, timer>> /\ state = "open"
    BY <1>7 DEF OnBadFrame, connVars, attVars
  <2>3. ActiveInv'
    BY <2>2 DEF ConnInv, ActiveInv
  <2>4. SocketInv'
    BY <1>0, <2>1, <2>2 DEF ConnInv, ActiveInv, SocketInv, Down
  <2> QED BY <2>3, <2>4 DEF ConnInv
<1>8. CASE Reconnect
  BY <1>8, ReplaceConn DEF Reconnect
<1>9. CASE LivenessFails
  <2>1. CASE state = "open"
    BY <1>9, <2>1, ReplaceConn DEF LivenessFails, ConnInv, SocketInv
  <2>2. CASE state # "open"
    BY <1>9, <2>2, ConnUnch DEF LivenessFails, connVars, attVars
  <2> QED BY <2>1, <2>2
<1>10. CASE Close
  <2>1. state' = "closed" /\ active' = 0 /\ socket' = 0 /\ timer' = FALSE
    BY <1>10 DEF Close
  <2>2. \A j \in Attempts : phase'[j] \notin {"headers", "creating"}
    BY <1>10 DEF Close, ConnInv, ActiveInv, Aborted
  <2>3. \A j \in Attempts : sock'[j] \notin {"connecting", "open"}
    BY <1>10 DEF Close, ConnInv, SocketInv
  <2>4. ActiveInv'
    BY <2>1, <2>2 DEF ActiveInv, Down
  <2>5. SocketInv'
    BY <2>1, <2>3 DEF SocketInv, Down
  <2> QED BY <2>4, <2>5 DEF ConnInv
<1> QED BY <1>1, <1>2, <1>3, <1>4, <1>5, <1>6, <1>7, <1>8, <1>9, <1>10 DEF SocketStep

LEMMA CallConn ==
  ASSUME TypeOK, ConnInv,
         \/ \E s \in Subs : SubStep(s)
         \/ \E r \in Reqs : RequestStep(r)
         \/ UNCHANGED vars
  PROVE  ConnInv'
<1>1. ASSUME NEW s \in Subs, Subscribe(s) PROVE ConnInv'
  BY <1>1, EnsureConn DEF Subscribe
<1>2. ASSUME NEW r \in Reqs, Request(r) PROVE ConnInv'
  BY <1>2, EnsureConn DEF Request
<1>3. ASSUME NEW s \in Subs,
             \/ SubscribeContinues(s) \/ ReadyDeadline(s) \/ CloseStream(s) \/ SendUnsubscribe(s)
             \/ Acknowledged(s) \/ Refused(s) \/ Unsubscribed(s)
      PROVE  ConnInv'
  BY <1>3, ConnUnch DEF SubscribeContinues, ReadyDeadline, CloseStream, SendUnsubscribe, Acknowledged, Refused,
                        Unsubscribed, Handled, connVars, attVars, sockVars
<1>4. ASSUME NEW r \in Reqs, RequestContinues(r) \/ RequestDeadline(r) \/ Answered(r)
      PROVE  ConnInv'
  BY <1>4, ConnUnch DEF RequestContinues, RequestDeadline, Answered, Handled, connVars, attVars, sockVars
<1>5. CASE UNCHANGED vars
  BY <1>5, ConnUnch DEF vars, sessionVars, connVars, attVars, sockVars
<1> QED BY <1>1, <1>2, <1>3, <1>4, <1>5 DEF SubStep, RequestStep

LEMMA ConnStep ==
  ASSUME TypeOK, ConnInv, [Next]_vars, ~disowned'
  PROVE  ConnInv'
  BY OwningSteps, AttemptConn, SocketStepConn, CallConn

LEMMA InitConn == Init => ConnInv
  BY DEF Init, ConnInv, ActiveInv, SocketInv, Down, Attempts

\* The steps of the session, seen from its subscriptions and requests: the
\* connection is lost, nothing of theirs changes, or a step that is named.
Loses == LinkLost /\ state' \in Down /\ socket' = 0 /\ UNCHANGED netVars
Calm ==
  /\ UNCHANGED <<connVars, seq, socket, replaying, subVars, pending, sentOn, netVars>>
  /\ \A k \in Attempts : sock'[k] = "connecting" => sock[k] = "connecting"

LEMMA LosesStep ==
  ASSUME TypeOK, ConnInv, NEW fatal \in BOOLEAN, Replace(fatal), socket # 0, UNCHANGED netVars
  PROVE  Loses
<1>1. state' \in Down /\ ScheduleReconnect(fatal, 0, 0, phase, catches) /\ socket' = 0
  BY ReplaceConn DEF Replace
<1> QED BY <1>1, ScheduleLink DEF Loses

LEMMA StepKinds ==
  ASSUME TypeOK, ConnInv, [Next]_vars, ~disowned'
  PROVE  \/ Loses \/ Calm
         \/ \E k \in Attempts : Created(k)
         \/ TimerFires \/ OnOpen \/ ReplayOnOpen \/ OnMalformedFrame \/ OnBadFrame \/ Close
         \/ \E s \in Subs : SubStep(s)
         \/ \E r \in Reqs : RequestStep(r)
<1>1. ASSUME NEW k \in Attempts, HeadersReady(k) \/ LateSocket(k) PROVE Calm
  <2>1. CASE HeadersReady(k)
    BY <2>1 DEF HeadersReady, Calm, connVars, sockVars, subVars, reqVars, netVars
  <2>2. CASE LateSocket(k)
    <3>1. \A j \in Attempts : sock'[j] = "connecting" => sock[j] = "connecting"
      BY <2>2 DEF LateSocket, TypeOK, SockType
    <3> QED BY <2>2, <3>1 DEF LateSocket, Calm, connVars, subVars, reqVars, netVars
  <2> QED BY <1>1, <2>1, <2>2
<1>2. ASSUME NEW k \in Attempts, AttemptFails(k) \/ AttemptDeadline(k) \/ (active = 0 /\ AttemptCaught(k))
      PROVE  Loses
  BY <1>2, AttemptFailsConn, AttemptDeadlineConn, AttemptCaughtConn DEF Loses
<1>3. CASE StableFires \/ UNCHANGED vars
  BY <1>3 DEF StableFires, Calm, vars, sessionVars, connVars, attVars, sockVars, subVars, reqVars, netVars
<1>4. CASE ReplayFails \/ OnError \/ Reconnect
  BY <1>4, LosesStep DEF ReplayFails, OnError, Reconnect, Current
<1>5. CASE OnClose
  <2>1. state # "reconnecting"
    BY <1>5 DEF OnClose, ConnInv, SocketInv, Down
  <2> QED BY <1>5, <2>1, LosesStep DEF OnClose
<1>6. CASE LivenessFails
  <2>1. CASE state = "open"
    BY <1>6, <2>1, LosesStep DEF LivenessFails, ConnInv, SocketInv
  <2>2. CASE state # "open"
    BY <1>6, <2>2 DEF LivenessFails, Calm, attVars, netVars
  <2> QED BY <2>1, <2>2
<1> QED BY OwningSteps, <1>1, <1>2, <1>3, <1>4, <1>5, <1>6 DEF OwningStep, SocketStep

-----------------------------------------------------------------------------
(***************************************************************************)
(* Requests in this.pending were written to this.socket.                   *)
(***************************************************************************)
PendInv == \A r \in pending : state = "open" /\ sentOn[r] = socket

LEMMA PendStep ==
  ASSUME TypeOK, ConnInv, PendInv, [Next]_vars, ~disowned'
  PROVE  PendInv'
<1>1. CASE Loses
  <2>1. CASE GivesUp \/ Skips
    BY <2>1 DEF GivesUp, Skips, PendInv, Down
  <2>2. CASE Retries \/ GivesAllUp
    BY <2>2 DEF Retries, Retry, GivesAllUp, RejectRequests, PendInv
  <2> QED BY <1>1, <2>1, <2>2 DEF Loses, LinkLost
<1>2. CASE Calm
  BY <1>2 DEF Calm, PendInv, connVars
<1>3. ASSUME NEW k \in Attempts, Created(k) PROVE PendInv'
  <2>1. state # "open"
    BY <1>3 DEF Created, ConnInv, ActiveInv, Attempts
  <2> QED BY <1>3, <2>1 DEF Created, PendInv, reqVars
<1>4. CASE TimerFires
  <2>1. pending = {}
    BY <1>4 DEF TimerFires, ConnInv, SocketInv, PendInv
  <2> QED BY <1>4, <2>1 DEF TimerFires, PendInv, reqVars
<1>5. CASE OnOpen
  <2>1. state # "open"
    BY <1>5 DEF OnOpen, ConnInv, SocketInv
  <2> QED BY <1>5, <2>1 DEF OnOpen, PendInv, reqVars
<1>6. CASE ReplayOnOpen \/ OnMalformedFrame \/ OnBadFrame
  BY <1>6 DEF ReplayOnOpen, OnMalformedFrame, OnBadFrame, PendInv, RejectRequests, connVars, sockVars, reqVars
<1>7. CASE Close
  BY <1>7 DEF Close, RejectRequests, PendInv
<1>8. ASSUME NEW c \in Callers, EnsureConnected(c), UNCHANGED <<pending, sentOn, socket>> PROVE PendInv'
  BY <1>8 DEF EnsureConnected, PendInv
<1>9. ASSUME NEW s \in Subs, SubStep(s) PROVE PendInv'
  <2>1. CASE Subscribe(s)
    BY <1>8, <2>1 DEF Subscribe, Callers, sockVars, reqVars
  <2>2. CASE SubscribeContinues(s) \/ ReadyDeadline(s) \/ CloseStream(s) \/ SendUnsubscribe(s)
    BY <2>2 DEF SubscribeContinues, ReadyDeadline, CloseStream, SendUnsubscribe, PendInv, connVars, sockVars, reqVars
  <2>3. CASE Acknowledged(s) \/ Refused(s) \/ Unsubscribed(s)
    BY <2>3 DEF Acknowledged, Refused, Unsubscribed, Handled, PendInv, connVars, sockVars
  <2> QED BY <1>9, <2>1, <2>2, <2>3 DEF SubStep
<1>10. ASSUME NEW r \in Reqs, RequestStep(r) PROVE PendInv'
  <2>1. CASE Request(r)
    BY <1>8, <2>1 DEF Request, Callers, sockVars
  <2>2. CASE RequestContinues(r)
    <3>1. \A q \in pending' : q \in pending \/ (q = r /\ state = "open" /\ sentOn'[r] = socket)
      BY <2>2 DEF RequestContinues, TypeOK, WriteType
    <3>2. \A q \in pending : state = "open" /\ sentOn'[q] = socket
      BY <2>2 DEF RequestContinues, TypeOK, WriteType, RpcType, PendInv
    <3> QED BY <2>2, <3>1, <3>2 DEF RequestContinues, PendInv, sockVars
  <2>3. CASE RequestDeadline(r) \/ Answered(r)
    BY <2>3 DEF RequestDeadline, Answered, Handled, PendInv, connVars, sockVars
  <2> QED BY <1>10, <2>1, <2>2, <2>3 DEF RequestStep
<1> QED BY StepKinds, <1>1, <1>2, <1>3, <1>4, <1>5, <1>6, <1>7, <1>9, <1>10

-----------------------------------------------------------------------------
(***************************************************************************)
(* Streams and their subscriptions.                                        *)
(***************************************************************************)
StreamOk(s) ==
  /\ stream[s] = "reconnecting" => pend[s] \in {"again", "replay"}
  /\ stream[s] \in {"active", "reconnecting"} => s \in subs
StreamInv == \A s \in Subs : StreamOk(s)

LEMMA StreamStep ==
  ASSUME TypeOK, StreamInv, [Next]_vars
  PROVE  StreamInv'
<1> SUFFICES ASSUME NEW t \in Subs PROVE StreamOk(t)'
  BY DEF StreamInv
<1>0. /\ StreamOk(t) /\ stream \in [Subs -> Streams] /\ pend \in [Subs -> Pends] /\ ready \in [Subs -> Readies]
      /\ subs \in SUBSET Subs
  BY DEF StreamInv, TypeOK, StreamType, MapType
<1>a. ASSUME NEW X \in SUBSET Subs, Drop(X), Fail(X) PROVE StreamOk(t)'
  BY <1>0, <1>a DEF Drop, Fail, StreamOk
<1>b. UNCHANGED <<stream, pend, subs>> => StreamOk(t)'
  BY <1>0 DEF StreamOk
<1>1. ASSUME NEW fatal, NEW bump, NEW k, NEW at, NEW failed, ScheduleReconnect(fatal, bump, k, at, failed)
      PROVE  StreamOk(t)'
  <2>1. CASE UNCHANGED <<stream, pend, subs>>
    BY <1>b, <2>1
  <2>2. CASE Retry
    BY <1>0, <2>2 DEF Retry, StreamsOnReconnecting, PendAgain, StreamOk, Pends
  <2>3. CASE Drop(subs) /\ Fail(subs)
    BY <1>0, <1>a, <2>3
  <2> QED BY <1>1, <2>1, <2>2, <2>3 DEF ScheduleReconnect, FailConnection
<1>2. ASSUME NEW k \in Attempts, AttemptStep(k) PROVE StreamOk(t)'
  <2>1. CASE HeadersReady(k) \/ Created(k) \/ LateSocket(k)
    BY <1>b, <2>1 DEF HeadersReady, Created, LateSocket, subVars
  <2>2. CASE AttemptFails(k) \/ AttemptDeadline(k) \/ AttemptCaught(k)
    BY <1>b, <1>1, <2>2 DEF AttemptFails, AttemptDeadline, AttemptCaught, NoReconnect, subVars
  <2> QED BY <1>2, <2>1, <2>2 DEF AttemptStep
<1>3. ASSUME NEW fatal, Replace(fatal) PROVE StreamOk(t)'
  BY <1>1, <1>3 DEF Replace
<1>4. CASE SocketStep
  <2>1. CASE TimerFires \/ StableFires \/ OnOpen \/ ReplayOnOpen
    BY <1>b, <2>1 DEF TimerFires, StableFires, OnOpen, ReplayOnOpen, subVars
  <2>2. CASE ReplayFails \/ OnError \/ OnClose \/ Reconnect \/ LivenessFails
    BY <1>b, <1>3, <2>2 DEF ReplayFails, OnError, OnClose, Reconnect, LivenessFails, subVars
  <2>3. CASE OnMalformedFrame \/ OnBadFrame
    BY <1>0, <2>3 DEF OnMalformedFrame, OnBadFrame, StreamsOnError, Fail, StreamOk
  <2>4. CASE Close
    BY <1>0, <2>4 DEF Close, StreamOk
  <2> QED BY <1>4, <2>1, <2>2, <2>3, <2>4 DEF SocketStep
<1>5. ASSUME NEW s \in Subs, SubStep(s) PROVE StreamOk(t)'
  <2>1. CASE Subscribe(s)
    BY <1>0, <2>1 DEF Subscribe, StreamOk
  <2>2. CASE SubscribeContinues(s)
    <3>1. CASE Drop({s}) /\ Fail({s})
      BY <1>a, <3>1
    <3> QED BY <1>b, <2>2, <3>1 DEF SubscribeContinues
  <2>3. CASE ReadyDeadline(s)
    BY <1>a, <2>3 DEF ReadyDeadline
  <2>4. CASE CloseStream(s)
    BY <1>0, <2>4 DEF CloseStream, StreamOk
  <2>5. CASE SendUnsubscribe(s) \/ Unsubscribed(s)
    BY <1>b, <2>5 DEF SendUnsubscribe, Unsubscribed
  <2>6. CASE Acknowledged(s)
    BY <1>0, <2>6 DEF Acknowledged, StreamOnResubscribed, StreamOk
  <2>7. CASE Refused(s)
    <3>1. CASE Drop({s}) /\ Fail({s})
      BY <1>a, <3>1
    <3> QED BY <1>b, <2>7, <3>1 DEF Refused
  <2> QED BY <1>5, <2>1, <2>2, <2>3, <2>4, <2>5, <2>6, <2>7 DEF SubStep
<1>6. ASSUME NEW r \in Reqs, RequestStep(r) PROVE StreamOk(t)'
  BY <1>b, <1>6 DEF RequestStep, Request, RequestContinues, RequestDeadline, Answered, subVars
<1>7. CASE UNCHANGED vars
  BY <1>b, <1>7 DEF vars, sessionVars, subVars
<1> QED BY NextSteps, <1>2, <1>4, <1>5, <1>6, <1>7

-----------------------------------------------------------------------------
(***************************************************************************)
(* Frames on the wire.                                                     *)
(***************************************************************************)
SubFrame(s) == <<"subscribe", s>>
UnsFrame(s) == <<"unsubscribe", s>>

OnWire(w, f) == \E i \in DOMAIN w : w[i] = f
Once(w, f) == \A i, j \in DOMAIN w : w[i] = f /\ w[j] = f => i = j
\* Every g is written before every f.
Before(w, g, f) == \A i, j \in DOMAIN w : w[i] = f /\ w[j] = g => j < i

LEMMA FrameFacts ==
  /\ \A s, t : s # t => SubFrame(s) # SubFrame(t) /\ UnsFrame(s) # UnsFrame(t)
  /\ \A s, t : SubFrame(s) # UnsFrame(t)
  /\ \A r, t : <<"request", r>> # SubFrame(t) /\ <<"request", r>> # UnsFrame(t)
  BY DEF SubFrame, UnsFrame

LEMMA EmptyWire == \A f, g : ~OnWire(<<>>, f) /\ Once(<<>>, f) /\ Before(<<>>, g, f)
  BY DEF OnWire, Once, Before

LEMMA AppendedWire ==
  ASSUME NEW w \in Seq(Frames), NEW x
  PROVE  /\ \A f : OnWire(Append(w, x), f) <=> OnWire(w, f) \/ f = x
         /\ \A f : Once(w, f) /\ (f = x => ~OnWire(w, f)) => Once(Append(w, x), f)
         /\ \A f, g : f # g /\ Before(w, g, f) /\ (g = x => ~OnWire(w, f)) => Before(Append(w, x), g, f)
<1> DEFINE v == Append(w, x)
<1>1. /\ DOMAIN v = 1 .. Len(w) + 1 /\ v[Len(w) + 1] = x
      /\ DOMAIN w = 1 .. Len(w) /\ Len(w) \in Nat
      /\ \A i \in DOMAIN w : i \in DOMAIN v /\ v[i] = w[i]
  OBVIOUS
<1>2. \A i \in DOMAIN v : i \in DOMAIN w \/ i = Len(w) + 1
  BY <1>1
<1> HIDE DEF v
<1>3. \A f : OnWire(v, f) <=> OnWire(w, f) \/ f = x
  BY <1>1, <1>2 DEF OnWire
<1>4. \A f : Once(w, f) /\ (f = x => ~OnWire(w, f)) => Once(v, f)
  BY <1>1, <1>2 DEF Once, OnWire
<1>5. \A f, g : f # g /\ Before(w, g, f) /\ (g = x => ~OnWire(w, f)) => Before(v, g, f)
  BY <1>1, <1>2 DEF Before, OnWire
<1> QED BY <1>3, <1>4, <1>5 DEF v

LEMMA TakenWire ==
  ASSUME NEW w \in Seq(Frames), w # <<>>
  PROVE  /\ \A f : OnWire(w, f) <=> OnWire(Tail(w), f) \/ f = Head(w)
         /\ \A f : Once(w, f) => Once(Tail(w), f) /\ (f = Head(w) => ~OnWire(Tail(w), f))
         /\ \A f, g : Before(w, g, f) => Before(Tail(w), g, f) /\ (f = Head(w) => ~OnWire(Tail(w), g))
<1> DEFINE v == Tail(w)
           h == Head(w)
<1>1. /\ DOMAIN w = 1 .. Len(w) /\ Len(w) \in Nat /\ 1 \in DOMAIN w /\ w[1] = h
      /\ DOMAIN v = 1 .. Len(w) - 1
      /\ \A i \in DOMAIN v : i + 1 \in DOMAIN w /\ v[i] = w[i + 1]
  OBVIOUS
<1>2. \A i \in DOMAIN w : i = 1 \/ (i - 1 \in DOMAIN v /\ v[i - 1] = w[i])
  BY <1>1
<1> HIDE DEF v, h
<1>3. \A f : OnWire(w, f) <=> OnWire(v, f) \/ f = h
  BY <1>1, <1>2 DEF OnWire
<1>4. \A f : Once(w, f) => Once(v, f) /\ (f = h => ~OnWire(v, f))
  BY <1>1 DEF Once, OnWire
<1>5. \A f, g : Before(w, g, f) => Before(v, g, f) /\ (f = h => ~OnWire(v, g))
  BY <1>1 DEF Before, OnWire
<1> QED BY <1>3, <1>4, <1>5 DEF v, h

LEMMA ReplayedWire ==
  ASSUME IsFiniteSet(replay), replay \in SUBSET Subs, wire = <<>>,
         wire' = wire \o SetToSeq({<<"subscribe", s>> : s \in replay})
  PROVE  /\ \A s : OnWire(wire', SubFrame(s)) <=> s \in replay
         /\ \A s : ~OnWire(wire', UnsFrame(s))
         /\ \A f : Once(wire', f)
<1> DEFINE q == SetToSeq(Replayed)
<1>1. /\ q \in Seq(Replayed)
      /\ \A i, j \in DOMAIN q : q[i] = q[j] => i = j
      /\ \A x \in Replayed : \E i \in DOMAIN q : q[i] = x
  BY ReplayFinite, SetToSeqFacts
<1>2. wire' = <<>> \o q
  BY DEF Replayed
<1>3. \A i \in DOMAIN q : q[i] \in Replayed
  BY <1>1
<1> HIDE DEF q
<1>4. wire' = q
  BY <1>1, <1>2
<1>5. \A s : OnWire(q, SubFrame(s)) <=> s \in replay
  <2>1. \A s \in replay : SubFrame(s) \in Replayed
    BY DEF Replayed, SubFrame
  <2>2. \A s \in replay : OnWire(q, SubFrame(s))
    BY <1>1, <2>1 DEF OnWire
  <2>3. ASSUME NEW s, SubFrame(s) \in Replayed PROVE s \in replay
    BY <2>3 DEF Replayed, SubFrame
  <2>4. \A s : OnWire(q, SubFrame(s)) => s \in replay
    BY <1>3, <2>3 DEF OnWire
  <2> QED BY <2>2, <2>4
<1>6. \A s : ~OnWire(q, UnsFrame(s))
  BY <1>3 DEF OnWire, Replayed, UnsFrame
<1>7. \A f : Once(q, f)
  BY <1>1 DEF Once
<1> QED BY <1>4, <1>5, <1>6, <1>7

-----------------------------------------------------------------------------
(***************************************************************************)
(* What the exchange streams.                                              *)
(***************************************************************************)
CallerInv ==
  /\ waiting # {} => state \in {"connecting", "reconnecting"}
  /\ \A c \in Callers : cont[c] = "err" => state # "open"

\* A new connection starts afresh.
FreshInv ==
  /\ socket # 0 /\ sock[socket] = "connecting" => wire = <<>> /\ server = {}
  /\ state = "open" /\ replaying # 0 => replaying = socket /\ wire = <<>> /\ server = {}

\* The tables of subscription s.
MapOk(s) ==
  /\ s \in sent \cup replay => s \in subs
  /\ s \in gone \cup unsubs => s \notin subs
  /\ ready[s] = "none" =>
       /\ s \notin subs \cup gone \cup unsubs \cup waiting \cup server /\ cont[s] = "none"
       /\ ~OnWire(wire, SubFrame(s)) /\ ~OnWire(wire, UnsFrame(s))
  /\ s \in subs /\ (s \notin sent \/ s \in replay) => pend[s] # "none"

\* What was not sent on this connection will be sent, by the open event's
\* replay or by the continuation of subscribe.
Unsent == subs \ (sent \cup replay)
ReplayOk(s) ==
  /\ s \in Unsent => s \in waiting \/ cont[s] # "none"
  /\ s \in Unsent /\ cont[s] = "ok" => state = "open" /\ openAt[s] \in {0, seq}
  /\ s \in waiting => openAt[s] = 0
  /\ s \in sent /\ (state # "open" \/ replaying # 0) => s \in replay
  /\ s \in replay => state # "open" \/ replaying # 0

\* What was sent is streamed, or about to be.
WireOk(s) ==
  /\ s \in sent \ replay => s \in server \/ OnWire(wire, SubFrame(s))
  /\ s \in subs \ sent => s \notin server /\ ~OnWire(wire, SubFrame(s))
  /\ s \in subs /\ OnWire(wire, SubFrame(s)) => s \notin server /\ pend[s] # "none"
  /\ s \notin subs /\ (s \in server \/ OnWire(wire, SubFrame(s))) => s \in unsubs \/ OnWire(wire, UnsFrame(s))
  /\ OnWire(wire, UnsFrame(s)) => s \notin subs
  /\ Once(wire, SubFrame(s)) /\ Before(wire, SubFrame(s), UnsFrame(s))

ServeOk(s) == MapOk(s) /\ ReplayOk(s) /\ (state = "open" => WireOk(s))
ServeInv == CallerInv /\ FreshInv /\ \A s \in Subs : ServeOk(s)

LEMMA EnsureCaller ==
  ASSUME TypeOK, CallerInv, NEW c \in Callers, EnsureConnected(c), state # "closed"
  PROVE  CallerInv'
<1>1. CASE state = "open"
  BY <1>1 DEF EnsureConnected, CallerInv, TypeOK, ConnType
<1>2. CASE state # "open"
  BY <1>2 DEF EnsureConnected, CallerInv, TypeOK, ConnType, States
<1> QED BY <1>1, <1>2

LEMMA CallerStep ==
  ASSUME TypeOK, ConnInv, CallerInv, [Next]_vars, ~disowned'
  PROVE  CallerInv'
<1>0. cont \in [Callers -> Outcomes] /\ waiting \in SUBSET Callers
  BY DEF TypeOK, ConnType
<1>1. CASE Loses
  <2>1. CASE GivesUp
    BY <1>0, <2>1 DEF GivesUp, GiveUp, Settle, CallerInv
  <2>2. CASE Skips
    BY <2>2 DEF Skips, CallerInv, connVars
  <2>3. CASE Retries
    <3>1. state' = "reconnecting" /\ UNCHANGED <<waiting, cont>>
      BY <2>3 DEF Retries, Retry
    <3> QED BY <3>1 DEF CallerInv
  <2>4. CASE GivesAllUp
    BY <1>0, <2>4 DEF GivesAllUp, Settle, CallerInv
  <2> QED BY <1>1, <2>1, <2>2, <2>3, <2>4 DEF Loses, LinkLost
<1>2. CASE Calm \/ ReplayOnOpen \/ OnMalformedFrame \/ OnBadFrame \/ \E k \in Attempts : Created(k)
  BY <1>2 DEF Calm, ReplayOnOpen, OnMalformedFrame, OnBadFrame, Created, CallerInv, connVars
<1>3. CASE TimerFires
  <2>1. state = "reconnecting"
    BY <1>3 DEF TimerFires, ConnInv, SocketInv
  <2> QED BY <1>3, <2>1 DEF TimerFires, CallerInv
<1>4. CASE OnOpen
  BY <1>0, <1>4 DEF OnOpen, Quiet, Settle, CallerInv
<1>5. CASE Close
  BY <1>0, <1>5 DEF Close, Settle, CallerInv
<1>6. ASSUME NEW s \in Subs, SubStep(s) PROVE CallerInv'
  <2>1. CASE Subscribe(s)
    BY <2>1, EnsureCaller DEF Subscribe, Callers
  <2>2. CASE SubscribeContinues(s)
    BY <1>0, <2>2 DEF SubscribeContinues, CallerInv
  <2>3. CASE ReadyDeadline(s) \/ CloseStream(s) \/ SendUnsubscribe(s)
    BY <2>3 DEF ReadyDeadline, CloseStream, SendUnsubscribe, CallerInv, connVars
  <2>4. CASE Acknowledged(s) \/ Refused(s) \/ Unsubscribed(s)
    BY <2>4 DEF Acknowledged, Refused, Unsubscribed, Handled, CallerInv, connVars
  <2> QED BY <1>6, <2>1, <2>2, <2>3, <2>4 DEF SubStep
<1>7. ASSUME NEW r \in Reqs, RequestStep(r) PROVE CallerInv'
  <2>1. CASE Request(r)
    BY <2>1, EnsureCaller DEF Request, Callers
  <2>2. CASE RequestContinues(r)
    BY <1>0, <2>2 DEF RequestContinues, CallerInv
  <2>3. CASE RequestDeadline(r) \/ Answered(r)
    BY <2>3 DEF RequestDeadline, Answered, Handled, CallerInv, connVars
  <2> QED BY <1>7, <2>1, <2>2, <2>3 DEF RequestStep
<1> QED BY StepKinds, <1>1, <1>2, <1>3, <1>4, <1>5, <1>6, <1>7

LEMMA FreshStep ==
  ASSUME TypeOK, ConnInv, FreshInv, [Next]_vars, ~disowned'
  PROVE  FreshInv'
<1>0. /\ socket \in Attempts \cup {0} /\ sock \in [Attempts -> Socks] /\ 0 \notin Attempts
      /\ state = "open" => socket # 0 /\ sock[socket] # "connecting"
  BY DEF Attempts, TypeOK, SockType, ConnInv, SocketInv
<1>a. UNCHANGED <<socket, sock, state, replaying, wire, server>> => FreshInv'
  BY DEF FreshInv
<1>b. ASSUME state = "open", replaying = 0, UNCHANGED <<state, replaying, socket, sock>> PROVE FreshInv'
  BY <1>0, <1>b DEF FreshInv
<1>1. CASE Loses
  BY <1>1 DEF Loses, FreshInv, Down
<1>2. CASE Calm
  BY <1>0, <1>2 DEF Calm, FreshInv, connVars, netVars
<1>3. ASSUME NEW k \in Attempts, Created(k) PROVE FreshInv'
  <2>1. state # "open"
    BY <1>3 DEF Created, ConnInv, ActiveInv, Attempts
  <2> QED BY <1>3, <2>1 DEF Created, FreshInv, connVars
<1>4. CASE TimerFires
  BY <1>4 DEF TimerFires, FreshInv, ConnInv, SocketInv, netVars
<1>5. CASE OnOpen
  <2>1. sock'[socket] = "open" /\ wire = <<>> /\ server = {} /\ socket # 0
    BY <1>0, <1>5 DEF OnOpen, FreshInv
  <2> QED BY <1>5, <2>1 DEF OnOpen, FreshInv, netVars
<1>6. CASE ReplayOnOpen
  BY <1>0, <1>6 DEF ReplayOnOpen, FreshInv, Current, connVars
<1>7. CASE OnMalformedFrame
  BY <1>a, <1>7 DEF OnMalformedFrame, connVars, sockVars, netVars
<1>8. CASE OnBadFrame
  <2>1. sock'[socket] = "closed" /\ socket' = socket /\ replaying' = 0
    BY <1>0, <1>8 DEF OnBadFrame, Quiet
  <2> QED BY <2>1 DEF FreshInv
<1>9. CASE Close
  BY <1>9 DEF Close, FreshInv
<1>c. ASSUME NEW c, EnsureConnected(c), UNCHANGED <<sockVars, netVars>> PROVE FreshInv'
  BY <1>c DEF EnsureConnected, FreshInv, sockVars, netVars
<1>10. ASSUME NEW s \in Subs, SubStep(s) PROVE FreshInv'
  <2>1. CASE Subscribe(s)
    BY <1>c, <2>1 DEF Subscribe
  <2>2. CASE SubscribeContinues(s)
    <3>1. CASE state = "open"
      BY <1>b, <2>2, <3>1 DEF SubscribeContinues, sockVars
    <3>2. CASE state # "open"
      BY <1>a, <2>2, <3>2 DEF SubscribeContinues, ToSend, sockVars
    <3> QED BY <3>1, <3>2
  <2>3. CASE ReadyDeadline(s) \/ CloseStream(s)
    BY <1>a, <2>3 DEF ReadyDeadline, CloseStream, connVars, sockVars, netVars
  <2>4. CASE SendUnsubscribe(s)
    <3>1. CASE state = "open"
      BY <1>b, <2>4, <3>1 DEF SendUnsubscribe, connVars, sockVars
    <3>2. CASE state # "open"
      BY <1>a, <2>4, <3>2 DEF SendUnsubscribe, connVars, sockVars
    <3> QED BY <3>1, <3>2
  <2>5. CASE Acknowledged(s) \/ Refused(s) \/ Unsubscribed(s)
    BY <1>b, <2>5 DEF Acknowledged, Refused, Unsubscribed, Handled, Quiet, connVars, sockVars
  <2> QED BY <1>10, <2>1, <2>2, <2>3, <2>4, <2>5 DEF SubStep
<1>11. ASSUME NEW r \in Reqs, RequestStep(r) PROVE FreshInv'
  <2>1. CASE Request(r)
    BY <1>c, <2>1 DEF Request
  <2>2. CASE RequestContinues(r)
    <3>1. CASE state = "open"
      BY <1>b, <2>2, <3>1 DEF RequestContinues, sockVars
    <3>2. CASE state # "open"
      BY <1>a, <2>2, <3>2 DEF RequestContinues, sockVars
    <3> QED BY <3>1, <3>2
  <2>3. CASE RequestDeadline(r)
    BY <1>a, <2>3 DEF RequestDeadline, connVars, sockVars, netVars
  <2>4. CASE Answered(r)
    BY <1>b, <2>4 DEF Answered, Handled, Quiet, connVars, sockVars
  <2> QED BY <1>11, <2>1, <2>2, <2>3, <2>4 DEF RequestStep
<1> QED BY StepKinds, <1>1, <1>2, <1>3, <1>4, <1>5, <1>6, <1>7, <1>8, <1>9, <1>10, <1>11

\* A step that leaves subscription t alone.
SameTables(t) ==
  /\ t \in subs' <=> t \in subs
  /\ t \in sent' <=> t \in sent
  /\ t \in replay' <=> t \in replay
  /\ t \in gone' <=> t \in gone
  /\ t \in unsubs' <=> t \in unsubs
  /\ t \in waiting' <=> t \in waiting
  /\ cont'[t] = cont[t] /\ openAt'[t] = openAt[t] /\ pend'[t] = pend[t] /\ ready'[t] = ready[t]
SameWire(t) ==
  /\ t \in server' <=> t \in server
  /\ OnWire(wire', SubFrame(t)) <=> OnWire(wire, SubFrame(t))
  /\ OnWire(wire', UnsFrame(t)) <=> OnWire(wire, UnsFrame(t))
  /\ Once(wire, SubFrame(t)) => Once(wire', SubFrame(t))
  /\ Before(wire, SubFrame(t), UnsFrame(t)) => Before(wire', SubFrame(t), UnsFrame(t))
SameLink ==
  /\ state' = "open" <=> state = "open"
  /\ state = "open" => seq' = seq /\ replaying' = replaying

LEMMA Untouched ==
  ASSUME NEW t, ServeOk(t), SameTables(t), SameWire(t), SameLink
  PROVE  ServeOk(t)'
<1>1. MapOk(t)'
  BY DEF ServeOk, MapOk, SameTables, SameWire
<1>2. ReplayOk(t)'
  BY DEF ServeOk, ReplayOk, Unsent, SameTables, SameLink
<1>3. state' = "open" => WireOk(t)'
  BY DEF ServeOk, WireOk, SameTables, SameWire, SameLink
<1> QED BY <1>1, <1>2, <1>3 DEF ServeOk

LEMMA SameWires ==
  ASSUME NEW t, wire \in Seq(Frames), t \in server' <=> t \in server
  PROVE  /\ wire' = wire => SameWire(t)
         /\ \A x : wire' = Append(wire, x) /\ x # SubFrame(t) /\ x # UnsFrame(t) => SameWire(t)
         /\ wire # <<>> /\ wire' = Tail(wire) /\ Head(wire) # SubFrame(t) /\ Head(wire) # UnsFrame(t) => SameWire(t)
<1>1. wire' = wire => SameWire(t)
  BY DEF SameWire
<1>2. ASSUME NEW x, wire' = Append(wire, x), x # SubFrame(t), x # UnsFrame(t) PROVE SameWire(t)
  BY <1>2, AppendedWire, FrameFacts DEF SameWire
<1>3. ASSUME wire # <<>>, wire' = Tail(wire), Head(wire) # SubFrame(t), Head(wire) # UnsFrame(t) PROVE SameWire(t)
  BY <1>3, TakenWire DEF SameWire
<1> QED BY <1>1, <1>2, <1>3

LEMMA LosesServe ==
  ASSUME TypeOK, NEW t \in Subs, ServeOk(t), Loses
  PROVE  ServeOk(t)'
<1>0. /\ cont \in [Callers -> Outcomes] /\ t \in Callers /\ state' # "open" /\ wire' = wire /\ server' = server
      /\ pend \in [Subs -> Pends] /\ ready \in [Subs -> Readies] /\ MapOk(t) /\ ReplayOk(t)
  BY DEF TypeOK, ConnType, MapType, Callers, Loses, Down, netVars, ServeOk
<1>1. CASE GivesUp
  <2>1. state # "open" /\ UNCHANGED subVars /\ t \notin waiting'
    BY <1>1 DEF GivesUp, GiveUp, Settle
  <2>2. cont'[t] = IF t \in waiting THEN "err" ELSE cont[t]
    BY <1>0, <1>1 DEF GivesUp, GiveUp, Settle
  <2>3. MapOk(t)'
    BY <1>0, <2>1, <2>2 DEF MapOk, subVars
  <2>4. ReplayOk(t)'
    BY <1>0, <2>1, <2>2 DEF ReplayOk, Unsent, subVars
  <2> QED BY <1>0, <2>3, <2>4 DEF ServeOk
<1>2. CASE Skips
  <2>1. state # "open" /\ UNCHANGED <<connVars, subVars>>
    BY <1>2 DEF Skips, Down
  <2>2. MapOk(t)'
    BY <1>0, <2>1 DEF MapOk, subVars, connVars
  <2>3. ReplayOk(t)'
    BY <1>0, <2>1 DEF ReplayOk, Unsent, subVars, connVars
  <2> QED BY <1>0, <2>2, <2>3 DEF ServeOk
<1>3. CASE Retries
  <2>1. /\ replay' = replay \cup subs /\ UNCHANGED <<waiting, cont, subs, sent, ready, gone, openAt, unsubs>>
        /\ pend'[t] = IF t \in subs THEN PendAgain(t) ELSE pend[t]
    BY <1>3 DEF Retries, Retry, MarkReplay
  <2>2. t \in subs => pend'[t] # "none"
    BY <1>0, <2>1 DEF PendAgain
  <2>3. MapOk(t)'
    BY <1>0, <2>1, <2>2 DEF MapOk
  <2>4. ReplayOk(t)'
    BY <1>0, <2>1 DEF ReplayOk, Unsent, MapOk
  <2> QED BY <1>0, <2>3, <2>4 DEF ServeOk
<1>4. CASE GivesAllUp
  <2>1. /\ subs' = {} /\ sent' = sent \ subs /\ replay' = replay \ subs /\ unsubs' = unsubs /\ openAt' = openAt
        /\ gone' = gone \cup {s \in subs : ready[s] = "pending"} /\ waiting' = {}
        /\ ready'[t] = IF t \in subs /\ ready[t] = "pending" THEN "err" ELSE ready[t]
        /\ cont'[t] = IF t \in waiting THEN "err" ELSE cont[t]
    BY <1>0, <1>4 DEF GivesAllUp, Drop, Settle
  <2>2. MapOk(t)'
    BY <1>0, <2>1 DEF MapOk
  <2>3. ReplayOk(t)'
    BY <1>0, <2>1 DEF ReplayOk, Unsent, MapOk
  <2> QED BY <1>0, <2>2, <2>3 DEF ServeOk
<1> QED BY <1>1, <1>2, <1>3, <1>4 DEF Loses, LinkLost

LEMMA CloseServe ==
  ASSUME TypeOK, NEW t \in Subs, ServeOk(t), Close
  PROVE  ServeOk(t)'
<1>0. /\ cont \in [Callers -> Outcomes] /\ t \in Callers /\ state' # "open" /\ wire' = wire /\ server' = server
      /\ MapOk(t) /\ ReplayOk(t)
  BY DEF TypeOK, ConnType, Callers, Close, netVars, ServeOk
<1>1. /\ subs' = {} /\ sent' = sent \ subs /\ replay' = replay \ subs /\ unsubs' = unsubs /\ openAt' = openAt
      /\ gone' = gone \cup {s \in subs : ready[s] = "pending"} /\ waiting' = {}
      /\ ready'[t] = IF t \in subs /\ ready[t] = "pending" THEN "err" ELSE ready[t]
      /\ cont'[t] = IF t \in waiting THEN "err" ELSE cont[t]
  BY <1>0 DEF Close, Drop, Settle
<1>2. MapOk(t)'
  BY <1>0, <1>1 DEF MapOk
<1>3. ReplayOk(t)'
  BY <1>0, <1>1 DEF ReplayOk, Unsent, MapOk
<1> QED BY <1>0, <1>2, <1>3 DEF ServeOk

LEMMA ConnectServe ==
  ASSUME TypeOK, ConnInv, FreshInv, NEW t \in Subs, ServeOk(t),
         \/ Calm \/ TimerFires \/ OnOpen \/ OnMalformedFrame \/ OnBadFrame
         \/ \E k \in Attempts : Created(k)
  PROVE  ServeOk(t)'
<1>0. cont \in [Callers -> Outcomes] /\ t \in Callers /\ MapOk(t) /\ ReplayOk(t) /\ wire \in Seq(Frames)
  BY DEF TypeOK, ConnType, Callers, ServeOk, NetType
<1>1. CASE Calm \/ OnMalformedFrame \/ OnBadFrame
  <2>1. UNCHANGED <<connVars, seq, replaying, subs, sent, replay, gone, unsubs, openAt, pend, ready, netVars>>
    BY <1>1 DEF Calm, OnMalformedFrame, OnBadFrame, subVars, attVars, sockVars
  <2>2. SameTables(t) /\ SameLink
    BY <2>1 DEF SameTables, SameLink, connVars
  <2>3. SameWire(t)
    BY <1>0, <2>1, SameWires DEF netVars
  <2> QED BY <2>2, <2>3, Untouched
<1>2. CASE TimerFires
  <2>1. state # "open" /\ state' # "open"
    BY <1>2 DEF TimerFires, ConnInv, SocketInv
  <2>2. SameTables(t) /\ SameLink
    BY <1>2, <2>1 DEF TimerFires, SameTables, SameLink, subVars
  <2>3. SameWire(t)
    BY <1>0, <1>2, SameWires DEF TimerFires, netVars
  <2> QED BY <2>2, <2>3, Untouched
<1>3. ASSUME NEW k \in Attempts, Created(k) PROVE ServeOk(t)'
  <2>1. state # "open" /\ state' = state
    BY <1>3 DEF Created, ConnInv, ActiveInv, Attempts, connVars
  <2>2. UNCHANGED <<connVars, subVars>> /\ wire' = <<>> /\ server' = {}
    BY <1>3 DEF Created
  <2>3. MapOk(t)'
    BY <1>0, <2>2, EmptyWire DEF MapOk, connVars, subVars
  <2>4. ReplayOk(t)'
    BY <1>0, <2>1, <2>2 DEF ReplayOk, Unsent, connVars, subVars
  <2> QED BY <2>1, <2>3, <2>4 DEF ServeOk
<1>4. CASE OnOpen
  <2>1. wire = <<>> /\ server = {} /\ state # "open" /\ UNCHANGED <<subVars, netVars>>
    BY <1>4 DEF OnOpen, FreshInv, ConnInv, SocketInv
  <2>2. waiting' = {} /\ cont[t] = "none" /\ cont'[t] = IF t \in waiting THEN "ok" ELSE cont[t]
    BY <1>0, <1>4 DEF OnOpen, Settle, Quiet
  <2>3. state' = "open" /\ replaying' # 0 /\ seq' = seq
    BY <1>4 DEF OnOpen
  <2>4. MapOk(t)'
    BY <1>0, <2>1, <2>2 DEF MapOk, subVars, netVars
  <2>5. ReplayOk(t)'
    BY <1>0, <2>1, <2>2, <2>3 DEF ReplayOk, Unsent, subVars
  <2>6. WireOk(t)'
    <3>1. wire' = <<>> /\ server' = {} /\ UNCHANGED <<sent, replay, subs>>
      BY <2>1 DEF netVars, subVars
    <3>2. t \in sent => t \in replay
      BY <1>0, <2>1 DEF ReplayOk
    <3> QED BY <3>1, <3>2, EmptyWire DEF WireOk
  <2> QED BY <2>4, <2>5, <2>6 DEF ServeOk
<1> QED BY <1>1, <1>2, <1>3, <1>4

LEMMA ReplayServe ==
  ASSUME TypeOK, FreshInv, NEW t \in Subs, ServeOk(t), ReplayOnOpen
  PROVE  ServeOk(t)'
<1>0. /\ MapOk(t) /\ ReplayOk(t) /\ wire \in Seq(Frames) /\ IsFiniteSet(replay) /\ replay \in SUBSET Subs
      /\ replaying # 0 /\ replaying' = 0 /\ server' = server
      /\ UNCHANGED <<connVars, seq, subs, gone, unsubs, openAt, pend, ready>>
  BY DEF TypeOK, ServeOk, NetType, MapType, ReplayOnOpen, attVars
<1>1. CASE Current(replaying)
  <2>1. state = "open" /\ wire = <<>> /\ server = {}
    BY <1>0, <1>1 DEF Current, FreshInv
  <2>2. /\ sent' = sent \cup replay /\ replay' = {}
        /\ wire' = wire \o SetToSeq({<<"subscribe", s>> : s \in replay})
    BY <1>1 DEF ReplayOnOpen
  <2>3. /\ OnWire(wire', SubFrame(t)) <=> t \in replay
        /\ ~OnWire(wire', UnsFrame(t))
        /\ Once(wire', SubFrame(t))
    BY <1>0, <2>1, <2>2, ReplayedWire
  <2>4. Before(wire', SubFrame(t), UnsFrame(t))
    BY <2>3 DEF Before, OnWire
  <2>5. MapOk(t)'
    BY <1>0, <2>2, <2>3 DEF MapOk, connVars
  <2>6. ReplayOk(t)'
    BY <1>0, <2>1, <2>2 DEF ReplayOk, Unsent, connVars
  <2>7. WireOk(t)'
    BY <1>0, <2>1, <2>2, <2>3, <2>4 DEF WireOk, MapOk, ReplayOk
  <2> QED BY <2>5, <2>6, <2>7 DEF ServeOk
<1>2. CASE ~Current(replaying)
  <2>1. state # "open" /\ UNCHANGED <<sent, replay, wire>>
    BY <1>0, <1>2 DEF Current, FreshInv, ReplayOnOpen
  <2>2. SameTables(t) /\ SameLink
    BY <1>0, <2>1 DEF SameTables, SameLink, connVars
  <2>3. SameWire(t)
    BY <1>0, <2>1, SameWires
  <2> QED BY <2>2, <2>3, Untouched
<1> QED BY <1>1, <1>2

LEMMA SubscribeServe ==
  ASSUME TypeOK, CallerInv, NEW t \in Subs, ServeOk(t), NEW s \in Subs, Subscribe(s)
  PROVE  ServeOk(t)'
<1>0. /\ cont \in [Callers -> Outcomes] /\ t \in Callers /\ s \in Callers /\ MapOk(t) /\ ReplayOk(t)
      /\ wire \in Seq(Frames) /\ UNCHANGED netVars /\ UNCHANGED <<replaying, sent, replay, gone, unsubs>>
      /\ pend \in [Subs -> Pends] /\ ready \in [Subs -> Readies] /\ openAt \in [Subs -> Nat] /\ seq \in Nat
      /\ (state = "open" => waiting = {})
  BY DEF TypeOK, ConnType, MapType, LocalType, NetType, AttType, Callers, ServeOk, Subscribe, sockVars, CallerInv
<1>1. SameLink
  BY <1>0 DEF Subscribe, EnsureConnected, SameLink, attVars
<1>2. CASE t # s
  <2>1. SameTables(t)
    BY <1>0, <1>2 DEF Subscribe, EnsureConnected, SameTables
  <2>2. SameWire(t)
    BY <1>0, SameWires DEF netVars
  <2> QED BY <1>1, <2>1, <2>2, Untouched
<1>3. CASE t = s
  <2>1. /\ t \notin subs \cup gone \cup unsubs \cup waiting \cup server /\ cont[t] = "none"
        /\ t \notin sent /\ t \notin replay /\ ~OnWire(wire, SubFrame(t)) /\ ~OnWire(wire, UnsFrame(t))
    BY <1>0, <1>3 DEF MapOk, Subscribe
  <2>2. t \in subs' /\ pend'[t] = "first" /\ ready'[t] = "pending" /\ openAt'[t] = IF state = "open" THEN seq ELSE 0
    BY <1>0, <1>3 DEF Subscribe
  <2>3. IF state = "open" THEN state' = "open" /\ seq' = seq /\ cont'[t] = "ok" /\ waiting' = waiting
        ELSE t \in waiting' /\ cont'[t] = "none"
    BY <1>0, <1>3, <2>1 DEF Subscribe, EnsureConnected, attVars
  <2>4. MapOk(t)'
    BY <1>0, <2>1, <2>2 DEF MapOk
  <2>5. ReplayOk(t)'
    BY <1>0, <2>1, <2>2, <2>3 DEF ReplayOk, Unsent
  <2>6. state' = "open" => WireOk(t)'
    BY <1>0, <1>1, <2>1, <2>2 DEF ServeOk, WireOk, SameLink, netVars
  <2> QED BY <2>4, <2>5, <2>6 DEF ServeOk
<1> QED BY <1>2, <1>3

LEMMA ContinuesServe ==
  ASSUME TypeOK, CallerInv, NEW t \in Subs, ServeOk(t), NEW s \in Subs, SubscribeContinues(s)
  PROVE  ServeOk(t)'
<1>0. /\ cont \in [Callers -> Outcomes] /\ t \in Callers /\ s \in Callers /\ MapOk(t) /\ ReplayOk(t)
      /\ wire \in Seq(Frames) /\ replaying = 0
      /\ UNCHANGED <<replaying, state, seq, waiting, server, openAt, unsubs>>
      /\ cont' = [cont EXCEPT ![s] = "none"]
      /\ cont[s] \in {"ok", "err"}
  BY DEF TypeOK, ConnType, NetType, Callers, ServeOk, SubscribeContinues, sockVars, attVars, Outcomes
<1>1. SameLink
  BY <1>0 DEF SameLink
<1>2. cont'[s] = "none" /\ (t # s => cont'[t] = cont[t])
  BY <1>0
<1>3. CASE cont[s] = "ok" /\ ToSend(s)
  <2>0. s \in subs /\ s \notin gone /\ s \notin sent /\ s \notin replay /\ state = "open"
    BY <1>3 DEF ToSend
  <2>1. CASE wire' = Append(wire, SubFrame(s)) /\ sent' = sent \cup {s} /\ UNCHANGED <<subs, replay, pend, ready, gone>>
    <3>1. CASE t # s
      <4>1. SameTables(t)
        BY <1>0, <1>2, <2>1, <3>1 DEF SameTables
      <4>2. SameWire(t)
        BY <1>0, <2>1, <3>1, SameWires, FrameFacts
      <4> QED BY <1>1, <4>1, <4>2, Untouched
    <3>2. CASE t = s
      <4>1. WireOk(t)
        BY <2>0 DEF ServeOk
      <4>2. t \notin server /\ ~OnWire(wire, SubFrame(t)) /\ ~OnWire(wire, UnsFrame(t))
        BY <2>0, <3>2, <4>1 DEF WireOk
      <4>3. /\ OnWire(wire', SubFrame(t)) /\ ~OnWire(wire', UnsFrame(t))
            /\ Once(wire', SubFrame(t)) /\ Before(wire', SubFrame(t), UnsFrame(t))
        BY <1>0, <2>1, <3>2, <4>1, <4>2, AppendedWire, FrameFacts DEF WireOk
      <4>4. MapOk(t)'
        BY <1>0, <2>0, <2>1, <3>2 DEF MapOk
      <4>5. ReplayOk(t)'
        BY <1>0, <2>0, <2>1, <3>2 DEF ReplayOk, Unsent
      <4>6. pend'[t] # "none"
        BY <1>0, <2>0, <2>1, <3>2 DEF MapOk
      <4>7. WireOk(t)'
        BY <1>0, <2>0, <2>1, <3>2, <4>2, <4>3, <4>6 DEF WireOk
      <4> QED BY <4>4, <4>5, <4>7 DEF ServeOk
    <3> QED BY <3>1, <3>2
  <2>2. CASE Drop({s}) /\ wire' = wire
    <3>1. CASE t # s
      <4>1. SameTables(t)
        BY <1>0, <1>2, <2>2, <3>1 DEF SameTables, Drop
      <4> QED BY <1>0, <1>1, <2>2, <4>1, Untouched, SameWires
    <3>2. CASE t = s
      <4>1. t \notin subs' /\ t \notin sent' /\ t \notin replay' /\ (ready'[t] = "none" => ready[t] = "none")
        BY <2>2, <3>2 DEF Drop
      <4>2. ready[t] # "none"
        BY <1>0, <2>0, <3>2 DEF MapOk
      <4>3. MapOk(t)'
        BY <4>1, <4>2 DEF MapOk
      <4>4. ReplayOk(t)'
        BY <1>0, <4>1 DEF ReplayOk, Unsent
      <4>5. WireOk(t)'
        BY <1>0, <2>0, <2>2, <3>2, <4>1 DEF ServeOk, WireOk
      <4> QED BY <4>3, <4>4, <4>5 DEF ServeOk
    <3> QED BY <3>1, <3>2
  <2> QED BY <1>3, <2>1, <2>2 DEF SubscribeContinues, Write, SubFrame
<1>4. CASE ~(cont[s] = "ok" /\ ToSend(s))
  <2>1. wire' = wire /\ SameWire(t)
    BY <1>0, <1>4, SameWires DEF SubscribeContinues
  <2>2. CASE cont[s] = "err"
    <3>0. Drop({s}) /\ state # "open"
      BY <1>0, <1>4, <2>2 DEF SubscribeContinues, CallerInv
    <3>1. CASE t # s
      <4>1. SameTables(t)
        BY <1>0, <1>2, <3>0, <3>1 DEF SameTables, Drop
      <4> QED BY <1>1, <2>1, <4>1, Untouched
    <3>2. CASE t = s
      <4>1. t \notin subs' /\ t \notin sent' /\ t \notin replay' /\ (ready'[t] = "none" => ready[t] = "none")
        BY <3>0, <3>2 DEF Drop
      <4>2. ready[t] # "none"
        BY <1>0, <2>2, <3>2 DEF MapOk
      <4>3. MapOk(t)'
        BY <4>1, <4>2 DEF MapOk
      <4>4. ReplayOk(t)'
        BY <1>0, <4>1 DEF ReplayOk, Unsent
      <4> QED BY <1>0, <3>0, <4>3, <4>4 DEF ServeOk
    <3> QED BY <3>1, <3>2
  <2>3. CASE cont[s] = "ok"
    <3>0. UNCHANGED <<subs, sent, replay, pend, ready, gone>> /\ ~ToSend(s)
      BY <1>0, <1>4, <2>3 DEF SubscribeContinues
    <3>1. CASE t # s
      <4>1. SameTables(t)
        BY <1>0, <1>2, <3>0, <3>1 DEF SameTables
      <4> QED BY <1>1, <2>1, <4>1, Untouched
    <3>2. CASE t = s
      <4>1. t \notin Unsent
        BY <1>0, <2>3, <3>0, <3>2 DEF ToSend, Unsent, ReplayOk, MapOk
      <4>2. t \notin Unsent'
        BY <3>0, <4>1 DEF Unsent
      <4>3. MapOk(t)'
        BY <1>0, <1>2, <2>1, <3>0, <3>2 DEF MapOk
      <4>4. ReplayOk(t)'
        BY <1>0, <3>0, <4>2 DEF ReplayOk
      <4>5. state' = "open" => WireOk(t)'
        BY <1>0, <2>1, <3>0 DEF ServeOk, WireOk
      <4> QED BY <4>3, <4>4, <4>5 DEF ServeOk
    <3> QED BY <3>1, <3>2
  <2> QED BY <1>0, <2>2, <2>3
<1> QED BY <1>3, <1>4

\* A subscription leaves the map while the exchange may stream it, and its
\* UNSUBSCRIBE is queued.
LEMMA LeaveServe ==
  ASSUME NEW t, ServeOk(t), ready[t] # "none", ready'[t] # "none",
         t \notin subs', t \notin sent', t \notin replay',
         t \in unsubs => t \in unsubs', t \in subs /\ WasSent(t) /\ state = "open" => t \in unsubs',
         UNCHANGED <<wire, server, state, waiting, cont, openAt, replaying, seq>>
  PROVE  ServeOk(t)'
<1>1. MapOk(t)'
  BY DEF MapOk
<1>2. ReplayOk(t)'
  BY DEF ServeOk, ReplayOk, Unsent
<1>3. ASSUME state' = "open" PROVE WireOk(t)'
  <2>1. WireOk(t) /\ MapOk(t) /\ state = "open"
    BY <1>3 DEF ServeOk
  <2>2. t \in server \/ OnWire(wire, SubFrame(t)) => t \in unsubs' \/ OnWire(wire, UnsFrame(t))
    BY <2>1 DEF WireOk, WasSent
  <2> QED BY <2>1, <2>2 DEF WireOk
<1> QED BY <1>1, <1>2, <1>3 DEF ServeOk

LEMMA DeadlineServe ==
  ASSUME TypeOK, NEW t \in Subs, ServeOk(t), NEW s \in Subs, ReadyDeadline(s) \/ CloseStream(s)
  PROVE  ServeOk(t)'
<1>0. /\ wire \in Seq(Frames) /\ UNCHANGED <<wire, server, state, waiting, cont, openAt, replaying, seq>>
      /\ pend \in [Subs -> Pends] /\ ready \in [Subs -> Readies] /\ MapOk(t)
  BY DEF TypeOK, NetType, MapType, ReadyDeadline, CloseStream, connVars, attVars, sockVars, netVars, ServeOk
<1>1. CASE t # s
  <2>1. t \in unsubs' <=> t \in unsubs
    BY <1>1 DEF ReadyDeadline, CloseStream, QueueUnsubscribe
  <2>2. SameTables(t)
    BY <1>0, <1>1, <2>1 DEF ReadyDeadline, CloseStream, Drop, SameTables
  <2>3. SameWire(t) /\ SameLink
    BY <1>0, SameWires DEF SameLink
  <2> QED BY <2>2, <2>3, Untouched
<1>2. CASE t = s
  <2>1. t \notin subs' /\ t \notin sent' /\ t \notin replay' /\ ready[t] # "none" /\ ready'[t] # "none"
    BY <1>0, <1>2 DEF ReadyDeadline, CloseStream, Drop
  <2>2. /\ t \in unsubs => t \in unsubs'
        /\ t \in subs /\ WasSent(t) /\ state = "open" => t \in unsubs'
    BY <1>0, <1>2 DEF ReadyDeadline, CloseStream, QueueUnsubscribe, MapOk
  <2> QED BY <1>0, <2>1, <2>2, LeaveServe
<1> QED BY <1>1, <1>2

LEMMA SendUnsubscribeServe ==
  ASSUME TypeOK, NEW t \in Subs, ServeOk(t), NEW s \in Subs, SendUnsubscribe(s)
  PROVE  ServeOk(t)'
<1>0. /\ wire \in Seq(Frames) /\ MapOk(t) /\ unsubs' = unsubs \ {s} /\ s \in unsubs
      /\ UNCHANGED <<server, state, waiting, cont, openAt, replaying, seq, subs, sent, replay, pend, ready, gone>>
  BY DEF TypeOK, NetType, SendUnsubscribe, connVars, attVars, sockVars, ServeOk
<1>1. IF state = "open" THEN wire' = Append(wire, UnsFrame(s)) ELSE wire' = wire
  BY DEF SendUnsubscribe, Write, UnsFrame
<1>2. CASE t # s
  <2>1. SameTables(t) /\ SameLink
    BY <1>0, <1>2 DEF SameTables, SameLink
  <2>2. SameWire(t)
    BY <1>0, <1>1, <1>2, SameWires, FrameFacts
  <2> QED BY <2>1, <2>2, Untouched
<1>3. CASE t = s
  <2>1. t \notin subs /\ ready[t] # "none"
    BY <1>0, <1>3 DEF MapOk
  <2>2. MapOk(t)'
    BY <1>0, <2>1 DEF MapOk
  <2>3. ReplayOk(t)'
    BY <1>0 DEF ServeOk, ReplayOk, Unsent
  <2>4. ASSUME state' = "open" PROVE WireOk(t)'
    <3>1. WireOk(t) /\ wire' = Append(wire, UnsFrame(t))
      BY <1>0, <1>1, <1>3, <2>4 DEF ServeOk
    <3>2. /\ OnWire(wire', SubFrame(t)) <=> OnWire(wire, SubFrame(t))
          /\ OnWire(wire', UnsFrame(t))
          /\ Once(wire', SubFrame(t)) /\ Before(wire', SubFrame(t), UnsFrame(t))
      BY <1>0, <3>1, AppendedWire, FrameFacts DEF WireOk
    <3> QED BY <1>0, <2>1, <3>1, <3>2 DEF WireOk, MapOk
  <2> QED BY <2>2, <2>3, <2>4 DEF ServeOk
<1> QED BY <1>2, <1>3

LEMMA HandledServe ==
  ASSUME TypeOK, NEW t \in Subs, ServeOk(t), NEW s \in Subs, Acknowledged(s) \/ Refused(s) \/ Unsubscribed(s)
  PROVE  ServeOk(t)'
<1>0. /\ wire \in Seq(Frames) /\ wire # <<>> /\ wire' = Tail(wire) /\ MapOk(t) /\ ReplayOk(t) /\ WireOk(t)
      /\ state = "open" /\ replaying = 0
      /\ UNCHANGED <<state, waiting, cont, openAt, replaying, seq, unsubs>>
      /\ pend \in [Subs -> Pends] /\ ready \in [Subs -> Readies]
  BY DEF TypeOK, NetType, MapType, Acknowledged, Refused, Unsubscribed, Handled, Quiet, connVars, attVars, sockVars,
         ServeOk
<1>1. Head(wire) = IF Unsubscribed(s) THEN UnsFrame(s) ELSE SubFrame(s)
  BY DEF Acknowledged, Refused, Unsubscribed, Handled, SubFrame, UnsFrame
<1>2. CASE t # s
  <2>1. SameTables(t) /\ SameLink
    BY <1>0, <1>2 DEF Acknowledged, Refused, Unsubscribed, Drop, SameTables, SameLink
  <2>2. t \in server' <=> t \in server
    BY <1>2 DEF Acknowledged, Refused, Unsubscribed
  <2>3. SameWire(t)
    BY <1>0, <1>1, <1>2, <2>2, SameWires, FrameFacts
  <2> QED BY <2>1, <2>3, Untouched
<1>3. ASSUME t = s, Head(wire) = SubFrame(t)
      PROVE  /\ ~OnWire(wire', SubFrame(t)) /\ OnWire(wire, SubFrame(t)) /\ ready[t] # "none"
             /\ OnWire(wire', UnsFrame(t)) <=> OnWire(wire, UnsFrame(t))
             /\ Once(wire', SubFrame(t)) /\ Before(wire', SubFrame(t), UnsFrame(t))
             /\ t \notin replay /\ (t \in subs => t \in sent /\ t \notin server /\ pend[t] # "none")
  <2>1. /\ ~OnWire(wire', SubFrame(t)) /\ OnWire(wire, SubFrame(t))
        /\ OnWire(wire', UnsFrame(t)) <=> OnWire(wire, UnsFrame(t))
        /\ Once(wire', SubFrame(t)) /\ Before(wire', SubFrame(t), UnsFrame(t))
    BY <1>0, <1>3, TakenWire, FrameFacts DEF WireOk
  <2>2. t \notin replay /\ (t \in subs => t \in sent /\ t \notin server /\ pend[t] # "none")
    BY <1>0, <2>1 DEF WireOk, ReplayOk
  <2>3. ready[t] # "none"
    BY <1>0, <2>1 DEF MapOk
  <2> QED BY <2>1, <2>2, <2>3
<1>4. CASE t = s /\ Acknowledged(s)
  <2>0. Head(wire) = SubFrame(t)
    BY <1>4 DEF Acknowledged, Handled, SubFrame
  <2>1. /\ server' = server \cup {t} /\ pend'[t] = "none" /\ UNCHANGED <<subs, sent, replay, gone>>
        /\ ready'[t] # "none"
    BY <1>0, <1>3, <1>4, <2>0 DEF Acknowledged
  <2>2. MapOk(t)'
    BY <1>0, <1>3, <1>4, <2>0, <2>1 DEF MapOk
  <2>3. ReplayOk(t)'
    BY <1>0, <2>1 DEF ReplayOk, Unsent
  <2>4. WireOk(t)'
    BY <1>0, <1>3, <1>4, <2>0, <2>1 DEF WireOk
  <2> QED BY <2>2, <2>3, <2>4 DEF ServeOk
<1>5. CASE t = s /\ Refused(s)
  <2>0. Head(wire) = SubFrame(t) /\ server' = server
    BY <1>5 DEF Refused, Handled, SubFrame
  <2>1. /\ t \notin subs' /\ t \notin sent' /\ t \notin replay' /\ ready'[t] # "none"
    BY <1>0, <1>3, <1>5, <2>0 DEF Refused, Drop, MapOk
  <2>2. MapOk(t)'
    BY <2>1 DEF MapOk
  <2>3. ReplayOk(t)'
    BY <1>0, <2>1 DEF ReplayOk, Unsent
  <2>4. WireOk(t)'
    BY <1>0, <1>3, <1>5, <2>0, <2>1 DEF WireOk
  <2> QED BY <2>2, <2>3, <2>4 DEF ServeOk
<1>6. CASE t = s /\ Unsubscribed(s)
  <2>0. /\ Head(wire) = UnsFrame(t) /\ server' = server \ {t}
        /\ UNCHANGED <<subs, sent, replay, pend, ready, gone>>
    BY <1>6 DEF Unsubscribed, Handled, UnsFrame
  <2>1. /\ OnWire(wire, UnsFrame(t)) /\ ~OnWire(wire', SubFrame(t))
        /\ OnWire(wire', UnsFrame(t)) => OnWire(wire, UnsFrame(t))
        /\ Once(wire', SubFrame(t)) /\ Before(wire', SubFrame(t), UnsFrame(t))
    BY <1>0, <2>0, TakenWire DEF WireOk
  <2>2. t \notin subs /\ ready[t] # "none"
    BY <1>0, <2>1 DEF WireOk, MapOk
  <2>3. MapOk(t)'
    BY <1>0, <2>0, <2>2 DEF MapOk
  <2>4. ReplayOk(t)'
    BY <1>0, <2>0 DEF ReplayOk, Unsent
  <2>5. WireOk(t)'
    BY <1>0, <2>0, <2>1, <2>2 DEF WireOk, MapOk
  <2> QED BY <2>3, <2>4, <2>5 DEF ServeOk
<1> QED BY <1>2, <1>4, <1>5, <1>6

LEMMA RequestServe ==
  ASSUME TypeOK, NEW t \in Subs, ServeOk(t), NEW r \in Reqs, RequestStep(r)
  PROVE  ServeOk(t)'
<1>0. /\ cont \in [Callers -> Outcomes] /\ t \in Callers /\ r \in Callers /\ t # r /\ wire \in Seq(Frames)
  BY WsSessionAssumption DEF TypeOK, ConnType, NetType, Callers, Reqs
<1>1. CASE Request(r)
  <2>1. SameTables(t) /\ SameLink
    BY <1>0, <1>1 DEF Request, EnsureConnected, SameTables, SameLink, sockVars, subVars, attVars
  <2>2. SameWire(t)
    BY <1>0, <1>1, SameWires DEF Request, netVars
  <2> QED BY <2>1, <2>2, Untouched
<1>2. CASE RequestContinues(r)
  <2>1. SameTables(t) /\ SameLink
    BY <1>0, <1>2 DEF RequestContinues, SameTables, SameLink, sockVars, subVars, attVars
  <2>2. server' = server /\ (wire' = wire \/ wire' = Append(wire, <<"request", r>>))
    BY <1>2 DEF RequestContinues, Write
  <2>3. SameWire(t)
    BY <1>0, <2>2, SameWires, FrameFacts
  <2> QED BY <2>1, <2>3, Untouched
<1>3. CASE RequestDeadline(r)
  <2>1. SameTables(t) /\ SameLink
    BY <1>3 DEF RequestDeadline, SameTables, SameLink, connVars, attVars, sockVars, subVars
  <2>2. SameWire(t)
    BY <1>0, <1>3, SameWires DEF RequestDeadline, netVars
  <2> QED BY <2>1, <2>2, Untouched
<1>4. CASE Answered(r)
  <2>1. SameTables(t) /\ SameLink
    BY <1>4 DEF Answered, Handled, SameTables, SameLink, connVars, attVars, sockVars
  <2>2. server' = server /\ wire # <<>> /\ wire' = Tail(wire) /\ Head(wire) = <<"request", r>>
    BY <1>4 DEF Answered, Handled
  <2>3. SameWire(t)
    BY <1>0, <2>2, SameWires, FrameFacts
  <2> QED BY <2>1, <2>3, Untouched
<1> QED BY <1>1, <1>2, <1>3, <1>4 DEF RequestStep

LEMMA ServeStep ==
  ASSUME TypeOK, ConnInv, ServeInv, [Next]_vars, ~disowned'
  PROVE  ServeInv'
<1>0. CallerInv /\ FreshInv /\ \A t \in Subs : ServeOk(t)
  BY DEF ServeInv
<1>1. CallerInv' /\ FreshInv'
  BY <1>0, CallerStep, FreshStep
<1>2. ASSUME NEW t \in Subs PROVE ServeOk(t)'
  <2>0. ServeOk(t)
    BY <1>0
  <2>1. CASE Loses
    BY <2>0, <2>1, LosesServe
  <2>2. CASE \/ Calm \/ TimerFires \/ OnOpen \/ OnMalformedFrame \/ OnBadFrame
             \/ \E k \in Attempts : Created(k)
    BY <1>0, <2>0, <2>2, ConnectServe
  <2>3. CASE ReplayOnOpen
    BY <1>0, <2>0, <2>3, ReplayServe
  <2>4. CASE Close
    BY <2>0, <2>4, CloseServe
  <2>5. ASSUME NEW s \in Subs, SubStep(s) PROVE ServeOk(t)'
    BY <1>0, <2>0, <2>5, SubscribeServe, ContinuesServe, DeadlineServe, SendUnsubscribeServe, HandledServe
       DEF SubStep
  <2>6. ASSUME NEW r \in Reqs, RequestStep(r) PROVE ServeOk(t)'
    BY <2>0, <2>6, RequestServe
  <2> QED BY StepKinds, <2>1, <2>2, <2>3, <2>4, <2>5, <2>6
<1> QED BY <1>1, <1>2 DEF ServeInv

LEMMA InitServe == Init => PendInv /\ StreamInv /\ ServeInv
<1> SUFFICES ASSUME Init PROVE PendInv /\ StreamInv /\ ServeInv
  OBVIOUS
<1>1. PendInv
  BY DEF Init, PendInv
<1>2. StreamInv
  BY DEF Init, StreamInv, StreamOk
<1>3. CallerInv /\ FreshInv
  BY DEF Init, CallerInv, FreshInv
<1>4. ASSUME NEW t \in Subs PROVE ServeOk(t)
  <2>1. MapOk(t)
    BY EmptyWire DEF Init, MapOk, Callers
  <2>2. ReplayOk(t)
    BY DEF Init, ReplayOk, Unsent, Callers
  <2>3. state # "open"
    BY DEF Init
  <2> QED BY <2>1, <2>2, <2>3 DEF ServeOk
<1> QED BY <1>1, <1>2, <1>3, <1>4 DEF ServeInv

\* With no continuation left everything in the map was sent.
LEMMA ServedNow ==
  ASSUME TypeOK, ServeInv
  PROVE  ServedExactly
<1> SUFFICES ASSUME Quiet, state = "open"
             PROVE  /\ \A s \in subs : Asked(s) + (IF s \in server THEN 1 ELSE 0) = 1
                    /\ \A s \in server \ subs : \E i \in DOMAIN wire : wire[i] = <<"unsubscribe", s>>
  BY DEF ServedExactly
<1>0. /\ replaying = 0 /\ unsubs = {} /\ \A c \in Callers : cont[c] = "none"
      /\ waiting = {} /\ subs \in SUBSET Subs /\ server \in SUBSET Subs /\ Subs \subseteq Callers
  BY DEF Quiet, ServeInv, CallerInv, TypeOK, MapType, NetType, Callers
<1>1. ASSUME NEW s \in Subs
      PROVE  MapOk(s) /\ ReplayOk(s) /\ WireOk(s)
  BY DEF ServeInv, ServeOk
<1>2. ASSUME NEW s \in subs PROVE Asked(s) + (IF s \in server THEN 1 ELSE 0) = 1
  <2>1. s \in sent \ replay
    BY <1>0, <1>1 DEF ReplayOk, Unsent
  <2>2. /\ s \in server <=> ~OnWire(wire, SubFrame(s))
        /\ Once(wire, SubFrame(s))
    BY <1>0, <1>1, <2>1 DEF WireOk
  <2> DEFINE at == {i \in DOMAIN wire : wire[i] = <<"subscribe", s>>}
  <2>3. CASE s \in server
    <3>1. at = {}
      BY <2>2, <2>3 DEF OnWire, SubFrame
    <3>2. Asked(s) = 0
      BY <3>1, FS_EmptySet DEF Asked
    <3> QED BY <2>3, <3>2
  <2>4. CASE s \notin server
    <3>1. PICK i \in DOMAIN wire : wire[i] = SubFrame(s)
      BY <2>2, <2>4 DEF OnWire
    <3>2. at = {i}
      BY <2>2, <3>1 DEF Once, SubFrame
    <3>3. Asked(s) = 1
      BY <3>2, FS_Singleton DEF Asked
    <3> QED BY <2>4, <3>3
  <2> QED BY <2>3, <2>4
<1>3. ASSUME NEW s \in server \ subs PROVE \E i \in DOMAIN wire : wire[i] = <<"unsubscribe", s>>
  BY <1>0, <1>1 DEF WireOk, OnWire, UnsFrame
<1> QED BY <1>2, <1>3

-----------------------------------------------------------------------------
(***************************************************************************)
(* The theorems.                                                           *)
(***************************************************************************)

\* The session's tables, locals and timers keep their types whatever the
\* application calls and the environment does.
THEOREM TypesHold == Spec => []TypeOK
<1>1. Init => TypeOK
  BY InitType
<1>2. TypeOK /\ [Next]_vars => TypeOK'
  BY TypeStep
<1> QED BY <1>1, <1>2, PTL DEF Spec

\* A stream (WebSocketStreamImpl) that shows "reconnecting" on an open connection
\* waits for the acknowledgement that makes it active again, and a stream that
\* has neither failed nor been closed has its subscription in the session's map,
\* also once a late failure has met a newer attempt.
THEOREM StreamsAreTruthful == Spec => []StreamsTruthful
<1>1. Init => TypeOK /\ StreamInv
  BY InitType, InitServe
<1>2. TypeOK /\ StreamInv /\ [Next]_vars => (TypeOK /\ StreamInv)'
  BY TypeStep, StreamStep
<1>3. StreamInv => StreamsTruthful
  BY DEF StreamInv, StreamOk, StreamsTruthful
<1> QED BY <1>1, <1>2, <1>3, PTL DEF Spec

\* Until a failure that prepareSocket catches late meets a newer attempt, there is
\* an active attempt exactly while the session connects, it is the last one and it
\* alone has a socket that is not closed.
THEOREM OneConnection == Spec => [](~disowned => ConnInv)
<1>1. Init => TypeOK /\ ConnInv
  BY InitType, InitConn
<1>2. TypeOK /\ (~disowned => ConnInv) /\ [Next]_vars => (TypeOK /\ (~disowned => ConnInv))'
  BY TypeStep, ConnStep, DisownedStays
<1> QED BY <1>1, <1>2, PTL DEF Spec

\* Until a failure that prepareSocket catches late meets a newer attempt, only
\* this.socket is not closed, and a request in this.pending was written to it on an
\* open connection (scheduleReconnect, failConnection and close reject all others).
THEOREM SocketsAreOwned == Spec => []SocketsOwned
<1> DEFINE Inv == TypeOK /\ (~disowned => ConnInv /\ PendInv)
<1>1. Init => Inv
  BY InitType, InitConn, InitServe
<1>2. Inv /\ [Next]_vars => Inv'
  BY TypeStep, ConnStep, PendStep, DisownedStays
<1>3. Inv => SocketsOwned
  BY DEF ConnInv, SocketInv, PendInv, SocketsOwned
<1> QED BY <1>1, <1>2, <1>3, PTL DEF Spec

\* Until a failure that prepareSocket catches late meets a newer attempt, the
\* exchange streams every subscription of the map on an open connection, or has
\* been asked to exactly once (by the replay of the open event or the continuation
\* of subscribe, never both), and streams nothing else that it was not asked to stop.
THEOREM ServedExactlyOnce == Spec => []ServedExactly
<1> DEFINE Inv == TypeOK /\ (~disowned => ConnInv /\ ServeInv)
<1>1. Init => Inv
  BY InitType, InitConn, InitServe
<1>2. Inv /\ [Next]_vars => Inv'
  BY TypeStep, ConnStep, ServeStep, DisownedStays
<1>3. Inv => ServedExactly
  BY ServedNow DEF ServedExactly
<1> QED BY <1>1, <1>2, <1>3, PTL DEF Spec

-----------------------------------------------------------------------------
(***************************************************************************)
(* The TypeScript order books.                                             *)
(***************************************************************************)
FrameForms  == Books!Forms \cup {"ack", "nack"}
BookNames   == Symbols \cup {"none"}
BookFrames  == [form : FrameForms, id : Nat, symbol : BookNames, first : Nat, last : Nat, base : BOOLEAN]
EntryPhases == {"none", "awaitingAck", "awaitingSnapshot", "live"}
Entries     ==
  [symbol : BookNames, open : BOOLEAN, phase : EntryPhases, pending : Seq(BookFrames), live : BOOLEAN,
   last : Nat, whole : BOOLEAN, signaled : BOOLEAN]
Clients     ==
  [book : [Books!Ids -> Entries], restarting : BOOLEAN, after : BOOLEAN, resyncs : Nat,
   link : {"idle", "dialing", "open", "down"}, sub : [Books!Ids -> {"none", "unsent", "sent", "replay"}],
   ack : [Books!Ids -> {"none", "first", "again", "replay"}], out : Seq({"subscribe", "unsubscribe"} \X Books!Ids)]

\* A book that is closed keeps nothing but its symbol.
Proper(b) ==
  /\ b.open => b.symbol \in Symbols /\ b.phase # "none"
  /\ ~b.open => b.phase = "none" /\ ~b.live /\ b.pending = <<>>

\* Without a connection no book is live or has frames.
Good(c) ==
  /\ c \in Clients
  /\ \A k \in Books!Ids : Proper(c.book[k])
  /\ c.link # "open" => \A k \in Books!Ids : ~c.book[k].live /\ c.book[k].pending = <<>>

\* The subscriptions that are on their way to the exchange.
Asks(c) == {k \in Books!Ids : \E i \in DOMAIN c.out : c.out[i] = <<"subscribe", k>>}

\* The books that have a subscription.
Held(c) == {k \in Books!Ids : c.sub[k] # "none"}
Fewer(c, d) == Asks(d) \subseteq Asks(c) /\ Held(d) \subseteq Held(c)

\* What handlers leave alone: they open no book, subscribe to nothing, and make
\* no book await its snapshot on a connection that it has.
Shape(c, d) ==
  /\ \A k \in Books!Ids : d.book[k].symbol = c.book[k].symbol /\ (d.book[k].open => c.book[k].open)
  /\ Fewer(c, d)
  /\ d.link = "open" =>
       /\ c.link = "open"
       /\ \A k \in Books!Ids : Books!Awaiting(d, k) =>
            Books!Awaiting(c, k) /\ (d.book[k].pending = <<>> => c.book[k].pending = <<>>)

\* Handlers that show no frame.
Tame(c, d) ==
  /\ Good(d) /\ Shape(c, d)
  /\ \A k \in Books!Ids :
       /\ d.book[k].live => c.book[k].live /\ d.book[k].whole = c.book[k].whole /\ d.book[k].last = c.book[k].last
       /\ d.book[k].pending \in {<<>>, c.book[k].pending}

\* The books are exact, and will be, if u are the updates and r the books that
\* were opened again.
Exact(c, u, r) ==
  \A k \in Books!Ids :
    /\ c.book[k].live => c.book[k].last <= u[c.book[k].symbol] /\ (k \in r \/ c.book[k].whole)
    /\ \A i \in DOMAIN c.book[k].pending :
         c.book[k].pending[i].symbol = c.book[k].symbol /\ c.book[k].pending[i].last <= u[c.book[k].symbol]
    /\ Books!Awaiting(c, k) /\ c.link = "open" /\ c.book[k].pending # <<>> => k \in r \/ c.book[k].pending[1].base

\* Handlers compose.
LEMMA ShapeTrans ==
  ASSUME NEW c, NEW d, NEW e, Shape(c, d), Shape(d, e) PROVE Shape(c, e)
<1>1. \A k \in Books!Ids : e.book[k].symbol = c.book[k].symbol /\ (e.book[k].open => c.book[k].open)
  BY DEF Shape
<1>2. Fewer(c, e)
  BY DEF Shape, Fewer
<1>3. e.link = "open" => c.link = "open"
  BY DEF Shape
<1>4. ASSUME e.link = "open", NEW k \in Books!Ids, Books!Awaiting(e, k)
      PROVE  Books!Awaiting(c, k) /\ (e.book[k].pending = <<>> => c.book[k].pending = <<>>)
  <2>1. d.link = "open" /\ Books!Awaiting(d, k) /\ (e.book[k].pending = <<>> => d.book[k].pending = <<>>)
    BY <1>4 DEF Shape
  <2> QED BY <2>1 DEF Shape
<1> QED BY <1>1, <1>2, <1>3, <1>4 DEF Shape

LEMMA TameTrans ==
  ASSUME NEW c, NEW d, NEW e, Tame(c, d), Tame(d, e) PROVE Tame(c, e)
<1>1. Good(e) /\ Shape(c, e)
  BY ShapeTrans DEF Tame
<1>2. ASSUME NEW k \in Books!Ids
      PROVE  /\ e.book[k].live => c.book[k].live /\ e.book[k].whole = c.book[k].whole /\ e.book[k].last = c.book[k].last
             /\ e.book[k].pending \in {<<>>, c.book[k].pending}
  BY DEF Tame
<1> QED BY <1>1, <1>2 DEF Tame

\* Books and connection stay.
LEMMA TameSame ==
  ASSUME NEW c, NEW d, Good(c), d \in Clients, d.book = c.book, d.link = c.link, Fewer(c, d)
  PROVE  Tame(c, d)
<1>1. Good(d)
  BY DEF Good
<1>2. \A k \in Books!Ids : Books!Awaiting(d, k) = Books!Awaiting(c, k)
  BY DEF Books!Awaiting
<1>3. Shape(c, d)
  BY <1>2 DEF Shape
<1> QED BY <1>1, <1>3 DEF Tame

\* What shows no frame leaves exact books exact.
LEMMA TameExact ==
  ASSUME NEW c, NEW d, NEW u, NEW r, Tame(c, d), Exact(c, u, r) PROVE Exact(d, u, r)
<1> SUFFICES ASSUME NEW k \in Books!Ids
             PROVE  /\ d.book[k].live => d.book[k].last <= u[d.book[k].symbol] /\ (k \in r \/ d.book[k].whole)
                    /\ \A i \in DOMAIN d.book[k].pending :
                         d.book[k].pending[i].symbol = d.book[k].symbol /\ d.book[k].pending[i].last <= u[d.book[k].symbol]
                    /\ Books!Awaiting(d, k) /\ d.link = "open" /\ d.book[k].pending # <<>> => k \in r \/ d.book[k].pending[1].base
  BY DEF Exact
<1>1. d.book[k].symbol = c.book[k].symbol
  BY DEF Tame, Shape
<1>2. /\ d.book[k].live => c.book[k].live /\ d.book[k].whole = c.book[k].whole /\ d.book[k].last = c.book[k].last
      /\ d.book[k].pending \in {<<>>, c.book[k].pending}
  BY DEF Tame
<1>3. d.book[k].live => d.book[k].last <= u[d.book[k].symbol] /\ (k \in r \/ d.book[k].whole)
  BY <1>1, <1>2 DEF Exact
<1>4. \A i \in DOMAIN d.book[k].pending :
        d.book[k].pending[i].symbol = d.book[k].symbol /\ d.book[k].pending[i].last <= u[d.book[k].symbol]
  <2>1. CASE d.book[k].pending = <<>>
    BY <2>1
  <2>2. CASE d.book[k].pending = c.book[k].pending
    BY <1>1, <2>2 DEF Exact
  <2> QED BY <1>2, <2>1, <2>2
<1>5. Books!Awaiting(d, k) /\ d.link = "open" /\ d.book[k].pending # <<>> => k \in r \/ d.book[k].pending[1].base
  <2>1. Books!Awaiting(d, k) /\ d.link = "open" => Books!Awaiting(c, k) /\ c.link = "open"
    BY DEF Tame, Shape
  <2>2. d.book[k].pending # <<>> => d.book[k].pending = c.book[k].pending
    BY <1>2
  <2> QED BY <2>1, <2>2 DEF Exact
<1> QED BY <1>3, <1>4, <1>5

LEMMA BlankBook ==
  /\ Books!NoBook \in Entries /\ Books!NoBook.symbol = "none" /\ ~Books!NoBook.open
  /\ ~Books!NoBook.live /\ Books!NoBook.phase = "none" /\ Books!NoBook.pending = <<>>
<1>1. <<>> \in Seq(BookFrames)
  OBVIOUS
<1> QED BY <1>1 DEF Books!NoBook, Entries, BookNames, EntryPhases

\* What prepareBooksForReconnect makes of one book.
Fenced(b) == [b EXCEPT !.phase = "awaitingAck", !.pending = <<>>, !.live = FALSE, !.signaled = TRUE]

LEMMA FencedFields ==
  ASSUME NEW b \in Entries
  PROVE  /\ Fenced(b) \in Entries
         /\ Fenced(b).symbol = b.symbol /\ Fenced(b).open = b.open
         /\ ~Fenced(b).live /\ Fenced(b).pending = <<>>
         /\ Fenced(b).whole = b.whole /\ Fenced(b).last = b.last /\ Fenced(b).phase = "awaitingAck"
<1>1. <<>> \in Seq(BookFrames)
  OBVIOUS
<1> QED BY <1>1 DEF Fenced, Entries, EntryPhases

LEMMA PreparedFields ==
  ASSUME NEW c, Good(c)
  PROVE  /\ Books!Prepared(c) \in Clients
         /\ Books!Prepared(c).link = c.link /\ Books!Prepared(c).out = c.out /\ Books!Prepared(c).sub = c.sub /\ Books!Prepared(c).ack = c.ack
         /\ \A k \in Books!Ids : Books!Prepared(c).book[k] = IF k \in Books!Open(c) THEN Fenced(c.book[k]) ELSE c.book[k]
<1>1. c \in Clients /\ c.book \in [Books!Ids -> Entries]
  BY DEF Good, Clients
<1> DEFINE fences == [k \in Books!Ids |-> IF k \in Books!Open(c) THEN Fenced(c.book[k]) ELSE c.book[k]]
<1>2. fences \in [Books!Ids -> Entries]
  BY <1>1, FencedFields
<1>3. Books!Prepared(c) = [c EXCEPT !.book = fences]
  BY DEF Books!Prepared, Fenced
<1>4. \A k \in Books!Ids : fences[k] = IF k \in Books!Open(c) THEN Fenced(c.book[k]) ELSE c.book[k]
  OBVIOUS
<1> HIDE DEF fences
<1>5. /\ [c EXCEPT !.book = fences] \in Clients
      /\ [c EXCEPT !.book = fences].book = fences
      /\ [c EXCEPT !.book = fences].link = c.link /\ [c EXCEPT !.book = fences].out = c.out
      /\ [c EXCEPT !.book = fences].sub = c.sub /\ [c EXCEPT !.book = fences].ack = c.ack
  BY <1>1, <1>2 DEF Clients
<1> QED BY <1>3, <1>4, <1>5

\* A client that is fenced and not connected.
LEMMA FencedTame ==
  ASSUME NEW c, NEW d, Good(c), d \in Clients, d.link # "open", Fewer(c, d),
         \A k \in Books!Ids : d.book[k] = IF k \in Books!Open(c) THEN Fenced(c.book[k]) ELSE c.book[k]
  PROVE  Tame(c, d)
<1>1. c.book \in [Books!Ids -> Entries]
  BY DEF Good, Clients
<1>2. ASSUME NEW k \in Books!Ids
      PROVE  /\ d.book[k].symbol = c.book[k].symbol /\ d.book[k].open = c.book[k].open
             /\ ~d.book[k].live /\ d.book[k].pending = <<>> /\ Proper(d.book[k])
  <2>1. CASE k \in Books!Open(c)
    BY <1>1, <2>1, FencedFields DEF Good, Proper, Books!Open
  <2>2. CASE k \notin Books!Open(c)
    BY <1>1, <2>2 DEF Good, Proper, Books!Open
  <2> QED BY <2>1, <2>2
<1>3. Good(d)
  BY <1>2 DEF Good
<1>4. Shape(c, d)
  BY <1>2 DEF Shape
<1> QED BY <1>2, <1>3, <1>4 DEF Tame

\* The recovery of all books, and how it ends.
LEMMA ReconnectingTame ==
  ASSUME NEW c, Good(c) PROVE Tame(c, Books!Reconnecting(c)) /\ Books!Reconnecting(c).link = "down"
<1> DEFINE subs2 == [k \in Books!Ids |-> IF c.sub[k] = "none" THEN "none" ELSE "replay"]
           acks2 == [k \in Books!Ids |->
             IF c.sub[k] = "none" THEN c.ack[k]
             ELSE IF c.ack[k] \in {"first", "again"} THEN "again" ELSE "replay"]
           p == Books!Prepared(c)
           d == [p EXCEPT !.restarting = TRUE, !.link = "down", !.out = <<>>, !.sub = subs2, !.ack = acks2]
<1>1. c \in Clients
  BY DEF Good
<1>2. /\ p \in Clients /\ p.sub = c.sub /\ p.ack = c.ack
      /\ \A k \in Books!Ids : p.book[k] = IF k \in Books!Open(c) THEN Fenced(c.book[k]) ELSE c.book[k]
  BY PreparedFields
<1>3. subs2 \in [Books!Ids -> {"none", "unsent", "sent", "replay"}]
  OBVIOUS
<1>4. acks2 \in [Books!Ids -> {"none", "first", "again", "replay"}]
  BY <1>1 DEF Clients
<1>5. Books!Reconnecting(c) = d
  <2>1. \A k \in Books!Ids : p.sub[k] = c.sub[k] /\ p.ack[k] = c.ack[k]
    BY <1>2
  <2>2. [k \in Books!Ids |-> IF p.sub[k] = "none" THEN "none" ELSE "replay"] = subs2
    BY <2>1
  <2>3. [k \in Books!Ids |-> IF c.sub[k] = "none" THEN p.ack[k]
             ELSE IF p.ack[k] \in {"first", "again"} THEN "again" ELSE "replay"] = acks2
    BY <2>1
  <2> QED BY <2>2, <2>3 DEF Books!Reconnecting
<1> HIDE DEF subs2, acks2, p
<1>6. <<>> \in Seq({"subscribe", "unsubscribe"} \X Books!Ids)
  OBVIOUS
<1>7. d \in Clients /\ d.link = "down" /\ d.out = <<>> /\ d.sub = subs2 /\ d.book = p.book
  BY <1>2, <1>3, <1>4, <1>6 DEF Clients
<1>8. Fewer(c, d)
  <2>1. \A k \in Books!Ids : subs2[k] # "none" => c.sub[k] # "none"
    BY DEF subs2
  <2>2. Asks(d) = {}
    BY <1>7 DEF Asks
  <2>3. Held(d) \subseteq Held(c)
    BY <1>7, <2>1 DEF Held
  <2> QED BY <2>2, <2>3 DEF Fewer
<1> HIDE DEF d
<1>9. Tame(c, d)
  BY <1>2, <1>7, <1>8, FencedTame
<1> QED BY <1>5, <1>7, <1>9

LEMMA RestartTame ==
  ASSUME NEW c, Good(c)
  PROVE  Tame(c, Books!Restart(c)) /\ (Books!Open(c) # {} => Books!Restart(c).link # "open")
<1> DEFINE p == Books!Prepared(c)
           d == [p EXCEPT !.restarting = TRUE]
           e == [c EXCEPT !.restarting = FALSE]
<1>1. c \in Clients
  BY DEF Good
<1>2. e \in Clients /\ e.book = c.book /\ e.link = c.link /\ e.out = c.out /\ e.sub = c.sub
  BY <1>1 DEF Clients
<1>3. /\ p \in Clients /\ p.link = c.link /\ p.out = c.out /\ p.sub = c.sub
      /\ \A k \in Books!Ids : p.book[k] = IF k \in Books!Open(c) THEN Fenced(c.book[k]) ELSE c.book[k]
  BY PreparedFields
<1>4. d \in Clients /\ d.book = p.book /\ d.link = p.link /\ d.out = p.out /\ d.sub = p.sub
  BY <1>3 DEF Clients, p
<1>5. Books!Restart(c) = IF Books!Open(c) = {} THEN e ELSE IF c.link = "open" THEN Books!Reconnecting(d) ELSE d
  BY DEF Books!Restart
<1> HIDE DEF d, e, p
<1>6. CASE Books!Open(c) = {}
  <2>1. Fewer(c, e)
    BY <1>2 DEF Fewer, Asks, Held
  <2> QED BY <1>2, <1>5, <1>6, <2>1, TameSame
<1>7. CASE Books!Open(c) # {} /\ c.link # "open"
  <2>1. Fewer(c, d)
    BY <1>3, <1>4 DEF Fewer, Asks, Held
  <2>2. Tame(c, d)
    BY <1>3, <1>4, <1>7, <2>1, FencedTame
  <2> QED BY <1>3, <1>4, <1>5, <1>7, <2>2
<1>8. CASE Books!Open(c) # {} /\ c.link = "open"
  <2> DEFINE r == Books!Reconnecting(d)
  <2>1. \A k \in Books!Ids : d.book[k] = IF k \in Books!Open(c) THEN Fenced(c.book[k]) ELSE c.book[k]
    BY <1>3, <1>4
  <2>2. Good(d)
    <3>1. c.book \in [Books!Ids -> Entries]
      BY <1>1 DEF Clients
    <3>2. \A k \in Books!Ids : Proper(d.book[k])
      BY <2>1, <3>1, FencedFields DEF Good, Proper, Books!Open
    <3> QED BY <1>3, <1>4, <1>8, <3>2 DEF Good
  <2>3. Tame(d, r) /\ r.link = "down"
    BY <2>2, ReconnectingTame
  <2> HIDE DEF r
  <2>4. \A k \in Books!Ids : /\ r.book[k].symbol = c.book[k].symbol /\ (r.book[k].open => c.book[k].open)
                       /\ ~r.book[k].live /\ r.book[k].pending = <<>>
    <3>1. c.book \in [Books!Ids -> Entries]
      BY <1>1 DEF Clients
    <3>2. \A k \in Books!Ids : d.book[k].symbol = c.book[k].symbol /\ d.book[k].open = c.book[k].open
      BY <2>1, <3>1, FencedFields
    <3>3. \A k \in Books!Ids : ~r.book[k].live /\ r.book[k].pending = <<>>
      BY <2>3 DEF Tame, Good
    <3> QED BY <2>3, <3>2, <3>3 DEF Tame, Shape
  <2>5. Fewer(c, r)
    <3>1. Fewer(c, d)
      BY <1>3, <1>4 DEF Fewer, Asks, Held
    <3> QED BY <2>3, <3>1 DEF Tame, Shape, Fewer
  <2>6. Tame(c, r)
    BY <2>3, <2>4, <2>5 DEF Tame, Shape
  <2> QED BY <1>5, <1>8, <2>3, <2>6 DEF r
<1> QED BY <1>6, <1>7, <1>8

LEMMA FlagsFields ==
  ASSUME NEW c \in Clients, NEW a \in BOOLEAN, NEW b \in BOOLEAN, NEW n \in Nat
  PROVE  LET d == [c EXCEPT !.restarting = a, !.resyncs = n, !.after = b]
         IN d \in Clients /\ d.book = c.book /\ d.link = c.link /\ d.out = c.out /\ d.sub = c.sub
BY DEF Clients

LEMMA RestartBooksTame ==
  ASSUME NEW c, Good(c) PROVE Tame(c, Books!RestartBooks(c))
<1> DEFINE d == [c EXCEPT !.after = TRUE]
<1>1. d \in Clients /\ d.book = c.book /\ d.link = c.link /\ d.out = c.out /\ d.sub = c.sub
  BY DEF Good, Clients
<1>2. Fewer(c, d)
  BY <1>1 DEF Fewer, Asks, Held
<1>3. Tame(c, d)
  BY <1>1, <1>2, TameSame
<1> QED BY <1>3, RestartTame DEF Books!RestartBooks

LEMMA FinishTame ==
  ASSUME NEW c, Good(c) PROVE Tame(c, Books!FinishBookReconnect(c))
<1> DEFINE d == [c EXCEPT !.restarting = FALSE, !.resyncs = 0, !.after = FALSE]
<1>1. c \in Clients
  BY DEF Good
<1>2. d \in Clients /\ d.book = c.book /\ d.link = c.link /\ d.out = c.out /\ d.sub = c.sub
  BY <1>1, FlagsFields
<1>3. Fewer(c, d) /\ Fewer(c, c)
  BY <1>2 DEF Fewer, Asks, Held
<1> HIDE DEF d
<1>4. Tame(c, d) /\ Tame(c, c)
  BY <1>1, <1>2, <1>3, TameSame
<1>5. Tame(d, Books!Restart(d))
  BY <1>4, RestartTame DEF Tame
<1>6. Tame(c, Books!Restart(d))
  BY <1>4, <1>5, TameTrans
<1>7. Books!FinishBookReconnect(c) \in {c, d, Books!Restart(d)}
  BY DEF Books!FinishBookReconnect, d
<1> QED BY <1>4, <1>6, <1>7

LEMMA CloseSubTame ==
  ASSUME NEW c, Good(c), NEW k \in Books!Ids
  PROVE  Tame(c, Books!CloseSubscription(c, k)) /\ Books!CloseSubscription(c, k).link = c.link
<1> DEFINE frame == <<"unsubscribe", k>>
           sends == c.sub[k] = "sent" /\ c.link = "open"
           outs == IF sends THEN Append(c.out, frame) ELSE c.out
           d == Books!CloseSubscription(c, k)
<1>1. c \in Clients /\ c.out \in Seq({"subscribe", "unsubscribe"} \X Books!Ids)
  BY DEF Good, Clients
<1>2. outs \in Seq({"subscribe", "unsubscribe"} \X Books!Ids)
  BY <1>1
<1>3. d = [c EXCEPT !.sub[k] = "none", !.ack[k] = "none", !.out = outs]
  BY DEF Books!CloseSubscription
<1> HIDE DEF outs, d
<1>4. d \in Clients /\ d.book = c.book /\ d.link = c.link /\ d.out = outs /\ d.sub = [c.sub EXCEPT ![k] = "none"]
  BY <1>1, <1>2, <1>3 DEF Clients
<1>5. ASSUME NEW j \in Books!Ids, NEW i \in DOMAIN outs, outs[i] = <<"subscribe", j>>
      PROVE  \E l \in DOMAIN c.out : c.out[l] = <<"subscribe", j>>
  <2>1. CASE outs = c.out
    BY <1>5, <2>1
  <2>2. CASE outs = Append(c.out, frame)
    <3>1. (i \in DOMAIN c.out /\ outs[i] = c.out[i]) \/ outs[i] = frame
      BY <1>1, <1>5, <2>2
    <3>2. frame # <<"subscribe", j>>
      OBVIOUS
    <3> QED BY <1>5, <3>1, <3>2
  <2> QED BY <2>1, <2>2 DEF outs
<1>6. Fewer(c, d)
  <2>1. Asks(d) \subseteq Asks(c)
    BY <1>4, <1>5 DEF Asks
  <2>2. c.sub \in [Books!Ids -> {"none", "unsent", "sent", "replay"}]
    BY <1>1 DEF Clients
  <2>3. \A j \in Books!Ids : d.sub[j] # "none" => c.sub[j] # "none"
    BY <1>4, <2>2
  <2> QED BY <2>1, <2>3 DEF Fewer, Held
<1> QED BY <1>4, <1>6, TameSame DEF d

LEMMA DroppedTame ==
  ASSUME NEW c, Good(c), NEW k \in Books!Ids
  PROVE  Tame(c, Books!Dropped(c, k)) /\ ~Books!Dropped(c, k).book[k].open
<1> DEFINE blank == [Books!NoBook EXCEPT !.symbol = c.book[k].symbol]
           d == [c EXCEPT !.book[k] = blank]
           e == Books!FinishBookReconnect(d)
<1>1. c \in Clients /\ c.book \in [Books!Ids -> Entries] /\ c.book[k].symbol \in BookNames
  BY DEF Good, Clients, Entries
<1>2. /\ blank \in Entries /\ blank.symbol = c.book[k].symbol
      /\ ~blank.open /\ ~blank.live /\ blank.phase = "none" /\ blank.pending = <<>>
  <2>1. Books!NoBook \in Entries
    BY BlankBook
  <2> QED BY <1>1, <2>1, BlankBook DEF Entries
<1> HIDE DEF blank
<1>3. /\ d \in Clients /\ d.link = c.link /\ d.out = c.out /\ d.sub = c.sub /\ d.book[k] = blank
      /\ \A j \in Books!Ids : j # k => d.book[j] = c.book[j]
  BY <1>1, <1>2 DEF Clients
<1> HIDE DEF d
<1>4. Good(d)
  <2>1. \A j \in Books!Ids : Proper(d.book[j])
    BY <1>2, <1>3 DEF Good, Proper
  <2>2. d.link # "open" => \A j \in Books!Ids : ~d.book[j].live /\ d.book[j].pending = <<>>
    BY <1>2, <1>3 DEF Good
  <2> QED BY <1>3, <2>1, <2>2 DEF Good
<1>5. Fewer(c, d)
  BY <1>3 DEF Fewer, Asks, Held
<1>6. Tame(c, d)
  <2>1. \A j \in Books!Ids : d.book[j].symbol = c.book[j].symbol /\ (d.book[j].open => c.book[j].open)
    BY <1>2, <1>3
  <2>2. \A j \in Books!Ids : Books!Awaiting(d, j) => j # k /\ Books!Awaiting(c, j) /\ d.book[j].pending = c.book[j].pending
    BY <1>2, <1>3 DEF Books!Awaiting
  <2>3. Shape(c, d)
    BY <1>3, <1>5, <2>1, <2>2 DEF Shape
  <2>4. \A j \in Books!Ids :
          /\ d.book[j].live => c.book[j].live /\ d.book[j].whole = c.book[j].whole /\ d.book[j].last = c.book[j].last
          /\ d.book[j].pending \in {<<>>, c.book[j].pending}
    BY <1>2, <1>3
  <2> QED BY <1>4, <2>3, <2>4 DEF Tame
<1>7. Tame(d, e)
  BY <1>4, FinishTame
<1>8. Tame(e, Books!CloseSubscription(e, k))
  BY <1>7, CloseSubTame DEF Tame
<1>9. Tame(c, Books!CloseSubscription(e, k))
  BY <1>6, <1>7, <1>8, TameTrans
<1>10. ~Books!CloseSubscription(e, k).book[k].open
  BY <1>2, <1>3, <1>7, <1>8 DEF Tame, Shape
<1>11. Books!Dropped(c, k) = IF k \notin Books!Open(c) THEN c ELSE Books!CloseSubscription(e, k)
  BY DEF Books!Dropped, e, d, blank
<1>12. Fewer(c, c)
  BY DEF Fewer
<1>13. Tame(c, c)
  BY <1>1, <1>12, TameSame
<1> QED BY <1>9, <1>10, <1>11, <1>13 DEF Books!Open

(***************************************************************************)
(* Handlers that treat one book, or one frame, after another.              *)
(***************************************************************************)
LEMMA UpTo ==
  ASSUME NEW n \in Nat, NEW S, 0 \in S, \A k \in 0 .. n - 1 : k \in S => k + 1 \in S
  PROVE  \A k \in 0 .. n : k \in S
<1> DEFINE T == {k \in 0 .. n : k \notin S}
<1>1. SUFFICES ASSUME T # {} PROVE FALSE
  OBVIOUS
<1>2. T \subseteq Nat
  OBVIOUS
<1> HIDE DEF T
<1>3. PICK x \in T : \A y \in T : ~(<<y, x>> \in OpToRel(<, Nat))
  BY <1>1, <1>2, NatLessThanWellFounded, WFMin
<1>4. x \in 1 .. n /\ x \notin S
  BY DEF T
<1>5. x - 1 \in T
  BY <1>4 DEF T
<1>6. x - 1 \in Nat /\ x \in Nat /\ x - 1 < x
  BY <1>4
<1>7. <<x - 1, x>> \in OpToRel(<, Nat)
  BY <1>6 DEF OpToRel
<1> QED BY <1>3, <1>5, <1>7

RejectOne(c, k) == IF Books!Awaiting(c, k) THEN Books!Dropped(c, k) ELSE c
Rejects(f, c, n) == f = [k \in 0 .. n |-> IF k = 0 THEN c ELSE RejectOne(f[k - 1], k)]

LEMMA RejectsExists ==
  ASSUME NEW c, NEW n \in Nat PROVE \E f : Rejects(f, c, n)
<1> DEFINE S == {m \in Nat : \E f : Rejects(f, c, m)}
<1>1. 0 \in S
  <2>1. Rejects([k \in 0 .. 0 |-> c], c, 0)
    BY DEF Rejects
  <2> QED BY <2>1
<1>2. ASSUME NEW m \in 0 .. n - 1, m \in S PROVE m + 1 \in S
  <2>0. m \in Nat
    OBVIOUS
  <2>1. PICK g : Rejects(g, c, m)
    BY <1>2
  <2> DEFINE v == RejectOne(g[m], m + 1)
             f == [k \in 0 .. m + 1 |-> IF k = m + 1 THEN v ELSE g[k]]
  <2>2. f[m + 1] = v /\ \A k \in 0 .. m : f[k] = g[k]
    BY <2>0
  <2>3. \A k \in 0 .. m : g[k] = IF k = 0 THEN c ELSE RejectOne(g[k - 1], k)
    BY <2>1 DEF Rejects
  <2> HIDE DEF v
  <2>4. ASSUME NEW k \in 0 .. m + 1 PROVE f[k] = IF k = 0 THEN c ELSE RejectOne(f[k - 1], k)
    <3>1. CASE k = m + 1
      <4>1. k # 0 /\ k - 1 = m /\ f[k - 1] = g[m]
        BY <2>0, <2>2, <3>1
      <4> QED BY <2>2, <3>1, <4>1 DEF v
    <3>2. CASE k # m + 1
      <4>1. k \in 0 .. m /\ (k # 0 => k - 1 \in 0 .. m)
        BY <2>0, <3>2
      <4> HIDE DEF f
      <4> QED BY <2>2, <2>3, <4>1
    <3> QED BY <3>1, <3>2
  <2>5. f = [k \in 0 .. m + 1 |-> IF k = 0 THEN c ELSE RejectOne(f[k - 1], k)]
    BY <2>2, <2>4
  <2>6. Rejects(f, c, m + 1)
    BY <2>5 DEF Rejects
  <2> QED BY <2>0, <2>6
<1> HIDE DEF S
<1>3. n \in S
  BY <1>1, <1>2, UpTo
<1> QED BY <1>3 DEF S

LEMMA RejectAwaitingTame ==
  ASSUME NEW c, Good(c)
  PROVE  /\ Tame(c, Books!RejectAwaitingBooks(c))
         /\ Books!RejectAwaitingBooks(c).link = "open" => \A k \in Books!Ids : ~Books!Awaiting(Books!RejectAwaitingBooks(c), k)
<1> DEFINE n == MaxBooks
           f == CHOOSE g : g = [k \in 0 .. n |->
                  IF k = 0 THEN c ELSE IF Books!Awaiting(g[k - 1], k) THEN Books!Dropped(g[k - 1], k) ELSE g[k - 1]]
<1>0. n \in Nat
  BY MCWsSessionAssumption
<1>1. \E g : g = [k \in 0 .. n |->
                  IF k = 0 THEN c ELSE IF Books!Awaiting(g[k - 1], k) THEN Books!Dropped(g[k - 1], k) ELSE g[k - 1]]
  BY <1>0, RejectsExists DEF Rejects, RejectOne
<1>2. Books!RejectAwaitingBooks(c) = [f[n] EXCEPT !.restarting = FALSE]
  BY DEF Books!RejectAwaitingBooks
<1>3. f = [k \in 0 .. n |->
            IF k = 0 THEN c ELSE IF Books!Awaiting(f[k - 1], k) THEN Books!Dropped(f[k - 1], k) ELSE f[k - 1]]
  BY <1>1
<1> HIDE DEF f
<1>4. \A k \in 0 .. n :
        f[k] = IF k = 0 THEN c ELSE IF Books!Awaiting(f[k - 1], k) THEN Books!Dropped(f[k - 1], k) ELSE f[k - 1]
  BY <1>3
<1> DEFINE Left(d, m) == d.link = "open" => \A j \in 1 .. m : ~Books!Awaiting(d, j)
           S == {m \in 0 .. n : Tame(c, f[m]) /\ Left(f[m], m)}
<1>5. 0 \in S
  <2>1. f[0] = c
    BY <1>0, <1>4
  <2>2. c \in Clients /\ Fewer(c, c)
    BY DEF Good, Fewer
  <2>3. Tame(c, c)
    BY <2>2, TameSame
  <2>4. Left(c, 0)
    OBVIOUS
  <2> QED BY <1>0, <2>1, <2>3, <2>4
<1>6. ASSUME NEW m \in 0 .. n - 1, m \in S PROVE m + 1 \in S
  <2> DEFINE d == f[m]
             k == m + 1
             e == f[k]
  <2>1. k \in 1 .. n /\ k - 1 = m /\ k \in Books!Ids
    BY <1>0 DEF Books!Ids
  <2>2. Tame(c, d) /\ Left(d, m)
    BY <1>6
  <2>3. e = IF Books!Awaiting(d, k) THEN Books!Dropped(d, k) ELSE d
    BY <1>4, <2>1
  <2> HIDE DEF d, e, k
  <2>4. Tame(d, d) /\ Tame(d, Books!Dropped(d, k)) /\ ~Books!Dropped(d, k).book[k].open
    <3>1. Good(d) /\ d \in Clients /\ Fewer(d, d)
      BY <2>2 DEF Tame, Good, Fewer
    <3> QED BY <2>1, <3>1, TameSame, DroppedTame
  <2>5. Tame(d, e)
    BY <2>3, <2>4
  <2>6. Tame(c, e)
    BY <2>2, <2>5, TameTrans
  <2>7. ASSUME e.link = "open", NEW j \in 1 .. k PROVE ~Books!Awaiting(e, j)
    <3>1. j \in Books!Ids
      BY <1>0, <2>1 DEF Books!Ids
    <3>2. CASE j = k
      <4>1. Books!Awaiting(d, k) => e.book[k].phase = "none"
        BY <2>1, <2>3, <2>4 DEF Tame, Good, Proper
      <4> QED BY <2>3, <3>2, <4>1 DEF Books!Awaiting
    <3>3. CASE j # k
      <4>1. j \in 1 .. m
        BY <2>1, <3>3
      <4>2. d.link = "open" /\ (Books!Awaiting(e, j) => Books!Awaiting(d, j))
        BY <2>5, <2>7, <3>1 DEF Tame, Shape
      <4> QED BY <2>2, <4>1, <4>2
    <3> QED BY <3>2, <3>3
  <2>8. Left(e, k)
    BY <2>7
  <2>9. k \in 0 .. n
    BY <2>1
  <2> HIDE DEF Left
  <2> QED BY <2>6, <2>8, <2>9 DEF e, k
<1> HIDE DEF S
<1>7. n \in S
  BY <1>0, <1>5, <1>6, UpTo
<1>8. Tame(c, f[n]) /\ Left(f[n], n)
  BY <1>7 DEF S
<1> DEFINE d == f[n]
           e == [d EXCEPT !.restarting = FALSE]
<1>9. Tame(c, d) /\ Good(d) /\ d \in Clients
  BY <1>8 DEF Tame, Good
<1>10. d.link = "open" => \A j \in Books!Ids : ~Books!Awaiting(d, j)
  BY <1>8 DEF Books!Ids
<1> HIDE DEF d, Left
<1>11. e \in Clients /\ e.book = d.book /\ e.link = d.link /\ e.out = d.out /\ e.sub = d.sub
  BY <1>9 DEF Clients
<1> HIDE DEF e
<1>12. Fewer(d, e) /\ \A j \in Books!Ids : Books!Awaiting(e, j) = Books!Awaiting(d, j)
  BY <1>11 DEF Fewer, Asks, Held, Books!Awaiting
<1>13. Tame(d, e)
  BY <1>9, <1>11, <1>12, TameSame
<1>14. Tame(c, e)
  BY <1>9, <1>13, TameTrans
<1>15. Books!RejectAwaitingBooks(c) = e
  BY <1>2 DEF d, e
<1> QED BY <1>10, <1>11, <1>12, <1>14, <1>15

\* After a malformed snapshot no book waits for one on the connection.
LEMMA ForcedTame ==
  ASSUME NEW c, Good(c)
  PROVE  /\ Tame(c, Books!RestartBooksForced(c))
         /\ (\E k \in Books!Ids : Books!Awaiting(c, k)) /\ Books!RestartBooksForced(c).link = "open" =>
              \A k \in Books!Ids : ~Books!Awaiting(Books!RestartBooksForced(c), k)
<1> DEFINE d == [c EXCEPT !.resyncs = @ + 1]
<1>1. CASE c.resyncs >= MaxResyncs
  BY <1>1, RejectAwaitingTame DEF Books!RestartBooksForced
<1>2. CASE ~(c.resyncs >= MaxResyncs)
  <2>1. d \in Clients /\ d.book = c.book /\ d.link = c.link /\ d.out = c.out /\ d.sub = c.sub
    BY DEF Good, Clients
  <2>2. Fewer(c, d) /\ Books!Open(d) = Books!Open(c)
    BY <2>1 DEF Fewer, Asks, Held, Books!Open
  <2>3. Books!RestartBooksForced(c) = Books!Restart(d)
    BY <1>2 DEF Books!RestartBooksForced
  <2> HIDE DEF d
  <2>4. Tame(c, d)
    BY <2>1, <2>2, TameSame
  <2>5. Tame(d, Books!Restart(d)) /\ (Books!Open(d) # {} => Books!Restart(d).link # "open")
    BY <2>4, RestartTame DEF Tame
  <2>6. (\E k \in Books!Ids : Books!Awaiting(c, k)) => Books!Open(c) # {}
    BY DEF Good, Proper, Books!Awaiting, Books!Open
  <2>7. Tame(c, Books!Restart(d))
    BY <2>4, <2>5, TameTrans
  <2> QED BY <2>2, <2>3, <2>5, <2>6, <2>7
<1> QED BY <1>1, <1>2

LEMMA MarkStaleTame ==
  ASSUME NEW c, Good(c), NEW k \in Books!Ids PROVE Tame(c, Books!MarkStale(c, k))
<1> DEFINE d == [c EXCEPT !.book[k].live = FALSE, !.book[k].signaled = TRUE]
<1>1. c \in Clients /\ c.book[k] \in Entries
  BY DEF Good, Clients
<1>2. /\ d \in Clients /\ d.link = c.link /\ d.out = c.out /\ d.sub = c.sub
      /\ \A j \in Books!Ids : j # k => d.book[j] = c.book[j]
      /\ d.book[k] = [c.book[k] EXCEPT !.live = FALSE, !.signaled = TRUE]
  <2>1. [c.book[k] EXCEPT !.live = FALSE, !.signaled = TRUE] \in Entries
    BY <1>1 DEF Entries
  <2>2. d = [c EXCEPT !.book = [c.book EXCEPT ![k] = [c.book[k] EXCEPT !.live = FALSE, !.signaled = TRUE]]]
    BY <1>1 DEF Clients
  <2> QED BY <1>1, <2>1, <2>2 DEF Clients
<1>3. /\ ~d.book[k].live /\ d.book[k].open = c.book[k].open /\ d.book[k].symbol = c.book[k].symbol
      /\ d.book[k].pending = c.book[k].pending /\ d.book[k].phase = c.book[k].phase
  <2> DEFINE b == [c.book[k] EXCEPT !.live = FALSE, !.signaled = TRUE]
  <2>1. b.live = FALSE
    BY <1>1 DEF Entries
  <2>2. /\ b.open = c.book[k].open /\ b.symbol = c.book[k].symbol
        /\ b.pending = c.book[k].pending /\ b.phase = c.book[k].phase
    BY <1>1 DEF Entries
  <2>3. d.book[k] = b
    BY <1>2
  <2> HIDE DEF b
  <2> QED BY <2>1, <2>2, <2>3
<1>4. Books!MarkStale(c, k) = IF c.book[k].signaled THEN d ELSE Books!RestartBooks(d)
  BY DEF Books!MarkStale
<1> HIDE DEF d
<1>5. Good(d)
  <2>1. \A j \in Books!Ids : Proper(d.book[j])
    <3>1. Proper(d.book[k])
      <4>1. Proper(c.book[k]) /\ (~c.book[k].open => ~c.book[k].live)
        BY DEF Good, Proper
      <4> QED BY <1>3, <4>1 DEF Proper
    <3>2. \A j \in Books!Ids : j # k => Proper(d.book[j])
      BY <1>2 DEF Good
    <3> QED BY <3>1, <3>2
  <2>2. d.link # "open" => \A j \in Books!Ids : ~d.book[j].live /\ d.book[j].pending = <<>>
    BY <1>2, <1>3 DEF Good
  <2> QED BY <1>2, <2>1, <2>2 DEF Good
<1>6. Tame(c, d)
  <2>1. Fewer(c, d)
    BY <1>2 DEF Fewer, Asks, Held
  <2>2. \A j \in Books!Ids : /\ d.book[j].symbol = c.book[j].symbol /\ (d.book[j].open => c.book[j].open)
                       /\ d.book[j].pending = c.book[j].pending /\ d.book[j].phase = c.book[j].phase
    BY <1>2, <1>3
  <2>3. \A j \in Books!Ids : Books!Awaiting(d, j) = Books!Awaiting(c, j)
    BY <2>2 DEF Books!Awaiting
  <2>4. Shape(c, d)
    BY <1>2, <2>1, <2>2, <2>3 DEF Shape
  <2>5. \A j \in Books!Ids :
          d.book[j].live => c.book[j].live /\ d.book[j].whole = c.book[j].whole /\ d.book[j].last = c.book[j].last
    BY <1>2, <1>3
  <2> QED BY <1>5, <2>2, <2>4, <2>5 DEF Tame
<1>7. Tame(d, Books!RestartBooks(d))
  BY <1>5, RestartBooksTame
<1>8. Tame(c, Books!RestartBooks(d))
  BY <1>6, <1>7, TameTrans
<1> QED BY <1>4, <1>6, <1>8

LEMMA MalformedTame ==
  ASSUME NEW c, Good(c), NEW k \in Books!Ids
  PROVE  /\ Tame(c, Books!MalformedFrame(c, k))
         /\ Books!Awaiting(c, k) /\ Books!MalformedFrame(c, k).link = "open" => ~Books!Awaiting(Books!MalformedFrame(c, k), k)
<1>1. CASE c.book[k].phase = "live"
  BY <1>1, MarkStaleTame DEF Books!MalformedFrame, Books!Awaiting
<1>2. CASE c.book[k].phase # "live"
  BY <1>2, ForcedTame DEF Books!MalformedFrame
<1> QED BY <1>1, <1>2

LEMMA NamelessTame ==
  ASSUME NEW c, Good(c)
  PROVE  /\ Tame(c, Books!NamelessFrame(c))
         /\ Books!NamelessFrame(c).link = "open" => \A k \in Books!Ids : ~Books!Awaiting(Books!NamelessFrame(c), k)
<1>1. CASE \E k \in Books!Open(c) : Books!Awaiting(c, k)
  <2>1. \E k \in Books!Ids : Books!Awaiting(c, k)
    BY <1>1 DEF Books!Open
  <2>2. Books!NamelessFrame(c) = Books!RestartBooksForced(c)
    BY <1>1 DEF Books!NamelessFrame
  <2> QED BY <2>1, <2>2, ForcedTame
<1>2. CASE ~\E k \in Books!Open(c) : Books!Awaiting(c, k)
  <2>1. \A k \in Books!Ids : Books!Awaiting(c, k) => k \in Books!Open(c)
    BY DEF Books!Awaiting, Books!Open, Good, Proper
  <2>2. c \in Clients /\ Fewer(c, c)
    BY DEF Good, Fewer
  <2> QED BY <1>2, <2>1, <2>2, TameSame DEF Books!NamelessFrame
<1> QED BY <1>1, <1>2

\* After a snapshot is refused its book does not wait for one on the connection.
LEMMA RefuseTame ==
  ASSUME NEW c, Good(c), NEW k \in Books!Ids, k \in Books!Open(c), Books!Awaiting(c, k)
  PROVE  /\ Tame(c, Books!Refuse(c, k))
         /\ Books!Refuse(c, k).link = "open" => ~Books!Awaiting(Books!Refuse(c, k), k)
<1> DEFINE b == [c.book[k] EXCEPT !.phase = "live", !.pending = <<>>]
           p == [c EXCEPT !.book[k].phase = "live", !.book[k].pending = <<>>]
           d == Books!MarkStale(p, k)
           e == [d EXCEPT !.book[k].phase = "awaitingAck"]
           x == Books!RestartBooksForced(e)
<1>1. c \in Clients /\ c.book[k] \in Entries /\ Proper(c.book[k]) /\ c.book[k].open
  BY DEF Good, Clients, Books!Open
<1>2. Books!Refuse(c, k) = IF d.book[k].phase = "live" THEN x ELSE d
  BY DEF Books!Refuse
<1>3. /\ b \in Entries /\ b.phase = "live" /\ b.pending = <<>> /\ b.symbol = c.book[k].symbol
      /\ b.last = c.book[k].last
  BY <1>1, BlankBook DEF Entries, EntryPhases
<1>4. b.open = c.book[k].open /\ b.live = c.book[k].live /\ b.whole = c.book[k].whole
  BY <1>1 DEF Entries
<1>5. p = [c EXCEPT !.book = [c.book EXCEPT ![k] = b]]
  BY <1>1 DEF Clients
<1> HIDE DEF b, p
<1>6. /\ p \in Clients /\ p.link = c.link /\ p.out = c.out /\ p.sub = c.sub /\ p.book[k] = b
      /\ \A j \in Books!Ids : j # k => p.book[j] = c.book[j]
  BY <1>1, <1>3, <1>5 DEF Clients
<1>7. Good(p)
  <2>1. Proper(b)
    BY <1>1, <1>3, <1>4 DEF Proper
  <2>2. \A j \in Books!Ids : Proper(p.book[j])
    BY <1>6, <2>1 DEF Good
  <2>3. p.link # "open" => \A j \in Books!Ids : ~p.book[j].live /\ p.book[j].pending = <<>>
    BY <1>3, <1>4, <1>6 DEF Good
  <2> QED BY <1>6, <2>2, <2>3 DEF Good
<1>8. Tame(c, p) /\ ~Books!Awaiting(p, k)
  <2>1. Fewer(c, p)
    BY <1>6 DEF Fewer, Asks, Held
  <2>2. \A j \in Books!Ids : /\ p.book[j].symbol = c.book[j].symbol /\ (p.book[j].open => c.book[j].open)
                             /\ p.book[j].pending \in {<<>>, c.book[j].pending}
    BY <1>3, <1>4, <1>6
  <2>3. \A j \in Books!Ids : Books!Awaiting(p, j) => Books!Awaiting(c, j) /\ p.book[j].pending = c.book[j].pending
    BY <1>3, <1>6 DEF Books!Awaiting
  <2>4. Shape(c, p)
    BY <1>6, <2>1, <2>2, <2>3 DEF Shape
  <2>5. \A j \in Books!Ids :
          p.book[j].live => c.book[j].live /\ p.book[j].whole = c.book[j].whole /\ p.book[j].last = c.book[j].last
    BY <1>3, <1>4, <1>6
  <2>6. ~Books!Awaiting(p, k)
    BY <1>3, <1>6 DEF Books!Awaiting
  <2> QED BY <1>7, <2>2, <2>4, <2>5, <2>6 DEF Tame
<1>9. Tame(p, d)
  BY <1>7, MarkStaleTame
<1> HIDE DEF d
<1>10. Tame(c, d) /\ Good(d) /\ (d.link = "open" => ~Books!Awaiting(d, k))
  <2>1. Tame(c, d)
    BY <1>8, <1>9, TameTrans
  <2>2. d.link = "open" => ~Books!Awaiting(d, k)
    BY <1>8, <1>9 DEF Tame, Shape
  <2> QED BY <2>1, <2>2 DEF Tame
<1>11. CASE d.book[k].phase # "live"
  BY <1>2, <1>10, <1>11
<1>12. CASE d.book[k].phase = "live"
  <2> DEFINE w == [d.book[k] EXCEPT !.phase = "awaitingAck"]
  <2>1. d \in Clients /\ d.book[k] \in Entries /\ Proper(d.book[k])
    BY <1>10 DEF Good, Clients
  <2>2. w \in Entries /\ w.phase = "awaitingAck" /\ w.symbol = d.book[k].symbol /\ w.last = d.book[k].last
    BY <2>1 DEF Entries, EntryPhases
  <2>3. /\ w.open = d.book[k].open /\ w.live = d.book[k].live /\ w.whole = d.book[k].whole
        /\ w.pending = d.book[k].pending
    BY <2>1 DEF Entries
  <2>4. e = [d EXCEPT !.book = [d.book EXCEPT ![k] = w]]
    BY <2>1 DEF Clients
  <2> HIDE DEF w
  <2>5. /\ e \in Clients /\ e.link = d.link /\ e.out = d.out /\ e.sub = d.sub /\ e.book[k] = w
        /\ \A j \in Books!Ids : j # k => e.book[j] = d.book[j]
    BY <2>1, <2>2, <2>4 DEF Clients
  <2> HIDE DEF e
  <2>6. \A j \in Books!Ids : /\ e.book[j].symbol = d.book[j].symbol /\ e.book[j].open = d.book[j].open
                             /\ e.book[j].live = d.book[j].live /\ e.book[j].whole = d.book[j].whole
                             /\ e.book[j].last = d.book[j].last /\ e.book[j].pending = d.book[j].pending
    BY <2>2, <2>3, <2>5
  <2>7. Good(e)
    <3>1. Proper(w)
      BY <1>12, <2>1, <2>2, <2>3 DEF Proper
    <3>2. \A j \in Books!Ids : Proper(e.book[j])
      BY <1>10, <2>5, <3>1 DEF Good
    <3>3. e.link # "open" => \A j \in Books!Ids : ~e.book[j].live /\ e.book[j].pending = <<>>
      BY <1>10, <2>5, <2>6 DEF Good
    <3> QED BY <2>5, <3>2, <3>3 DEF Good
  <2>8. Books!Awaiting(e, k)
    BY <2>2, <2>5 DEF Books!Awaiting
  <2>9. Tame(e, x) /\ (x.link = "open" => \A j \in Books!Ids : ~Books!Awaiting(x, j))
    BY <2>7, <2>8, ForcedTame
  <2> HIDE DEF x
  <2>10. Shape(c, x)
    <3>1. \A j \in Books!Ids : x.book[j].symbol = c.book[j].symbol /\ (x.book[j].open => c.book[j].open)
      BY <1>10, <2>6, <2>9 DEF Tame, Shape
    <3>2. Fewer(d, e)
      BY <2>5 DEF Fewer, Asks, Held
    <3>3. Fewer(c, d) /\ Fewer(e, x)
      BY <1>10, <2>9 DEF Tame, Shape
    <3>4. Fewer(c, x)
      BY <3>2, <3>3 DEF Fewer
    <3>5. x.link = "open" => c.link = "open"
      BY <1>10, <2>5, <2>9 DEF Tame, Shape
    <3> QED BY <2>9, <3>1, <3>4, <3>5 DEF Shape
  <2>11. ASSUME NEW j \in Books!Ids
         PROVE  /\ x.book[j].live => c.book[j].live /\ x.book[j].whole = c.book[j].whole /\ x.book[j].last = c.book[j].last
                /\ x.book[j].pending \in {<<>>, c.book[j].pending}
    <3>1. /\ d.book[j].live => c.book[j].live /\ d.book[j].whole = c.book[j].whole /\ d.book[j].last = c.book[j].last
          /\ d.book[j].pending \in {<<>>, c.book[j].pending}
      BY <1>10 DEF Tame
    <3>2. /\ x.book[j].live => e.book[j].live /\ x.book[j].whole = e.book[j].whole /\ x.book[j].last = e.book[j].last
          /\ x.book[j].pending \in {<<>>, e.book[j].pending}
      BY <2>9 DEF Tame
    <3> QED BY <2>6, <3>1, <3>2
  <2>12. Tame(c, x)
    BY <2>9, <2>10, <2>11 DEF Tame
  <2> QED BY <1>2, <1>12, <2>9, <2>12
<1> QED BY <1>11, <1>12

(***************************************************************************)
(* Handlers that show a frame.                                             *)
(***************************************************************************)
Shows(c, d, u, r) == Good(d) /\ Shape(c, d) /\ Exact(d, u, r)

LEMMA ShowsTrans ==
  ASSUME NEW c, NEW d, NEW e, NEW u, NEW r, Shows(c, d, u, r), Shows(d, e, u, r) PROVE Shows(c, e, u, r)
BY ShapeTrans DEF Shows

LEMMA TameShows ==
  ASSUME NEW c, NEW d, NEW u, NEW r, Exact(c, u, r), Tame(c, d) PROVE Shows(c, d, u, r)
BY TameExact DEF Shows, Tame

LEMMA SelfTame == ASSUME NEW c, Good(c) PROVE Tame(c, c)
<1>1. c \in Clients /\ Fewer(c, c)
  BY DEF Good, Fewer
<1> QED BY <1>1, TameSame

\* A book changes, and neither the connection nor what is on its way.
LEMMA BookChanges ==
  ASSUME NEW c, Good(c), NEW k \in Books!Ids, NEW b \in Entries, NEW u, NEW r, Exact(c, u, r),
         Proper(b), b.open = c.book[k].open, b.symbol = c.book[k].symbol,
         c.link # "open" => ~b.live /\ b.pending = <<>>,
         b.phase \in {"awaitingAck", "awaitingSnapshot"} =>
           Books!Awaiting(c, k) /\ (b.pending = <<>> => c.book[k].pending = <<>>),
         b.live => b.last <= u[b.symbol] /\ (k \in r \/ b.whole),
         \A i \in DOMAIN b.pending : b.pending[i].symbol = b.symbol /\ b.pending[i].last <= u[b.symbol],
         b.phase \in {"awaitingAck", "awaitingSnapshot"} /\ b.pending # <<>> => k \in r \/ b.pending[1].base
  PROVE  /\ Shows(c, [c EXCEPT !.book[k] = b], u, r)
         /\ [c EXCEPT !.book[k] = b].book[k] = b /\ [c EXCEPT !.book[k] = b].link = c.link
<1> DEFINE d == [c EXCEPT !.book[k] = b]
<1>1. c \in Clients
  BY DEF Good
<1>2. /\ d \in Clients /\ d.link = c.link /\ d.out = c.out /\ d.sub = c.sub /\ d.book[k] = b
      /\ \A j \in Books!Ids : j # k => d.book[j] = c.book[j]
  BY <1>1 DEF Clients
<1> HIDE DEF d
<1>3. Good(d)
  <2>1. \A j \in Books!Ids : Proper(d.book[j])
    BY <1>2 DEF Good
  <2>2. d.link # "open" => \A j \in Books!Ids : ~d.book[j].live /\ d.book[j].pending = <<>>
    BY <1>2 DEF Good
  <2> QED BY <1>2, <2>1, <2>2 DEF Good
<1>4. Shape(c, d)
  <2>1. Fewer(c, d)
    BY <1>2 DEF Fewer, Asks, Held
  <2>2. \A j \in Books!Ids : d.book[j].symbol = c.book[j].symbol /\ (d.book[j].open => c.book[j].open)
    BY <1>2
  <2>3. \A j \in Books!Ids : Books!Awaiting(d, j) => Books!Awaiting(c, j) /\ (d.book[j].pending = <<>> => c.book[j].pending = <<>>)
    BY <1>2 DEF Books!Awaiting
  <2> QED BY <1>2, <2>1, <2>2, <2>3 DEF Shape
<1>5. Exact(d, u, r)
  <2> SUFFICES ASSUME NEW j \in Books!Ids
               PROVE  /\ d.book[j].live => d.book[j].last <= u[d.book[j].symbol] /\ (j \in r \/ d.book[j].whole)
                      /\ \A i \in DOMAIN d.book[j].pending :
                           d.book[j].pending[i].symbol = d.book[j].symbol /\ d.book[j].pending[i].last <= u[d.book[j].symbol]
                      /\ Books!Awaiting(d, j) /\ d.link = "open" /\ d.book[j].pending # <<>> => j \in r \/ d.book[j].pending[1].base
    BY DEF Exact
  <2>1. CASE j = k
    BY <1>2, <2>1 DEF Books!Awaiting
  <2>2. CASE j # k
    BY <1>2, <2>2 DEF Exact, Books!Awaiting
  <2> QED BY <2>1, <2>2
<1>6. Shows(c, d, u, r)
  BY <1>3, <1>4, <1>5 DEF Shows
<1> QED BY <1>2, <1>6 DEF d

\* A frame that follows what a book shows keeps it exact, any other is dropped or
\* makes it stale.
LEMMA IngestShows ==
  ASSUME NEW c, Good(c), NEW k \in Books!Ids, NEW f \in BookFrames, NEW u, NEW r, Exact(c, u, r),
         u \in [Symbols -> Nat], f.last <= u[c.book[k].symbol]
  PROVE  Shows(c, Books!Ingest(c, k, f), u, r)
<1>1. c \in Clients /\ c.book[k] \in Entries /\ Proper(c.book[k])
  BY DEF Good, Clients
<1>2. Shows(c, c, u, r) /\ Shows(c, Books!MarkStale(c, k), u, r)
  BY SelfTame, MarkStaleTame, TameShows
<1>3. CASE ~c.book[k].live \/ f.last <= c.book[k].last \/ Books!Gap(c.book[k], f) \/ Books!TooLarge(f)
  BY <1>2, <1>3 DEF Books!Ingest
<1>4. CASE ~(~c.book[k].live \/ f.last <= c.book[k].last \/ Books!Gap(c.book[k], f) \/ Books!TooLarge(f))
  <2> DEFINE b == [c.book[k] EXCEPT !.last = f.last, !.whole = @ /\ f.first <= c.book[k].last]
             d == [c EXCEPT !.book[k] = b]
  <2>1. Books!Ingest(c, k, f) = [c EXCEPT !.book[k].last = f.last, !.book[k].whole = @ /\ f.first <= c.book[k].last]
    BY <1>4 DEF Books!Ingest
  <2>2. Books!Ingest(c, k, f) = d
    BY <1>1, <2>1 DEF Clients
  <2>3. f.first \in Nat /\ f.last \in Nat /\ c.book[k].last \in Nat /\ c.book[k].whole \in BOOLEAN
    BY <1>1 DEF BookFrames, Entries
  <2>4. f.first <= c.book[k].last
    BY <1>4, <2>3 DEF Books!Gap
  <2>5. /\ b \in Entries /\ b.last = f.last /\ b.whole = (c.book[k].whole /\ f.first <= c.book[k].last)
        /\ b.symbol = c.book[k].symbol /\ b.open = c.book[k].open /\ b.phase = c.book[k].phase
        /\ b.pending = c.book[k].pending /\ b.live = c.book[k].live
    BY <1>1, <2>3 DEF Entries
  <2> HIDE DEF b
  <2>6. Proper(b)
    BY <1>1, <2>5 DEF Proper
  <2>7. c.link # "open" => ~b.live /\ b.pending = <<>>
    BY <2>5 DEF Good
  <2>8. b.phase \in {"awaitingAck", "awaitingSnapshot"} =>
           Books!Awaiting(c, k) /\ (b.pending = <<>> => c.book[k].pending = <<>>)
    BY <2>5 DEF Books!Awaiting
  <2>9. b.live => b.last <= u[b.symbol] /\ (k \in r \/ b.whole)
    BY <2>4, <2>5 DEF Exact
  <2>10. \A i \in DOMAIN b.pending : b.pending[i].symbol = b.symbol /\ b.pending[i].last <= u[b.symbol]
    BY <2>5 DEF Exact
  <2>11. c.link = "open"
    BY <1>4 DEF Good
  <2>12. b.phase \in {"awaitingAck", "awaitingSnapshot"} /\ b.pending # <<>> => k \in r \/ b.pending[1].base
    BY <2>5, <2>11 DEF Exact, Books!Awaiting
  <2>13. Shows(c, d, u, r)
    BY <2>5, <2>6, <2>7, <2>8, <2>9, <2>10, <2>12, BookChanges
  <2> QED BY <2>2, <2>13
<1> QED BY <1>3, <1>4

Ingests(f, c, k, queue, n) == f = [i \in 0 .. n |-> IF i = 0 THEN c ELSE Books!Ingest(f[i - 1], k, queue[i])]

LEMMA IngestsExists ==
  ASSUME NEW c, NEW k, NEW queue, NEW n \in Nat PROVE \E f : Ingests(f, c, k, queue, n)
<1> DEFINE S == {m \in Nat : \E f : Ingests(f, c, k, queue, m)}
<1>1. 0 \in S
  <2>1. Ingests([i \in 0 .. 0 |-> c], c, k, queue, 0)
    BY DEF Ingests
  <2> QED BY <2>1
<1>2. ASSUME NEW m \in 0 .. n - 1, m \in S PROVE m + 1 \in S
  <2>0. m \in Nat
    OBVIOUS
  <2>1. PICK g : Ingests(g, c, k, queue, m)
    BY <1>2
  <2> DEFINE v == Books!Ingest(g[m], k, queue[m + 1])
             f == [i \in 0 .. m + 1 |-> IF i = m + 1 THEN v ELSE g[i]]
  <2>2. f[m + 1] = v /\ \A i \in 0 .. m : f[i] = g[i]
    BY <2>0
  <2>3. \A i \in 0 .. m : g[i] = IF i = 0 THEN c ELSE Books!Ingest(g[i - 1], k, queue[i])
    BY <2>1 DEF Ingests
  <2> HIDE DEF v
  <2>4. ASSUME NEW i \in 0 .. m + 1 PROVE f[i] = IF i = 0 THEN c ELSE Books!Ingest(f[i - 1], k, queue[i])
    <3>1. CASE i = m + 1
      <4>1. i # 0 /\ i - 1 = m /\ f[i - 1] = g[m]
        BY <2>0, <2>2, <3>1
      <4> QED BY <2>2, <3>1, <4>1 DEF v
    <3>2. CASE i # m + 1
      <4>1. i \in 0 .. m /\ (i # 0 => i - 1 \in 0 .. m)
        BY <2>0, <3>2
      <4> HIDE DEF f
      <4> QED BY <2>2, <2>3, <4>1
    <3> QED BY <3>1, <3>2
  <2>5. f = [i \in 0 .. m + 1 |-> IF i = 0 THEN c ELSE Books!Ingest(f[i - 1], k, queue[i])]
    BY <2>2, <2>4
  <2>6. Ingests(f, c, k, queue, m + 1)
    BY <2>5 DEF Ingests
  <2> QED BY <2>0, <2>6
<1> HIDE DEF S
<1>3. n \in S
  BY <1>1, <1>2, UpTo
<1> QED BY <1>3 DEF S

LEMMA IngestAllShows ==
  ASSUME NEW c, Good(c), NEW k \in Books!Ids, NEW queue \in Seq(BookFrames), NEW u, NEW r, Exact(c, u, r),
         u \in [Symbols -> Nat], \A i \in DOMAIN queue : queue[i].last <= u[c.book[k].symbol]
  PROVE  Shows(c, Books!IngestAll(c, k, queue), u, r)
<1> DEFINE n == Len(queue)
           f == CHOOSE g : g = [i \in 0 .. n |-> IF i = 0 THEN c ELSE Books!Ingest(g[i - 1], k, queue[i])]
<1>0. n \in Nat
  OBVIOUS
<1>1. DOMAIN queue = 1 .. n
  OBVIOUS
<1>2. Books!IngestAll(c, k, queue) = f[n]
  BY DEF Books!IngestAll
<1> HIDE DEF n
<1>3. \E g : g = [i \in 0 .. n |-> IF i = 0 THEN c ELSE Books!Ingest(g[i - 1], k, queue[i])]
  <2>1. \E g : Ingests(g, c, k, queue, n)
    BY <1>0, IngestsExists
  <2> QED BY <2>1 DEF Ingests
<1>4. f = [i \in 0 .. n |-> IF i = 0 THEN c ELSE Books!Ingest(f[i - 1], k, queue[i])]
  BY <1>3
<1> HIDE DEF f
<1>5. \A i \in 0 .. n : f[i] = IF i = 0 THEN c ELSE Books!Ingest(f[i - 1], k, queue[i])
  BY <1>4
<1> DEFINE S == {m \in 0 .. n : Shows(c, f[m], u, r)}
<1>6. 0 \in S
  <2>a. 0 \in 0 .. n
    BY <1>0
  <2>1. f[0] = c /\ 0 \in 0 .. n
    BY <1>5, <2>a
  <2> QED BY <2>1, SelfTame, TameShows
<1>7. ASSUME NEW m \in 0 .. n - 1, m \in S PROVE m + 1 \in S
  <2>1. m + 1 \in 0 .. n /\ m + 1 # 0 /\ (m + 1) - 1 = m /\ m + 1 \in DOMAIN queue
    BY <1>0, <1>1
  <2>2. f[m + 1] = Books!Ingest(f[m], k, queue[m + 1])
    BY <1>5, <2>1
  <2>3. Shows(c, f[m], u, r)
    BY <1>7
  <2>4. queue[m + 1] \in BookFrames /\ queue[m + 1].last <= u[f[m].book[k].symbol]
    <3>1. f[m].book[k].symbol = c.book[k].symbol
      BY <2>3 DEF Shows, Shape
    <3> QED BY <2>1, <3>1
  <2>5. Shows(f[m], f[m + 1], u, r)
    BY <2>2, <2>3, <2>4, IngestShows DEF Shows
  <2>6. Shows(c, f[m + 1], u, r)
    BY <2>3, <2>5, ShowsTrans
  <2> QED BY <2>1, <2>6
<1> HIDE DEF S
<1>8. n \in S
  <2>1. \A m \in 0 .. n : m \in S
    BY <1>0, <1>6, <1>7, UpTo
  <2> QED BY <1>0, <2>1
<1> QED BY <1>2, <1>8 DEF S

\* The first of the frames that wait is a snapshot, unless the book was opened again.
LEMMA ActivateShows ==
  ASSUME NEW c, Good(c), NEW k \in Books!Ids, k \in Books!Open(c), Books!Awaiting(c, k), NEW u, NEW r, Exact(c, u, r),
         u \in [Symbols -> Nat]
  PROVE  /\ Shows(c, Books!ActivatePending(c, k), u, r)
         /\ c.book[k].pending # <<>> /\ Books!ActivatePending(c, k).link = "open" => ~Books!Awaiting(Books!ActivatePending(c, k), k)
<1> DEFINE queue == c.book[k].pending
           b == [c.book[k] EXCEPT !.phase = "live", !.pending = <<>>, !.live = TRUE, !.signaled = FALSE,
                                  !.last = Head(queue).last, !.whole = Head(queue).base]
           d == [c EXCEPT !.book[k] = b]
           e == Books!IngestAll(d, k, Tail(queue))
           a == Books!ActivatePending(c, k)
<1>1. c \in Clients /\ c.book[k] \in Entries /\ Proper(c.book[k]) /\ queue \in Seq(BookFrames)
  BY DEF Good, Clients, Entries
<1>2. CASE queue = <<>>
  BY <1>2, SelfTame, TameShows DEF Books!ActivatePending
<1>4. CASE queue # <<>> /\ Books!TooLarge(Head(queue))
  <2>1. a = Books!Refuse(c, k)
    BY <1>4 DEF Books!ActivatePending
  <2> QED BY <1>4, <2>1, RefuseTame, TameShows DEF a
<1>3. CASE queue # <<>> /\ ~Books!TooLarge(Head(queue))
  <2>1. a = IF e.book[k].phase = "live" THEN Books!FinishBookReconnect(e) ELSE e
    BY <1>3 DEF Books!ActivatePending
  <2> HIDE DEF a
  <2>2. /\ Head(queue) = queue[1] /\ Head(queue) \in BookFrames /\ 1 \in DOMAIN queue
        /\ Tail(queue) \in Seq(BookFrames)
        /\ \A i \in DOMAIN Tail(queue) : \E j \in DOMAIN queue : Tail(queue)[i] = queue[j]
    <3>1. /\ Head(queue) = queue[1] /\ Head(queue) \in BookFrames /\ 1 \in DOMAIN queue
          /\ Tail(queue) \in Seq(BookFrames)
      BY <1>1, <1>3
    <3>2. ASSUME NEW i \in DOMAIN Tail(queue) PROVE \E j \in DOMAIN queue : Tail(queue)[i] = queue[j]
      <4>1. i + 1 \in DOMAIN queue /\ Tail(queue)[i] = queue[i + 1]
        BY <1>1, <1>3
      <4> QED BY <4>1
    <3> QED BY <3>1, <3>2
  <2>3. c.link = "open"
    BY <1>3 DEF Good
  <2>4. Head(queue).last <= u[c.book[k].symbol] /\ (k \in r \/ Head(queue).base)
    <3>1. queue[1].last <= u[c.book[k].symbol]
      BY <2>2 DEF Exact
    <3>2. k \in r \/ queue[1].base
      BY <1>3, <2>3 DEF Exact
    <3> QED BY <2>2, <3>1, <3>2
  <2>5. Head(queue).last \in Nat /\ Head(queue).base \in BOOLEAN
    BY <2>2 DEF BookFrames
  <2>6. /\ b \in Entries /\ b.phase = "live" /\ b.pending = <<>> /\ b.last = Head(queue).last
        /\ b.symbol = c.book[k].symbol
    BY <1>1, <2>5, BlankBook DEF Entries, EntryPhases
  <2>7. b.open = c.book[k].open
    BY <1>1 DEF Entries
  <2>8. b.whole = Head(queue).base
    BY <1>1 DEF Entries
  <2> HIDE DEF b
  <2>9. Proper(b)
    BY <1>1, <2>6, <2>7 DEF Proper, Books!Open
  <2>10. b.live => b.last <= u[b.symbol] /\ (k \in r \/ b.whole)
    BY <2>4, <2>6, <2>8
  <2>11. \A i \in DOMAIN b.pending : b.pending[i].symbol = b.symbol /\ b.pending[i].last <= u[b.symbol]
    BY <2>6
  <2>20. b.phase \notin {"awaitingAck", "awaitingSnapshot"}
    BY <2>6
  <2>12. Shows(c, d, u, r) /\ d.book[k] = b
    <3>1. b \in Entries /\ b.symbol = c.book[k].symbol
      BY <2>6
    <3>2. c.link # "open" => ~b.live /\ b.pending = <<>>
      BY <2>3
    <3>3. b.phase \in {"awaitingAck", "awaitingSnapshot"} =>
            Books!Awaiting(c, k) /\ (b.pending = <<>> => c.book[k].pending = <<>>)
      BY <2>20
    <3>4. b.phase \in {"awaitingAck", "awaitingSnapshot"} /\ b.pending # <<>> => k \in r \/ b.pending[1].base
      BY <2>20
    <3> QED BY <2>7, <2>9, <2>10, <2>11, <3>1, <3>2, <3>3, <3>4, BookChanges
  <2>13. \A i \in DOMAIN Tail(queue) : Tail(queue)[i].last <= u[d.book[k].symbol]
    BY <2>2, <2>6, <2>12 DEF Exact
  <2> HIDE DEF d
  <2>14. Shows(d, e, u, r)
    BY <2>2, <2>12, <2>13, IngestAllShows DEF Shows
  <2>15. Shows(e, Books!FinishBookReconnect(e), u, r) /\ Shows(e, e, u, r)
    BY <2>14, FinishTame, SelfTame, TameShows DEF Shows
  <2>16. Shows(d, a, u, r)
    BY <2>1, <2>14, <2>15, ShowsTrans
  <2>17. Shows(c, a, u, r)
    BY <2>12, <2>16, ShowsTrans
  <2>18. ~Books!Awaiting(d, k)
    BY <2>6, <2>12 DEF Books!Awaiting
  <2>19. a.link = "open" => ~Books!Awaiting(a, k)
    BY <2>16, <2>18 DEF Shows, Shape
  <2> QED BY <2>17, <2>19 DEF a
<1> QED BY <1>2, <1>3, <1>4

LEMMA AckShows ==
  ASSUME NEW c, Good(c), NEW k, NEW u, NEW r, Exact(c, u, r), u \in [Symbols -> Nat]
  PROVE  Shows(c, Books!AckBook(c, k), u, r)
<1>1. CASE k \in Books!Open(c) /\ c.book[k].phase = "awaitingAck"
  <2> DEFINE b == [c.book[k] EXCEPT !.phase = "awaitingSnapshot"]
             d == [c EXCEPT !.book[k] = b]
  <2>1. c \in Clients /\ k \in Books!Ids /\ c.book[k] \in Entries /\ Proper(c.book[k]) /\ c.book[k].open
    BY <1>1 DEF Good, Clients, Books!Open
  <2>2. [c EXCEPT !.book[k].phase = "awaitingSnapshot"] = d
    BY <2>1 DEF Clients
  <2>3. /\ b \in Entries /\ b.phase = "awaitingSnapshot" /\ b.symbol = c.book[k].symbol
        /\ b.pending = c.book[k].pending /\ b.last = c.book[k].last
    BY <2>1 DEF Entries, EntryPhases
  <2>4. b.open = c.book[k].open /\ b.live = c.book[k].live /\ b.whole = c.book[k].whole
    BY <2>1 DEF Entries
  <2> HIDE DEF b
  <2>5. Books!Awaiting(c, k)
    BY <1>1 DEF Books!Awaiting
  <2>6. Shows(c, d, u, r) /\ d.book[k] = b
    <3>1. Proper(b)
      BY <2>1, <2>3, <2>4 DEF Proper
    <3>2. c.link # "open" => ~b.live /\ b.pending = <<>>
      BY <2>1, <2>3, <2>4 DEF Good
    <3>3. b.phase \in {"awaitingAck", "awaitingSnapshot"} =>
            Books!Awaiting(c, k) /\ (b.pending = <<>> => c.book[k].pending = <<>>)
      BY <2>3, <2>5
    <3>4. b.live => b.last <= u[b.symbol] /\ (k \in r \/ b.whole)
      BY <2>1, <2>3, <2>4 DEF Exact
    <3>5. \A i \in DOMAIN b.pending : b.pending[i].symbol = b.symbol /\ b.pending[i].last <= u[b.symbol]
      BY <2>1, <2>3 DEF Exact
    <3>6. b.pending # <<>> => k \in r \/ b.pending[1].base
      <4>1. b.pending # <<>> => c.link = "open"
        BY <2>1, <2>3 DEF Good
      <4> QED BY <2>1, <2>3, <2>5, <4>1 DEF Exact
    <3>7. b \in Entries /\ b.symbol = c.book[k].symbol /\ b.open = c.book[k].open
      BY <2>3, <2>4
    <3> QED BY <2>1, <3>1, <3>2, <3>3, <3>4, <3>5, <3>6, <3>7, BookChanges
  <2> HIDE DEF d
  <2>7. k \in Books!Open(d) /\ Books!Awaiting(d, k)
    BY <2>1, <2>3, <2>4, <2>6 DEF Books!Open, Books!Awaiting
  <2> DEFINE a == Books!ActivatePending(d, k)
  <2>8. Shows(d, a, u, r)
    BY <2>1, <2>6, <2>7, ActivateShows DEF Shows
  <2> HIDE DEF a
  <2>9. Shows(a, Books!FinishBookReconnect(a), u, r)
    BY <2>8, FinishTame, TameShows DEF Shows
  <2>10. Shows(c, Books!FinishBookReconnect(a), u, r)
    BY <2>6, <2>8, <2>9, ShowsTrans
  <2>11. Books!AckBook(c, k) = Books!FinishBookReconnect(a)
    BY <1>1, <2>2 DEF Books!AckBook, a
  <2> QED BY <2>10, <2>11
<1>2. CASE ~(k \in Books!Open(c) /\ c.book[k].phase = "awaitingAck")
  BY <1>2, SelfTame, TameShows DEF Books!AckBook
<1> QED BY <1>1, <1>2

LEMMA QueueShows ==
  ASSUME NEW c, Good(c), NEW k \in Books!Ids, k \in Books!Open(c), Books!Awaiting(c, k), c.link = "open",
         NEW f \in BookFrames, NEW u, NEW r, Exact(c, u, r),
         f.symbol = c.book[k].symbol, f.last <= u[c.book[k].symbol],
         c.book[k].pending = <<>> => k \in r \/ f.base
  PROVE  /\ Shows(c, Books!QueuePending(c, k, f), u, r)
         /\ k \in Books!Open(Books!QueuePending(c, k, f)) =>
              Books!Awaiting(Books!QueuePending(c, k, f), k) /\ Books!QueuePending(c, k, f).book[k].pending # <<>>
<1>1. CASE Len(c.book[k].pending) >= MaxPending
  <2>1. Books!QueuePending(c, k, f) = Books!Dropped(c, k)
    BY <1>1 DEF Books!QueuePending
  <2> QED BY <2>1, DroppedTame, TameShows DEF Books!Open
<1>2. CASE ~(Len(c.book[k].pending) >= MaxPending)
  <2> DEFINE queue == c.book[k].pending
             b == [c.book[k] EXCEPT !.pending = Append(queue, f)]
             d == [c EXCEPT !.book[k] = b]
  <2>1. c \in Clients /\ c.book[k] \in Entries /\ Proper(c.book[k]) /\ c.book[k].open /\ queue \in Seq(BookFrames)
    BY DEF Good, Clients, Books!Open, Entries
  <2>2. Books!QueuePending(c, k, f) = d
    <3>1. Books!QueuePending(c, k, f) = [c EXCEPT !.book[k].pending = Append(@, f)]
      BY <1>2 DEF Books!QueuePending
    <3> QED BY <2>1, <3>1 DEF Clients, Entries
  <2>3. /\ Append(queue, f) \in Seq(BookFrames) /\ Append(queue, f) # <<>>
        /\ \A i \in DOMAIN Append(queue, f) : (i \in DOMAIN queue /\ Append(queue, f)[i] = queue[i]) \/ Append(queue, f)[i] = f
        /\ queue = <<>> => Append(queue, f)[1] = f
        /\ queue # <<>> => Append(queue, f)[1] = queue[1]
    BY <2>1
  <2>4. /\ b \in Entries /\ b.phase = c.book[k].phase /\ b.symbol = c.book[k].symbol
        /\ b.pending = Append(queue, f) /\ b.last = c.book[k].last
    BY <2>1, <2>3 DEF Entries
  <2>5. b.open = c.book[k].open /\ b.live = c.book[k].live /\ b.whole = c.book[k].whole
    BY <2>1 DEF Entries
  <2> HIDE DEF b
  <2>6. Shows(c, d, u, r) /\ d.book[k] = b
    <3>1. Proper(b)
      BY <2>1, <2>4, <2>5 DEF Proper
    <3>2. c.link # "open" => ~b.live /\ b.pending = <<>>
      OBVIOUS
    <3>3. b.phase \in {"awaitingAck", "awaitingSnapshot"} =>
            Books!Awaiting(c, k) /\ (b.pending = <<>> => c.book[k].pending = <<>>)
      BY <2>3, <2>4
    <3>4. b.live => b.last <= u[b.symbol] /\ (k \in r \/ b.whole)
      BY <2>1, <2>4, <2>5 DEF Exact
    <3>5. \A i \in DOMAIN b.pending : b.pending[i].symbol = b.symbol /\ b.pending[i].last <= u[b.symbol]
      <4>1. \A i \in DOMAIN queue : queue[i].symbol = c.book[k].symbol /\ queue[i].last <= u[c.book[k].symbol]
        BY DEF Exact
      <4> QED BY <2>3, <2>4, <4>1
    <3>6. k \in r \/ b.pending[1].base
      <4>1. queue # <<>> => k \in r \/ queue[1].base
        BY DEF Exact
      <4> QED BY <2>3, <2>4, <4>1
    <3>7. b \in Entries /\ b.symbol = c.book[k].symbol /\ b.open = c.book[k].open
      BY <2>4, <2>5
    <3> QED BY <3>1, <3>2, <3>3, <3>4, <3>5, <3>6, <3>7, BookChanges, SMTT(30)
  <2>7. Books!Awaiting(d, k) /\ d.book[k].pending # <<>>
    BY <2>3, <2>4, <2>6 DEF Books!Awaiting
  <2> QED BY <2>2, <2>6, <2>7
<1> QED BY <1>1, <1>2

LEMMA RouteDepthShows ==
  ASSUME NEW c, Good(c), NEW k \in Books!Ids, k \in Books!Open(c), c.link = "open",
         NEW f \in BookFrames, NEW u, NEW r, Exact(c, u, r), u \in [Symbols -> Nat],
         f.symbol = c.book[k].symbol, f.last <= u[c.book[k].symbol],
         Books!Awaiting(c, k) /\ c.book[k].pending = <<>> => k \in r \/ f.base
  PROVE  /\ Shows(c, Books!RouteDepth(c, k, f), u, r)
         /\ Books!RouteDepth(c, k, f).link = "open" /\ Books!Awaiting(Books!RouteDepth(c, k, f), k) =>
              Books!RouteDepth(c, k, f).book[k].pending # <<>>
<1> DEFINE q == Books!QueuePending(c, k, f)
           d == Books!RouteDepth(c, k, f)
<1>1. c.book[k].phase \in {"awaitingAck", "awaitingSnapshot", "live"}
  BY DEF Good, Clients, Entries, EntryPhases, Books!Open, Proper
<1>2. CASE c.book[k].phase = "live"
  <2>1. d = Books!Ingest(c, k, f)
    BY <1>2 DEF Books!RouteDepth
  <2> HIDE DEF d
  <2>2. Shows(c, d, u, r)
    BY <2>1, IngestShows
  <2>3. ~Books!Awaiting(c, k)
    BY <1>2 DEF Books!Awaiting
  <2> QED BY <2>2, <2>3 DEF Shows, Shape, d
<1>3. ASSUME c.book[k].phase # "live"
      PROVE  Shows(c, q, u, r) /\ (k \in Books!Open(q) => Books!Awaiting(q, k) /\ q.book[k].pending # <<>>)
  <2>1. Books!Awaiting(c, k)
    BY <1>1, <1>3 DEF Books!Awaiting
  <2> QED BY <2>1, QueueShows
<1>4. ASSUME c.book[k].phase # "live", k \notin Books!Open(q) PROVE ~Books!Awaiting(q, k)
  BY <1>3, <1>4 DEF Shows, Good, Proper, Books!Awaiting, Books!Open
<1>5. CASE c.book[k].phase = "awaitingAck"
  <2>1. d = q
    BY <1>5 DEF Books!RouteDepth
  <2> QED BY <1>3, <1>4, <1>5, <2>1
<1>6. CASE c.book[k].phase = "awaitingSnapshot"
  <2>1. d = IF k \in Books!Open(q) THEN Books!ActivatePending(q, k) ELSE q
    BY <1>6 DEF Books!RouteDepth
  <2> HIDE DEF d, q
  <2>2. CASE k \notin Books!Open(q)
    BY <1>3, <1>4, <1>6, <2>1, <2>2 DEF d
  <2>3. CASE k \in Books!Open(q)
    <3>1. Shows(q, d, u, r) /\ (d.link = "open" => ~Books!Awaiting(d, k))
      BY <1>3, <1>6, <2>1, <2>3, ActivateShows DEF Shows
    <3> QED BY <1>3, <1>6, <3>1, ShowsTrans DEF d
  <2> QED BY <2>2, <2>3
<1> QED BY <1>1, <1>2, <1>5, <1>6

Apart(c) == \A i, j \in Books!Open(c) : c.book[i].symbol = c.book[j].symbol => i = j

\* A frame of a symbol reaches the one book of the symbol, and leaves it with a
\* frame unless the connection is given up.
LEMMA RouteShows ==
  ASSUME NEW c, Good(c), Apart(c), c.link = "open",
         NEW f \in BookFrames, NEW u, NEW r, Exact(c, u, r), u \in [Symbols -> Nat],
         f.form \in Books!Forms, f.last <= u[f.symbol],
         \A k \in Books!Ids : c.book[k].symbol = f.symbol /\ Books!Awaiting(c, k) /\ c.book[k].pending = <<>> => k \in r \/ f.base
  PROVE  /\ Shows(c, Books!Route(c, f), u, r)
         /\ Books!Route(c, f).link = "open" =>
              \A k \in Books!Ids : Books!Awaiting(Books!Route(c, f), k) /\ Books!Route(c, f).book[k].pending = <<>> =>
                Books!Route(c, f).book[k].symbol # f.symbol
<1> DEFINE for == {k \in Books!Open(c) : c.book[k].symbol = f.symbol}
           k == CHOOSE k \in for : TRUE
           d == Books!Route(c, f)
<1>1. d = IF f.form = "nameless" THEN Books!NamelessFrame(c)
          ELSE IF for = {} THEN c
          ELSE IF f.form = "malformed" THEN Books!MalformedFrame(c, k)
          ELSE Books!RouteDepth(c, k, f)
  BY DEF Books!Route
<1> HIDE DEF d
<1>2. for # {} => k \in for
  OBVIOUS
<1>3. \A j \in Books!Open(c) : j \in Books!Ids
  BY DEF Books!Open
<1> HIDE DEF k
<1>4. ASSUME Shows(c, d, u, r), d.link = "open", NEW j \in Books!Ids, Books!Awaiting(d, j), d.book[j].symbol = f.symbol
      PROVE  j \in for /\ Books!Awaiting(c, j)
  BY <1>4 DEF Shows, Shape, Good, Proper, Books!Awaiting, Books!Open
<1>5. CASE f.form = "nameless"
  BY <1>1, <1>5, NamelessTame, TameShows DEF d
<1>6. CASE f.form # "nameless" /\ for = {}
  <2>1. d = c
    BY <1>1, <1>6
  <2>2. Shows(c, d, u, r)
    BY <2>1, SelfTame, TameShows
  <2> QED BY <1>4, <1>6, <2>2 DEF d
<1>7. ASSUME for # {}, NEW j \in Books!Ids, j \in for PROVE j = k
  BY <1>2, <1>7 DEF Apart
<1>8. CASE f.form = "malformed" /\ for # {}
  <2>1. d = Books!MalformedFrame(c, k)
    BY <1>1, <1>8
  <2>2. k \in Books!Ids
    BY <1>2, <1>3, <1>8
  <2>3. Shows(c, d, u, r) /\ (Books!Awaiting(c, k) /\ d.link = "open" => ~Books!Awaiting(d, k))
    BY <2>1, <2>2, MalformedTame, TameShows
  <2> HIDE DEF for
  <2>4. ASSUME d.link = "open", NEW j \in Books!Ids, Books!Awaiting(d, j), d.book[j].pending = <<>> PROVE d.book[j].symbol # f.symbol
    BY <1>4, <1>7, <1>8, <2>3, <2>4
  <2> QED BY <2>3, <2>4 DEF d
<1>9. CASE f.form \notin {"nameless", "malformed"} /\ for # {}
  <2>1. d = Books!RouteDepth(c, k, f)
    BY <1>1, <1>9
  <2>2. k \in Books!Ids /\ k \in Books!Open(c) /\ c.book[k].symbol = f.symbol
    BY <1>2, <1>3, <1>9
  <2>3. f.last <= u[c.book[k].symbol] /\ (Books!Awaiting(c, k) /\ c.book[k].pending = <<>> => k \in r \/ f.base)
    BY <2>2
  <2>4. Shows(c, d, u, r) /\ (d.link = "open" /\ Books!Awaiting(d, k) => d.book[k].pending # <<>>)
    BY <2>1, <2>2, <2>3, RouteDepthShows
  <2> HIDE DEF for
  <2>5. ASSUME d.link = "open", NEW j \in Books!Ids, Books!Awaiting(d, j), d.book[j].pending = <<>> PROVE d.book[j].symbol # f.symbol
    BY <1>4, <1>7, <1>9, <2>4, <2>5
  <2> QED BY <2>4, <2>5 DEF d
<1> QED BY <1>5, <1>6, <1>8, <1>9

\* Neither is connected.
LEMMA TameDown ==
  ASSUME NEW c, NEW d, Good(c), d \in Clients, d.book = c.book, c.link # "open", d.link # "open", Fewer(c, d)
  PROVE  Tame(c, d)
<1>1. Good(d)
  BY DEF Good
<1>2. Shape(c, d)
  BY DEF Shape
<1> QED BY <1>1, <1>2 DEF Tame

FailOne(c, k) == IF books.sub[k] = "replay" THEN Books!Dropped(c, k) ELSE c
FailsAll(f, c, n) == f = [k \in 0 .. n |-> IF k = 0 THEN c ELSE FailOne(f[k - 1], k)]

LEMMA FailsExists ==
  ASSUME NEW c, NEW n \in Nat PROVE \E f : FailsAll(f, c, n)
<1> DEFINE S == {m \in Nat : \E f : FailsAll(f, c, m)}
<1>1. 0 \in S
  <2>1. FailsAll([k \in 0 .. 0 |-> c], c, 0)
    BY DEF FailsAll
  <2> QED BY <2>1
<1>2. ASSUME NEW m \in 0 .. n - 1, m \in S PROVE m + 1 \in S
  <2>0. m \in Nat
    OBVIOUS
  <2>1. PICK g : FailsAll(g, c, m)
    BY <1>2
  <2> DEFINE v == FailOne(g[m], m + 1)
             f == [k \in 0 .. m + 1 |-> IF k = m + 1 THEN v ELSE g[k]]
  <2>2. f[m + 1] = v /\ \A k \in 0 .. m : f[k] = g[k]
    BY <2>0
  <2>3. \A k \in 0 .. m : g[k] = IF k = 0 THEN c ELSE FailOne(g[k - 1], k)
    BY <2>1 DEF FailsAll
  <2> HIDE DEF v
  <2>4. ASSUME NEW k \in 0 .. m + 1 PROVE f[k] = IF k = 0 THEN c ELSE FailOne(f[k - 1], k)
    <3>1. CASE k = m + 1
      <4>1. k # 0 /\ k - 1 = m /\ f[k - 1] = g[m]
        BY <2>0, <2>2, <3>1
      <4> QED BY <2>2, <3>1, <4>1 DEF v
    <3>2. CASE k # m + 1
      <4>1. k \in 0 .. m /\ (k # 0 => k - 1 \in 0 .. m)
        BY <2>0, <3>2
      <4> HIDE DEF f
      <4> QED BY <2>2, <2>3, <4>1
    <3> QED BY <3>1, <3>2
  <2>5. f = [k \in 0 .. m + 1 |-> IF k = 0 THEN c ELSE FailOne(f[k - 1], k)]
    BY <2>2, <2>4
  <2>6. FailsAll(f, c, m + 1)
    BY <2>5 DEF FailsAll
  <2> QED BY <2>0, <2>6
<1> HIDE DEF S
<1>3. n \in S
  BY <1>1, <1>2, UpTo
<1> QED BY <1>3 DEF S

LEMMA SessionFailsTame ==
  ASSUME Good(books), Books!SessionFails
  PROVE  Tame(books, books') /\ books'.link # "open"
<1> DEFINE n == MaxBooks
           c == [books EXCEPT !.link = "idle"]
           f == CHOOSE g : g = [k \in 0 .. n |->
                  IF k = 0 THEN c ELSE IF books.sub[k] = "replay" THEN Books!Dropped(g[k - 1], k) ELSE g[k - 1]]
           e == f[n]
<1>0. n \in Nat
  BY MCWsSessionAssumption
<1>1. books.link = "down" /\ books' = [e EXCEPT !.sub = [k \in Books!Ids |-> "none"], !.ack = [k \in Books!Ids |-> "none"]]
  BY DEF Books!SessionFails
<1>2. \E g : g = [k \in 0 .. n |->
                  IF k = 0 THEN c ELSE IF books.sub[k] = "replay" THEN Books!Dropped(g[k - 1], k) ELSE g[k - 1]]
  <2>1. \E g : FailsAll(g, c, n)
    BY <1>0, FailsExists
  <2> QED BY <2>1 DEF FailsAll, FailOne
<1>3. f = [k \in 0 .. n |->
            IF k = 0 THEN c ELSE IF books.sub[k] = "replay" THEN Books!Dropped(f[k - 1], k) ELSE f[k - 1]]
  BY <1>2
<1> HIDE DEF f
<1>4. \A k \in 0 .. n : f[k] = IF k = 0 THEN c ELSE IF books.sub[k] = "replay" THEN Books!Dropped(f[k - 1], k) ELSE f[k - 1]
  BY <1>3
<1>5. books \in Clients
  BY DEF Good
<1>6. c \in Clients /\ c.book = books.book /\ c.link = "idle" /\ c.out = books.out /\ c.sub = books.sub
  BY <1>5 DEF Clients
<1> HIDE DEF c
<1>7. Tame(books, c)
  <2>1. Fewer(books, c)
    BY <1>6 DEF Fewer, Asks, Held
  <2> QED BY <1>1, <1>6, <2>1, TameDown
<1> DEFINE S == {m \in 0 .. n : Tame(c, f[m])}
<1>8. 0 \in S
  <2>1. f[0] = c /\ 0 \in 0 .. n
    BY <1>0, <1>4
  <2> QED BY <1>7, <2>1, SelfTame DEF Tame
<1>9. ASSUME NEW m \in 0 .. n - 1, m \in S PROVE m + 1 \in S
  <2>1. m + 1 \in 0 .. n /\ m + 1 # 0 /\ (m + 1) - 1 = m /\ m + 1 \in Books!Ids
    BY <1>0 DEF Books!Ids
  <2>2. f[m + 1] = IF books.sub[m + 1] = "replay" THEN Books!Dropped(f[m], m + 1) ELSE f[m]
    BY <1>4, <2>1
  <2>3. Tame(c, f[m])
    BY <1>9
  <2>a. Good(f[m])
    BY <2>3 DEF Tame
  <2>b. Tame(f[m], Books!Dropped(f[m], m + 1)) /\ Tame(f[m], f[m])
    BY <2>1, <2>a, DroppedTame, SelfTame
  <2>4. Tame(f[m], f[m + 1])
    BY <2>2, <2>b
  <2>5. Tame(c, f[m + 1])
    BY <2>3, <2>4, TameTrans
  <2> QED BY <2>1, <2>5
<1> HIDE DEF S
<1>10. n \in S
  <2>1. \A m \in 0 .. n : m \in S
    BY <1>0, <1>8, <1>9, UpTo
  <2> QED BY <1>0, <2>1
<1>11. Tame(c, e)
  BY <1>10 DEF S
<1> HIDE DEF e
<1>12. e \in Clients /\ e.link # "open"
  BY <1>6, <1>11 DEF Tame, Good, Shape
<1>13. /\ books' \in Clients /\ books'.book = e.book /\ books'.link = e.link /\ books'.out = e.out
       /\ books'.sub = [k \in Books!Ids |-> "none"]
  BY <1>1, <1>12 DEF Clients
<1>14. Fewer(e, books')
  <2>1. Held(books') = {}
    BY <1>13 DEF Held
  <2> QED BY <1>13, <2>1 DEF Fewer, Asks
<1>15. Tame(e, books')
  BY <1>11, <1>12, <1>13, <1>14, TameDown DEF Tame
<1> QED BY <1>7, <1>11, <1>12, <1>13, <1>15, TameTrans

(***************************************************************************)
(* The books and the exchange.                                             *)
(***************************************************************************)
BookTypes == updates \in [Symbols -> Nat] /\ feed \in [Symbols -> Int] /\ frames \in Seq(BookFrames) /\ made \in Nat

\* Frames of a symbol, in whatever form.
Of(f, s) == f.form \in Books!Forms /\ f.symbol = s
HasBase(w, s) == \E j \in DOMAIN w : Of(w[j], s) /\ w[j].base
BaseFirst(w, s) == \A i \in DOMAIN w : Of(w[i], s) /\ ~w[i].base => \E j \in 1 .. i - 1 : Of(w[j], s) /\ w[j].base

\* A connection that is gone streams nothing.
NoConnection == books.link # "open" => frames = <<>> /\ \A s \in Symbols : feed[s] = -1
\* Frames on the way carry changes that were made.
OnWireInv ==
  \A i \in DOMAIN frames :
    /\ frames[i].form \in Books!Forms => frames[i].symbol \in Symbols /\ frames[i].last <= updates[frames[i].symbol]
    /\ frames[i].form \notin Books!Forms => frames[i].id \in Books!Ids
\* Subscriptions are those of books that were made.
AsksInv == \A k \in Asks(books) \cup Held(books) : k <= made /\ books.book[k].symbol \in Symbols

\* A symbol that was not subscribed on the connection.
UnusedInv ==
  books.link = "open" => \A s \in Symbols \ used :
    /\ feed[s] = -1
    /\ \A i \in DOMAIN frames : ~Of(frames[i], s)
    /\ \A k \in Asks(books) : books.book[k].symbol # s

\* What a book that has no frame yet gets first is a snapshot.
SnapshotFirst ==
  books.link = "open" => \A k \in Books!Ids \ reopened :
    Books!Awaiting(books, k) /\ books.book[k].pending = <<>> =>
      /\ BaseFirst(frames, books.book[k].symbol)
      /\ feed[books.book[k].symbol] >= 0 => HasBase(frames, books.book[k].symbol)

BooksInv ==
  /\ BookTypes /\ Good(books) /\ Exact(books, updates, reopened) /\ Apart(books)
  /\ NoConnection /\ OnWireInv /\ AsksInv /\ UnusedInv /\ SnapshotFirst

\* A handler of the client that keeps books exact keeps the invariant.
LEMMA ClientMoves ==
  ASSUME BooksInv, Shows(books, books', updates, reopened), UNCHANGED <<made, updates, used, reopened>>,
         NEW left \in Seq(BookFrames), Books!Connection(left),
         \A i \in DOMAIN left : \E j \in DOMAIN frames : left[i] = frames[j],
         \A k \in Books!Ids \ reopened, s \in BookNames :
           books'.link = "open" /\ Books!Awaiting(books', k) /\ books'.book[k].pending = <<>> /\ s = books'.book[k].symbol =>
             (BaseFirst(frames, s) => BaseFirst(left, s)) /\ (HasBase(frames, s) => HasBase(left, s))
  PROVE  BooksInv'
<1>1. BookTypes'
  <2>1. frames' \in Seq(BookFrames)
    <3>1. <<>> \in Seq(BookFrames)
      OBVIOUS
    <3> QED BY <3>1 DEF Books!Connection, Books!ConnectionGone
  <2>2. feed' \in [Symbols -> Int]
    BY DEF Books!Connection, Books!ConnectionGone, BooksInv, BookTypes
  <2> QED BY <2>1, <2>2 DEF BooksInv, BookTypes
<1>2. Good(books') /\ Exact(books', updates', reopened')
  BY DEF Shows
<1>3. Apart(books')
  <2>1. \A i \in Books!Open(books') : i \in Books!Open(books) /\ books'.book[i].symbol = books.book[i].symbol
    BY DEF Shows, Shape, Books!Open
  <2> QED BY <2>1 DEF BooksInv, Apart
<1>4. NoConnection'
  BY DEF NoConnection, Books!Connection, Books!ConnectionGone
<1>5. \A i \in DOMAIN frames' : \E j \in DOMAIN frames : frames'[i] = frames[j]
  BY DEF Books!Connection, Books!ConnectionGone
<1>6. OnWireInv'
  BY <1>5 DEF OnWireInv, BooksInv
<1>7. AsksInv'
  <2>1. \A k \in Asks(books') \cup Held(books') :
          k \in Asks(books) \cup Held(books) /\ books'.book[k].symbol = books.book[k].symbol
    BY DEF Shows, Shape, Fewer, Asks, Held
  <2> QED BY <2>1 DEF BooksInv, AsksInv
<1>8. UnusedInv'
  <2> SUFFICES ASSUME books'.link = "open", NEW s \in Symbols \ used
               PROVE  /\ feed'[s] = -1
                      /\ \A i \in DOMAIN frames' : ~Of(frames'[i], s)
                      /\ \A k \in Asks(books') : books'.book[k].symbol # s
    BY DEF UnusedInv
  <2>1. books.link = "open" /\ frames' = left /\ feed' = feed
    BY DEF Shows, Shape, Books!Connection
  <2>2. feed[s] = -1 /\ (\A i \in DOMAIN frames : ~Of(frames[i], s)) /\ (\A k \in Asks(books) : books.book[k].symbol # s)
    BY <2>1 DEF BooksInv, UnusedInv
  <2>3. \A k \in Asks(books') : k \in Asks(books) /\ books'.book[k].symbol = books.book[k].symbol
    BY DEF Shows, Shape, Fewer, Asks
  <2> QED BY <1>5, <2>1, <2>2, <2>3
<1>9. SnapshotFirst'
  <2> SUFFICES ASSUME books'.link = "open", NEW k \in Books!Ids \ reopened, Books!Awaiting(books', k), books'.book[k].pending = <<>>
               PROVE  /\ BaseFirst(frames', books'.book[k].symbol)
                      /\ feed'[books'.book[k].symbol] >= 0 => HasBase(frames', books'.book[k].symbol)
    BY DEF SnapshotFirst, BaseFirst, HasBase, Of
  <2> DEFINE s == books.book[k].symbol
  <2>1. books.link = "open" /\ frames' = left /\ feed' = feed
    BY DEF Shows, Shape, Books!Connection
  <2>2. Books!Awaiting(books, k) /\ books.book[k].pending = <<>> /\ books'.book[k].symbol = s
    BY DEF Shows, Shape
  <2>3. BaseFirst(frames, s) /\ (feed[s] >= 0 => HasBase(frames, s))
    BY <2>1, <2>2 DEF BooksInv, SnapshotFirst
  <2>4. s \in BookNames
    BY DEF BooksInv, Good, Clients, Entries
  <2> HIDE DEF s
  <2> QED BY <2>1, <2>2, <2>3, <2>4
<1> QED BY <1>1, <1>2, <1>3, <1>4, <1>6, <1>7, <1>8, <1>9 DEF BooksInv

\* The client moves and what is on the wire stays, unless it gives the connection up.
LEMMA ClientStays ==
  ASSUME BooksInv, Shows(books, books', updates, reopened), UNCHANGED <<made, updates, used, reopened>>, Books!Connection(frames)
  PROVE  BooksInv'
<1>1. frames \in Seq(BookFrames)
  BY DEF BooksInv, BookTypes
<1>2. \A i \in DOMAIN frames : \E j \in DOMAIN frames : frames[i] = frames[j]
  OBVIOUS
<1> QED BY <1>1, <1>2, ClientMoves

LEMMA CloseBookStep == ASSUME BooksInv, NEW k \in Books!Ids, Books!CloseBook(k) PROVE BooksInv'
<1>1. Tame(books, books')
  BY DroppedTame DEF Books!CloseBook, BooksInv
<1>2. Shows(books, books', updates, reopened)
  BY <1>1, TameShows DEF BooksInv
<1> QED BY <1>2, ClientStays DEF Books!CloseBook, Books!ClientStep, Books!history

LEMMA ReadyContinuesStep == ASSUME BooksInv, NEW k \in Books!Ids, Books!ReadyContinues(k) PROVE BooksInv'
<1>1. Good(books) /\ Exact(books, updates, reopened) /\ updates \in [Symbols -> Nat]
  BY DEF BooksInv, BookTypes
<1>2. Shows(books, Books!AckBook(books, k), updates, reopened) /\ Shows(books, Books!Dropped(books, k), updates, reopened)
  BY <1>1, AckShows, DroppedTame, TameShows
<1>3. Shows(books, books', updates, reopened)
  BY <1>2 DEF Books!ReadyContinues
<1> QED BY <1>3, ClientStays DEF Books!ReadyContinues, Books!ClientStep, Books!history

LEMMA AckTimesOutStep == ASSUME BooksInv, NEW k \in Books!Ids, Books!AckTimesOut(k) PROVE BooksInv'
<1>1. Good(books) /\ Exact(books, updates, reopened)
  BY DEF BooksInv
<1>2. books' = Books!CloseSubscription(books, k)
  BY DEF Books!AckTimesOut
<1>3. Tame(books, books') /\ books'.link = books.link
  BY <1>1, <1>2, CloseSubTame
<1>4. Shows(books, books', updates, reopened)
  BY <1>1, <1>3, TameShows
<1>5. UNCHANGED <<made, updates, feed, frames, used, reopened>>
  BY DEF Books!AckTimesOut, Books!exchangeVars, Books!history
<1>6. books.link # "open" => frames = <<>> /\ feed = [s \in Symbols |-> -1]
  BY DEF BooksInv, NoConnection, BookTypes
<1>7. Books!Connection(frames)
  BY <1>3, <1>5, <1>6 DEF Books!Connection, Books!ConnectionGone
<1> QED BY <1>4, <1>5, <1>7, ClientStays

LEMMA LostStep == ASSUME BooksInv, Books!Drop \/ Books!DialFails \/ Books!SessionFails PROVE BooksInv'
<1>1. Good(books) /\ Exact(books, updates, reopened) /\ books \in Clients
  BY DEF BooksInv, Good
<1>2. Tame(books, books') /\ books'.link # "open"
  <2>1. CASE Books!Drop
    BY <1>1, <2>1, ReconnectingTame DEF Books!Drop
  <2>2. CASE Books!DialFails
    <3> DEFINE none == [k \in Books!Ids |-> "none"]
    <3>1. none \in [Books!Ids -> {"none", "unsent", "sent", "replay"}] /\ none \in [Books!Ids -> {"none", "first", "again", "replay"}]
      OBVIOUS
    <3>2. books.link = "dialing" /\ books' = [books EXCEPT !.link = "idle", !.sub = none, !.ack = none]
      BY <2>2 DEF Books!DialFails
    <3>a. \A k \in Books!Ids : none[k] = "none"
      OBVIOUS
    <3> HIDE DEF none
    <3>3. books' \in Clients /\ books'.book = books.book /\ books'.link = "idle" /\ books'.out = books.out /\ books'.sub = none
      BY <1>1, <3>1, <3>2 DEF Clients
    <3>4. Fewer(books, books')
      BY <3>a, <3>3 DEF Fewer, Asks, Held
    <3> QED BY <1>1, <3>2, <3>3, <3>4, TameDown
  <2>3. CASE Books!SessionFails
    BY <1>1, <2>3, SessionFailsTame
  <2> QED BY <2>1, <2>2, <2>3
<1>3. Shows(books, books', updates, reopened)
  BY <1>1, <1>2, TameShows
<1>4. Books!ConnectionGone /\ UNCHANGED <<made, updates, used, reopened>>
  BY DEF Books!Drop, Books!DialFails, Books!SessionFails, Books!history
<1>5. Books!Connection(frames)
  BY <1>2, <1>4 DEF Books!Connection
<1> QED BY <1>3, <1>4, <1>5, ClientStays

LEMMA OrderBookStep == ASSUME BooksInv, NEW s \in Symbols, Books!OrderBook(s) PROVE BooksInv'
<1> DEFINE k == made + 1
           b == [Books!NoBook EXCEPT !.symbol = s, !.open = TRUE, !.phase = "awaitingAck"]
           link2 == IF books.link = "idle" THEN "dialing" ELSE books.link
<1>1. /\ books \in Clients /\ made \in Nat /\ made < MaxBooks /\ made' = k
      /\ \A j \in Books!Open(books) : books.book[j].symbol # s
  BY DEF Books!OrderBook, BooksInv, Good, BookTypes
<1>2. k \in Books!Ids /\ k \in Nat
  BY <1>1, MCWsSessionAssumption DEF Books!Ids
<1>3. UNCHANGED <<updates, feed, frames, used>>
  BY DEF Books!OrderBook, Books!exchangeVars
<1>4. reopened \subseteq reopened' /\ (books.link = "open" /\ s \in used => k \in reopened')
  BY <1>1 DEF Books!OrderBook
<1>5. /\ b \in Entries /\ b.symbol = s /\ b.phase = "awaitingAck" /\ b.pending = <<>>
      /\ b.open = TRUE /\ b.live = FALSE
  <2>1. Books!NoBook \in Entries /\ Books!NoBook.pending = <<>> /\ Books!NoBook.live = FALSE
    BY BlankBook DEF Books!NoBook
  <2> QED BY <2>1 DEF Entries, BookNames, EntryPhases
<1>6. books' = [books EXCEPT !.book[k] = b, !.link = link2, !.sub[k] = "unsent", !.ack[k] = "first"]
  BY <1>1 DEF Books!OrderBook
<1>7. link2 \in {"idle", "dialing", "open", "down"} /\ (link2 = "open" <=> books.link = "open")
  BY <1>1 DEF Clients
<1> HIDE DEF b, link2, k
<1>8. /\ books' \in Clients /\ books'.link = link2 /\ books'.out = books.out /\ books'.book[k] = b
      /\ \A j \in Books!Ids : j # k => books'.book[j] = books.book[j]
  BY <1>1, <1>2, <1>5, <1>6, <1>7 DEF Clients
<1>9. Asks(books') = Asks(books) /\ Held(books') \subseteq Held(books) \cup {k}
  <2>1. books'.sub = [books.sub EXCEPT ![k] = "unsent"] /\ books.sub \in [Books!Ids -> {"none", "unsent", "sent", "replay"}]
    BY <1>1, <1>6 DEF Clients
  <2>2. Held(books') \subseteq Held(books) \cup {k}
    BY <2>1 DEF Held
  <2> QED BY <1>8, <2>2 DEF Asks
<1>10. BookTypes'
  BY <1>1, <1>2, <1>3 DEF BooksInv, BookTypes
<1>11. Good(books')
  <2>1. \A j \in Books!Ids : Proper(books'.book[j])
    BY <1>5, <1>8 DEF BooksInv, Good, Proper
  <2>2. books'.link # "open" => \A j \in Books!Ids : ~books'.book[j].live /\ books'.book[j].pending = <<>>
    BY <1>5, <1>7, <1>8 DEF BooksInv, Good
  <2> QED BY <1>8, <2>1, <2>2 DEF Good
<1>12. Exact(books', updates', reopened')
  <2> SUFFICES ASSUME NEW j \in Books!Ids
               PROVE  /\ books'.book[j].live => books'.book[j].last <= updates'[books'.book[j].symbol] /\ (j \in reopened' \/ books'.book[j].whole)
                      /\ \A i \in DOMAIN books'.book[j].pending :
                           books'.book[j].pending[i].symbol = books'.book[j].symbol /\ books'.book[j].pending[i].last <= updates'[books'.book[j].symbol]
                      /\ Books!Awaiting(books', j) /\ books'.link = "open" /\ books'.book[j].pending # <<>> => j \in reopened' \/ books'.book[j].pending[1].base
    BY DEF Exact
  <2>1. CASE j = k
    BY <1>5, <1>8, <2>1
  <2>2. CASE j # k
    <3>1. books'.book[j] = books.book[j] /\ Books!Awaiting(books', j) = Books!Awaiting(books, j)
      BY <1>8, <2>2 DEF Books!Awaiting
    <3> QED BY <1>3, <1>4, <1>7, <1>8, <3>1 DEF BooksInv, Exact
  <2> QED BY <2>1, <2>2
<1>13. Apart(books')
  <2>1. ASSUME NEW j \in Books!Open(books'), j # k
        PROVE  j \in Books!Open(books) /\ books'.book[j].symbol = books.book[j].symbol
    <3>1. j \in Books!Ids /\ books'.book[j].open
      BY DEF Books!Open
    <3>2. books'.book[j] = books.book[j]
      BY <1>8, <2>1, <3>1
    <3> QED BY <3>1, <3>2 DEF Books!Open
  <2> QED BY <1>1, <1>5, <1>8, <2>1 DEF BooksInv, Apart
<1>14. NoConnection' /\ OnWireInv'
  BY <1>3, <1>7, <1>8 DEF BooksInv, NoConnection, OnWireInv
<1>15. /\ \A j \in Asks(books') : j \in Asks(books) /\ j # k /\ books'.book[j].symbol = books.book[j].symbol
       /\ \A j \in Held(books) : j # k /\ books'.book[j].symbol = books.book[j].symbol
  <2>1. \A j \in Asks(books) \cup Held(books) : j <= made /\ j \in Books!Ids
    BY DEF BooksInv, AsksInv, Asks, Held
  <2>2. \A j \in Asks(books) \cup Held(books) : j # k
    BY <1>1, <2>1 DEF k, Books!Ids
  <2> QED BY <1>8, <1>9, <2>1, <2>2
<1>16. AsksInv'
  <2>1. \A j \in Asks(books) \cup Held(books) : j <= made + 1 /\ books.book[j].symbol \in Symbols
    BY <1>1 DEF BooksInv, AsksInv, Asks, Held, Books!Ids
  <2>2. k <= made' /\ books'.book[k].symbol \in Symbols
    BY <1>1, <1>2, <1>5, <1>8
  <2>3. \A j \in Asks(books') \cup Held(books') : j = k \/ (j \in Asks(books) \cup Held(books) /\ books'.book[j].symbol = books.book[j].symbol)
    BY <1>9, <1>15
  <2> QED BY <1>1, <2>1, <2>2, <2>3 DEF AsksInv, k
<1>17. UnusedInv'
  BY <1>3, <1>7, <1>8, <1>15 DEF BooksInv, UnusedInv, Of
<1>18. SnapshotFirst'
  <2> SUFFICES ASSUME books'.link = "open", NEW j \in Books!Ids \ reopened', Books!Awaiting(books', j), books'.book[j].pending = <<>>
               PROVE  /\ BaseFirst(frames', books'.book[j].symbol)
                      /\ feed'[books'.book[j].symbol] >= 0 => HasBase(frames', books'.book[j].symbol)
    BY DEF SnapshotFirst, BaseFirst, HasBase, Of
  <2>1. CASE j = k
    <3>1. s \notin used
      BY <1>4, <1>7, <1>8, <2>1
    <3>2. feed[s] = -1 /\ \A i \in DOMAIN frames : ~Of(frames[i], s)
      BY <1>7, <1>8, <3>1 DEF BooksInv, UnusedInv
    <3>3. books'.book[j].symbol = s /\ frames' = frames /\ feed' = feed
      BY <1>3, <1>5, <1>8, <2>1
    <3> QED BY <3>2, <3>3 DEF BaseFirst
  <2>2. CASE j # k
    <3>1. books'.book[j] = books.book[j] /\ Books!Awaiting(books, j) /\ j \in Books!Ids \ reopened
      BY <1>4, <1>8, <2>2 DEF Books!Awaiting
    <3> QED BY <1>3, <1>7, <1>8, <3>1 DEF BooksInv, SnapshotFirst
  <2> QED BY <2>1, <2>2
<1> QED BY <1>10, <1>11, <1>12, <1>13, <1>14, <1>16, <1>17, <1>18 DEF BooksInv

LEMMA SendSubStep == ASSUME BooksInv, NEW k \in Books!Ids, Books!SendSub(k) PROVE BooksInv'
<1> DEFINE frame == <<"subscribe", k>>
           outs == Append(books.out, frame)
<1>1. /\ books \in Clients /\ books.link = "open" /\ books.sub[k] = "unsent"
      /\ books' = [books EXCEPT !.sub[k] = "sent", !.out = outs]
      /\ used' = used \cup {books.book[k].symbol}
      /\ UNCHANGED <<made, updates, feed, frames, reopened>>
  BY DEF Books!SendSub, BooksInv, Good, Books!exchangeVars
<1>2. books.out \in Seq({"subscribe", "unsubscribe"} \X Books!Ids) /\ outs \in Seq({"subscribe", "unsubscribe"} \X Books!Ids)
  BY <1>1 DEF Clients
<1>3. \A i \in DOMAIN outs : outs[i] = frame \/ (i \in DOMAIN books.out /\ outs[i] = books.out[i])
  BY <1>2
<1>4. \A j \in Books!Ids : <<"subscribe", j>> = frame => j = k
  OBVIOUS
<1> HIDE DEF outs, frame
<1>5. /\ books' \in Clients /\ books'.book = books.book /\ books'.link = "open" /\ books'.out = outs
      /\ books'.sub = [books.sub EXCEPT ![k] = "sent"]
  BY <1>1, <1>2 DEF Clients
<1>6. Asks(books') \subseteq Asks(books) \cup {k}
  BY <1>3, <1>4, <1>5 DEF Asks
<1>7. Held(books') \subseteq Held(books) /\ k \in Held(books)
  <2>1. books.sub \in [Books!Ids -> {"none", "unsent", "sent", "replay"}]
    BY <1>1 DEF Clients
  <2> QED BY <1>1, <1>5, <2>1 DEF Held
<1>8. BookTypes' /\ NoConnection' /\ OnWireInv'
  BY <1>1, <1>5 DEF BooksInv, BookTypes, NoConnection, OnWireInv
<1>9. Good(books') /\ Apart(books')
  BY <1>1, <1>5 DEF BooksInv, Good, Apart, Books!Open
<1>10. \A j \in Books!Ids : Books!Awaiting(books', j) = Books!Awaiting(books, j)
  BY <1>5 DEF Books!Awaiting
<1>11. Exact(books', updates', reopened')
  BY <1>1, <1>5, <1>10 DEF BooksInv, Exact
<1>12. AsksInv'
  BY <1>1, <1>5, <1>6, <1>7 DEF BooksInv, AsksInv
<1>13. UnusedInv'
  BY <1>1, <1>5, <1>6 DEF BooksInv, UnusedInv, Of
<1>14. SnapshotFirst'
  BY <1>1, <1>5, <1>10 DEF BooksInv, SnapshotFirst, BaseFirst, HasBase, Of
<1> QED BY <1>8, <1>9, <1>11, <1>12, <1>13, <1>14 DEF BooksInv

LEMMA OpensStep == ASSUME BooksInv, Books!Opens PROVE BooksInv'
<1> DEFINE replayed == {k \in Books!Ids : books.sub[k] = "replay"}
           subsNow == [k \in Books!Ids |-> IF k \in replayed THEN "sent" ELSE books.sub[k]]
<1>1. /\ books \in Clients /\ books.link # "open"
      /\ used' = {books.book[k].symbol : k \in replayed} /\ reopened' = {}
      /\ UNCHANGED <<made, updates, feed, frames>>
  BY DEF Books!Opens, BooksInv, Good, Books!exchangeVars
<1>a. PICK n \in 0 .. MaxBooks : \E order \in [1 .. n -> replayed] :
        books' = [books EXCEPT !.link = "open", !.sub = [k \in Books!Ids |-> IF k \in replayed THEN "sent" ELSE @[k]],
                                 !.out = [i \in 1 .. n |-> <<"subscribe", order[i]>>]]
  BY DEF Books!Opens
<1>2. PICK order \in [1 .. n -> replayed] :
        books' = [books EXCEPT !.link = "open", !.sub = [k \in Books!Ids |-> IF k \in replayed THEN "sent" ELSE @[k]],
                                 !.out = [i \in 1 .. n |-> <<"subscribe", order[i]>>]]
  BY <1>a
<1> DEFINE outs == [i \in 1 .. n |-> <<"subscribe", order[i]>>]
<1>3. books' = [books EXCEPT !.link = "open", !.sub = subsNow, !.out = outs]
  BY <1>2
<1>4. replayed \subseteq Books!Ids /\ n \in Nat
  BY MCWsSessionAssumption
<1>5. subsNow \in [Books!Ids -> {"none", "unsent", "sent", "replay"}]
  BY <1>1 DEF Clients
<1>6. \A k \in Books!Ids : subsNow[k] # "none" => books.sub[k] # "none"
  OBVIOUS
<1>7. \A k \in replayed : books.sub[k] # "none"
  OBVIOUS
<1> HIDE DEF replayed
<1>8. outs \in Seq({"subscribe", "unsubscribe"} \X Books!Ids)
  BY <1>4
<1>9. \A i \in DOMAIN outs, k \in Books!Ids : outs[i] = <<"subscribe", k>> => k \in replayed
  OBVIOUS
<1> HIDE DEF subsNow, outs
<1>10. /\ books' \in Clients /\ books'.book = books.book /\ books'.link = "open" /\ books'.out = outs
       /\ books'.sub = subsNow
  BY <1>1, <1>3, <1>5, <1>8 DEF Clients
<1>11. Asks(books') \subseteq replayed /\ replayed \subseteq Held(books) /\ Held(books') \subseteq Held(books)
  BY <1>4, <1>6, <1>7, <1>9, <1>10 DEF Asks, Held
<1>12. frames = <<>> /\ frames' = <<>> /\ \A s \in Symbols : feed'[s] = -1
  BY <1>1 DEF BooksInv, NoConnection
<1>13. BookTypes' /\ NoConnection' /\ OnWireInv'
  BY <1>1, <1>10, <1>12 DEF BooksInv, BookTypes, NoConnection, OnWireInv
<1>14. \A k \in Books!Ids : ~books.book[k].live /\ books.book[k].pending = <<>>
  BY <1>1 DEF BooksInv, Good
<1>15. Good(books') /\ Apart(books')
  BY <1>10 DEF BooksInv, Good, Apart, Books!Open
<1>16. Exact(books', updates', reopened')
  BY <1>10, <1>14 DEF Exact
<1>17. AsksInv'
  BY <1>1, <1>10, <1>11 DEF BooksInv, AsksInv
<1>18. UnusedInv'
  BY <1>1, <1>10, <1>11, <1>12 DEF UnusedInv
<1>19. SnapshotFirst'
  <2> SUFFICES ASSUME NEW k \in Books!Ids, Books!Awaiting(books', k)
               PROVE  /\ BaseFirst(frames', books'.book[k].symbol)
                      /\ feed'[books'.book[k].symbol] >= 0 => HasBase(frames', books'.book[k].symbol)
    BY DEF SnapshotFirst, BaseFirst, HasBase, Of
  <2>1. books'.book[k].symbol \in Symbols
    BY <1>15 DEF Good, Proper, Books!Awaiting
  <2> QED BY <1>12, <2>1 DEF BaseFirst
<1> QED BY <1>13, <1>15, <1>16, <1>17, <1>18, <1>19 DEF BooksInv

(***************************************************************************)
(* What the exchange sends.                                                *)
(***************************************************************************)
LEMMA Joined ==
  ASSUME NEW w \in Seq(BookFrames), NEW more \in Seq(BookFrames)
  PROVE  /\ w \o more \in Seq(BookFrames)
         /\ DOMAIN w = 1 .. Len(w) /\ DOMAIN more = 1 .. Len(more) /\ DOMAIN (w \o more) = 1 .. Len(w) + Len(more)
         /\ Len(w) \in Nat /\ Len(more) \in Nat
         /\ \A i \in DOMAIN w : (w \o more)[i] = w[i]
         /\ \A i \in DOMAIN more : Len(w) + i \in DOMAIN (w \o more) /\ (w \o more)[Len(w) + i] = more[i]
         /\ \A i \in DOMAIN (w \o more) : i \in DOMAIN w \/ (i - Len(w) \in DOMAIN more /\ (w \o more)[i] = more[i - Len(w)])
OBVIOUS

\* What is sent after a snapshot, or begins with one, keeps the snapshot first.
LEMMA BaseJoined ==
  ASSUME NEW w \in Seq(BookFrames), NEW more \in Seq(BookFrames), NEW s
  PROVE  /\ BaseFirst(w, s) /\ (HasBase(w, s) \/ BaseFirst(more, s)) => BaseFirst(w \o more, s)
         /\ HasBase(w, s) \/ HasBase(more, s) => HasBase(w \o more, s)
<1> DEFINE v == w \o more
           base(f) == Of(f, s) /\ f.base
<1>1. /\ DOMAIN w = 1 .. Len(w) /\ DOMAIN more = 1 .. Len(more) /\ DOMAIN v = 1 .. Len(w) + Len(more)
      /\ Len(w) \in Nat /\ Len(more) \in Nat
      /\ \A i \in DOMAIN w : v[i] = w[i]
      /\ \A i \in DOMAIN more : Len(w) + i \in DOMAIN v /\ v[Len(w) + i] = more[i]
      /\ \A i \in DOMAIN v : i \in DOMAIN w \/ (i - Len(w) \in DOMAIN more /\ v[i] = more[i - Len(w)])
  BY Joined
<1> HIDE DEF v
<1>2. HasBase(w, s) \/ HasBase(more, s) => HasBase(v, s)
  <2>1. \A i \in DOMAIN w : i \in DOMAIN v
    BY <1>1
  <2> QED BY <1>1, <2>1 DEF HasBase
<1>3. ASSUME BaseFirst(w, s), HasBase(w, s) \/ BaseFirst(more, s) PROVE BaseFirst(v, s)
  <2> SUFFICES ASSUME NEW i \in DOMAIN v, Of(v[i], s), ~v[i].base PROVE \E j \in 1 .. i - 1 : Of(v[j], s) /\ v[j].base
    BY DEF BaseFirst
  <2>1. CASE i \in DOMAIN w
    <3>1. PICK j \in 1 .. i - 1 : Of(w[j], s) /\ w[j].base
      BY <1>1, <1>3, <2>1 DEF BaseFirst
    <3>2. j \in DOMAIN w
      BY <1>1, <2>1
    <3> QED BY <1>1, <3>1, <3>2
  <2>2. CASE i \notin DOMAIN w /\ HasBase(w, s)
    <3>1. PICK j \in DOMAIN w : Of(w[j], s) /\ w[j].base
      BY <2>2 DEF HasBase
    <3>2. j \in 1 .. i - 1
      BY <1>1, <2>2
    <3> QED BY <1>1, <3>1, <3>2
  <2>3. CASE i \notin DOMAIN w /\ BaseFirst(more, s)
    <3>1. i - Len(w) \in DOMAIN more /\ v[i] = more[i - Len(w)]
      BY <1>1, <2>3
    <3>2. PICK j \in 1 .. (i - Len(w)) - 1 : Of(more[j], s) /\ more[j].base
      BY <2>3, <3>1 DEF BaseFirst
    <3>3. j \in DOMAIN more /\ Len(w) + j \in 1 .. i - 1
      BY <1>1, <3>1
    <3> QED BY <1>1, <3>2, <3>3
  <2> QED BY <1>3, <2>1, <2>2, <2>3
<1> QED BY <1>2, <1>3 DEF v

LEMMA TailFrames ==
  ASSUME NEW w \in Seq(BookFrames), w # <<>>
  PROVE  /\ Tail(w) \in Seq(BookFrames) /\ Head(w) = w[1] /\ 1 \in DOMAIN w
         /\ \A i \in DOMAIN Tail(w) : i + 1 \in DOMAIN w /\ Tail(w)[i] = w[i + 1]
         /\ \A i \in DOMAIN w : i # 1 => i - 1 \in DOMAIN Tail(w) /\ w[i] = Tail(w)[i - 1]
         /\ \A i \in DOMAIN w : i \in Nat /\ i >= 1
OBVIOUS

\* A frame of another symbol is taken off.
LEMMA BaseTail ==
  ASSUME NEW w \in Seq(BookFrames), w # <<>>, NEW s, ~Of(w[1], s)
  PROVE  (BaseFirst(w, s) => BaseFirst(Tail(w), s)) /\ (HasBase(w, s) => HasBase(Tail(w), s))
<1> DEFINE v == Tail(w)
<1>1. /\ \A i \in DOMAIN v : i + 1 \in DOMAIN w /\ v[i] = w[i + 1]
      /\ \A i \in DOMAIN w : i # 1 => i - 1 \in DOMAIN v /\ w[i] = v[i - 1]
      /\ \A i \in DOMAIN w : i \in Nat /\ i >= 1
      /\ v \in Seq(BookFrames)
  BY TailFrames
<1>2. DOMAIN v = 1 .. Len(v) /\ Len(v) \in Nat
  BY <1>1
<1> HIDE DEF v
<1>3. HasBase(w, s) => HasBase(v, s)
  BY <1>1 DEF HasBase
<1>4. ASSUME BaseFirst(w, s) PROVE BaseFirst(v, s)
  <2> SUFFICES ASSUME NEW i \in DOMAIN v, Of(v[i], s), ~v[i].base PROVE \E j \in 1 .. i - 1 : Of(v[j], s) /\ v[j].base
    BY DEF BaseFirst
  <2>1. i + 1 \in DOMAIN w /\ v[i] = w[i + 1]
    BY <1>1
  <2>2. PICK j \in 1 .. (i + 1) - 1 : Of(w[j], s) /\ w[j].base
    BY <1>4, <2>1 DEF BaseFirst
  <2>3. j # 1
    BY <2>2
  <2>4. j - 1 \in 1 .. i - 1 /\ j \in DOMAIN w
    <3>1. i \in 1 .. Len(v)
      BY <1>2
    <3>2. j - 1 \in 1 .. i - 1 /\ j - 1 \in DOMAIN v
      BY <1>2, <2>2, <2>3, <3>1
    <3>3. j = (j - 1) + 1
      BY <2>2
    <3> QED BY <1>1, <3>2, <3>3
  <2> QED BY <1>1, <2>2, <2>3, <2>4
<1> QED BY <1>3, <1>4 DEF v

\* More changes keep books exact.
LEMMA ExactGrows ==
  ASSUME NEW c, Good(c), NEW u \in [Symbols -> Nat], NEW v \in [Symbols -> Nat], \A s \in Symbols : u[s] <= v[s],
         NEW r, Exact(c, u, r)
  PROVE  Exact(c, v, r)
<1> SUFFICES ASSUME NEW k \in Books!Ids
             PROVE  /\ c.book[k].live => c.book[k].last <= v[c.book[k].symbol] /\ (k \in r \/ c.book[k].whole)
                    /\ \A i \in DOMAIN c.book[k].pending :
                         c.book[k].pending[i].symbol = c.book[k].symbol /\ c.book[k].pending[i].last <= v[c.book[k].symbol]
                    /\ Books!Awaiting(c, k) /\ c.link = "open" /\ c.book[k].pending # <<>> => k \in r \/ c.book[k].pending[1].base
  BY DEF Exact
<1>1. c.book[k] \in Entries /\ Proper(c.book[k])
  BY DEF Good, Clients
<1>2. c.book[k].last \in Nat /\ \A i \in DOMAIN c.book[k].pending : c.book[k].pending[i].last \in Nat
  <2>1. \A i \in DOMAIN c.book[k].pending : c.book[k].pending[i] \in BookFrames
    BY <1>1 DEF Entries
  <2> QED BY <1>1, <2>1 DEF Entries, BookFrames
<1>3. c.book[k].live \/ c.book[k].pending # <<>> => c.book[k].symbol \in Symbols
  BY <1>1 DEF Proper, Entries
<1>4. c.book[k].live => c.book[k].last <= v[c.book[k].symbol] /\ (k \in r \/ c.book[k].whole)
  BY <1>2, <1>3 DEF Exact
<1>5. ASSUME NEW i \in DOMAIN c.book[k].pending
      PROVE  c.book[k].pending[i].symbol = c.book[k].symbol /\ c.book[k].pending[i].last <= v[c.book[k].symbol]
  <2>1. c.book[k].symbol \in Symbols
    BY <1>3, <1>5
  <2>2. c.book[k].pending[i].symbol = c.book[k].symbol /\ c.book[k].pending[i].last <= u[c.book[k].symbol]
    BY <1>5 DEF Exact
  <2>3. u[c.book[k].symbol] \in Nat /\ v[c.book[k].symbol] \in Nat /\ u[c.book[k].symbol] <= v[c.book[k].symbol]
    BY <2>1
  <2> QED BY <1>2, <2>2, <2>3
<1>6. Books!Awaiting(c, k) /\ c.link = "open" /\ c.book[k].pending # <<>> => k \in r \/ c.book[k].pending[1].base
  BY DEF Exact
<1> QED BY <1>4, <1>5, <1>6

\* The exchange sends more, and the books stay.
LEMMA ExchangeMoves ==
  ASSUME BooksInv, books' \in Clients, books'.book = books.book, books.link = "open", books'.link = "open",
         Fewer(books, books'), UNCHANGED <<made, used, reopened>>,
         NEW more \in Seq(BookFrames), frames' = frames \o more,
         updates' \in [Symbols -> Nat], \A s \in Symbols : updates[s] <= updates'[s], feed' \in [Symbols -> Int],
         \A i \in DOMAIN more :
           /\ more[i].form \in Books!Forms =>
                more[i].symbol \in Symbols \cap used /\ more[i].last <= updates'[more[i].symbol]
           /\ more[i].form \notin Books!Forms => more[i].id \in Books!Ids,
         \A s \in Symbols : feed[s] >= 0 \/ BaseFirst(more, s),
         \A s \in Symbols : feed'[s] >= 0 => feed[s] >= 0 \/ HasBase(more, s),
         \A s \in Symbols \ used : feed[s] = -1 => feed'[s] = -1
  PROVE  BooksInv'
<1>0. updates \in [Symbols -> Nat] /\ frames \in Seq(BookFrames)
  BY DEF BooksInv, BookTypes
<1>1. /\ frames' \in Seq(BookFrames)
      /\ \A i \in DOMAIN frames : frames'[i] = frames[i]
      /\ \A i \in DOMAIN frames' : i \in DOMAIN frames \/ (i - Len(frames) \in DOMAIN more /\ frames'[i] = more[i - Len(frames)])
  BY <1>0, Joined
<1>2. BookTypes' /\ NoConnection'
  BY <1>1 DEF BooksInv, BookTypes, NoConnection
<1>3. Good(books') /\ Apart(books')
  BY DEF BooksInv, Good, Apart, Books!Open
<1>4. \A j \in Books!Ids : Books!Awaiting(books', j) = Books!Awaiting(books, j)
  BY DEF Books!Awaiting
<1>5. Exact(books', updates', reopened')
  <2>1. Exact(books', updates, reopened)
    BY <1>4 DEF BooksInv, Exact
  <2> QED BY <1>0, <1>3, <2>1, ExactGrows
<1>6. OnWireInv'
  <2> SUFFICES ASSUME NEW i \in DOMAIN frames'
               PROVE  /\ frames'[i].form \in Books!Forms => frames'[i].symbol \in Symbols /\ frames'[i].last <= updates'[frames'[i].symbol]
                      /\ frames'[i].form \notin Books!Forms => frames'[i].id \in Books!Ids
    BY DEF OnWireInv, Books!Forms
  <2>1. CASE i \in DOMAIN frames
    <3>1. frames'[i] = frames[i] /\ frames[i] \in BookFrames
      BY <1>0, <1>1, <2>1
    <3>2. /\ frames[i].form \in Books!Forms => frames[i].symbol \in Symbols /\ frames[i].last <= updates[frames[i].symbol]
          /\ frames[i].form \notin Books!Forms => frames[i].id \in Books!Ids
      BY <2>1 DEF BooksInv, OnWireInv
    <3>3. frames[i].last \in Nat
      BY <3>1 DEF BookFrames
    <3>4. ASSUME frames[i].form \in Books!Forms PROVE frames[i].last <= updates'[frames[i].symbol]
      <4> DEFINE s == frames[i].symbol
      <4>1. s \in Symbols /\ frames[i].last <= updates[s]
        BY <3>2, <3>4
      <4>2. updates[s] \in Nat /\ updates'[s] \in Nat /\ updates[s] <= updates'[s]
        BY <1>0, <4>1
      <4> QED BY <3>3, <4>1, <4>2
    <3> QED BY <3>1, <3>2, <3>4
  <2>2. CASE i \notin DOMAIN frames
    BY <1>1, <2>2
  <2> QED BY <2>1, <2>2
<1>7. AsksInv'
  BY DEF BooksInv, AsksInv, Fewer
<1>8. UnusedInv'
  <2> SUFFICES ASSUME NEW s \in Symbols \ used
               PROVE  /\ feed'[s] = -1
                      /\ \A i \in DOMAIN frames' : ~Of(frames'[i], s)
                      /\ \A k \in Asks(books') : books'.book[k].symbol # s
    BY DEF UnusedInv
  <2>1. feed[s] = -1 /\ (\A i \in DOMAIN frames : ~Of(frames[i], s)) /\ (\A k \in Asks(books) : books.book[k].symbol # s)
    BY DEF BooksInv, UnusedInv
  <2>2. \A i \in DOMAIN more : ~Of(more[i], s)
    BY DEF Of
  <2>3. \A i \in DOMAIN frames' : ~Of(frames'[i], s)
    BY <1>1, <2>1, <2>2
  <2> QED BY <2>1, <2>3 DEF Fewer
<1>9. SnapshotFirst'
  <2> SUFFICES ASSUME NEW k \in Books!Ids \ reopened, Books!Awaiting(books', k), books'.book[k].pending = <<>>
               PROVE  /\ BaseFirst(frames', books'.book[k].symbol)
                      /\ feed'[books'.book[k].symbol] >= 0 => HasBase(frames', books'.book[k].symbol)
    BY DEF SnapshotFirst, BaseFirst, HasBase, Of
  <2> DEFINE s == books.book[k].symbol
  <2>1. s \in Symbols /\ books'.book[k].symbol = s
    BY <1>3 DEF Good, Proper, Books!Awaiting
  <2>2. BaseFirst(frames, s) /\ (feed[s] >= 0 => HasBase(frames, s))
    BY <1>4 DEF BooksInv, SnapshotFirst
  <2> HIDE DEF s
  <2> QED BY <1>0, <2>1, <2>2, BaseJoined
<1> QED BY <1>2, <1>3, <1>5, <1>6, <1>7, <1>8, <1>9 DEF BooksInv

LEMMA OneFrame ==
  ASSUME NEW f \in BookFrames
  PROVE  <<f>> \in Seq(BookFrames) /\ DOMAIN <<f>> = {1} /\ <<f>>[1] = f
OBVIOUS

LEMMA AppendJoins ==
  ASSUME NEW w \in Seq(BookFrames), NEW f \in BookFrames
  PROVE  \A v : v = Append(w, f) => v = w \o <<f>>
<1>1. Append(w, f) = w \o <<f>>
  BY AppendIsConcat
<1> QED BY <1>1

LEMMA NoFrame == <<>> \in Seq(BookFrames) /\ DOMAIN <<>> = {}
OBVIOUS

LEMMA ResponseFrame ==
  ASSUME NEW form \in {"ack", "nack"}, NEW k \in Books!Ids
  PROVE  LET f == Books!Response(form, k)
         IN f \in BookFrames /\ f.form \notin Books!Forms /\ f.id = k
BY MCWsSessionAssumption DEF Books!Response, BookFrames, FrameForms, BookNames, Books!Forms, Books!Ids

LEMMA SameBooks ==
  ASSUME BooksInv, UNCHANGED books
  PROVE  books' \in Clients /\ books'.book = books.book /\ books'.link = books.link /\ Fewer(books, books')
BY DEF BooksInv, Good, Fewer, Asks, Held

LEMMA UpdateStep == ASSUME BooksInv, NEW s \in Symbols, Books!Update(s) PROVE BooksInv'
<1>1. /\ feed[s] >= 0 /\ updates' = [updates EXCEPT ![s] = @ + 1] /\ feed' = [feed EXCEPT ![s] = updates'[s]]
      /\ UNCHANGED <<books, made, used, reopened>>
  BY DEF Books!Update, Books!history
<1>2. updates \in [Symbols -> Nat] /\ feed \in [Symbols -> Int] /\ frames \in Seq(BookFrames)
  BY DEF BooksInv, BookTypes
<1>3. /\ updates' \in [Symbols -> Nat] /\ feed' \in [Symbols -> Int] /\ \A z \in Symbols : updates[z] <= updates'[z]
      /\ \A z \in Symbols : z # s => feed'[z] = feed[z]
  BY <1>1, <1>2
<1>4. books.link = "open"
  BY <1>1, <1>2 DEF BooksInv, NoConnection
<1>5. s \in used
  BY <1>1, <1>4 DEF BooksInv, UnusedInv
<1>6. \E more \in Seq(BookFrames) :
        /\ frames' = frames \o more
        /\ \A i \in DOMAIN more : more[i].form \in Books!Forms /\ more[i].symbol = s /\ more[i].last <= updates'[s]
  <2>1. CASE \E form \in Books!Forms : frames' = Append(frames, Books!Depth(form, s, feed[s], updates'[s], FALSE))
    <3>1. PICK form \in Books!Forms : frames' = Append(frames, Books!Depth(form, s, feed[s], updates'[s], FALSE))
      BY <2>1
    <3> DEFINE g == Books!Depth(form, s, feed[s], updates'[s], FALSE)
    <3>2. feed[s] \in Nat /\ updates'[s] \in Nat
      BY <1>1, <1>2, <1>3
    <3>a. g \in BookFrames /\ g.form \in Books!Forms /\ g.symbol = s /\ g.last = updates'[s] /\ frames' = Append(frames, g)
      BY <3>1, <3>2 DEF Books!Depth, BookFrames, FrameForms, BookNames
    <3> HIDE DEF g
    <3>3. PICK f \in BookFrames : f.form \in Books!Forms /\ f.symbol = s /\ f.last = updates'[s] /\ frames' = Append(frames, f)
      BY <3>a
    <3>4. <<f>> \in Seq(BookFrames) /\ DOMAIN <<f>> = {1} /\ <<f>>[1] = f
      BY <3>3, OneFrame
    <3>5. frames' = frames \o <<f>>
      <4>1. frames' = Append(frames, f)
        BY <3>3
      <4> QED BY <1>2, <4>1, AppendJoins
    <3> DEFINE more == <<f>>
    <3>6. \A i \in DOMAIN more : more[i].form \in Books!Forms /\ more[i].symbol = s /\ more[i].last <= updates'[s]
      BY <3>2, <3>3, <3>4
    <3>7. more \in Seq(BookFrames) /\ frames' = frames \o more
      BY <3>4, <3>5
    <3> HIDE DEF more
    <3> QED BY <3>6, <3>7
  <2>2. CASE frames' = frames
    <3>1. frames' = frames \o <<>>
      BY <1>2, <2>2
    <3> QED BY <3>1, NoFrame
  <2> QED BY <2>1, <2>2 DEF Books!Update
<1>7. PICK more \in Seq(BookFrames) :
        /\ frames' = frames \o more
        /\ \A i \in DOMAIN more : more[i].form \in Books!Forms /\ more[i].symbol = s /\ more[i].last <= updates'[s]
  BY <1>6
<1>8. books' \in Clients /\ books'.book = books.book /\ books'.link = books.link /\ Fewer(books, books')
  BY <1>1, SameBooks
<1>9. \A z \in Symbols : feed[z] >= 0 \/ BaseFirst(more, z)
  BY <1>1, <1>7 DEF BaseFirst, Of
<1>10. \A z \in Symbols : feed'[z] >= 0 => feed[z] >= 0 \/ HasBase(more, z)
  BY <1>1, <1>3
<1>11. \A z \in Symbols \ used : feed[z] = -1 => feed'[z] = -1
  BY <1>3, <1>5
<1>12. \A i \in DOMAIN more :
         /\ more[i].form \in Books!Forms => more[i].symbol \in Symbols \cap used /\ more[i].last <= updates'[more[i].symbol]
         /\ more[i].form \notin Books!Forms => more[i].id \in Books!Ids
  BY <1>5, <1>7
<1> QED BY <1>1, <1>3, <1>4, <1>7, <1>8, <1>9, <1>10, <1>11, <1>12, ExchangeMoves

\* What answers a subscription.
LEMMA RepliesFrames ==
  ASSUME NEW k \in Books!Ids, NEW form \in Books!Forms, NEW s \in Symbols, books.book[k].symbol = s, updates[s] \in Nat,
         NEW reply \in Books!Replies(k, form)
  PROVE  /\ reply \in Seq(BookFrames) /\ HasBase(reply, s)
         /\ \A i \in DOMAIN reply :
              /\ reply[i].form \in Books!Forms => reply[i].symbol = s /\ reply[i].last = updates[s] /\ reply[i].base
              /\ reply[i].form \notin Books!Forms => reply[i].id \in Books!Ids
<1> DEFINE a == Books!Response("ack", k)
           b == Books!Depth(form, s, updates[s], updates[s], TRUE)
<1>1. a \in BookFrames /\ a.form \notin Books!Forms /\ a.id = k
  BY ResponseFrame
<1>2. b \in BookFrames /\ b.form \in Books!Forms /\ b.symbol = s /\ b.last = updates[s] /\ b.base
  BY MCWsSessionAssumption DEF Books!Depth, BookFrames, FrameForms, BookNames
<1>3. reply \in {<<a, b>>, <<b, a>>}
  BY DEF Books!Replies
<1> HIDE DEF a, b
<1>4. /\ reply \in Seq(BookFrames) /\ DOMAIN reply = {1, 2}
      /\ \A i \in DOMAIN reply : reply[i] \in {a, b}
      /\ \E i \in DOMAIN reply : reply[i] = b
  <2>1. /\ <<a, b>> \in Seq(BookFrames) /\ DOMAIN <<a, b>> = {1, 2} /\ <<a, b>>[1] = a /\ <<a, b>>[2] = b
        /\ <<b, a>> \in Seq(BookFrames) /\ DOMAIN <<b, a>> = {1, 2} /\ <<b, a>>[1] = b /\ <<b, a>>[2] = a
    BY <1>1, <1>2
  <2> QED BY <1>3, <2>1
<1>5. HasBase(reply, s)
  BY <1>2, <1>4 DEF HasBase, Of
<1> QED BY <1>1, <1>2, <1>4, <1>5

LEMMA BooksServeStep == ASSUME BooksInv, Books!Serve PROVE BooksInv'
<1> DEFINE request == Head(books.out)[1]
           k == Head(books.out)[2]
           s == books.book[k].symbol
           outs == Tail(books.out)
<1>1. /\ books \in Clients /\ books.link = "open" /\ books.out # <<>> /\ books' = [books EXCEPT !.out = outs]
      /\ UNCHANGED <<made, updates, used, reopened>>
      /\ updates \in [Symbols -> Nat] /\ feed \in [Symbols -> Int] /\ frames \in Seq(BookFrames)
  BY DEF Books!Serve, BooksInv, Good, BookTypes, Books!history
<1>2. books.out \in Seq({"subscribe", "unsubscribe"} \X Books!Ids)
  BY <1>1 DEF Clients
<1>3. /\ outs \in Seq({"subscribe", "unsubscribe"} \X Books!Ids)
      /\ \A i \in DOMAIN outs : i + 1 \in DOMAIN books.out /\ outs[i] = books.out[i + 1]
      /\ 1 \in DOMAIN books.out /\ books.out[1] = Head(books.out)
      /\ Head(books.out) \in {"subscribe", "unsubscribe"} \X Books!Ids
  BY <1>1, <1>2
<1>4. k \in Books!Ids /\ books.out[1] = <<request, k>>
  BY <1>3
<1>5. \/ /\ request = "subscribe"
         /\ \E form \in Books!Forms : \E reply \in Books!Replies(k, form) : frames' = frames \o reply
         /\ feed' = [feed EXCEPT ![s] = updates[s]]
      \/ request = "subscribe" /\ frames' = Append(frames, Books!Response("nack", k)) /\ UNCHANGED feed
      \/ feed' = [feed EXCEPT ![s] = -1] /\ UNCHANGED frames
  BY DEF Books!Serve
<1> HIDE DEF outs, request, k, s
<1>6. books' \in Clients /\ books'.book = books.book /\ books'.link = "open" /\ books'.out = outs /\ books'.sub = books.sub
  BY <1>1, <1>3 DEF Clients
<1>7. Fewer(books, books')
  <2>1. Asks(books') \subseteq Asks(books)
    BY <1>3, <1>6 DEF Asks
  <2> QED BY <1>6, <2>1 DEF Fewer, Held
<1>8. request = "subscribe" => s \in Symbols \cap used
  <2>1. request = "subscribe" => k \in Asks(books)
    BY <1>3, <1>4 DEF Asks
  <2>2. k \in Asks(books) => s \in Symbols
    BY DEF BooksInv, AsksInv, s
  <2>3. k \in Asks(books) => s \in used
    BY <1>1, <2>2 DEF BooksInv, UnusedInv, s
  <2> QED BY <2>1, <2>2, <2>3
<1>9. \A z \in Symbols : updates[z] <= updates'[z]
  BY <1>1
<1>10. CASE /\ request = "subscribe"
            /\ \E form \in Books!Forms : \E reply \in Books!Replies(k, form) : frames' = frames \o reply
            /\ feed' = [feed EXCEPT ![s] = updates[s]]
  <2>a. PICK form \in Books!Forms : \E reply \in Books!Replies(k, form) : frames' = frames \o reply
    BY <1>10
  <2>1. PICK more \in Books!Replies(k, form) : frames' = frames \o more
    BY <2>a
  <2>2. s \in Symbols /\ s \in used /\ updates[s] \in Nat
    BY <1>1, <1>8, <1>10
  <2>3. /\ more \in Seq(BookFrames) /\ HasBase(more, s)
        /\ \A i \in DOMAIN more :
              /\ more[i].form \in Books!Forms => more[i].symbol = s /\ more[i].last = updates[s] /\ more[i].base
              /\ more[i].form \notin Books!Forms => more[i].id \in Books!Ids
    BY <1>4, <2>2, RepliesFrames DEF s
  <2>4. \A z \in Symbols : feed[z] >= 0 \/ BaseFirst(more, z)
    BY <2>3 DEF BaseFirst, Of
  <2>5. feed' \in [Symbols -> Int] /\ \A z \in Symbols : z # s => feed'[z] = feed[z]
    BY <1>1, <1>10, <2>2
  <2>6. \A z \in Symbols : feed'[z] >= 0 => feed[z] >= 0 \/ HasBase(more, z)
    BY <2>3, <2>5
  <2>7. \A z \in Symbols \ used : feed[z] = -1 => feed'[z] = -1
    BY <2>2, <2>5
  <2>8. \A i \in DOMAIN more :
          /\ more[i].form \in Books!Forms => more[i].symbol \in Symbols \cap used /\ more[i].last <= updates'[more[i].symbol]
          /\ more[i].form \notin Books!Forms => more[i].id \in Books!Ids
    BY <1>1, <2>2, <2>3
  <2>9. updates' \in [Symbols -> Nat]
    BY <1>1
  <2> QED BY <1>1, <1>6, <1>7, <1>9, <2>1, <2>3, <2>4, <2>5, <2>6, <2>7, <2>8, <2>9, ExchangeMoves
<1>11. CASE request = "subscribe" /\ frames' = Append(frames, Books!Response("nack", k)) /\ UNCHANGED feed
  <2> DEFINE f == Books!Response("nack", k)
  <2>1. f \in BookFrames /\ f.form \notin Books!Forms /\ f.id = k
    BY <1>4, ResponseFrame
  <2>2. frames' = Append(frames, f)
    BY <1>11
  <2> HIDE DEF f
  <2>3. frames' = frames \o <<f>>
    BY <1>1, <2>1, <2>2, AppendJoins
  <2>4. <<f>> \in Seq(BookFrames) /\ DOMAIN <<f>> = {1} /\ <<f>>[1] = f
    BY <2>1, OneFrame
  <2> DEFINE more == <<f>>
  <2>5. \A i \in DOMAIN more : more[i].form \notin Books!Forms /\ more[i].id \in Books!Ids
    BY <1>4, <2>1, <2>4
  <2>6. more \in Seq(BookFrames) /\ frames' = frames \o more
    BY <2>3, <2>4
  <2> HIDE DEF more
  <2>7. \A z \in Symbols : feed[z] >= 0 \/ BaseFirst(more, z)
    BY <2>5 DEF BaseFirst, Of
  <2>8. updates' \in [Symbols -> Nat] /\ feed' \in [Symbols -> Int] /\ feed' = feed
    BY <1>1, <1>11
  <2>9. \A i \in DOMAIN more :
          /\ more[i].form \in Books!Forms => more[i].symbol \in Symbols \cap used /\ more[i].last <= updates'[more[i].symbol]
          /\ more[i].form \notin Books!Forms => more[i].id \in Books!Ids
    BY <2>5
  <2> QED BY <1>1, <1>6, <1>7, <1>9, <2>6, <2>7, <2>8, <2>9, ExchangeMoves
<1>12. CASE feed' = [feed EXCEPT ![s] = -1] /\ UNCHANGED frames
  <2> DEFINE more == <<>>
  <2>1. more \in Seq(BookFrames) /\ DOMAIN more = {}
    BY NoFrame
  <2>2. frames' = frames \o more
    BY <1>1, <1>12
  <2> HIDE DEF more
  <2>3. \A z \in Symbols : feed[z] >= 0 \/ BaseFirst(more, z)
    BY <2>1 DEF BaseFirst
  <2>b. feed \in [Symbols -> Int] /\ feed' = [feed EXCEPT ![s] = -1]
    BY <1>1, <1>12
  <2>4. feed' \in [Symbols -> Int] /\ \A z \in Symbols : feed'[z] = -1 \/ feed'[z] = feed[z]
    <3>1. feed' = [z \in Symbols |-> IF z = s THEN -1 ELSE feed[z]]
      BY <2>b
    <3>2. feed' \in [Symbols -> Int]
      <4>1. \A z \in Symbols : (IF z = s THEN -1 ELSE feed[z]) \in Int
        BY <2>b
      <4> QED BY <3>1, <4>1
    <3> QED BY <3>1, <3>2
  <2>5. \A z \in Symbols : feed'[z] >= 0 => feed[z] >= 0 \/ HasBase(more, z)
    BY <2>4
  <2>6. \A z \in Symbols \ used : feed[z] = -1 => feed'[z] = -1
    BY <2>4
  <2>7. \A i \in DOMAIN more :
          /\ more[i].form \in Books!Forms => more[i].symbol \in Symbols \cap used /\ more[i].last <= updates'[more[i].symbol]
          /\ more[i].form \notin Books!Forms => more[i].id \in Books!Ids
    BY <2>1
  <2>8. updates' \in [Symbols -> Nat]
    BY <1>1
  <2> QED BY <1>1, <1>6, <1>7, <1>9, <2>1, <2>2, <2>3, <2>4, <2>5, <2>6, <2>7, <2>8, ExchangeMoves
<1> QED BY <1>5, <1>10, <1>11, <1>12

LEMMA ReceiveStep == ASSUME BooksInv, Books!Receive PROVE BooksInv'
<1> DEFINE f == Head(frames)
           k == f.id
           left == Tail(frames)
           answered == [books EXCEPT !.ack[k] = "none"]
<1>1. /\ frames \in Seq(BookFrames) /\ frames # <<>> /\ Books!Connection(left)
      /\ UNCHANGED <<made, updates, used, reopened>>
      /\ Good(books) /\ books \in Clients /\ Exact(books, updates, reopened) /\ Apart(books)
      /\ updates \in [Symbols -> Nat]
  BY DEF Books!Receive, Books!history, BooksInv, BookTypes, Good
<1>2. \/ f.form = "ack" /\ books' = Books!AckBook(answered, k)
      \/ f.form = "nack" /\ books' = [answered EXCEPT !.sub[k] = "none"]
      \/ f.form = "nack" /\ books' = Books!Dropped(answered, k)
      \/ f.form \in {"ack", "nack"} /\ books' = books
      \/ f.form \notin {"ack", "nack"} /\ books' = Books!Route(books, f)
  BY DEF Books!Receive
<1>3. /\ left \in Seq(BookFrames) /\ f = frames[1] /\ 1 \in DOMAIN frames
      /\ \A i \in DOMAIN left : i + 1 \in DOMAIN frames /\ left[i] = frames[i + 1]
  BY <1>1, TailFrames
<1>4. f \in BookFrames
  BY <1>1, <1>3
<1>5. /\ f.form \in Books!Forms => f.symbol \in Symbols /\ f.last <= updates[f.symbol]
      /\ f.form \notin Books!Forms => k \in Books!Ids
  BY <1>3 DEF BooksInv, OnWireInv
<1>6. f.form \in Books!Forms <=> f.form \notin {"ack", "nack"}
  BY <1>4 DEF BookFrames, FrameForms, Books!Forms
<1>7. books.link = "open"
  BY <1>1 DEF BooksInv, NoConnection
<1> HIDE DEF f, left
<1>8. f.form \in {"ack", "nack"} => Tame(books, answered) /\ Tame(books, [answered EXCEPT !.sub[k] = "none"])
  <2> SUFFICES ASSUME f.form \in {"ack", "nack"} PROVE Tame(books, answered) /\ Tame(books, [answered EXCEPT !.sub[k] = "none"])
    OBVIOUS
  <2>1. k \in Books!Ids
    BY <1>5, <1>6
  <2> HIDE DEF k
  <2>2. /\ answered \in Clients /\ answered.book = books.book /\ answered.link = books.link
        /\ answered.out = books.out /\ answered.sub = books.sub
    BY <1>1, <2>1 DEF Clients
  <2> DEFINE d == [answered EXCEPT !.sub[k] = "none"]
  <2> HIDE DEF answered
  <2>3. /\ d \in Clients /\ d.book = books.book /\ d.link = books.link /\ d.out = books.out
        /\ d.sub = [books.sub EXCEPT ![k] = "none"]
    BY <2>1, <2>2 DEF Clients
  <2>4. books.sub \in [Books!Ids -> {"none", "unsent", "sent", "replay"}]
    BY <1>1 DEF Clients
  <2> HIDE DEF d
  <2>5. Fewer(books, answered)
    BY <2>2 DEF Fewer, Asks, Held
  <2>6. Held(d) \subseteq Held(books)
    BY <2>3, <2>4 DEF Held
  <2>7. Fewer(books, d)
    BY <2>3, <2>6 DEF Fewer, Asks
  <2> QED BY <1>1, <2>2, <2>3, <2>5, <2>7, TameSame DEF d
<1> HIDE DEF answered
<1>9. CASE f.form \in {"ack", "nack"}
  <2>1. Tame(books, answered) /\ Good(answered) /\ Exact(answered, updates, reopened) /\ Shows(books, answered, updates, reopened)
    BY <1>1, <1>8, <1>9, TameExact, TameShows DEF Tame
  <2>2. Shows(books, Books!AckBook(answered, k), updates, reopened)
    BY <1>1, <2>1, AckShows, ShowsTrans
  <2>3. Shows(books, Books!Dropped(answered, k), updates, reopened)
    <3>1. k \in Books!Ids
      BY <1>5, <1>6, <1>9
    <3>2. Tame(answered, Books!Dropped(answered, k))
      BY <2>1, <3>1, DroppedTame
    <3>3. Tame(books, Books!Dropped(answered, k))
      BY <2>1, <3>2, TameTrans
    <3> QED BY <1>1, <3>3, TameShows
  <2>4. Shows(books, [answered EXCEPT !.sub[k] = "none"], updates, reopened) /\ Shows(books, books, updates, reopened)
    BY <1>1, <1>8, <1>9, SelfTame, TameShows
  <2>5. Shows(books, books', updates, reopened)
    BY <1>2, <1>9, <2>2, <2>3, <2>4
  <2>6. \A s \in BookNames : ~Of(frames[1], s)
    BY <1>3, <1>6, <1>9 DEF Of
  <2>7. \A s \in BookNames : (BaseFirst(frames, s) => BaseFirst(left, s)) /\ (HasBase(frames, s) => HasBase(left, s))
    BY <1>1, <2>6, BaseTail DEF left
  <2>8. \A i \in DOMAIN left : \E j \in DOMAIN frames : left[i] = frames[j]
    BY <1>3
  <2> QED BY <1>1, <1>3, <2>5, <2>7, <2>8, ClientMoves
<1>10. CASE f.form \notin {"ack", "nack"}
  <2>1. books' = Books!Route(books, f) /\ f.form \in Books!Forms /\ f.last <= updates[f.symbol]
    BY <1>2, <1>5, <1>6, <1>10
  <2>2. \A j \in Books!Ids : books.book[j].symbol = f.symbol /\ Books!Awaiting(books, j) /\ books.book[j].pending = <<>> =>
          j \in reopened \/ f.base
    <3> SUFFICES ASSUME NEW j \in Books!Ids \ reopened, books.book[j].symbol = f.symbol, Books!Awaiting(books, j),
                        books.book[j].pending = <<>>, ~f.base
                 PROVE  FALSE
      OBVIOUS
    <3>1. BaseFirst(frames, f.symbol)
      BY <1>7 DEF BooksInv, SnapshotFirst
    <3>2. \E l \in 1 .. 1 - 1 : Of(frames[l], f.symbol) /\ frames[l].base
      BY <1>3, <2>1, <3>1 DEF BaseFirst, Of
    <3> QED BY <3>2
  <2>3. /\ Shows(books, Books!Route(books, f), updates, reopened)
        /\ Books!Route(books, f).link = "open" =>
             \A j \in Books!Ids : Books!Awaiting(Books!Route(books, f), j) /\ Books!Route(books, f).book[j].pending = <<>> =>
               Books!Route(books, f).book[j].symbol # f.symbol
    BY <1>1, <1>4, <1>7, <2>1, <2>2, RouteShows
  <2>4. \A j \in Books!Ids : books'.link = "open" /\ Books!Awaiting(books', j) /\ books'.book[j].pending = <<>> =>
          books'.book[j].symbol # f.symbol
    BY <2>1, <2>3
  <2>5. \A s : s # f.symbol => (BaseFirst(frames, s) => BaseFirst(left, s)) /\ (HasBase(frames, s) => HasBase(left, s))
    <3>1. \A s : s # f.symbol => ~Of(frames[1], s)
      BY <1>3 DEF Of
    <3> QED BY <1>1, <3>1, BaseTail DEF left
  <2>6. \A i \in DOMAIN left : \E j \in DOMAIN frames : left[i] = frames[j]
    BY <1>3
  <2>7. \A j \in Books!Ids \ reopened, s \in BookNames :
          books'.link = "open" /\ Books!Awaiting(books', j) /\ books'.book[j].pending = <<>> /\ s = books'.book[j].symbol =>
            (BaseFirst(frames, s) => BaseFirst(left, s)) /\ (HasBase(frames, s) => HasBase(left, s))
    BY <2>4, <2>5
  <2> QED BY <1>1, <1>3, <2>1, <2>3, <2>6, <2>7, ClientMoves
<1> QED BY <1>9, <1>10

LEMMA BooksStart == Books!Init => BooksInv
<1> SUFFICES ASSUME Books!Init PROVE BooksInv
  OBVIOUS
<1> DEFINE none == [k \in Books!Ids |-> "none"]
           blanks == [k \in Books!Ids |-> Books!NoBook]
<1>1. Books!NoBook \in Entries /\ ~Books!NoBook.open /\ ~Books!NoBook.live /\ Books!NoBook.phase = "none" /\ Books!NoBook.pending = <<>>
  BY BlankBook
<1>2. none \in [Books!Ids -> {"none", "unsent", "sent", "replay"}] /\ none \in [Books!Ids -> {"none", "first", "again", "replay"}]
  OBVIOUS
<1>3. blanks \in [Books!Ids -> Entries] /\ \A k \in Books!Ids : blanks[k] = Books!NoBook
  BY <1>1
<1>4. /\ books = [book |-> blanks, restarting |-> FALSE, after |-> FALSE, resyncs |-> 0, link |-> "idle",
                   sub |-> none, ack |-> none, out |-> <<>>]
      /\ made = 0 /\ updates = [s \in Symbols |-> 0] /\ feed = [s \in Symbols |-> -1] /\ frames = <<>>
  BY DEF Books!Init
<1>5. \A k \in Books!Ids : none[k] = "none"
  OBVIOUS
<1>6. <<>> \in Seq({"subscribe", "unsubscribe"} \X Books!Ids) /\ <<>> \in Seq(BookFrames)
  OBVIOUS
<1> HIDE DEF none, blanks
<1>7. /\ books \in Clients /\ books.link = "idle" /\ books.book = blanks
      /\ books.sub = none /\ books.out = <<>>
  BY <1>2, <1>3, <1>4, <1>6 DEF Clients
<1>8. Asks(books) = {} /\ Held(books) = {}
  BY <1>5, <1>7 DEF Asks, Held
<1>9. Good(books)
  <2>1. \A k \in Books!Ids : Proper(books.book[k])
    BY <1>1, <1>3, <1>7 DEF Proper
  <2> QED BY <1>1, <1>3, <1>7, <2>1 DEF Good
<1>10. Exact(books, updates, reopened) /\ Apart(books)
  BY <1>1, <1>3, <1>7 DEF Exact, Apart, Books!Open
<1>11. BookTypes /\ NoConnection /\ OnWireInv
  BY <1>4, <1>6 DEF BookTypes, NoConnection, OnWireInv
<1>12. AsksInv /\ UnusedInv /\ SnapshotFirst
  BY <1>7, <1>8 DEF AsksInv, UnusedInv, SnapshotFirst
<1> QED BY <1>9, <1>10, <1>11, <1>12 DEF BooksInv

LEMMA BooksStay == ASSUME BooksInv, UNCHANGED Books!vars PROVE BooksInv'
<1>1. UNCHANGED <<books, made, updates, feed, frames, used, reopened>>
  BY DEF Books!vars, Books!exchangeVars, Books!history
<1>2. BookTypes' /\ NoConnection' /\ OnWireInv'
  BY <1>1 DEF BooksInv, BookTypes, NoConnection, OnWireInv
<1>3. Good(books') /\ Exact(books', updates', reopened') /\ Apart(books')
  BY <1>1 DEF BooksInv
<1>4. AsksInv' /\ UnusedInv'
  BY <1>1 DEF BooksInv, AsksInv, UnusedInv, Of
<1>5. SnapshotFirst'
  BY <1>1 DEF BooksInv, SnapshotFirst, BaseFirst, HasBase, Of
<1> QED BY <1>2, <1>3, <1>4, <1>5 DEF BooksInv

LEMMA BooksStep == ASSUME BooksInv, [Books!Next]_(Books!vars) PROVE BooksInv'
BY OrderBookStep, CloseBookStep, SendSubStep, ReadyContinuesStep, AckTimesOutStep, OpensStep, LostStep,
   ReceiveStep, BooksServeStep, UpdateStep, BooksStay DEF Books!Next

LEMMA LiveBooksExact == BooksInv => Books!BookIsExact
<1> SUFFICES ASSUME BooksInv, NEW k \in Books!Ids \ reopened, books.book[k].live
             PROVE  books.book[k].whole /\ books.book[k].last <= updates[books.book[k].symbol]
  BY DEF Books!BookIsExact
<1> QED BY DEF BooksInv, Exact

\* The books along the steps of the instance.
LEMMA TypeScriptBooks == TypeScriptSpec => []BooksInv
<1>1. TypeScriptInit => BooksInv
  BY BooksStart DEF TypeScriptInit
<1>2. BooksInv /\ [TypeScriptNext]_<<vars, bookVars, layer>> => BooksInv'
  <2> SUFFICES ASSUME BooksInv, [TypeScriptNext]_<<vars, bookVars, layer>> PROVE BooksInv'
    OBVIOUS
  <2>1. Books!Next \/ UNCHANGED bookVars
    BY DEF TypeScriptNext
  <2>2. UNCHANGED bookVars => UNCHANGED Books!vars
    BY DEF bookVars, Books!vars, Books!exchangeVars, Books!history
  <2>3. [Books!Next]_(Books!vars)
    BY <2>1, <2>2
  <2> QED BY <2>3, BooksStep
<1> QED BY <1>1, <1>2, PTL DEF TypeScriptSpec

\* A book that is live shows the exchange's levels at its lastUpdateId, whatever
\* frames were missing or malformed and connections lost, and however the
\* recoveries of several books met (public.ts, orderBook; orderbook.ts, ingest).
THEOREM BooksAreExact == TypeScriptSpec => []BookIsExact
<1>1. BooksInv => BookIsExact
  BY LiveBooksExact DEF BookIsExact
<1> QED BY <1>1, TypeScriptBooks, PTL
=============================================================================
