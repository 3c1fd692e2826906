--------------------------- MODULE WsClientProofs ---------------------------
(***************************************************************************)
(* Proofs about WsClient, for every number of calls, feeds, attempts and   *)
(* faults: types, the lifecycle gate, the subscription tables, frames on   *)
(* the wire, the wire gates of feeds, and the replay of active feeds.      *)
(***************************************************************************)
EXTENDS WsClient, TLAPS
USE DEF Lifecycles, Reqs, States, AttPcs, OpKinds, Closed, Goto

-----------------------------------------------------------------------------
(***************************************************************************)
(* Type correctness.                                                       *)
(***************************************************************************)

LEMMA InitType == Init => TypeOK
<1> SUFFICES ASSUME Init PROVE TypeOK
  OBVIOUS
<1>0. ConnType
  BY WsClientAssumption DEF Init, ConnType
<1>1. FlagType
  BY DEF Init, FlagType
<1>2. SubsType /\ ReqType /\ NetType
  BY WsClientAssumption DEF Init, SubsType, ReqType, NetType
<1>3. CallType
  BY DEF Init, CallType
<1>4. AttType /\ PumpType /\ CloseType
  BY DEF Init, AttType, PumpType, CloseType
<1> QED BY <1>0, <1>1, <1>2, <1>3, <1>4 DEF TypeOK

\* Variables of a group left alone keep their types.
LEMMA Unch ==
  ASSUME TypeOK
  PROVE  /\ UNCHANGED <<state, lifecycle, conn, sockets>> => ConnType'
         /\ UNCHANGED <<replayInProgress, gateFree, doneClosed, connectErr>> => FlagType'
         /\ UNCHANGED subVars => SubsType'
         /\ UNCHANGED reqVars => ReqType'
         /\ UNCHANGED netVars => NetType'
         /\ UNCHANGED <<callVars, waiters>> => CallType'
         /\ UNCHANGED attVars => AttType'
         /\ UNCHANGED pump => PumpType'
         /\ UNCHANGED <<closing, faults>> => CloseType'
<1>1. UNCHANGED <<state, lifecycle, conn, sockets>> => ConnType'
  BY DEF TypeOK, ConnType
<1>2. UNCHANGED <<replayInProgress, gateFree, doneClosed, connectErr>> => FlagType'
  BY DEF TypeOK, FlagType
<1>3. UNCHANGED subVars => SubsType'
  BY DEF TypeOK, subVars, SubsType
<1>4. UNCHANGED reqVars => ReqType'
  BY DEF TypeOK, reqVars, ReqType
<1>5. UNCHANGED netVars => NetType'
  BY DEF TypeOK, netVars, NetType
<1>6. UNCHANGED <<callVars, waiters>> => CallType'
  BY DEF TypeOK, callVars, CallType
<1>7. UNCHANGED attVars => AttType'
  BY DEF TypeOK, attVars, AttType
<1>8. UNCHANGED pump => PumpType'
  BY DEF TypeOK, PumpType
<1>9. UNCHANGED <<closing, faults>> => CloseType'
  BY DEF TypeOK, CloseType
<1> QED BY <1>1, <1>2, <1>3, <1>4, <1>5, <1>6, <1>7, <1>8, <1>9

LEMMA AttUpdates ==
  ASSUME TypeOK, NEW L
  PROVE  /\ \A w \in AttPcs : AttGoto(L, w) => AttType'
         /\ AttEnd(L) => AttType'
         /\ \A w \in AttPcs, c \in Calls \cup {None}, n \in Nat : StartAttempt(L, w, c, n) => AttType'
<1>1. ASSUME NEW w \in AttPcs, AttGoto(L, w) PROVE AttType'
  BY <1>1 DEF TypeOK, AttType, AttGoto, AttStep
<1>2. ASSUME AttEnd(L) PROVE AttType'
  BY <1>2 DEF TypeOK, AttType, AttEnd, AttStep
<1>3. ASSUME NEW w \in AttPcs, NEW c \in Calls \cup {None}, NEW n \in Nat, StartAttempt(L, w, c, n)
      PROVE  AttType'
  BY <1>3 DEF TypeOK, AttType, StartAttempt
<1> QED BY <1>1, <1>2, <1>3

\* A dropped, or a fresh, connection has nothing on the wire.
LEMMA FreshWire ==
  /\ wire' = <<>> /\ server' = {} => NetType'
  /\ DropConn => NetType'
<1>1. <<>> \in Seq(Frames)
  OBVIOUS
<1> QED BY <1>1 DEF NetType, DropConn

\* Steps of calls.
LEMMA CallStepType ==
  ASSUME TypeOK, NEW c \in Calls, Start(c) \/ CallStep(c) \/ GiveUpWaiting(c)
  PROVE  TypeOK'
<1> USE WsClientAssumption
<1>1. CASE Start(c)
  <2>1. CallType' BY <1>1 DEF TypeOK, CallType, Start, connVars, doneVars, subVars, reqVars, netVars, callVars
  <2> QED BY <1>1, <2>1, Unch DEF TypeOK, Start, connVars, doneVars, reqVars, netVars, callVars
<1>2. CASE ConnectCheck(c)
  <2>1. CallType' BY <1>2 DEF TypeOK, CallType, ConnectCheck, PastConnect, connVars, doneVars, subVars, reqVars, netVars, callVars
  <2>2. ReqType' BY <1>2 DEF TypeOK, ReqType, ConnectCheck, PastConnect, connVars, doneVars, subVars, reqVars, netVars, callVars
  <2> QED BY <1>2, <2>1, <2>2, Unch DEF TypeOK, ConnectCheck, connVars, doneVars, reqVars, netVars, callVars
<1>3. CASE ConnectWake(c)
  <2>1. CallType' BY <1>3 DEF TypeOK, CallType, ConnectWake, PastConnect, connVars, doneVars, subVars, reqVars, netVars, callVars
  <2>2. ReqType' BY <1>3 DEF TypeOK, ReqType, ConnectWake, PastConnect, connVars, doneVars, subVars, reqVars, netVars, callVars
  <2> QED BY <1>3, <2>1, <2>2, Unch DEF TypeOK, ConnectWake, connVars, doneVars, reqVars, netVars, callVars
<1>4. CASE ConnectNew(c)
  <2>1. ConnType'
    <3>1. CASE UNCHANGED <<state, lifecycle, conn, sockets>>
      BY <3>1, Unch
    <3>2. CASE state' = "connecting" /\ lifecycle' = lifecycle + 1 /\ UNCHANGED <<conn, sockets>>
      BY <3>2 DEF TypeOK, ConnType
    <3> QED BY <1>4, <3>1, <3>2 DEF ConnectNew, StartConnectAttempt, connVars
  <2>2. FlagType' BY <1>4 DEF TypeOK, FlagType, ConnectNew, PastConnect, StartConnectAttempt, connVars, doneVars, subVars, reqVars, netVars, callVars
  <2>3. ReqType' BY <1>4 DEF TypeOK, ReqType, ConnectNew, PastConnect, StartConnectAttempt, connVars, doneVars, subVars, reqVars, netVars, callVars
  <2>4. CallType' BY <1>4 DEF TypeOK, CallType, ConnectNew, PastConnect, StartConnectAttempt, connVars, doneVars, subVars, reqVars, netVars, callVars
  <2>5. AttType'
    <3>1. lifecycle + 1 \in Nat
      BY DEF TypeOK, ConnType
    <3> QED BY <1>4, <3>1, AttUpdates, Unch DEF ConnectNew
  <2> QED BY <1>4, <2>1, <2>2, <2>3, <2>4, <2>5, Unch DEF TypeOK, ConnectNew, connVars, doneVars, reqVars, netVars, callVars
<1>5. CASE WireAcquire(c)
  <2>1. CallType' BY <1>5 DEF TypeOK, CallType, WireAcquire, connVars, doneVars, subVars, reqVars, netVars, callVars
  <2> QED BY <1>5, <2>1, Unch DEF TypeOK, WireAcquire, connVars, doneVars, reqVars, netVars, callVars
<1>6. CASE SubscribeTable(c)
  <2>1. SubsType' BY <1>6 DEF TypeOK, SubsType, SubscribeTable, connVars, doneVars, subVars, reqVars, netVars, callVars
  <2>2. ReqType' BY <1>6 DEF TypeOK, ReqType, SubscribeTable, connVars, doneVars, subVars, reqVars, netVars, callVars
  <2>3. CallType' BY <1>6 DEF TypeOK, CallType, SubscribeTable, connVars, doneVars, subVars, reqVars, netVars, callVars
  <2> QED BY <1>6, <2>1, <2>2, <2>3, Unch DEF TypeOK, SubscribeTable, connVars, doneVars, reqVars, netVars, callVars
<1>7. CASE UnsubscribeTable(c)
  <2>1. SubsType' BY <1>7 DEF TypeOK, SubsType, UnsubscribeTable, Unsubscribe, connVars, doneVars, subVars, reqVars, netVars, callVars
  <2>3. CallType' BY <1>7 DEF TypeOK, CallType, UnsubscribeTable, Unsubscribe, connVars, doneVars, subVars, reqVars, netVars, callVars
  <2> QED BY <1>7, <2>1, <2>3, Unch DEF TypeOK, UnsubscribeTable, connVars, doneVars, reqVars, netVars, callVars
<1>11. CASE SendUnsubscribe(c)
  <2>1. ReqType' BY <1>11 DEF TypeOK, ReqType, SendUnsubscribe, connVars, doneVars, subVars, reqVars, netVars, callVars
  <2>2. CallType' BY <1>11 DEF TypeOK, CallType, SendUnsubscribe, connVars, doneVars, subVars, reqVars, netVars, callVars
  <2> QED BY <1>11, <2>1, <2>2, Unch DEF TypeOK, SendUnsubscribe, connVars, doneVars, reqVars, netVars, callVars
<1>8. CASE RequestReturned(c)
  <2>1. ReqType' BY <1>8 DEF TypeOK, ReqType, RequestReturned, connVars, doneVars, subVars, reqVars, netVars, callVars
  <2>2. CallType' BY <1>8 DEF TypeOK, CallType, RequestReturned, connVars, doneVars, subVars, reqVars, netVars, callVars
  <2> QED BY <1>8, <2>1, <2>2, Unch DEF TypeOK, RequestReturned, connVars, doneVars, reqVars, netVars, callVars
<1>9. CASE Rollback(c)
  <2>1. SubsType' BY <1>9 DEF TypeOK, SubsType, Rollback, connVars, doneVars, subVars, reqVars, netVars, callVars
  <2>2. CallType' BY <1>9 DEF TypeOK, CallType, Rollback, connVars, doneVars, subVars, reqVars, netVars, callVars
  <2> QED BY <1>9, <2>1, <2>2, Unch DEF TypeOK, Rollback, connVars, doneVars, reqVars, netVars, callVars
<1>10. CASE GiveUpWaiting(c)
  <2>1. CallType' BY <1>10 DEF TypeOK, CallType, GiveUpWaiting, connVars, doneVars, subVars, reqVars, netVars, callVars
  <2> QED BY <1>10, <2>1, Unch DEF TypeOK, GiveUpWaiting, connVars, doneVars, reqVars, netVars, callVars
<1> QED
  BY <1>1, <1>2, <1>3, <1>4, <1>5, <1>6, <1>7, <1>8, <1>9, <1>10, <1>11 DEF CallStep

\* Steps of requests.
LEMMA RequestStepType ==
  ASSUME TypeOK, NEW r \in Reqs, RequestStep(r) \/ Abandon(r)
  PROVE  TypeOK'
<1> USE WsClientAssumption
<1>1. CASE Register(r)
  <2>1. ReqType'
    <3>1. CASE conn # 0 /\ state = "connected"
      BY <1>1, <3>1 DEF TypeOK, ConnType, ReqType, Register
    <3>2. CASE ~(conn # 0 /\ state = "connected")
      BY <1>1, <3>2 DEF TypeOK, ReqType, Register, EndRequest
    <3> QED BY <3>1, <3>2
  <2> QED BY <1>1, <2>1, Unch DEF TypeOK, Register, connVars, doneVars, reqVars, netVars, callVars
<1>2. CASE Write(r)
  <2>1. ReqType'
    <3>1. \/ rq' = [rq EXCEPT ![r] = "await"] /\ UNCHANGED <<pending, admitted, reply>>
          \/ EndRequest(r, "err")
      BY <1>2 DEF Write
    <3> QED BY <3>1 DEF TypeOK, ReqType, EndRequest
  <2>2. NetType'
    <3>1. CASE wire' = Append(wire, Frame(r)) /\ WriteTarget(r) \in sockets
      <4>1. admitted[r] \in Lifecycles
        BY <3>1 DEF TypeOK, ConnType, WriteTarget
      <4>2. (IF r \in Calls THEN op[r].kind ELSE "subscribe") \in OpKinds
        BY DEF TypeOK, CallType
      <4>3. (IF r \in Calls THEN op[r].feed ELSE feed[r]) \in Feeds \cup {None}
        BY DEF TypeOK, CallType, AttType
      <4>4. Frame(r) \in Frames
        BY <4>1, <4>2, <4>3 DEF Frame, Frames
      <4> QED BY <1>2, <3>1, <4>4 DEF TypeOK, NetType, Write
    <3>2. CASE UNCHANGED wire
      BY <1>2, <3>2 DEF TypeOK, NetType, Write
    <3> QED BY <1>2, <3>1, <3>2 DEF Write
  <2>3. CloseType' BY <1>2 DEF TypeOK, CloseType, Write, EndRequest, Fault, connVars, doneVars, subVars, reqVars, netVars, callVars
  <2> QED BY <1>2, <2>1, <2>2, <2>3, Unch DEF TypeOK, Write, connVars, doneVars, reqVars, netVars, callVars
<1>3. CASE Answered(r)
  <2>1. ReqType' BY <1>3 DEF TypeOK, ReqType, Answered, EndRequest, connVars, doneVars, subVars, reqVars, netVars, callVars
  <2> QED BY <1>3, <2>1, Unch DEF TypeOK, Answered, connVars, doneVars, reqVars, netVars, callVars
<1>4. CASE Abandon(r)
  <2>1. ReqType' BY <1>4 DEF TypeOK, ReqType, Abandon, EndRequest, Fault, connVars, doneVars, subVars, reqVars, netVars, callVars
  <2>2. CloseType' BY <1>4 DEF TypeOK, CloseType, Abandon, EndRequest, Fault, connVars, doneVars, subVars, reqVars, netVars, callVars
  <2> QED BY <1>4, <2>1, <2>2, Unch DEF TypeOK, Abandon, connVars, doneVars, reqVars, netVars, callVars
<1> QED
  BY <1>1, <1>2, <1>3, <1>4 DEF RequestStep

\* Steps of attempts.
LEMMA AttemptStepType ==
  ASSUME TypeOK, NEW L \in Lifecycles, AttemptStep(L)
  PROVE  TypeOK'
<1> USE WsClientAssumption
<1>1. CASE Install(L)
  <2>1. ConnType'
    <3>1. CASE UNCHANGED <<state, lifecycle, conn, sockets>>
      BY <3>1, Unch
    <3>2. CASE state' = "connected" /\ conn' = L /\ sockets' = sockets \cup {L} /\ UNCHANGED lifecycle
      BY <3>2 DEF TypeOK, ConnType
    <3> QED BY <1>1, <3>1, <3>2 DEF Install
  <2>2. FlagType' BY <1>1 DEF TypeOK, FlagType, Install, OwnerFails, ByCall, Broadcast, connVars, doneVars, subVars, reqVars, netVars, callVars
  <2>3. NetType'
    BY <1>1, FreshWire, Unch DEF Install
  <2>4. CallType' BY <1>1 DEF TypeOK, CallType, Install, OwnerFails, ByCall, Broadcast, connVars, doneVars, subVars, reqVars, netVars, callVars
  <2>5. AttType'
    <3>1. AttEnd(L) \/ AttGoto(L, "snapshot")
      BY <1>1 DEF Install
    <3> QED BY <3>1, AttUpdates, Unch
  <2>6. PumpType' BY <1>1 DEF TypeOK, PumpType, Install, OwnerFails, ByCall, Broadcast, connVars, doneVars, subVars, reqVars, netVars, callVars
  <2> QED BY <1>1, <2>1, <2>2, <2>3, <2>4, <2>5, <2>6, Unch DEF TypeOK, Install, connVars, doneVars, reqVars, netVars, callVars
<1>2. CASE ConnectDialFails(L)
  <2>1. ConnType' BY <1>2 DEF TypeOK, ConnType, ConnectDialFails, OwnerFails, ByCall, Broadcast, Fault, connVars, doneVars, subVars, reqVars, netVars, callVars
  <2>2. FlagType' BY <1>2 DEF TypeOK, FlagType, ConnectDialFails, OwnerFails, ByCall, Broadcast, Fault, connVars, doneVars, subVars, reqVars, netVars, callVars
  <2>3. CallType' BY <1>2 DEF TypeOK, CallType, ConnectDialFails, OwnerFails, ByCall, Broadcast, Fault, connVars, doneVars, subVars, reqVars, netVars, callVars
  <2>4. AttType'
    BY <1>2, AttUpdates, Unch DEF ConnectDialFails
  <2>5. CloseType' BY <1>2 DEF TypeOK, CloseType, ConnectDialFails, OwnerFails, ByCall, Broadcast, Fault, connVars, doneVars, subVars, reqVars, netVars, callVars
  <2> QED BY <1>2, <2>1, <2>2, <2>3, <2>4, <2>5, Unch DEF TypeOK, ConnectDialFails, connVars, doneVars, reqVars, netVars, callVars
<1>3. CASE ReconnectDialFails(L)
  <2>1. FlagType' BY <1>3 DEF TypeOK, FlagType, ReconnectDialFails, Fault, connVars, doneVars, subVars, reqVars, netVars, callVars
  <2>2. AttType'
    <3>1. \E where \in {"giveUp", "backoff"} : attPc' = [attPc EXCEPT ![L] = where]
      BY <1>3 DEF ReconnectDialFails, AttStep
    <3>2. tries' = [tries EXCEPT ![L] = IF MaxReconnects > 0 THEN @ + 1 ELSE @]
      BY <1>3 DEF ReconnectDialFails
    <3>3. tries' \in [Lifecycles -> Nat]
      BY <3>2 DEF TypeOK, AttType
    <3>4. attPc' \in [Lifecycles -> AttPcs]
      BY <3>1 DEF TypeOK, AttType
    <3>5. UNCHANGED <<owner, todo, feed, failed>>
      BY <1>3 DEF ReconnectDialFails
    <3> QED BY <3>3, <3>4, <3>5 DEF TypeOK, AttType
  <2>3. CloseType' BY <1>3 DEF TypeOK, CloseType, ReconnectDialFails, Fault, connVars, doneVars, subVars, reqVars, netVars, callVars
  <2> QED BY <1>3, <2>1, <2>2, <2>3, Unch DEF TypeOK, ReconnectDialFails, connVars, doneVars, reqVars, netVars, callVars
<1>4. CASE BackoffElapsed(L)
  <2>1. FlagType' BY <1>4 DEF TypeOK, FlagType, BackoffElapsed, connVars, doneVars, subVars, reqVars, netVars, callVars
  <2>2. AttType'
    BY <1>4, AttUpdates, Unch DEF BackoffElapsed
  <2> QED BY <1>4, <2>1, <2>2, Unch DEF TypeOK, BackoffElapsed, connVars, doneVars, reqVars, netVars, callVars
<1>5. CASE BackoffClosed(L)
  <2>1. FlagType' BY <1>5 DEF TypeOK, FlagType, BackoffClosed, Broadcast, connVars, doneVars, subVars, reqVars, netVars, callVars
  <2>2. CallType' BY <1>5 DEF TypeOK, CallType, BackoffClosed, Broadcast, connVars, doneVars, subVars, reqVars, netVars, callVars
  <2>3. AttType'
    BY <1>5, AttUpdates, Unch DEF BackoffClosed
  <2> QED BY <1>5, <2>1, <2>2, <2>3, Unch DEF TypeOK, BackoffClosed, connVars, doneVars, reqVars, netVars, callVars
<1>6. CASE GiveUp(L)
  <2>1. ConnType' BY <1>6 DEF TypeOK, ConnType, GiveUp, Broadcast, connVars, doneVars, subVars, reqVars, netVars, callVars
  <2>2. FlagType' BY <1>6 DEF TypeOK, FlagType, GiveUp, Broadcast, connVars, doneVars, subVars, reqVars, netVars, callVars
  <2>3. CallType' BY <1>6 DEF TypeOK, CallType, GiveUp, Broadcast, connVars, doneVars, subVars, reqVars, netVars, callVars
  <2>4. AttType'
    <3>1. AttEnd(L) \/ AttGoto(L, "failSubscriptions")
      BY <1>6 DEF GiveUp
    <3> QED BY <3>1, AttUpdates, Unch
  <2> QED BY <1>6, <2>1, <2>2, <2>3, <2>4, Unch DEF TypeOK, GiveUp, connVars, doneVars, reqVars, netVars, callVars
<1>7. CASE GiveUpCleanup(L)
  <2>1. SubsType' BY <1>7 DEF TypeOK, SubsType, GiveUpCleanup, FailSubscriptions, connVars, doneVars, subVars, reqVars, netVars, callVars
  <2>2. AttType'
    BY <1>7, AttUpdates, Unch DEF GiveUpCleanup
  <2> QED BY <1>7, <2>1, <2>2, Unch DEF TypeOK, GiveUpCleanup, connVars, doneVars, reqVars, netVars, callVars
<1>8. CASE Snapshot(L)
  <2>1. AttType'
    <3>1. ActiveFrames \in SUBSET (Feeds \X Calls)
      BY DEF TypeOK, SubsType, ActiveFrames
    <3>2. ASSUME AttStep(L, "replay"), todo' = [todo EXCEPT ![L] = ActiveFrames],
                 UNCHANGED <<owner, tries, feed, failed>>
          PROVE  AttType'
      BY <3>1, <3>2 DEF TypeOK, AttType, AttStep
    <3> QED BY <1>8, <3>2, AttUpdates DEF Snapshot
  <2> QED BY <1>8, <2>1, Unch DEF TypeOK, Snapshot, connVars, doneVars, reqVars, netVars, callVars
<1>9. CASE ReplayNext(L)
  <2>1. ReqType' BY <1>9 DEF TypeOK, ReqType, ReplayNext, Fault, connVars, doneVars, subVars, reqVars, netVars, callVars
  <2>2. AttType'
    <3> DEFINE Rest(e) == todo' = [todo EXCEPT ![L] = todo[L] \ {e}]
    <3>1. CASE AttGoto(L, "failed") \/ AttGoto(L, "replayed")
      BY <3>1, AttUpdates
    <3>2. ASSUME NEW e \in todo[L], Rest(e)
          PROVE  todo' \in [Lifecycles -> SUBSET (Feeds \X Calls)] /\ e[1] \in Feeds
      <4>1. todo \in [Lifecycles -> SUBSET (Feeds \X Calls)]
        BY DEF TypeOK, AttType
      <4> QED BY <3>2, <4>1
    <3>3. ASSUME NEW e \in todo[L], Rest(e), AttStep(L, "request"),
                 feed' = [feed EXCEPT ![L] = e[1]], UNCHANGED <<owner, tries, failed>>
          PROVE  AttType'
      BY <3>2, <3>3 DEF TypeOK, AttType, AttStep
    <3>4. ASSUME NEW e \in todo[L], Rest(e), UNCHANGED <<attPc, feed, owner, tries, failed>>
          PROVE  AttType'
      BY <3>2, <3>4 DEF TypeOK, AttType
    <3>5. ASSUME NEW e \in todo[L], Rest(e), failed' = [failed EXCEPT ![L] = TRUE],
                 UNCHANGED <<attPc, owner, tries, feed>>
          PROVE  AttType'
      BY <3>2, <3>5 DEF TypeOK, AttType
    <3>6. \/ AttGoto(L, "failed") \/ AttGoto(L, "replayed")
          \/ \E e \in todo[L] :
               /\ Rest(e)
               /\ \/ /\ AttStep(L, "request") /\ feed' = [feed EXCEPT ![L] = e[1]]
                     /\ UNCHANGED <<owner, tries, failed>>
                  \/ UNCHANGED <<attPc, feed>> /\ UNCHANGED <<owner, tries, failed>>
                  \/ failed' = [failed EXCEPT ![L] = TRUE] /\ UNCHANGED <<attPc, owner, tries, feed>>
      BY <1>9 DEF ReplayNext
    <3> QED BY <3>1, <3>3, <3>4, <3>5, <3>6
  <2>3. CloseType' BY <1>9 DEF TypeOK, CloseType, ReplayNext, Fault, connVars, doneVars, subVars, reqVars, netVars, callVars
  <2> QED BY <1>9, <2>1, <2>2, <2>3, Unch DEF TypeOK, ReplayNext, connVars, doneVars, reqVars, netVars, callVars
<1>10. CASE ReplayReturned(L)
  <2>1. ReqType' BY <1>10 DEF TypeOK, ReqType, ReplayReturned, connVars, doneVars, subVars, reqVars, netVars, callVars
  <2>2. AttType' BY <1>10 DEF TypeOK, AttType, ReplayReturned, attVars, AttGoto, AttStep, AttEnd, StartAttempt
  <2> QED BY <1>10, <2>1, <2>2, Unch DEF TypeOK, ReplayReturned, connVars, doneVars, reqVars, netVars, callVars
<1>11. CASE ReplayDone(L)
  <2>1. FlagType' BY <1>11 DEF TypeOK, FlagType, ReplayDone, Broadcast, PastConnect, ByCall, connVars, doneVars, subVars, reqVars, netVars, callVars
  <2>2. ReqType' BY <1>11 DEF TypeOK, ReqType, ReplayDone, Broadcast, PastConnect, ByCall, connVars, doneVars, subVars, reqVars, netVars, callVars
  <2>3. CallType' BY <1>11 DEF TypeOK, CallType, ReplayDone, Broadcast, PastConnect, ByCall, connVars, doneVars, subVars, reqVars, netVars, callVars
  <2>4. AttType'
    BY <1>11, AttUpdates, Unch DEF ReplayDone
  <2> QED BY <1>11, <2>1, <2>2, <2>3, <2>4, Unch DEF TypeOK, ReplayDone, connVars, doneVars, reqVars, netVars, callVars
<1>12. CASE ReplayFailed(L)
  <2>1. ConnType'
    <3>1. CASE UNCHANGED <<state, lifecycle, conn, sockets>>
      BY <3>1, Unch
    <3>2. CASE state' = "disconnected" /\ DropConn /\ lifecycle' = lifecycle + 1
      BY <3>2 DEF TypeOK, ConnType, DropConn
    <3> QED BY <1>12, <3>1, <3>2 DEF ReplayFailed, connVars
  <2>2. FlagType' BY <1>12 DEF TypeOK, FlagType, ReplayFailed, OwnerFails, ByCall, Broadcast, DropConn, connVars, doneVars, subVars, reqVars, netVars, callVars
  <2>3. NetType'
    BY <1>12, FreshWire, Unch DEF ReplayFailed
  <2>4. CallType' BY <1>12 DEF TypeOK, CallType, ReplayFailed, OwnerFails, ByCall, Broadcast, DropConn, connVars, doneVars, subVars, reqVars, netVars, callVars
  <2>5. AttType'
    <3>1. AttEnd(L) \/ AttGoto(L, "cleanup")
      BY <1>12 DEF ReplayFailed
    <3> QED BY <3>1, AttUpdates, Unch
  <2> QED BY <1>12, <2>1, <2>2, <2>3, <2>4, <2>5, Unch DEF TypeOK, ReplayFailed, connVars, doneVars, reqVars, netVars, callVars
<1>13. CASE ReplayCleanup(L)
  <2>1. FlagType' BY <1>13 DEF TypeOK, FlagType, ReplayCleanup, OwnerFails, ByCall, FailSubscriptions, connVars, doneVars, subVars, reqVars, netVars, callVars
  <2>2. SubsType' BY <1>13 DEF TypeOK, SubsType, ReplayCleanup, OwnerFails, ByCall, FailSubscriptions, connVars, doneVars, subVars, reqVars, netVars, callVars
  <2>3. CallType' BY <1>13 DEF TypeOK, CallType, ReplayCleanup, OwnerFails, ByCall, FailSubscriptions, connVars, doneVars, subVars, reqVars, netVars, callVars
  <2>4. AttType'
    BY <1>13, AttUpdates, Unch DEF ReplayCleanup
  <2> QED BY <1>13, <2>1, <2>2, <2>3, <2>4, Unch DEF TypeOK, ReplayCleanup, connVars, doneVars, reqVars, netVars, callVars
<1> QED
  BY <1>1, <1>2, <1>3, <1>4, <1>5, <1>6, <1>7, <1>8, <1>9, <1>10, <1>11, <1>12, <1>13 DEF AttemptStep

\* Steps of pumps.
LEMMA PumpStepType ==
  ASSUME TypeOK, NEW L \in Lifecycles, PumpStep(L) \/ PumpExit(L) \/ LivenessFails(L)
  PROVE  TypeOK'
<1> USE WsClientAssumption
<1>1. CASE PumpError(L)
  <2>1. PumpType' BY <1>1 DEF TypeOK, PumpType, PumpError, Fault, connVars, doneVars, subVars, reqVars, netVars, callVars
  <2>2. CloseType' BY <1>1 DEF TypeOK, CloseType, PumpError, Fault, connVars, doneVars, subVars, reqVars, netVars, callVars
  <2> QED BY <1>1, <2>1, <2>2, Unch DEF TypeOK, PumpError, connVars, doneVars, reqVars, netVars, callVars
<1>2. CASE PumpExit(L)
  <2>1. PumpType' BY <1>2 DEF TypeOK, PumpType, PumpExit, connVars, doneVars, subVars, reqVars, netVars, callVars
  <2> QED BY <1>2, <2>1, Unch DEF TypeOK, PumpExit, connVars, doneVars, reqVars, netVars, callVars
<1>3. CASE LivenessFails(L)
  <2>1. ConnType' BY <1>3 DEF TypeOK, ConnType, LivenessFails, Fault, connVars, doneVars, subVars, reqVars, netVars, callVars
  <2>2. CloseType' BY <1>3 DEF TypeOK, CloseType, LivenessFails, Fault, connVars, doneVars, subVars, reqVars, netVars, callVars
  <2> QED BY <1>3, <2>1, <2>2, Unch DEF TypeOK, LivenessFails, connVars, doneVars, reqVars, netVars, callVars
<1>4. CASE PumpFail(L)
  <2>1. ConnType'
    <3>1. CASE UNCHANGED <<state, lifecycle, conn, sockets>>
      BY <3>1, Unch
    <3>2. CASE /\ state' = "disconnected" \/ state' = "reconnecting"
               /\ DropConn /\ lifecycle' = lifecycle + 1
      BY <3>2 DEF TypeOK, ConnType, DropConn
    <3> QED BY <1>4, <3>1, <3>2 DEF PumpFail, StartConnectAttempt, connVars
  <2>2. FlagType' BY <1>4 DEF TypeOK, FlagType, PumpFail, DropConn, EndReplayTurn, FailPending, StartConnectAttempt, Reconnect, Broadcast, connVars, doneVars, subVars, reqVars, netVars, callVars
  <2>3. ReqType' BY <1>4 DEF TypeOK, ReqType, PumpFail, DropConn, EndReplayTurn, FailPending, StartConnectAttempt, Reconnect, Broadcast, connVars, doneVars, subVars, reqVars, netVars, callVars
  <2>4. NetType'
    BY <1>4, FreshWire, Unch DEF PumpFail
  <2>5. CallType' BY <1>4 DEF TypeOK, CallType, PumpFail, DropConn, EndReplayTurn, FailPending, StartConnectAttempt, Reconnect, Broadcast, connVars, doneVars, subVars, reqVars, netVars, callVars
  <2>6. AttType'
    <3>1. UNCHANGED attVars \/ StartAttempt(L + 1, "backoff", None, 1)
      BY <1>4 DEF PumpFail, Reconnect
    <3> QED BY <3>1, AttUpdates, Unch
  <2>7. PumpType' BY <1>4 DEF TypeOK, PumpType, PumpFail, DropConn, EndReplayTurn, FailPending, StartConnectAttempt, Reconnect, Broadcast, connVars, doneVars, subVars, reqVars, netVars, callVars
  <2> QED BY <1>4, <2>1, <2>2, <2>3, <2>4, <2>5, <2>6, <2>7, Unch DEF TypeOK, PumpFail, connVars, doneVars, reqVars, netVars, callVars
<1>5. CASE PumpCleanup(L)
  <2>1. FlagType' BY <1>5 DEF TypeOK, FlagType, PumpCleanup, FailSubscriptions, Reconnect, connVars, doneVars, subVars, reqVars, netVars, callVars
  <2>2. SubsType' BY <1>5 DEF TypeOK, SubsType, PumpCleanup, FailSubscriptions, Reconnect, connVars, doneVars, subVars, reqVars, netVars, callVars
  <2>3. AttType'
    BY <1>5, AttUpdates, Unch DEF PumpCleanup, Reconnect
  <2>4. PumpType' BY <1>5 DEF TypeOK, PumpType, PumpCleanup, FailSubscriptions, Reconnect, connVars, doneVars, subVars, reqVars, netVars, callVars
  <2> QED BY <1>5, <2>1, <2>2, <2>3, <2>4, Unch DEF TypeOK, PumpCleanup, connVars, doneVars, reqVars, netVars, callVars
<1> QED
  BY <1>1, <1>2, <1>3, <1>4, <1>5 DEF PumpStep

\* Steps of the exchange and of Close.
LEMMA OtherStepType ==
  ASSUME TypeOK, Respond \/ Close \/ CloseTables
  PROVE  TypeOK'
<1> USE WsClientAssumption
<1>1. CASE Respond
  <2>1. ReqType'
    <3>1. Head(wire) \in Frames
      BY <1>1 DEF TypeOK, NetType, Respond
    <3>2. Head(wire).req \in Reqs
      BY <3>1 DEF Frames
    <3>3. pending' = pending \/ pending' = [pending EXCEPT ![Head(wire).req] = 0]
      BY <1>1 DEF Respond
    <3>4. reply' = reply \/ \E v \in {"ok", "err"} : reply' = [reply EXCEPT ![Head(wire).req] = v]
      BY <1>1 DEF Respond
    <3>5. UNCHANGED <<admitted, rq>>
      BY <1>1 DEF Respond
    <3> QED BY <3>2, <3>3, <3>4, <3>5 DEF TypeOK, ReqType
  <2>2. NetType'
    <3>1. wire \in Seq(Frames) /\ wire # <<>> /\ wire' = Tail(wire)
      BY <1>1 DEF TypeOK, NetType, Respond
    <3>2. wire' \in Seq(Frames) /\ Head(wire) \in Frames
      BY <3>1
    <3>3. Head(wire).feed \in Feeds \cup {None}
      BY <3>2 DEF Frames
    <3>4. server' \subseteq server \cup {Head(wire).feed}
      BY <1>1 DEF Respond
    <3> QED BY <3>2, <3>3, <3>4 DEF TypeOK, NetType
  <2>3. PumpType' BY <1>1 DEF TypeOK, PumpType, Respond, Fault, connVars, doneVars, subVars, reqVars, netVars, callVars
  <2>4. CloseType' BY <1>1 DEF TypeOK, CloseType, Respond, Fault, connVars, doneVars, subVars, reqVars, netVars, callVars
  <2> QED BY <1>1, <2>1, <2>2, <2>3, <2>4, Unch DEF TypeOK, Respond, connVars, doneVars, reqVars, netVars, callVars
<1>2. CASE Close
  <2>1. ConnType' BY <1>2 DEF TypeOK, ConnType, Close, Broadcast, FailPending, DropConn, connVars, doneVars, subVars, reqVars, netVars, callVars
  <2>2. FlagType' BY <1>2 DEF TypeOK, FlagType, Close, Broadcast, FailPending, DropConn, connVars, doneVars, subVars, reqVars, netVars, callVars
  <2>3. ReqType' BY <1>2 DEF TypeOK, ReqType, Close, Broadcast, FailPending, DropConn, connVars, doneVars, subVars, reqVars, netVars, callVars
  <2>4. NetType'
    BY <1>2, FreshWire DEF Close
  <2>5. CallType' BY <1>2 DEF TypeOK, CallType, Close, Broadcast, FailPending, DropConn, connVars, doneVars, subVars, reqVars, netVars, callVars
  <2>6. CloseType' BY <1>2 DEF TypeOK, CloseType, Close, Broadcast, FailPending, DropConn, connVars, doneVars, subVars, reqVars, netVars, callVars
  <2> QED BY <1>2, <2>1, <2>2, <2>3, <2>4, <2>5, <2>6, Unch DEF TypeOK, Close, connVars, doneVars, reqVars, netVars, callVars
<1>3. CASE CloseTables
  <2>1. SubsType' BY <1>3 DEF TypeOK, SubsType, CloseTables, connVars, doneVars, subVars, reqVars, netVars, callVars
  <2>2. CloseType' BY <1>3 DEF TypeOK, CloseType, CloseTables, connVars, doneVars, subVars, reqVars, netVars, callVars
  <2> QED BY <1>3, <2>1, <2>2, Unch DEF TypeOK, CloseTables, connVars, doneVars, reqVars, netVars, callVars
<1> QED
  BY <1>1, <1>2, <1>3

(***************************************************************************)
(* Every reachable state of the client is well typed: whatever the order   *)
(* of connection attempts, pumps, replays, requests and Close              *)
(* (client_connection.go, client_requests.go, client_subscriptions.go),    *)
(* counters, tables, sockets and waiters stay in their ranges.             *)
(***************************************************************************)
THEOREM TypeCorrect == Spec => []TypeOK
<1>1. TypeOK /\ [Next]_vars => TypeOK'
  <2> SUFFICES ASSUME TypeOK, [Next]_vars PROVE TypeOK'
    OBVIOUS
  <2>1. CASE Next
    BY <2>1, CallStepType, RequestStepType, AttemptStepType, PumpStepType, OtherStepType DEF Next
  <2>2. CASE UNCHANGED vars
    BY <2>2, Unch DEF TypeOK, vars, connVars, doneVars, reqVars, netVars, callVars
  <2> QED BY <2>1, <2>2
<1> QED BY <1>1, InitType, PTL DEF Spec

-----------------------------------------------------------------------------
(***************************************************************************)
(* The lifecycle gate does what it is for: LifecycleGate and               *)
(* ConnectionOwned, which are inductive only together (a dial installs its *)
(* connection over nothing because the gate kept the client in the state   *)
(* the dial began in).                                                     *)
(***************************************************************************)
HIDE DEF Reqs, AttPcs, OpKinds, Goto

LifeInv == TypeOK /\ LifecycleGate /\ ConnectionOwned

lifeVars == <<state, lifecycle, conn, sockets, gateFree, attPc, owner, pump>>

LEMMA InitLife == Init => LifecycleGate /\ ConnectionOwned
<1> SUFFICES ASSUME Init PROVE LifecycleGate /\ ConnectionOwned
  OBVIOUS
<1>1. LifecycleGate
  BY WsClientAssumption DEF Init, LifecycleGate, HoldsGate, LifecycleState
<1>2. ConnectionOwned
  BY DEF Init, ConnectionOwned
<1> QED BY <1>1, <1>2

LEMMA LifeUnch ==
  ASSUME LifeInv, UNCHANGED lifeVars
  PROVE  LifecycleGate' /\ ConnectionOwned'
<1>1. LifecycleGate'
  BY DEF LifeInv, LifecycleGate, HoldsGate, LifecycleState, ByCall, lifeVars
<1>2. ConnectionOwned'
  BY DEF LifeInv, ConnectionOwned, lifeVars
<1> QED BY <1>1, <1>2

\* An attempt that neither holds the gate nor relies on the state moves on.
LEMMA AttemptMovesOn ==
  ASSUME LifeInv, NEW L \in Lifecycles, attPc[L] # "none",
         NEW w \in {"snapshot", "replay", "request", "replayed", "failed", "ended"},
         attPc' = [attPc EXCEPT ![L] = w],
         owner' = owner \/ owner' = [owner EXCEPT ![L] = None],
         UNCHANGED <<state, lifecycle, conn, sockets, gateFree, pump>>
  PROVE  LifecycleGate' /\ ConnectionOwned'
<1>0. attPc \in [Lifecycles -> AttPcs] /\ owner \in [Lifecycles -> Calls \cup {None}]
  BY DEF LifeInv, TypeOK, AttType
<1>1. ConnectionOwned'
  BY DEF LifeInv, ConnectionOwned
<1>2. \A l \in Lifecycles : HoldsGate(l)' => HoldsGate(l)
  BY <1>0 DEF HoldsGate
<1>3. ASSUME NEW l \in Lifecycles PROVE LifecycleState(l)'
  <2>0. LifecycleState(l) /\ LifecycleState(L)
    BY DEF LifeInv, LifecycleGate
  <2>1. CASE l = L
    BY <1>0, <2>0, <2>1 DEF LifecycleState, ByCall
  <2>2. CASE l # L
    BY <1>0, <2>0, <2>2 DEF LifecycleState, ByCall
  <2> QED BY <2>1, <2>2
<1>4. \A l \in Lifecycles : pump'[l] = "cleanup" => attPc'[l] \notin {"dialing", "cleanup"}
  BY <1>0 DEF LifeInv, LifecycleGate
<1> QED BY <1>1, <1>2, <1>3, <1>4 DEF LifeInv, LifecycleGate

\* A process at L takes the gate, or gives it back, and moves the client on.
\* The other processes are untouched: none of them holds the gate, and they
\* rely on the state only if it is theirs.
LEMMA HolderMoves ==
  ASSUME LifeInv, NEW L \in Lifecycles,
         \A l \in Lifecycles : l # L => ~HoldsGate(l) /\ attPc'[l] = attPc[l]
                                      /\ pump'[l] = pump[l] /\ owner'[l] = owner[l],
         lifecycle' \in Nat, lifecycle' >= lifecycle,
         \A l \in Lifecycles : l # L /\ lifecycle' = l =>
             \/ attPc[l] \notin {"backoff", "giveUp", "failSubscriptions"}
             \/ state' = state
             \/ state' = "closed",
         \A l \in Lifecycles : l # L /\ lifecycle' = l => lifecycle = l \/ l > lifecycle,
         HoldsGate(L)' => ~gateFree',
         pump'[L] = "cleanup" => attPc'[L] \notin {"dialing", "cleanup"},
         LifecycleState(L)'
  PROVE  LifecycleGate'
<1>1. \A l \in Lifecycles : l # L => ~HoldsGate(l)'
  BY DEF HoldsGate
<1>2. lifecycle \in Nat /\ \A l \in Lifecycles : l \in Nat
  BY WsClientAssumption DEF LifeInv, TypeOK, ConnType
<1>3. ASSUME NEW l \in Lifecycles, l # L PROVE LifecycleState(l)'
  <2>1. LifecycleState(l) /\ ~HoldsGate(l)
    BY <1>3 DEF LifeInv, LifecycleGate
  <2>2. attPc'[l] = attPc[l] /\ pump'[l] = pump[l] /\ owner'[l] = owner[l]
    BY <1>3
  <2>3. attPc'[l] \notin {"dialing", "cleanup"} /\ pump'[l] # "cleanup"
    BY <2>1, <2>2 DEF HoldsGate
  <2>4. l > lifecycle' => attPc'[l] = "none" /\ pump'[l] = "none"
    BY <1>2, <2>1, <2>2 DEF LifecycleState
  <2>5. ASSUME attPc'[l] \in {"backoff", "giveUp", "failSubscriptions"}, lifecycle' = l
        PROVE  lifecycle = l /\ (state' = state \/ state' = "closed")
    BY <1>2, <1>3, <2>1, <2>2, <2>5 DEF LifecycleState
  <2> QED BY <2>1, <2>2, <2>3, <2>4, <2>5 DEF LifecycleState
<1>4. \A l \in Lifecycles : LifecycleState(l)'
  BY <1>3
<1>5. \A l \in Lifecycles : HoldsGate(l)' => ~gateFree'
  BY <1>1
<1>6. \A l, m \in Lifecycles : HoldsGate(l)' /\ HoldsGate(m)' => l = m
  BY <1>1
<1>7. \A l \in Lifecycles : pump'[l] = "cleanup" => attPc'[l] \notin {"dialing", "cleanup"}
  BY <1>1 DEF HoldsGate
<1> QED BY <1>4, <1>5, <1>6, <1>7 DEF LifecycleGate

\* While the gate is free nobody holds it, and a holder holds it alone.
LEMMA Holders ==
  ASSUME LifeInv
  PROVE  /\ gateFree => \A l \in Lifecycles : ~HoldsGate(l)
         /\ \A L \in Lifecycles : HoldsGate(L) => \A l \in Lifecycles : l # L => ~HoldsGate(l)
  BY DEF LifeInv, LifecycleGate

LEMMA LifeTypes ==
  ASSUME LifeInv
  PROVE  /\ state \in States /\ lifecycle \in Nat
         /\ attPc \in [Lifecycles -> AttPcs] /\ owner \in [Lifecycles -> Calls \cup {None}]
         /\ DOMAIN pump = Lifecycles
  BY DEF LifeInv, TypeOK, ConnType, AttType, PumpType

\* A client that is not connected has no connection and no socket.
LEMMA NotConnected ==
  ASSUME LifeInv, state # "connected"
  PROVE  conn = 0 /\ sockets = {}
  BY DEF LifeInv, ConnectionOwned

LEMMA ConnectNewLife ==
  ASSUME LifeInv, NEW c \in Calls, ConnectNew(c)
  PROVE  LifecycleGate' /\ ConnectionOwned'
<1>1. CASE UNCHANGED <<connVars, attVars>>
  BY <1>1, LifeUnch DEF ConnectNew, connVars, attVars, lifeVars
<1>2. CASE state = "disconnected" /\ state' = "connecting"
  <2>0. PICK L \in Nat : L = lifecycle + 1
    BY LifeTypes
  <2>1. /\ gateFree /\ ~gateFree' /\ lifecycle' = L /\ lifecycle < MaxLifecycle
        /\ StartAttempt(L, "dialing", c, 0) /\ UNCHANGED <<conn, sockets, pump>>
    BY <1>2, <2>0 DEF ConnectNew, StartConnectAttempt, connVars
  <2>2. L \in Lifecycles /\ lifecycle \in Nat /\ c # None
    BY <2>0, <2>1, LifeTypes, WsClientAssumption
  <2>3. attPc[L] = "none" /\ pump[L] = "none"
    BY <2>0, <2>2 DEF LifeInv, LifecycleGate, LifecycleState
  <2>4. attPc' = [attPc EXCEPT ![L] = "dialing"] /\ owner' = [owner EXCEPT ![L] = c]
    BY <2>1 DEF StartAttempt
  <2>5. attPc'[L] = "dialing" /\ owner'[L] = c /\ pump'[L] = "none"
    BY <2>1, <2>2, <2>3, <2>4, LifeTypes
  <2>6. \A l \in Lifecycles : l # L => ~HoldsGate(l) /\ attPc'[l] = attPc[l]
                                     /\ pump'[l] = pump[l] /\ owner'[l] = owner[l]
    BY <2>1, <2>4, Holders, LifeTypes
  <2>7. LifecycleState(L)'
    BY <1>2, <2>1, <2>2, <2>5 DEF LifecycleState, ByCall
  <2>8. ConnectionOwned'
    BY <1>2, <2>1, NotConnected DEF ConnectionOwned
  <2>9. LifecycleGate'
    <3>1. lifecycle' \in Nat /\ lifecycle' >= lifecycle /\ lifecycle' = L
      BY <2>0, <2>1, <2>2
    <3>2. pump'[L] = "cleanup" => attPc'[L] \notin {"dialing", "cleanup"}
      BY <2>5
    <3>3. \A l \in Lifecycles : l # L => lifecycle' # l
      BY <3>1
    <3> QED BY <2>1, <2>2, <2>6, <2>7, <3>1, <3>2, <3>3, HolderMoves
  <2> QED BY <2>8, <2>9
<1> QED BY <1>1, <1>2 DEF ConnectNew, connVars

LEMMA InstallLife ==
  ASSUME LifeInv, NEW L \in Lifecycles, Install(L)
  PROVE  LifecycleGate' /\ ConnectionOwned'
<1>1. /\ attPc[L] = "dialing" /\ HoldsGate(L) /\ lifecycle = L
      /\ state \in {"connecting", "reconnecting", "closed"}
      /\ pump[L] # "cleanup" /\ UNCHANGED lifecycle /\ lifecycle \in Nat
  BY LifeTypes DEF Install, LifeInv, LifecycleGate, LifecycleState, HoldsGate
<1>2. conn = 0 /\ sockets = {}
  BY <1>1, NotConnected
<1>3. \/ /\ AttEnd(L) /\ UNCHANGED <<state, conn, sockets, pump>>
      \/ /\ ~Closed /\ conn' = L /\ sockets' = sockets \cup {L} /\ state' = "connected"
         /\ pump' = [pump EXCEPT ![L] = "reading"] /\ AttGoto(L, "snapshot")
  BY DEF Install
<1>4. \E w \in {"ended", "snapshot"} : attPc' = [attPc EXCEPT ![L] = w]
  BY <1>3 DEF AttEnd, AttGoto, AttStep
<1>5. attPc'[L] \in {"ended", "snapshot"} /\ pump'[L] # "cleanup"
  BY <1>1, <1>3, <1>4, LifeTypes
<1>6. \A l \in Lifecycles : l # L => ~HoldsGate(l) /\ attPc'[l] = attPc[l]
                                   /\ pump'[l] = pump[l] /\ owner'[l] = owner[l]
  BY <1>1, <1>3, Holders, LifeTypes DEF AttEnd, AttGoto, AttStep
<1>7. LifecycleState(L)' /\ ~HoldsGate(L)'
  BY <1>1, <1>5 DEF LifecycleState, HoldsGate
<1>8. LifecycleGate'
  BY <1>1, <1>5, <1>6, <1>7, HolderMoves
<1>9. ConnectionOwned'
  <2>1. CASE UNCHANGED <<state, conn, sockets, pump>>
    BY <1>1, <2>1 DEF LifeInv, ConnectionOwned
  <2>2. CASE /\ conn' = L /\ sockets' = sockets \cup {L} /\ state' = "connected"
             /\ pump' = [pump EXCEPT ![L] = "reading"]
    <3>1. pump'[L] = "reading"
      BY <2>2, LifeTypes
    <3>2. L # 0
      BY WsClientAssumption
    <3> QED BY <1>1, <1>2, <2>2, <3>1, <3>2 DEF ConnectionOwned
  <2> QED BY <1>3, <2>1, <2>2
<1> QED BY <1>8, <1>9

LEMMA DialFailsLife ==
  ASSUME LifeInv, NEW L \in Lifecycles, ConnectDialFails(L) \/ ReconnectDialFails(L)
  PROVE  LifecycleGate' /\ ConnectionOwned'
<1>1. /\ attPc[L] = "dialing" /\ HoldsGate(L) /\ lifecycle = L
      /\ state \in {"connecting", "reconnecting", "closed"} /\ (state = "connecting" => ByCall(L))
      /\ pump[L] # "cleanup" /\ UNCHANGED lifecycle /\ lifecycle \in Nat
      /\ UNCHANGED <<conn, sockets, pump>>
  BY LifeTypes DEF ConnectDialFails, ReconnectDialFails, LifeInv, LifecycleGate, LifecycleState, HoldsGate
<1>2. conn = 0 /\ sockets = {}
  BY <1>1, NotConnected
<1>3. \/ AttEnd(L) /\ (state' = "disconnected" \/ (Closed /\ UNCHANGED state))
      \/ /\ ~ByCall(L) /\ UNCHANGED <<state, owner>>
         /\ AttStep(L, "giveUp") \/ AttStep(L, "backoff")
  <2>1. CASE ConnectDialFails(L)
    BY <2>1 DEF ConnectDialFails
  <2>2. CASE ReconnectDialFails(L)
    BY <2>2 DEF ReconnectDialFails
  <2> QED BY <2>1, <2>2
<1>4. /\ state' # "connected"
      /\ attPc'[L] \in {"ended", "giveUp", "backoff"}
      /\ attPc'[L] # "ended" => state' \in {"reconnecting", "closed"}
      /\ \A l \in Lifecycles : l # L => attPc'[l] = attPc[l] /\ owner'[l] = owner[l]
  BY <1>1, <1>3, LifeTypes DEF AttEnd, AttStep
<1>5. LifecycleState(L)' /\ ~HoldsGate(L)'
  BY <1>1, <1>4 DEF LifecycleState, HoldsGate
<1>6. \A l \in Lifecycles : l # L => ~HoldsGate(l) /\ attPc'[l] = attPc[l]
                                   /\ pump'[l] = pump[l] /\ owner'[l] = owner[l]
  BY <1>1, <1>4, Holders
<1>7. LifecycleGate'
  BY <1>1, <1>4, <1>5, <1>6, HolderMoves
<1>8. ConnectionOwned'
  BY <1>1, <1>2, <1>4 DEF ConnectionOwned
<1> QED BY <1>7, <1>8

LEMMA BackoffLife ==
  ASSUME LifeInv, NEW L \in Lifecycles, BackoffElapsed(L) \/ BackoffClosed(L)
  PROVE  LifecycleGate' /\ ConnectionOwned'
<1>1. attPc[L] = "backoff" /\ UNCHANGED <<state, lifecycle, conn, sockets, pump>>
  BY DEF BackoffElapsed, BackoffClosed, connVars
<1>2. CASE AttEnd(L) /\ UNCHANGED gateFree
  BY <1>1, <1>2, AttemptMovesOn DEF AttEnd, AttStep
<1>3. CASE ~Superseded(L) /\ gateFree /\ gateFree' = FALSE /\ AttGoto(L, "dialing")
  <2>1. /\ lifecycle = L /\ lifecycle \in Nat /\ state = "reconnecting" /\ pump[L] # "cleanup"
    BY <1>1, <1>3, LifeTypes, Holders
       DEF Superseded, LifeInv, LifecycleGate, LifecycleState, HoldsGate
  <2>2. attPc'[L] = "dialing" /\ owner' = owner /\ \A l \in Lifecycles : l # L => attPc'[l] = attPc[l]
    BY <1>3, LifeTypes DEF AttGoto, AttStep
  <2>3. LifecycleState(L)'
    BY <1>1, <2>1, <2>2 DEF LifecycleState
  <2>4. \A l \in Lifecycles : l # L => ~HoldsGate(l) /\ attPc'[l] = attPc[l]
                                     /\ pump'[l] = pump[l] /\ owner'[l] = owner[l]
    BY <1>1, <1>3, <2>2, Holders
  <2>5. LifecycleGate'
    BY <1>1, <1>3, <2>1, <2>2, <2>3, <2>4, HolderMoves
  <2>6. ConnectionOwned'
    BY <1>1 DEF LifeInv, ConnectionOwned
  <2> QED BY <2>5, <2>6
<1> QED BY <1>2, <1>3 DEF BackoffElapsed, BackoffClosed, connVars

LEMMA GiveUpLife ==
  ASSUME LifeInv, NEW L \in Lifecycles, GiveUp(L)
  PROVE  LifecycleGate' /\ ConnectionOwned'
<1>1. attPc[L] = "giveUp" /\ UNCHANGED <<lifecycle, conn, sockets, gateFree, pump>>
  BY DEF GiveUp
<1>2. CASE AttEnd(L) /\ UNCHANGED state
  BY <1>1, <1>2, AttemptMovesOn DEF AttEnd, AttStep
<1>3. CASE /\ ~Closed /\ lifecycle = L /\ state' = "disconnected"
           /\ AttGoto(L, "failSubscriptions")
  <2>1. state = "reconnecting" /\ lifecycle \in Nat
    BY <1>1, <1>3, LifeTypes DEF LifeInv, LifecycleGate, LifecycleState
  <2>2. attPc'[L] = "failSubscriptions" /\ owner' = owner /\ \A l \in Lifecycles : l # L => attPc'[l] = attPc[l]
    BY <1>3, LifeTypes DEF AttGoto, AttStep
  <2>3. ASSUME NEW l \in Lifecycles PROVE ~HoldsGate(l)
    <3>1. LifecycleState(l)
      BY DEF LifeInv, LifecycleGate
    <3>2. l = L => attPc[l] \notin {"dialing", "cleanup"}
      BY <1>1
    <3>3. attPc[l] \notin {"dialing", "cleanup"}
      BY <1>3, <2>1, <3>1, <3>2 DEF LifecycleState
    <3>4. pump[l] # "cleanup"
      BY <1>1, <1>3, <3>1 DEF LifecycleState
    <3> QED BY <3>3, <3>4 DEF HoldsGate
  <2>4. LifecycleState(L)' /\ ~HoldsGate(L)'
    BY <1>1, <1>3, <2>1, <2>2, <2>3 DEF LifecycleState, HoldsGate
  <2>5. \A l \in Lifecycles : l # L => ~HoldsGate(l) /\ attPc'[l] = attPc[l]
                                     /\ pump'[l] = pump[l] /\ owner'[l] = owner[l]
    BY <1>1, <2>2, <2>3
  <2>6. LifecycleGate'
    BY <1>1, <1>3, <2>1, <2>2, <2>4, <2>5, HolderMoves
  <2>7. ConnectionOwned'
    BY <1>1, <1>3, <2>1, NotConnected DEF ConnectionOwned
  <2> QED BY <2>6, <2>7
<1> QED BY <1>2, <1>3 DEF GiveUp

LEMMA ReplayLife ==
  ASSUME LifeInv, NEW L \in Lifecycles,
         GiveUpCleanup(L) \/ Snapshot(L) \/ ReplayNext(L) \/ ReplayReturned(L) \/ ReplayDone(L)
  PROVE  LifecycleGate' /\ ConnectionOwned'
<1>1. attPc[L] # "none" /\ UNCHANGED <<state, lifecycle, conn, sockets, gateFree, pump>>
  BY DEF GiveUpCleanup, Snapshot, ReplayNext, ReplayReturned, ReplayDone, connVars
<1>2. \/ UNCHANGED <<attPc, owner>>
      \/ /\ owner' = owner \/ owner' = [owner EXCEPT ![L] = None]
         /\ \E w \in {"snapshot", "replay", "request", "replayed", "failed", "ended"} :
              attPc' = [attPc EXCEPT ![L] = w]
  <2>1. CASE GiveUpCleanup(L) \/ ReplayDone(L)
    BY <2>1 DEF GiveUpCleanup, ReplayDone, AttEnd, AttStep
  <2>2. CASE Snapshot(L)
    BY <2>2 DEF Snapshot, AttGoto, AttStep
  <2>3. CASE ReplayReturned(L)
    BY <2>3 DEF ReplayReturned, AttStep
  <2>4. CASE ReplayNext(L)
    BY <2>4 DEF ReplayNext, AttGoto, AttStep
  <2> QED BY <2>1, <2>2, <2>3, <2>4
<1>3. CASE UNCHANGED <<attPc, owner>>
  BY <1>1, <1>3, LifeUnch DEF lifeVars
<1> QED BY <1>1, <1>2, <1>3, AttemptMovesOn

LEMMA ReplayFailedLife ==
  ASSUME LifeInv, NEW L \in Lifecycles, ReplayFailed(L)
  PROVE  LifecycleGate' /\ ConnectionOwned'
<1>1. attPc[L] = "failed" /\ UNCHANGED pump
  BY DEF ReplayFailed
<1>2. CASE AttEnd(L) /\ UNCHANGED connVars
  BY <1>1, <1>2, AttemptMovesOn DEF AttEnd, AttStep, connVars
<1>3. CASE /\ gateFree /\ gateFree' = FALSE /\ lifecycle = L /\ DropConn
           /\ lifecycle' = lifecycle + 1 /\ state' = "disconnected" /\ AttGoto(L, "cleanup")
  <2>1. lifecycle \in Nat /\ lifecycle' \in Nat /\ lifecycle' > lifecycle
    BY <1>3, LifeTypes
  <2>2. attPc'[L] = "cleanup" /\ owner' = owner /\ \A l \in Lifecycles : l # L => attPc'[l] = attPc[l]
    BY <1>3, LifeTypes DEF AttGoto, AttStep
  <2>3. \A l \in Lifecycles : l # L => ~HoldsGate(l) /\ attPc'[l] = attPc[l]
                                     /\ pump'[l] = pump[l] /\ owner'[l] = owner[l]
    BY <1>1, <1>3, <2>2, Holders
  <2>4. pump'[L] # "cleanup"
    BY <1>1, <1>3, Holders DEF HoldsGate
  <2>5. LifecycleState(L)'
    BY <1>3, <2>1, <2>2, <2>4 DEF LifecycleState
  <2>6. \A l \in Lifecycles : lifecycle' = l => l > lifecycle /\ attPc[l] = "none"
    BY <2>1 DEF LifeInv, LifecycleGate, LifecycleState
  <2>7. LifecycleGate'
    BY <1>3, <2>1, <2>2, <2>3, <2>4, <2>5, <2>6, HolderMoves
  <2>8. ConnectionOwned'
    BY <1>3 DEF LifeInv, ConnectionOwned, DropConn
  <2> QED BY <2>7, <2>8
<1> QED BY <1>2, <1>3 DEF ReplayFailed

LEMMA CleanupLife ==
  ASSUME LifeInv, NEW L \in Lifecycles, ReplayCleanup(L)
  PROVE  LifecycleGate' /\ ConnectionOwned'
<1>1. /\ attPc[L] = "cleanup" /\ HoldsGate(L) /\ pump[L] # "cleanup" /\ lifecycle = L + 1
      /\ lifecycle \in Nat /\ UNCHANGED <<state, lifecycle, conn, sockets, pump>>
  BY LifeTypes DEF ReplayCleanup, LifeInv, LifecycleGate, LifecycleState, HoldsGate
<1>2. attPc'[L] = "ended" /\ \A l \in Lifecycles : l # L => attPc'[l] = attPc[l] /\ owner'[l] = owner[l]
  BY LifeTypes DEF ReplayCleanup, AttEnd, AttStep
<1>3. LifecycleState(L)' /\ ~HoldsGate(L)'
  BY <1>1, <1>2 DEF LifecycleState, HoldsGate
<1>4. \A l \in Lifecycles : l # L => ~HoldsGate(l) /\ attPc'[l] = attPc[l]
                                   /\ pump'[l] = pump[l] /\ owner'[l] = owner[l]
  BY <1>1, <1>2, Holders
<1>5. LifecycleGate'
  BY <1>1, <1>2, <1>3, <1>4, HolderMoves
<1>6. ConnectionOwned'
  BY <1>1 DEF LifeInv, ConnectionOwned
<1> QED BY <1>5, <1>6

LEMMA PumpMovesOn ==
  ASSUME LifeInv, NEW L \in Lifecycles, pump[L] # "none", pump[L] # "cleanup",
         NEW w \in {"reading", "failing", "slow", "ended"}, pump' = [pump EXCEPT ![L] = w],
         w = "ended" => conn # L,
         UNCHANGED <<state, lifecycle, conn, gateFree, attPc, owner>>,
         sockets' \subseteq sockets
  PROVE  LifecycleGate' /\ ConnectionOwned'
<1>1. pump'[L] = w /\ \A l \in Lifecycles : l # L => pump'[l] = pump[l]
  BY LifeTypes
<1>2. \A l \in Lifecycles : HoldsGate(l)' <=> HoldsGate(l)
  BY <1>1 DEF HoldsGate
<1>3. ASSUME NEW l \in Lifecycles PROVE LifecycleState(l)'
  <2>1. LifecycleState(l)
    BY DEF LifeInv, LifecycleGate
  <2>2. CASE l = L
    BY <1>1, <2>1, <2>2 DEF LifecycleState, ByCall
  <2>3. CASE l # L
    BY <1>1, <2>1, <2>3 DEF LifecycleState, ByCall
  <2> QED BY <2>2, <2>3
<1>4. \A l \in Lifecycles : pump'[l] = "cleanup" => attPc'[l] \notin {"dialing", "cleanup"}
  BY <1>1 DEF LifeInv, LifecycleGate
<1>5. LifecycleGate'
  BY <1>2, <1>3, <1>4 DEF LifeInv, LifecycleGate
<1>6. conn \in Lifecycles \cup {0}
  BY DEF LifeInv, TypeOK, ConnType
<1>7. ConnectionOwned'
  BY <1>1, <1>6 DEF LifeInv, ConnectionOwned
<1> QED BY <1>5, <1>7

LEMMA LivenessLife ==
  ASSUME LifeInv, NEW L \in Lifecycles, LivenessFails(L)
  PROVE  LifecycleGate' /\ ConnectionOwned'
<1>1. /\ UNCHANGED <<state, lifecycle, conn, gateFree, attPc, owner, pump>>
      /\ sockets' \subseteq sockets
  BY DEF LivenessFails, attVars
<1>2. LifecycleGate'
  BY <1>1 DEF LifeInv, LifecycleGate, HoldsGate, LifecycleState, ByCall
<1>3. ConnectionOwned'
  BY <1>1 DEF LifeInv, ConnectionOwned
<1> QED BY <1>2, <1>3

LEMMA PumpLife ==
  ASSUME LifeInv, NEW L \in Lifecycles, PumpError(L) \/ PumpExit(L)
  PROVE  LifecycleGate' /\ ConnectionOwned'
<1>1. /\ pump[L] = "reading" /\ UNCHANGED <<state, lifecycle, conn, sockets, gateFree, attPc, owner>>
  BY DEF PumpError, PumpExit, connVars, attVars
<1>2. CASE PumpError(L)
  <2>1. \E w \in {"failing", "slow"} : pump' = [pump EXCEPT ![L] = w]
    BY <1>2 DEF PumpError
  <2> QED BY <1>1, <2>1, PumpMovesOn
<1>3. CASE PumpExit(L)
  <2>1. pump' = [pump EXCEPT ![L] = "ended"] /\ (Closed \/ lifecycle # L \/ conn = 0)
    BY <1>3 DEF PumpExit
  <2>2. conn # L
    BY <2>1, WsClientAssumption DEF LifeInv, ConnectionOwned
  <2> QED BY <1>1, <2>1, <2>2, PumpMovesOn
<1> QED BY <1>2, <1>3

LEMMA RespondLife ==
  ASSUME LifeInv, Respond
  PROVE  LifecycleGate' /\ ConnectionOwned'
<1>1. /\ conn \in Lifecycles /\ pump[conn] = "reading"
      /\ UNCHANGED <<state, lifecycle, conn, sockets, gateFree, attPc, owner>>
  BY DEF Respond, connVars, attVars, LifeInv, TypeOK, ConnType
<1>2. pump' = pump \/ pump' = [pump EXCEPT ![conn] = "failing"]
  BY DEF Respond
<1>3. CASE pump' = pump
  BY <1>1, <1>3, LifeUnch DEF lifeVars
<1>4. CASE pump' = [pump EXCEPT ![conn] = "failing"]
  BY <1>1, <1>4, PumpMovesOn
<1> QED BY <1>2, <1>3, <1>4

LEMMA CloseLife ==
  ASSUME LifeInv, Close
  PROVE  LifecycleGate' /\ ConnectionOwned'
<1>1. /\ state' = "closed" /\ UNCHANGED <<lifecycle, gateFree, attPc, owner, pump>> /\ DropConn
  BY DEF Close, attVars
<1>2. LifecycleGate'
  BY <1>1 DEF LifeInv, LifecycleGate, HoldsGate, LifecycleState, ByCall
<1>3. ConnectionOwned'
  BY <1>1 DEF LifeInv, ConnectionOwned, DropConn
<1> QED BY <1>2, <1>3

LEMMA PumpFailLife ==
  ASSUME LifeInv, NEW L \in Lifecycles, PumpFail(L)
  PROVE  LifecycleGate' /\ ConnectionOwned'
<1>1. pump[L] \in {"failing", "slow"}
  BY DEF PumpFail
<1>2. CASE PumpStale(L)
  <2>1. pump' = [pump EXCEPT ![L] = "ended"] /\ UNCHANGED <<state, lifecycle, conn, sockets, gateFree, attPc, owner>>
    BY <1>2 DEF PumpFail, connVars, attVars
  <2>2. conn # L
    BY <1>2, WsClientAssumption DEF PumpStale, LifeInv, ConnectionOwned
  <2> QED BY <1>1, <2>1, <2>2, PumpMovesOn
<1>3. CASE ~PumpStale(L)
  <2>1. lifecycle = L /\ gateFree /\ DropConn /\ lifecycle' = lifecycle + 1
    BY <1>3 DEF PumpFail, PumpStale, StartConnectAttempt
  <2>2. lifecycle \in Nat /\ lifecycle' \in Nat /\ lifecycle' > lifecycle
    BY <2>1, LifeTypes
  <2>3. \A l \in Lifecycles : ~HoldsGate(l)
    BY <2>1, Holders
  <2>4. \A l \in Lifecycles : l >= lifecycle' => attPc[l] = "none" /\ pump[l] = "none"
    BY <2>2 DEF LifeInv, LifecycleGate, LifecycleState
  <2>5. CASE /\ state' = IF AutoReconnect THEN "reconnecting" ELSE "disconnected"
             /\ gateFree' = FALSE /\ pump' = [pump EXCEPT ![L] = "cleanup"] /\ UNCHANGED attVars
    <3>1. pump'[L] = "cleanup" /\ \A l \in Lifecycles : l # L => pump'[l] = pump[l]
      BY <2>5, LifeTypes
    <3>2. attPc' = attPc /\ owner' = owner
      BY <2>5 DEF attVars
    <3>3. attPc[L] \notin {"dialing", "cleanup"}
      BY <2>3 DEF HoldsGate
    <3>4. LifecycleState(L)'
      BY <2>1, <2>2, <2>4, <2>5, <3>1, <3>2, <3>3 DEF LifecycleState
    <3>5. \A l \in Lifecycles : l # L => ~HoldsGate(l) /\ attPc'[l] = attPc[l]
                                       /\ pump'[l] = pump[l] /\ owner'[l] = owner[l]
      BY <2>3, <3>1, <3>2
    <3>6. \A l \in Lifecycles : lifecycle' = l => l > lifecycle /\ attPc[l] = "none"
      BY <2>2, <2>4
    <3>7. LifecycleGate'
      BY <2>2, <2>5, <3>2, <3>3, <3>4, <3>5, <3>6, HolderMoves
    <3>8. state' # "connected" /\ ConnectionOwned'
      BY <2>1, <2>5 DEF LifeInv, ConnectionOwned, DropConn
    <3> QED BY <3>7, <3>8
  <2>6. CASE /\ state' = "reconnecting" /\ lifecycle < MaxLifecycle /\ UNCHANGED gateFree
             /\ pump' = [pump EXCEPT ![L] = "ended"] /\ StartAttempt(L + 1, "backoff", None, 1)
    <3>0. L + 1 \in Lifecycles
      BY <2>1, <2>2, <2>6, WsClientAssumption
    <3>1. PICK M \in Lifecycles : M = L + 1
      BY <3>0
    <3>2. pump'[L] = "ended" /\ \A l \in Lifecycles : l # L => pump'[l] = pump[l]
      BY <2>6, LifeTypes
    <3>3. /\ attPc'[M] = "backoff"
          /\ \A l \in Lifecycles : l # M => attPc'[l] = attPc[l]
      BY <2>6, <3>1, LifeTypes DEF StartAttempt
    <3>4. \A l \in Lifecycles : ~HoldsGate(l)'
      BY <2>3, <3>2, <3>3 DEF HoldsGate
    <3>5. ASSUME NEW l \in Lifecycles PROVE LifecycleState(l)'
      <4>1. LifecycleState(l)
        BY DEF LifeInv, LifecycleGate
      <4>2. attPc'[l] \notin {"dialing", "cleanup"} /\ pump'[l] # "cleanup"
        BY <3>4 DEF HoldsGate
      <4>3. l > lifecycle' => l # M /\ l # L /\ l > lifecycle
        BY <2>1, <2>2, <3>1
      <4>4. l > lifecycle' => attPc'[l] = "none" /\ pump'[l] = "none"
        BY <2>2, <2>4, <3>2, <3>3, <4>3
      <4>5. lifecycle' = l => attPc'[l] = "backoff"
        BY <2>1, <3>1, <3>3
      <4> QED BY <2>6, <4>2, <4>4, <4>5 DEF LifecycleState
    <3>6. LifecycleGate'
      BY <3>4, <3>5 DEF LifecycleGate, HoldsGate
    <3>7. ConnectionOwned'
      BY <2>1, <2>6 DEF LifeInv, ConnectionOwned, DropConn
    <3> QED BY <3>6, <3>7
  <2> QED BY <1>1, <1>3, <2>5, <2>6 DEF PumpFail, Reconnect, StartConnectAttempt
<1> QED BY <1>2, <1>3

LEMMA PumpCleanupLife ==
  ASSUME LifeInv, NEW L \in Lifecycles, PumpCleanup(L)
  PROVE  LifecycleGate' /\ ConnectionOwned'
<1>1. /\ pump[L] = "cleanup" /\ UNCHANGED <<state, lifecycle, conn, sockets>>
      /\ pump' = [pump EXCEPT ![L] = "ended"]
      /\ IF AutoReconnect THEN StartAttempt(L + 1, "backoff", None, 1) ELSE UNCHANGED attVars
  BY DEF PumpCleanup, Reconnect
<1>2. /\ lifecycle = L + 1 /\ lifecycle \in Nat
      /\ state \in {IF AutoReconnect THEN "reconnecting" ELSE "disconnected", "closed"}
      /\ attPc[L] \notin {"dialing", "cleanup"}
  BY <1>1, LifeTypes DEF LifeInv, LifecycleGate, LifecycleState
<1>3. \A l \in Lifecycles : l # L => ~HoldsGate(l)
  BY <1>1, Holders DEF HoldsGate
<1>4. pump'[L] = "ended" /\ \A l \in Lifecycles : l # L => pump'[l] = pump[l]
  BY <1>1, LifeTypes
<1>5. \A l \in Lifecycles : IF l = L + 1 /\ AutoReconnect THEN attPc'[l] = "backoff" ELSE attPc'[l] = attPc[l]
  BY <1>1, LifeTypes DEF StartAttempt, attVars
<1>6. \A l \in Lifecycles : ~HoldsGate(l)'
  BY <1>2, <1>3, <1>4, <1>5 DEF HoldsGate
<1>7. ASSUME NEW l \in Lifecycles PROVE LifecycleState(l)'
  <2>1. LifecycleState(l)
    BY DEF LifeInv, LifecycleGate
  <2>2. attPc'[l] \notin {"dialing", "cleanup"} /\ pump'[l] # "cleanup"
    BY <1>6 DEF HoldsGate
  <2>3. l > lifecycle' => attPc'[l] = "none" /\ pump'[l] = "none"
    BY <1>1, <1>2, <1>4, <1>5, <2>1 DEF LifecycleState
  <2>4. CASE l = L + 1 /\ AutoReconnect
    BY <1>1, <1>2, <1>5, <2>2, <2>3, <2>4 DEF LifecycleState
  <2>5. CASE ~(l = L + 1 /\ AutoReconnect)
    BY <1>1, <1>2, <1>5, <2>1, <2>2, <2>3, <2>5 DEF LifecycleState
  <2> QED BY <2>4, <2>5
<1>8. LifecycleGate'
  BY <1>6, <1>7 DEF LifecycleGate, HoldsGate
<1>9. state # "connected"
  BY <1>2
<1>10. ConnectionOwned'
  BY <1>1, <1>9, NotConnected DEF ConnectionOwned
<1> QED BY <1>8, <1>10

\* Steps that touch neither the connection nor attempts and pumps.
LEMMA OtherLife ==
  ASSUME LifeInv,
         \/ \E c \in Calls : \/ Start(c) \/ ConnectCheck(c) \/ ConnectWake(c) \/ WireAcquire(c)
                              \/ SubscribeTable(c) \/ UnsubscribeTable(c) \/ SendUnsubscribe(c) \/ RequestReturned(c)
                              \/ Rollback(c) \/ GiveUpWaiting(c)
         \/ \E r \in Reqs : RequestStep(r) \/ Abandon(r)
         \/ CloseTables
         \/ UNCHANGED vars
  PROVE  LifecycleGate' /\ ConnectionOwned'
<1>1. UNCHANGED lifeVars
  <2>1. ASSUME NEW c \in Calls, Start(c) \/ ConnectCheck(c) \/ ConnectWake(c) \/ WireAcquire(c)
        PROVE  UNCHANGED lifeVars
    BY <2>1 DEF lifeVars, connVars, attVars, Start, ConnectCheck, ConnectWake, WireAcquire
  <2>2. ASSUME NEW c \in Calls, \/ SubscribeTable(c) \/ UnsubscribeTable(c) \/ SendUnsubscribe(c) \/ RequestReturned(c)
                                 \/ Rollback(c) \/ GiveUpWaiting(c)
        PROVE  UNCHANGED lifeVars
    BY <2>2 DEF lifeVars, connVars, attVars, SubscribeTable, UnsubscribeTable, SendUnsubscribe, RequestReturned,
                Rollback, GiveUpWaiting
  <2>3. ASSUME NEW r \in Reqs, RequestStep(r) \/ Abandon(r)
        PROVE  UNCHANGED lifeVars
    BY <2>3 DEF lifeVars, connVars, attVars, RequestStep, Register, Write, Answered, Abandon
  <2>4. CloseTables \/ UNCHANGED vars => UNCHANGED lifeVars
    BY DEF lifeVars, connVars, attVars, vars, CloseTables
  <2> QED BY <2>1, <2>2, <2>3, <2>4
<1> QED BY <1>1, LifeUnch

\* The gate keeps lifecycles apart (LifecycleGate), and therefore a socket is
\* open only as the connection of a connected client of the current lifecycle
\* (ConnectionOwned): connectNew, reconnectLoop, readPump, the replay and
\* Close never install over or leak each other's connection.
THEOREM LifecycleCorrect == Spec => [](LifecycleGate /\ ConnectionOwned)
<1>1. LifeInv /\ TypeOK' /\ [Next]_vars => LifeInv'
  <2> SUFFICES ASSUME LifeInv, [Next]_vars PROVE LifecycleGate' /\ ConnectionOwned'
    BY DEF LifeInv
  <2> QED
    BY OtherLife, ConnectNewLife, InstallLife, DialFailsLife, BackoffLife, GiveUpLife, ReplayLife,
       ReplayFailedLife, CleanupLife, PumpLife, LivenessLife, PumpFailLife, PumpCleanupLife,
       RespondLife, CloseLife
       DEF Next, CallStep, AttemptStep, PumpStep
<1>2. Init => LifeInv
  BY InitLife, InitType DEF LifeInv
<1> QED BY <1>1, <1>2, TypeCorrect, PTL DEF Spec, LifeInv

-----------------------------------------------------------------------------
(***************************************************************************)
(* Control: how a call, its request and an attempt move together.          *)
(***************************************************************************)
HIDE DEF States
USE DEF Reqs, Goto

SubKinds == {"subscribe", "unsubscribe", "leave"}

CallControl(c) ==
  /\ rq[c] # "idle" <=> pc[c] = "request"
  /\ pc[c] # "idle" => op[c].kind # "none"
  /\ pc[c] \in {"wire", "table"} => op[c].kind # "request"
  /\ pc[c] = "rollback" => op[c].kind = "subscribe"
  /\ pc[c] = "unsubscribed" => op[c].kind \in {"unsubscribe", "leave"}
  /\ op[c].kind \in SubKinds => op[c].feed \in Feeds
  /\ op[c].kind = "request" => op[c].feed = None

ReqControl(r) ==
  rq[r] \in {"idle", "send", "ok", "err"} => pending[r] = 0 /\ admitted[r] = 0 /\ reply[r] = "none"

AttControl(l) ==
  /\ rq[l] # "idle" <=> attPc[l] = "request"
  /\ IF attPc[l] = "request" THEN feed[l] \in Feeds ELSE feed[l] = None
  /\ ByCall(l) => pc[owner[l]] = "attempt"

OwnersDiffer == \A l, m \in Lifecycles : ByCall(l) /\ owner[l] = owner[m] => l = m

CloseControl == closing # "no" => Closed

ControlInv ==
  /\ \A c \in Calls : CallControl(c)
  /\ \A r \in Reqs : ReqControl(r)
  /\ \A l \in Lifecycles : AttControl(l)
  /\ OwnersDiffer
  /\ CloseControl

LEMMA InitControl == Init => ControlInv
  BY WsClientAssumption DEF Init, ControlInv, CallControl, ReqControl, AttControl, OwnersDiffer, CloseControl, ByCall, SubKinds

\* Types of the variables that control is about.
LEMMA ControlTypes ==
  ASSUME TypeOK
  PROVE  /\ DOMAIN pc = Calls /\ DOMAIN op = Calls
         /\ DOMAIN rq = Reqs /\ DOMAIN pending = Reqs /\ DOMAIN admitted = Reqs /\ DOMAIN reply = Reqs
         /\ DOMAIN attPc = Lifecycles /\ DOMAIN feed = Lifecycles /\ DOMAIN owner = Lifecycles
         /\ \A l \in Lifecycles : ByCall(l) => owner[l] \in Calls
         /\ \A c \in Calls : c \notin Lifecycles
         /\ lifecycle \in Nat
  BY WsClientAssumption DEF TypeOK, CallType, ReqType, AttType, ConnType, ByCall


\* What a step of a call, or of a request, leaves of it.
LEMMA ControlUnch ==
  ASSUME TypeOK, ControlInv
  PROVE  /\ /\ UNCHANGED <<attPc, feed, owner>>
            /\ \A l \in Lifecycles : rq'[l] = rq[l]
            /\ \A d \in Calls : pc[d] = "attempt" => pc'[d] = "attempt"
            => (\A l \in Lifecycles : AttControl(l)') /\ OwnersDiffer'
         /\ UNCHANGED <<state, closing>> => CloseControl'
         /\ UNCHANGED <<rq, pending, admitted, reply>> => \A r \in Reqs : ReqControl(r)'
         /\ UNCHANGED <<pc, op>> /\ (\A c \in Calls : rq'[c] = rq[c]) => \A c \in Calls : CallControl(c)'
<1> USE ControlTypes DEF ControlInv
<1>1. ASSUME UNCHANGED <<attPc, feed, owner>>,
             \A l \in Lifecycles : rq'[l] = rq[l],
             \A d \in Calls : pc[d] = "attempt" => pc'[d] = "attempt"
      PROVE  (\A l \in Lifecycles : AttControl(l)') /\ OwnersDiffer'
  BY <1>1 DEF AttControl, OwnersDiffer, ByCall
<1>2. UNCHANGED <<state, closing>> => CloseControl'
  BY DEF CloseControl
<1>3. UNCHANGED <<rq, pending, admitted, reply>> => \A r \in Reqs : ReqControl(r)'
  BY DEF ReqControl
<1>4. UNCHANGED <<pc, op>> /\ (\A c \in Calls : rq'[c] = rq[c]) => \A c \in Calls : CallControl(c)'
  BY DEF CallControl
<1> QED BY <1>1, <1>2, <1>3, <1>4

\* A call moves: it is not in an attempt, and its request only begins or ends.
LEMMA CallControlStep ==
  ASSUME TypeOK, ControlInv, NEW c \in Calls,
         Start(c) \/ ConnectCheck(c) \/ ConnectWake(c) \/ GiveUpWaiting(c) \/ WireAcquire(c)
         \/ SubscribeTable(c) \/ UnsubscribeTable(c) \/ SendUnsubscribe(c) \/ RequestReturned(c) \/ Rollback(c)
  PROVE  ControlInv'
<1>1. /\ pc[c] # "attempt" /\ UNCHANGED <<attPc, feed, owner, state, closing, pending, admitted, reply>>
      /\ \A d \in Calls : d # c => pc'[d] = pc[d] /\ op'[d] = op[d]
      /\ \A r \in Reqs : r # c => rq'[r] = rq[r]
  <2> USE ControlTypes
  <2>1. CASE Start(c) \/ GiveUpWaiting(c) \/ WireAcquire(c) \/ Rollback(c)
    BY <2>1 DEF Start, GiveUpWaiting, Blocked, WireAcquire, Rollback, connVars, attVars, reqVars
  <2>2. CASE ConnectCheck(c) \/ ConnectWake(c)
    BY <2>2 DEF ConnectCheck, ConnectWake, PastConnect, connVars, attVars
  <2>3. CASE SubscribeTable(c) \/ UnsubscribeTable(c) \/ SendUnsubscribe(c) \/ RequestReturned(c)
    BY <2>3 DEF SubscribeTable, UnsubscribeTable, Unsubscribe, SendUnsubscribe, RequestReturned, connVars, attVars, reqVars
  <2> QED BY <2>1, <2>2, <2>3
<1>2. /\ CallControl(c)'
      /\ \/ rq[c] \in {"idle", "ok", "err"} /\ rq'[c] \in {"idle", "send"}
         \/ rq'[c] = rq[c]
  <2> USE ControlTypes, WsClientAssumption DEF ControlInv, CallControl, SubKinds
  <2>1. CASE Start(c)
    BY <2>1 DEF Start, reqVars
  <2>2. CASE ConnectCheck(c) \/ ConnectWake(c)
    BY <2>2 DEF ConnectCheck, ConnectWake, PastConnect
  <2>3. CASE GiveUpWaiting(c) \/ WireAcquire(c)
    BY <2>3 DEF GiveUpWaiting, WireAcquire, Blocked, reqVars
  <2>4. CASE SubscribeTable(c)
    BY <2>4 DEF SubscribeTable
  <2>5. CASE UnsubscribeTable(c)
    <3>1. /\ op' = op /\ rq' = rq /\ op[c].kind \in {"unsubscribe", "leave"}
          /\ \E w \in {"unsubscribed", "ok", "err"} : pc' = [pc EXCEPT ![c] = w]
      BY <2>5 DEF UnsubscribeTable, Unsubscribe, reqVars
    <3> QED BY <2>5, <3>1 DEF UnsubscribeTable
  <2>7. CASE SendUnsubscribe(c)
    BY <2>7 DEF SendUnsubscribe
  <2>6. CASE RequestReturned(c) \/ Rollback(c)
    BY <2>6 DEF RequestReturned, Rollback, reqVars
  <2> QED BY <2>1, <2>2, <2>3, <2>4, <2>5, <2>6, <2>7
<1>3. \A d \in Calls : CallControl(d)'
  BY <1>1, <1>2 DEF ControlInv, CallControl
<1>4. \A r \in Reqs : ReqControl(r)'
  BY <1>1, <1>2 DEF ControlInv, ReqControl
<1>5. /\ \A l \in Lifecycles : rq'[l] = rq[l]
      /\ \A d \in Calls : pc[d] = "attempt" => pc'[d] = "attempt"
  BY <1>1, ControlTypes
<1> QED BY <1>1, <1>3, <1>4, <1>5, ControlUnch DEF ControlInv

\* The request of a call or a replay goes on.
LEMMA RequestControlStep ==
  ASSUME TypeOK, ControlInv, NEW r \in Reqs, RequestStep(r) \/ Abandon(r)
  PROVE  ControlInv'
<1>1. /\ UNCHANGED <<attPc, feed, owner, state, closing, pc, op>>
      /\ \A q \in Reqs : q # r => rq'[q] = rq[q] /\ pending'[q] = pending[q]
                                /\ admitted'[q] = admitted[q] /\ reply'[q] = reply[q]
      /\ rq[r] # "idle" /\ rq'[r] # "idle" /\ ReqControl(r)'
  <2> USE ControlTypes DEF ReqControl, ControlInv
  <2>1. CASE Register(r)
    BY <2>1 DEF Register, EndRequest, connVars, attVars, callVars
  <2>2. CASE Write(r)
    BY <2>2 DEF Write, EndRequest, connVars, attVars, callVars
  <2>3. CASE Answered(r) \/ Abandon(r)
    BY <2>3 DEF Answered, Abandon, EndRequest, connVars, attVars, callVars, TypeOK, ReqType
  <2> QED BY <2>1, <2>2, <2>3 DEF RequestStep
<1>2. \A c \in Calls : CallControl(c)'
  BY <1>1 DEF ControlInv, CallControl
<1>3. \A q \in Reqs : ReqControl(q)'
  BY <1>1 DEF ControlInv, ReqControl
<1>4. \A l \in Lifecycles : AttControl(l)'
  BY <1>1 DEF ControlInv, AttControl, ByCall
<1>5. OwnersDiffer' /\ CloseControl'
  BY <1>1 DEF ControlInv, OwnersDiffer, CloseControl, ByCall
<1> QED BY <1>2, <1>3, <1>4, <1>5 DEF ControlInv

\* An attempt moves on without a request of its own, and lets its caller go
\* when it ends.
LEMMA AttemptControlMoves ==
  ASSUME TypeOK, ControlInv, NEW L \in Lifecycles,
         attPc[L] # "request", attPc'[L] # "request", feed'[L] = feed[L] \/ feed'[L] = None,
         DOMAIN attPc' = Lifecycles, DOMAIN feed' = Lifecycles, DOMAIN owner' = Lifecycles,
         \A l \in Lifecycles : l # L => attPc'[l] = attPc[l] /\ feed'[l] = feed[l] /\ owner'[l] = owner[l],
         UNCHANGED <<op, pending, admitted, reply, closing>>, Closed => state' = state,
         \/ UNCHANGED <<pc, rq>> /\ owner'[L] \in {owner[L], None}
         \/ /\ ByCall(L) /\ owner'[L] = None
            /\ \/ \E w \in {"err", "connect"} : pc' = [pc EXCEPT ![owner[L]] = w] /\ UNCHANGED rq
               \/ PastConnect(owner[L])
  PROVE  ControlInv'
<1> USE ControlTypes, WsClientAssumption
<1>1. CloseControl'
  BY DEF ControlInv, CloseControl
<1>2. CASE UNCHANGED <<pc, rq>> /\ owner'[L] \in {owner[L], None}
  <2>1. (\A c \in Calls : CallControl(c)') /\ (\A r \in Reqs : ReqControl(r)')
    BY <1>2 DEF ControlInv, CallControl, ReqControl
  <2>2. \A l \in Lifecycles : AttControl(l)'
    BY <1>2 DEF ControlInv, AttControl, ByCall
  <2>3. OwnersDiffer'
    BY <1>2 DEF ControlInv, OwnersDiffer, ByCall
  <2> QED BY <1>1, <2>1, <2>2, <2>3 DEF ControlInv
<1>3. CASE /\ ByCall(L) /\ owner'[L] = None
           /\ \/ \E w \in {"err", "connect"} : pc' = [pc EXCEPT ![owner[L]] = w] /\ UNCHANGED rq
              \/ PastConnect(owner[L])
  <2>1. PICK c \in Calls : c = owner[L] /\ pc[c] = "attempt" /\ rq[c] = "idle"
    BY <1>3 DEF ControlInv, AttControl, CallControl
  <2>2. /\ \A d \in Calls : d # c => pc'[d] = pc[d]
        /\ \A r \in Reqs : r # c => rq'[r] = rq[r]
    BY <1>3, <2>1 DEF PastConnect
  <2>3. CallControl(c)' /\ rq'[c] \in {"idle", "send"}
    BY <1>3, <2>1 DEF PastConnect, ControlInv, CallControl, SubKinds
  <2>4. \A d \in Calls : CallControl(d)'
    BY <2>2, <2>3 DEF ControlInv, CallControl
  <2>7. \A r \in Reqs : ReqControl(r)'
    BY <2>1, <2>2, <2>3 DEF ControlInv, ReqControl
  <2>5. ASSUME NEW l \in Lifecycles PROVE AttControl(l)'
    <3>0. l # c /\ l \in Reqs
      OBVIOUS
    <3>1. AttControl(l) /\ rq'[l] = rq[l]
      BY <2>2, <3>0 DEF ControlInv
    <3>2. CASE l = L
      BY <1>3, <3>1, <3>2 DEF AttControl, ByCall
    <3>3. CASE l # L
      <4>1. ByCall(l) => owner[l] \in Calls /\ owner[l] # c
        BY <1>3, <2>1, <3>3 DEF ControlInv, OwnersDiffer
      <4> QED BY <2>2, <3>1, <3>3, <4>1 DEF AttControl, ByCall
    <3> QED BY <3>2, <3>3
  <2>6. OwnersDiffer'
    BY <1>3 DEF ControlInv, OwnersDiffer, ByCall
  <2> QED BY <1>1, <2>4, <2>5, <2>6, <2>7 DEF ControlInv
<1> QED BY <1>2, <1>3

LEMMA AttemptControlStep ==
  ASSUME TypeOK, ControlInv, NEW L \in Lifecycles, AttemptStep(L)
  PROVE  ControlInv'
<1> USE ControlTypes
<1> DEFINE Calm == UNCHANGED <<op, pending, admitted, reply, closing>> /\ (Closed => state' = state)
           Alone == /\ attPc[L] # "request" /\ attPc'[L] # "request" /\ (feed'[L] = feed[L] \/ feed'[L] = None)
                    /\ DOMAIN attPc' = Lifecycles /\ DOMAIN feed' = Lifecycles /\ DOMAIN owner' = Lifecycles
                    /\ \A l \in Lifecycles : l # L => attPc'[l] = attPc[l] /\ feed'[l] = feed[l] /\ owner'[l] = owner[l]
           Frees == \/ UNCHANGED <<pc, rq>> /\ owner'[L] \in {owner[L], None}
                    \/ /\ ByCall(L) /\ owner'[L] = None
                       /\ \/ \E w \in {"err", "connect"} : pc' = [pc EXCEPT ![owner[L]] = w] /\ UNCHANGED rq
                          \/ PastConnect(owner[L])
<1>1. CASE Install(L) \/ ConnectDialFails(L) \/ ReconnectDialFails(L)
  <2>1. Calm
    BY <1>1 DEF Install, ConnectDialFails, ReconnectDialFails, reqVars, callVars, Superseded
  <2>2. Alone
    BY <1>1 DEF Install, ConnectDialFails, ReconnectDialFails, AttEnd, AttGoto, AttStep
  <2>3. Frees
    BY <1>1 DEF Install, ConnectDialFails, ReconnectDialFails, AttEnd, AttGoto, AttStep, OwnerFails, reqVars, callVars
  <2> QED BY <2>1, <2>2, <2>3, AttemptControlMoves
<1>2. CASE BackoffElapsed(L) \/ BackoffClosed(L) \/ GiveUp(L) \/ GiveUpCleanup(L) \/ Snapshot(L)
  <2>1. Calm
    BY <1>2 DEF BackoffElapsed, BackoffClosed, GiveUp, GiveUpCleanup, Snapshot, reqVars, callVars, connVars
  <2>2. Alone
    BY <1>2 DEF BackoffElapsed, BackoffClosed, GiveUp, GiveUpCleanup, Snapshot, AttEnd, AttGoto, AttStep
  <2>3. Frees
    BY <1>2 DEF BackoffElapsed, BackoffClosed, GiveUp, GiveUpCleanup, Snapshot, AttEnd, AttGoto, AttStep, reqVars, callVars
  <2> QED BY <2>1, <2>2, <2>3, AttemptControlMoves
<1>3. CASE ReplayDone(L) \/ ReplayFailed(L) \/ ReplayCleanup(L)
  <2>1. Calm
    BY <1>3 DEF ReplayDone, ReplayFailed, ReplayCleanup, reqVars, callVars, connVars
  <2>2. Alone
    BY <1>3 DEF ReplayDone, ReplayFailed, ReplayCleanup, AttEnd, AttGoto, AttStep
  <2>3. Frees
    BY <1>3 DEF ReplayDone, ReplayFailed, ReplayCleanup, AttEnd, AttGoto, AttStep, OwnerFails, reqVars, callVars
  <2> QED BY <2>1, <2>2, <2>3, AttemptControlMoves
<1>4. CASE ReplayNext(L) /\ UNCHANGED rq
  <2>1. Calm
    BY <1>4 DEF ReplayNext, callVars, connVars
  <2>2. Alone /\ Frees
    <3>1. UNCHANGED <<pc, owner>> /\ attPc[L] = "replay"
      BY <1>4 DEF ReplayNext, callVars, AttGoto, AttStep
    <3>2. attPc' = attPc \/ \E w \in {"failed", "replayed"} : attPc' = [attPc EXCEPT ![L] = w]
      BY <1>4, <3>1 DEF ReplayNext, AttGoto, AttStep, ControlInv, AttControl
    <3>3. feed' = feed
      BY <1>4, <3>1 DEF ReplayNext, AttGoto, AttStep, ControlInv, AttControl
    <3> QED BY <1>4, <3>1, <3>2, <3>3
  <2> QED BY <2>1, <2>2, AttemptControlMoves
<1>5. CASE ReplayNext(L) /\ rq' # rq
  <2>1. /\ attPc[L] = "replay" /\ attPc' = [attPc EXCEPT ![L] = "request"] /\ rq' = [rq EXCEPT ![L] = "send"]
        /\ \E e \in todo[L] : feed' = [feed EXCEPT ![L] = e[1]]
        /\ UNCHANGED <<owner, pc, op, pending, admitted, reply, state, closing>>
    BY <1>5 DEF ReplayNext, AttStep, AttGoto, callVars, connVars
  <2>2. feed'[L] \in Feeds
    BY <2>1 DEF TypeOK, AttType
  <2>3. \A l \in Lifecycles : AttControl(l)'
    BY <2>1, <2>2 DEF ControlInv, AttControl, ByCall
  <2>4. rq[L] = "idle"
    BY <2>1 DEF ControlInv, AttControl
  <2>5. \A r \in Reqs : ReqControl(r)'
    BY <2>1, <2>4 DEF ControlInv, ReqControl
  <2>6. \A c \in Calls : CallControl(c)'
    BY <2>1 DEF ControlInv, CallControl
  <2> QED BY <2>1, <2>3, <2>5, <2>6 DEF ControlInv, OwnersDiffer, CloseControl, ByCall
<1>6. CASE ReplayReturned(L)
  <2>1. /\ attPc[L] = "request" /\ attPc' = [attPc EXCEPT ![L] = "replay"] /\ rq' = [rq EXCEPT ![L] = "idle"]
        /\ rq[L] \in {"ok", "err"} /\ feed' = [feed EXCEPT ![L] = None]
        /\ UNCHANGED <<owner, pc, op, pending, admitted, reply, state, closing>>
    BY <1>6 DEF ReplayReturned, AttStep, callVars, connVars
  <2>3. \A l \in Lifecycles : AttControl(l)'
    BY <2>1 DEF ControlInv, AttControl, ByCall
  <2>5. \A r \in Reqs : ReqControl(r)'
    BY <2>1 DEF ControlInv, ReqControl
  <2>6. \A c \in Calls : CallControl(c)'
    BY <2>1 DEF ControlInv, CallControl
  <2> QED BY <2>1, <2>3, <2>5, <2>6 DEF ControlInv, OwnersDiffer, CloseControl, ByCall
<1> QED BY <1>1, <1>2, <1>3, <1>4, <1>5, <1>6 DEF AttemptStep

\* An attempt begins where there was none.
LEMMA AttemptBegins ==
  ASSUME TypeOK, ControlInv, NEW L \in Lifecycles, attPc[L] = "none",
         NEW w \in {"dialing", "backoff"}, NEW d \in Calls \cup {None}, NEW n, StartAttempt(L, w, d, n),
         d = None => pc' = pc,
         d # None => pc[d] # "attempt" /\ pc' = [pc EXCEPT ![d] = "attempt"],
         \A l \in Lifecycles : rq'[l] = rq[l]
  PROVE  (\A l \in Lifecycles : AttControl(l)') /\ OwnersDiffer'
<1> USE ControlTypes, WsClientAssumption
<1>1. /\ attPc'[L] = w /\ owner'[L] = d /\ feed' = feed
      /\ \A l \in Lifecycles : l # L => attPc'[l] = attPc[l] /\ owner'[l] = owner[l]
  BY DEF StartAttempt
<1>2. \A l \in Lifecycles : ByCall(l) => owner[l] # d
  BY DEF ControlInv, AttControl, ByCall
<1>3. ASSUME NEW l \in Lifecycles PROVE AttControl(l)'
  <2>1. CASE l = L
    BY <1>1, <2>1 DEF ControlInv, AttControl, ByCall
  <2>2. CASE l # L
    BY <1>1, <1>2, <2>2 DEF ControlInv, AttControl, ByCall
  <2> QED BY <2>1, <2>2
<1>4. OwnersDiffer'
  BY <1>1, <1>2 DEF ControlInv, OwnersDiffer, ByCall
<1> QED BY <1>3, <1>4

LEMMA ConnectNewControl ==
  ASSUME LifeInv, ControlInv, NEW c \in Calls, ConnectNew(c)
  PROVE  ControlInv'
<1>0. TypeOK
  BY DEF LifeInv
<1> USE ControlTypes, <1>0, WsClientAssumption
<1>1. pc[c] = "connectNew" /\ rq[c] = "idle"
  BY DEF ConnectNew, ControlInv, CallControl
<1>2. /\ UNCHANGED <<op, pending, admitted, reply, closing>> /\ (Closed => state' = state)
      /\ \A r \in Reqs : r # c => rq'[r] = rq[r]
      /\ rq'[c] \in {"idle", "send"}
      /\ \E w \in {"err", "wire", "request", "connect", "attempt"} : pc' = [pc EXCEPT ![c] = w]
  BY <1>1 DEF ConnectNew, PastConnect, connVars
<1>3. CallControl(c)'
  BY <1>1 DEF ConnectNew, PastConnect, ControlInv, CallControl, SubKinds
<1>4. (\A d \in Calls : CallControl(d)')
  BY <1>2, <1>3 DEF ControlInv, CallControl
<1>5. \A r \in Reqs : ReqControl(r)'
  BY <1>1, <1>2 DEF ControlInv, ReqControl
<1>6. CloseControl'
  BY <1>2 DEF ControlInv, CloseControl
<1>7. (\A l \in Lifecycles : AttControl(l)') /\ OwnersDiffer'
  <2>1. CASE UNCHANGED attVars
    BY <1>1, <1>2, <2>1, ControlUnch DEF attVars
  <2>2. CASE StartConnectAttempt /\ StartAttempt(lifecycle + 1, "dialing", c, 0) /\ pc' = [pc EXCEPT ![c] = "attempt"]
    <3>1. PICK L \in Nat : L = lifecycle + 1
      OBVIOUS
    <3>2. L \in Lifecycles /\ L > lifecycle
      BY <2>2, <3>1 DEF StartConnectAttempt
    <3>3. attPc[L] = "none"
      BY <3>2 DEF LifeInv, LifecycleGate, LifecycleState
    <3>4. \A l \in Lifecycles : rq'[l] = rq[l]
      BY <1>2
    <3> QED BY <1>1, <2>2, <3>1, <3>2, <3>3, <3>4, AttemptBegins
  <2> QED BY <2>1, <2>2 DEF ConnectNew
<1> QED BY <1>4, <1>5, <1>6, <1>7 DEF ControlInv

LEMMA OtherControl ==
  ASSUME LifeInv, ControlInv,
         \/ \E L \in Lifecycles : PumpStep(L) \/ PumpExit(L) \/ LivenessFails(L)
         \/ Respond \/ Close \/ CloseTables \/ UNCHANGED vars
  PROVE  ControlInv'
<1>0. TypeOK
  BY DEF LifeInv
<1> USE ControlTypes, <1>0
<1>1. UNCHANGED <<pc, op, rq, admitted>>
  BY DEF PumpStep, PumpExit, PumpError, PumpFail, PumpCleanup, LivenessFails, Respond, Close, CloseTables,
         FailPending, callVars, reqVars, vars
<1>2. \A r \in Reqs : ReqControl(r)'
  <2>1. CASE UNCHANGED <<pending, reply>>
    BY <1>1, <2>1 DEF ControlInv, ReqControl
  <2>2. CASE FailPending
    BY <2>2 DEF FailPending, ControlInv, ReqControl
  <2>3. CASE Respond
    <3>1. PICK m : m = Head(wire)
      OBVIOUS
    <3>2. \/ UNCHANGED <<pending, reply>>
          \/ /\ pending[m.req] # 0 /\ pending' = [pending EXCEPT ![m.req] = 0]
             /\ \E a \in {"ok", "err"} : reply' = [reply EXCEPT ![m.req] = a]
      BY <2>3, <3>1 DEF Respond, Correlated
    <3> QED BY <1>1, <3>2 DEF ControlInv, ReqControl
  <2> QED BY <2>1, <2>2, <2>3
        DEF PumpStep, PumpExit, PumpError, PumpFail, PumpCleanup, LivenessFails, Close, CloseTables, reqVars, vars
<1>3. CloseControl'
  <2>1. CASE closing' = closing /\ (Closed => state' = state)
    BY <2>1 DEF ControlInv, CloseControl
  <2>2. CASE Close
    BY <2>2 DEF Close, CloseControl
  <2>3. CASE CloseTables
    BY <2>3 DEF CloseTables, CloseControl, ControlInv, connVars
  <2> QED BY <2>1, <2>2, <2>3
        DEF PumpStep, PumpExit, PumpError, PumpFail, PumpCleanup, LivenessFails, Respond, connVars, vars, PumpStale
<1>4. (\A l \in Lifecycles : AttControl(l)') /\ OwnersDiffer'
  <2>1. CASE UNCHANGED attVars
    BY <1>1, <2>1, ControlUnch DEF attVars
  <2>2. ASSUME NEW L \in Lifecycles, (PumpFail(L) /\ ~PumpStale(L)) \/ PumpCleanup(L),
               StartAttempt(L + 1, "backoff", None, 1)
        PROVE  (\A l \in Lifecycles : AttControl(l)') /\ OwnersDiffer'
    <3>1. CASE L + 1 \in Lifecycles
      <4>1. attPc[L + 1] = "none"
        <5>1. CASE PumpFail(L) /\ ~PumpStale(L)
          BY <3>1, <5>1 DEF PumpStale, LifeInv, LifecycleGate, LifecycleState
        <5>2. CASE PumpCleanup(L)
          BY <3>1, <5>2 DEF PumpCleanup, LifeInv, LifecycleGate, LifecycleState
        <5> QED BY <2>2, <5>1, <5>2
      <4>2. PICK M \in Lifecycles : M = L + 1
        BY <3>1
      <4>3. StartAttempt(M, "backoff", None, 1) /\ attPc[M] = "none" /\ pc' = pc
            /\ \A l \in Lifecycles : rq'[l] = rq[l]
        BY <1>1, <2>2, <4>1, <4>2
      <4> QED BY <4>3, AttemptBegins
    <3>2. CASE L + 1 \notin Lifecycles
      <4>1. attPc' = attPc /\ owner' = owner /\ feed' = feed
        BY <2>2, <3>2 DEF StartAttempt, TypeOK, AttType
      <4> QED BY <1>1, <4>1, ControlUnch
    <3> QED BY <3>1, <3>2
  <2> QED BY <2>1, <2>2
        DEF PumpStep, PumpExit, PumpError, PumpFail, PumpCleanup, Reconnect, LivenessFails, Respond, Close, CloseTables, vars
<1> QED BY <1>1, <1>2, <1>3, <1>4, ControlUnch DEF ControlInv

LEMMA ControlStep ==
  ASSUME LifeInv, ControlInv, [Next]_vars
  PROVE  ControlInv'
<1>0. TypeOK
  BY DEF LifeInv
<1> QED
  BY <1>0, CallControlStep, ConnectNewControl, RequestControlStep, AttemptControlStep, OtherControl
     DEF Next, CallStep

-----------------------------------------------------------------------------
(***************************************************************************)
(* The subscription tables.                                                *)
(***************************************************************************)

TableInv ==
  \A f \in Feeds : \A c \in table[f] :
    op[c].feed = f /\ op[c].kind = "subscribe" /\ pc[c] \in {"request", "rollback", "ok"}

SubsInv == LifeInv /\ ControlInv /\ TableInv /\ ActiveMatchesTable

LEMMA InitSubs == Init => TableInv /\ ActiveMatchesTable
  BY DEF Init, TableInv, ActiveMatchesTable

LEMMA SubsTypes ==
  ASSUME TypeOK
  PROVE  /\ activeFeeds \in [Feeds -> Calls \cup {None}] /\ table \in [Feeds -> SUBSET Calls]
         /\ DOMAIN chan = Calls
  BY DEF TypeOK, SubsType

\* failSubscriptionsIfCurrentLocked and Close empty the tables altogether.
SubsCleared ==
  /\ activeFeeds' = [f \in Feeds |-> None]
  /\ table' = [f \in Feeds |-> {}]

\* The calls a step moves were in no table.
LEMMA TableKept ==
  ASSUME TypeOK, ControlInv, TableInv, UNCHANGED <<activeFeeds, table>> \/ SubsCleared,
         \A c \in Calls : \/ pc'[c] = pc[c] /\ op'[c] = op[c]
                          \/ pc[c] \notin {"request", "rollback", "ok"}
                          \/ op'[c] = op[c] /\ pc'[c] \in {"request", "rollback", "ok"}
  PROVE  TableInv'
  BY SubsTypes DEF TableInv, SubsCleared

LEMMA ActiveKept ==
  ASSUME ActiveMatchesTable, UNCHANGED <<activeFeeds, table>> \/ SubsCleared
  PROVE  ActiveMatchesTable'
  BY DEF ActiveMatchesTable, SubsCleared

LEMMA SubscribeSubs ==
  ASSUME SubsInv, NEW c \in Calls, SubscribeTable(c)
  PROVE  TableInv' /\ ActiveMatchesTable'
<1> USE SubsTypes, ControlTypes, WsClientAssumption
<1>0. TypeOK
  BY DEF SubsInv, LifeInv
<1> USE <1>0
<1>1. PICK f \in Feeds : f = op[c].feed
  BY DEF SubsInv, ControlInv, CallControl, SubKinds, SubscribeTable
<1>2. pc[c] = "table" /\ op[c].kind = "subscribe" /\ op' = op
  BY DEF SubscribeTable
<1>3. CASE VariantMismatch(f)
  <2>1. UNCHANGED <<activeFeeds, table>> /\ pc' = [pc EXCEPT ![c] = "err"]
    BY <1>1, <1>3 DEF SubscribeTable, subVars
  <2> QED BY <1>2, <2>1, ActiveKept, TableKept DEF SubsInv
<1>4. CASE ~VariantMismatch(f)
  <2>1. /\ table' = [table EXCEPT ![f] = @ \cup {c}]
        /\ \/ activeFeeds' = [activeFeeds EXCEPT ![f] = c]
           \/ activeFeeds' = activeFeeds /\ (activeFeeds[f] # None \/ table[f] # {})
        /\ pc' = [pc EXCEPT ![c] = "request"] \/ pc' = [pc EXCEPT ![c] = "ok"]
    BY <1>1, <1>4 DEF SubscribeTable, NeedWireSubscribe
  <2>2. TableInv'
    BY <1>1, <1>2, <2>1 DEF SubsInv, TableInv
  <2>3. \A g \in Feeds : activeFeeds'[g] # None <=> table'[g] # {}
    BY <2>1, ZenonT(30) DEF SubsInv, ActiveMatchesTable
  <2>4. \A g \in Feeds : g # f /\ Family[g] = Family[f] /\ Family[f] # None => activeFeeds[g] = None
    BY <1>4 DEF VariantMismatch
  <2>5. \A g \in Feeds : g # f => activeFeeds'[g] = activeFeeds[g]
    BY <2>1
  <2>6. \A g, h \in Feeds : g # h /\ Family[g] # None /\ Family[g] = Family[h]
                             => activeFeeds'[g] = None \/ activeFeeds'[h] = None
    BY <2>4, <2>5 DEF SubsInv, ActiveMatchesTable
  <2> QED BY <2>2, <2>3, <2>6 DEF ActiveMatchesTable
<1> QED BY <1>3, <1>4

LEMMA UnsubscribeSubs ==
  ASSUME SubsInv, NEW c \in Calls, UnsubscribeTable(c)
  PROVE  TableInv' /\ ActiveMatchesTable'
<1> USE SubsTypes, ControlTypes, WsClientAssumption
<1>0. TypeOK
  BY DEF SubsInv, LifeInv
<1> USE <1>0
<1>1. PICK f \in Feeds : f = op[c].feed
  BY DEF SubsInv, ControlInv, CallControl, SubKinds, UnsubscribeTable
<1>2. /\ pc[c] = "table" /\ op' = op
      /\ \A d \in Calls : d # c => pc'[d] = pc[d]
  BY DEF UnsubscribeTable, Unsubscribe
<1> DEFINE Removes(S) ==
             /\ \A g \in Feeds : g # f => table'[g] = table[g] /\ activeFeeds'[g] = activeFeeds[g]
             /\ table'[f] = table[f] \ S
             /\ activeFeeds'[f] = None \/ activeFeeds'[f] = activeFeeds[f]
             /\ activeFeeds'[f] # activeFeeds[f] => table[f] = S
             /\ table[f] # {} /\ table[f] = S => activeFeeds'[f] = None
<1>3. \E S \in SUBSET table[f] : Removes(S)
  <2>1. PICK gone : gone = IF op[c].kind = "leave" THEN {op[c].target} \cap table[f] ELSE table[f]
    OBVIOUS
  <2>2. gone \in SUBSET table[f] /\ (op[c].kind = "unsubscribe" => gone = table[f])
    BY <2>1
  <2>3. CASE f \notin Private /\ VariantMismatch(f)
    <3>1. UNCHANGED <<activeFeeds, table>>
      BY <1>1, <2>3 DEF UnsubscribeTable, subVars
    <3>2. Removes({})
      BY <3>1
    <3> QED BY <3>2
  <2>4. CASE ~(f \notin Private /\ VariantMismatch(f))
    <3>1. IF gone = {}
          THEN /\ UNCHANGED table
               /\ activeFeeds' = IF f \in Private /\ op[c].kind = "unsubscribe"
                                 THEN [activeFeeds EXCEPT ![f] = None] ELSE activeFeeds
          ELSE Unsubscribe(c, f, gone)
      BY <1>1, <2>1, <2>4 DEF UnsubscribeTable
    <3>2. Removes(gone)
      <4>1. CASE gone = {}
        BY <2>2, <3>1, <4>1
      <4>2. CASE gone # {}
        BY <2>2, <3>1, <4>2 DEF Unsubscribe
      <4> QED BY <4>1, <4>2
    <3> QED BY <2>2, <3>2
  <2> QED BY <2>3, <2>4
<1>4. PICK gone \in SUBSET table[f] : Removes(gone)
  BY <1>3
<1>5. TableInv'
  <2>1. \A g \in Feeds : table'[g] \subseteq table[g] /\ table[g] \subseteq Calls
    BY <1>4
  <2>2. \A g \in Feeds : \A d \in table[g] : d # c
    BY <1>2 DEF SubsInv, TableInv
  <2>3. \A g \in Feeds : \A d \in table'[g] : pc'[d] = pc[d] /\ d \in table[g]
    BY <1>2, <2>1, <2>2
  <2> QED BY <1>2, <2>3 DEF SubsInv, TableInv
<1>6. \A g \in Feeds : activeFeeds'[g] # None <=> table'[g] # {}
  BY <1>4, ZenonT(30) DEF SubsInv, ActiveMatchesTable
<1>7. \A g \in Feeds : activeFeeds[g] = None => activeFeeds'[g] = None
  BY <1>4
<1> QED BY <1>5, <1>6, <1>7 DEF SubsInv, ActiveMatchesTable

LEMMA RollbackSubs ==
  ASSUME SubsInv, NEW c \in Calls, Rollback(c)
  PROVE  TableInv' /\ ActiveMatchesTable'
<1> USE SubsTypes, ControlTypes, WsClientAssumption
<1>0. TypeOK
  BY DEF SubsInv, LifeInv
<1> USE <1>0
<1>1. PICK f \in Feeds : f = op[c].feed
  BY DEF SubsInv, ControlInv, CallControl, SubKinds, Rollback
<1>2. /\ table' = [table EXCEPT ![f] = @ \ {c}]
      /\ activeFeeds' = [activeFeeds EXCEPT ![f] = IF table[f] = {c} THEN None ELSE @]
      /\ op' = op /\ \A d \in Calls : d # c => pc'[d] = pc[d]
  BY <1>1 DEF Rollback
<1>3. TableInv'
  BY <1>1, <1>2 DEF SubsInv, TableInv
<1>4. \A g \in Feeds : activeFeeds'[g] # None <=> table'[g] # {}
  BY <1>2 DEF SubsInv, ActiveMatchesTable
<1>5. \A g \in Feeds : activeFeeds[g] = None => activeFeeds'[g] = None
  BY <1>2
<1> QED BY <1>3, <1>4, <1>5 DEF SubsInv, ActiveMatchesTable

LEMMA OtherCallSubs ==
  ASSUME SubsInv, NEW c \in Calls,
         Start(c) \/ ConnectCheck(c) \/ ConnectWake(c) \/ ConnectNew(c) \/ GiveUpWaiting(c) \/ WireAcquire(c)
         \/ SendUnsubscribe(c) \/ RequestReturned(c)
  PROVE  TableInv' /\ ActiveMatchesTable'
<1> USE ControlTypes
<1>0. TypeOK
  BY DEF SubsInv, LifeInv
<1> USE <1>0
<1>1. UNCHANGED <<activeFeeds, table>>
  BY DEF Start, ConnectCheck, ConnectWake, ConnectNew, GiveUpWaiting, WireAcquire, SendUnsubscribe, RequestReturned, subVars
<1>2. \A d \in Calls : d # c => pc'[d] = pc[d] /\ op'[d] = op[d]
  BY DEF Start, ConnectCheck, ConnectWake, ConnectNew, GiveUpWaiting, WireAcquire, SendUnsubscribe, RequestReturned, PastConnect
<1>3. pc[c] \in {"idle", "connect", "wait", "connectNew", "wire", "table", "unsubscribed"} \/ RequestReturned(c)
  BY DEF Start, ConnectCheck, ConnectWake, ConnectNew, GiveUpWaiting, WireAcquire, SendUnsubscribe, Blocked
<1>4. RequestReturned(c) => op' = op /\ (pc'[c] \in {"rollback", "ok"} \/ op[c].kind # "subscribe")
  BY DEF RequestReturned
<1>5. TableInv'
  BY <1>1, <1>2, <1>3, <1>4, SubsTypes DEF SubsInv, TableInv
<1> QED BY <1>1, <1>5, ActiveKept DEF SubsInv

\* Other steps than those of calls leave the tables alone or empty them, and
\* move no call but those in connectNew.
LEMMA OtherKept ==
  ASSUME SubsInv,
         \/ \E r \in Reqs : RequestStep(r) \/ Abandon(r)
         \/ \E L \in Lifecycles : AttemptStep(L) \/ PumpStep(L) \/ PumpExit(L) \/ LivenessFails(L)
         \/ Respond \/ Close \/ CloseTables \/ UNCHANGED vars
  PROVE  /\ UNCHANGED <<activeFeeds, table>> \/ SubsCleared
         /\ \A c \in Calls : op'[c] = op[c] /\ (pc'[c] = pc[c] \/ pc[c] = "attempt")
<1> USE ControlTypes
<1>0. TypeOK
  BY DEF SubsInv, LifeInv
<1> USE <1>0
<1> DEFINE Kept == UNCHANGED <<activeFeeds, table>> \/ SubsCleared
           Calm == \A c \in Calls : op'[c] = op[c] /\ (pc'[c] = pc[c] \/ pc[c] = "attempt")
<1>1. ASSUME NEW r \in Reqs, RequestStep(r) \/ Abandon(r) PROVE Kept /\ Calm
  BY <1>1 DEF RequestStep, Register, Write, Answered, Abandon, subVars, callVars
<1>2. ASSUME NEW L \in Lifecycles, AttemptStep(L) PROVE Kept
  BY <1>2 DEF AttemptStep, Install, ConnectDialFails, ReconnectDialFails, BackoffElapsed, BackoffClosed, GiveUp,
              GiveUpCleanup, Snapshot, ReplayNext, ReplayReturned, ReplayDone, ReplayFailed, ReplayCleanup,
              FailSubscriptions, SubsCleared, subVars
<1>3. ASSUME NEW L \in Lifecycles, AttemptStep(L) PROVE Calm
  <2>2. ByCall(L) => pc[owner[L]] = "attempt"
    BY DEF SubsInv, ControlInv, AttControl
  <2> DEFINE Frees == \A c \in Calls : c # owner[L] \/ ~ByCall(L) => pc'[c] = pc[c]
  <2>0. op' = op
    BY <1>3 DEF AttemptStep, Install, ConnectDialFails, ReconnectDialFails, BackoffElapsed, BackoffClosed, GiveUp,
              GiveUpCleanup, Snapshot, ReplayNext, ReplayReturned, ReplayDone, ReplayFailed, ReplayCleanup, callVars
  <2>3. CASE Install(L) \/ ConnectDialFails(L) \/ ReplayDone(L) \/ ReplayFailed(L) \/ ReplayCleanup(L)
    <3>1. Frees
      BY <2>3 DEF Install, ConnectDialFails, ReplayDone, ReplayFailed, ReplayCleanup, OwnerFails, PastConnect
    <3> QED BY <2>0, <2>2, <3>1
  <2>4. CASE ~(Install(L) \/ ConnectDialFails(L) \/ ReplayDone(L) \/ ReplayFailed(L) \/ ReplayCleanup(L))
    BY <1>3, <2>0, <2>4 DEF AttemptStep, ReconnectDialFails, BackoffElapsed, BackoffClosed, GiveUp,
              GiveUpCleanup, Snapshot, ReplayNext, ReplayReturned, callVars
  <2> QED BY <2>3, <2>4
<1>4. ASSUME NEW L \in Lifecycles, PumpStep(L) \/ PumpExit(L) \/ LivenessFails(L) PROVE Kept /\ Calm
  BY <1>4 DEF PumpStep, PumpError, PumpFail, PumpCleanup, PumpExit, LivenessFails,
              FailSubscriptions, SubsCleared, subVars, callVars
<1>5. Respond \/ Close \/ CloseTables \/ UNCHANGED vars => Kept /\ Calm
  BY DEF Respond, Close, CloseTables, SubsCleared, subVars, callVars, vars
<1> QED BY <1>1, <1>2, <1>3, <1>4, <1>5

LEMMA OtherSubs ==
  ASSUME SubsInv,
         \/ \E r \in Reqs : RequestStep(r) \/ Abandon(r)
         \/ \E L \in Lifecycles : AttemptStep(L) \/ PumpStep(L) \/ PumpExit(L) \/ LivenessFails(L)
         \/ Respond \/ Close \/ CloseTables \/ UNCHANGED vars
  PROVE  TableInv' /\ ActiveMatchesTable'
  BY OtherKept, TableKept, ActiveKept DEF SubsInv, LifeInv

LEMMA SubsAlways == Spec => []SubsInv
<1>1. ASSUME SubsInv, LifeInv', [Next]_vars PROVE SubsInv'
  <2>1. ControlInv'
    BY <1>1, ControlStep DEF SubsInv
  <2>2. TableInv' /\ ActiveMatchesTable'
    BY <1>1, SubscribeSubs, UnsubscribeSubs, RollbackSubs, OtherCallSubs, OtherSubs DEF Next, CallStep
  <2> QED BY <1>1, <2>1, <2>2 DEF SubsInv
<1>2. Init => SubsInv
  BY InitLife, InitType, InitControl, InitSubs DEF SubsInv, LifeInv
<1>3. Spec => []LifeInv
  BY LifecycleCorrect, TypeCorrect, PTL DEF LifeInv
<1> QED BY <1>1, <1>2, <1>3, PTL DEF Spec

\* The active feeds and the subscription tables of the client
\* (subscribePublicFeed, unsubscribePrivateFeed, removePrivateSubscription,
\* failSubscriptionsIfCurrentLocked, Close in client_subscriptions.go and
\* client_connection.go) never disagree about which feeds are in use, and two
\* variants of one family are never in use together.
THEOREM ActiveMatches == Spec => []ActiveMatchesTable
  BY SubsAlways, PTL DEF SubsInv

-----------------------------------------------------------------------------
(***************************************************************************)
(* Who fails the subscriptions of a caller.                                *)
(***************************************************************************)

\* Cleanup on behalf of a current lifecycle finds no connection.
LEMMA CleanupFindsNoConnection ==
  ASSUME SubsInv, NEW L \in Lifecycles
  PROVE  /\ GiveUpCleanup(L) => lifecycle # L \/ conn = 0
         /\ ReplayCleanup(L) => conn = 0
         /\ PumpCleanup(L) => conn = 0
         /\ CloseTables => conn = 0
<1>1. state \in {"reconnecting", "disconnected", "closed"} => conn = 0
  BY DEF SubsInv, LifeInv, ConnectionOwned
<1>2. LifecycleState(L) /\ CloseControl
  BY DEF SubsInv, LifeInv, LifecycleGate, ControlInv
<1>3. attPc[L] = "cleanup" \/ pump[L] = "cleanup" => state \in {"reconnecting", "disconnected", "closed"}
  BY <1>2 DEF LifecycleState
<1>4. attPc[L] = "failSubscriptions" /\ lifecycle = L => state \in {"disconnected", "closed"}
  BY <1>2 DEF LifecycleState
<1>5. CloseTables => state = "closed"
  BY <1>2 DEF CloseTables, CloseControl
<1> QED BY <1>1, <1>3, <1>4, <1>5 DEF GiveUpCleanup, ReplayCleanup, PumpCleanup

LEMMA FailedStep ==
  ASSUME SubsInv, Next, NEW c \in Calls, chan[c] = "open", chan'[c] = "closed", conn # 0
  PROVE  \E d \in Calls : pc[d] \in {"table", "rollback"} /\ pc'[d] # pc[d] /\ op[d].feed = op[c].feed
<1>0. TypeOK
  BY DEF SubsInv, LifeInv
<1> USE <1>0, SubsTypes, ControlTypes
<1>1. chan' # chan
  OBVIOUS
<1>2. ASSUME NEW d \in Calls, Start(d) \/ CallStep(d) \/ GiveUpWaiting(d)
      PROVE  SubscribeTable(d) \/ UnsubscribeTable(d) \/ Rollback(d)
  BY <1>1, <1>2 DEF CallStep, Start, ConnectCheck, ConnectWake, ConnectNew, GiveUpWaiting, WireAcquire,
                    SendUnsubscribe, RequestReturned, subVars
<1>3. ASSUME NEW r \in Reqs, RequestStep(r) \/ Abandon(r) PROVE FALSE
  BY <1>1, <1>3 DEF RequestStep, Register, Write, Answered, Abandon, subVars
<1>4. ASSUME NEW L \in Lifecycles, AttemptStep(L) PROVE FALSE
  <2>1. GiveUpCleanup(L) \/ ReplayCleanup(L)
    BY <1>1, <1>4 DEF AttemptStep, Install, ConnectDialFails, ReconnectDialFails, BackoffElapsed, BackoffClosed,
              GiveUp, Snapshot, ReplayNext, ReplayReturned, ReplayDone, ReplayFailed, subVars
  <2>2. GiveUpCleanup(L) /\ lifecycle = L
    BY <1>1, <2>1, CleanupFindsNoConnection DEF GiveUpCleanup, FailSubscriptions, subVars
  <2> QED BY <2>2, CleanupFindsNoConnection
<1>5. ASSUME NEW L \in Lifecycles, PumpStep(L) \/ PumpExit(L) \/ LivenessFails(L) PROVE FALSE
  <2>1. PumpCleanup(L)
    BY <1>1, <1>5 DEF PumpStep, PumpError, PumpFail, PumpExit, LivenessFails, subVars
  <2> QED BY <2>1, CleanupFindsNoConnection
<1>6. ~(Respond \/ Close \/ CloseTables)
  <2>1. ~(Respond \/ Close)
    BY <1>1 DEF Respond, Close, subVars
  <2>2. ~CloseTables
    <3>1. 1 \in Lifecycles
      BY WsClientAssumption
    <3> QED BY <3>1, CleanupFindsNoConnection
  <2> QED BY <2>1, <2>2
<1>7. PICK d \in Calls : SubscribeTable(d) \/ UnsubscribeTable(d) \/ Rollback(d)
  BY <1>2, <1>3, <1>4, <1>5, <1>6 DEF Next
<1>8. PICK f \in Feeds : f = op[d].feed
  BY <1>7 DEF SubsInv, ControlInv, CallControl, SubKinds, SubscribeTable, UnsubscribeTable, Rollback
<1>9. pc[d] \in {"table", "rollback"} /\ pc'[d] # pc[d]
  BY <1>7 DEF SubscribeTable, UnsubscribeTable, Unsubscribe, Rollback
<1>10. ~SubscribeTable(d)
  BY DEF SubscribeTable, subVars
<1>11. CASE UnsubscribeTable(d)
  <2>1. c \in table[f]
    BY <1>8, <1>11 DEF UnsubscribeTable, Unsubscribe, subVars
  <2> QED BY <1>8, <1>9, <2>1 DEF SubsInv, TableInv
<1>12. CASE Rollback(d)
  <2>1. c = d
    BY <1>12 DEF Rollback
  <2> QED BY <1>9, <2>1
<1> QED BY <1>7, <1>10, <1>11, <1>12

\* Channels of subscriptions are closed under a caller only by its own feed's
\* unsubscribing or rollback, or while no connection is installed: the cleanup
\* of an old lifecycle (failSubscriptionsIfCurrent, handleResubscribeFailure,
\* readPump in client_connection.go) never reaches subscriptions that a newer
\* connection serves.
THEOREM SubscriptionsFailedOnlyWhileDown == Spec => FailedOnlyWhileDown
<1>1. SubsInv /\ [Next]_vars =>
        [\A c \in Calls :
           chan[c] = "open" /\ chan'[c] = "closed" =>
             \/ conn = 0
             \/ \E d \in Calls : /\ pc[d] \in {"table", "rollback"} /\ pc'[d] # pc[d]
                                 /\ op[d].feed = op[c].feed]_vars
  BY FailedStep
<1> QED BY <1>1, SubsAlways, PTL DEF Spec, FailedOnlyWhileDown

-----------------------------------------------------------------------------
(***************************************************************************)
(* What is on the wire.                                                    *)
(***************************************************************************)

LEMMA SubsBasics ==
  ASSUME SubsInv
  PROVE  /\ TypeOK /\ LifeInv /\ ControlInv /\ ActiveMatchesTable /\ TableInv
         /\ wire \in Seq(Frames)
         /\ \A i \in DOMAIN wire : wire[i].req \in Reqs
<1>1. LifeInv /\ ControlInv /\ ActiveMatchesTable /\ TableInv
  BY DEF SubsInv
<1>2. TypeOK
  BY <1>1 DEF LifeInv
<1>3. wire \in Seq(Frames)
  BY <1>2 DEF TypeOK, NetType
<1>4. \A i \in DOMAIN wire : wire[i] \in Frames
  BY <1>3
<1> QED BY <1>1, <1>2, <1>3, <1>4 DEF Frames

LEMMA WireAppended ==
  ASSUME wire \in Seq(Frames), NEW m, wire' = Append(wire, m)
  PROVE  \A i \in DOMAIN wire' : \/ i \in DOMAIN wire /\ wire'[i] = wire[i]
                                 \/ i = Len(wire) + 1 /\ wire'[i] = m
  OBVIOUS

LEMMA WireTaken ==
  ASSUME wire \in Seq(Frames), wire # <<>>, wire' = Tail(wire)
  PROVE  /\ 1 \in DOMAIN wire /\ Head(wire) = wire[1]
         /\ \A i \in DOMAIN wire' : i + 1 \in DOMAIN wire /\ i + 1 > 1 /\ wire'[i] = wire[i + 1]
  OBVIOUS

\* What a step does to the wire: nothing, lose it with the connection, add
\* the frame of a request that writes, or take the first frame.
LEMMA WireStep ==
  ASSUME SubsInv, [Next]_vars
  PROVE  \/ wire' = wire /\ conn' = conn /\ server' = server
         \/ wire' = <<>> /\ server' = {}
         \/ \E r \in Reqs : Write(r) /\ wire' = Append(wire, Frame(r)) /\ WriteTarget(r) \in sockets
         \/ Respond
<1>1. ASSUME NEW c \in Calls, Start(c) \/ CallStep(c) \/ GiveUpWaiting(c)
      PROVE  wire' = wire /\ conn' = conn /\ server' = server
  BY <1>1 DEF CallStep, Start, ConnectCheck, ConnectWake, ConnectNew, WireAcquire, SubscribeTable,
              UnsubscribeTable, SendUnsubscribe, RequestReturned, Rollback, GiveUpWaiting, connVars, netVars
<1>2. ASSUME NEW r \in Reqs, RequestStep(r) \/ Abandon(r)
      PROVE  \/ wire' = wire /\ conn' = conn /\ server' = server
             \/ Write(r) /\ wire' = Append(wire, Frame(r)) /\ WriteTarget(r) \in sockets
  BY <1>2 DEF RequestStep, Register, Write, Answered, Abandon, connVars, netVars
<1>3. ASSUME NEW L \in Lifecycles, AttemptStep(L)
      PROVE  \/ wire' = wire /\ conn' = conn /\ server' = server
             \/ wire' = <<>> /\ server' = {}
  BY <1>3 DEF AttemptStep, Install, ConnectDialFails, ReconnectDialFails, BackoffElapsed, BackoffClosed, GiveUp,
              GiveUpCleanup, Snapshot, ReplayNext, ReplayReturned, ReplayDone, ReplayFailed, ReplayCleanup,
              DropConn, connVars, netVars
<1>4. ASSUME NEW L \in Lifecycles, PumpStep(L) \/ PumpExit(L) \/ LivenessFails(L)
      PROVE  \/ wire' = wire /\ conn' = conn /\ server' = server
             \/ wire' = <<>> /\ server' = {}
  BY <1>4 DEF PumpStep, PumpError, PumpFail, PumpCleanup, PumpExit, LivenessFails, DropConn, connVars, netVars
<1>5. Close \/ CloseTables \/ UNCHANGED vars
      => \/ wire' = wire /\ conn' = conn /\ server' = server
         \/ wire' = <<>> /\ server' = {}
  BY DEF Close, CloseTables, DropConn, connVars, netVars, vars
<1> QED BY <1>1, <1>2, <1>3, <1>4, <1>5 DEF Next

LEMMA RequestsStayStep ==
  ASSUME SubsInv, RequestsStayOnTheirConnection, [Next]_vars
  PROVE  RequestsStayOnTheirConnection'
<1> USE SubsBasics DEF RequestsStayOnTheirConnection
<1>1. CASE wire' = wire /\ conn' = conn
  BY <1>1
<1>2. CASE wire' = <<>>
  BY <1>2
<1>3. ASSUME NEW r \in Reqs, Write(r), wire' = Append(wire, Frame(r)), WriteTarget(r) \in sockets
      PROVE  RequestsStayOnTheirConnection'
  <2>1. Frame(r).admitted = conn /\ conn' = conn
    BY <1>3 DEF Frame, Write, WriteTarget, connVars, LifeInv, ConnectionOwned
  <2> QED BY <1>3, <2>1, WireAppended
<1>4. CASE Respond
  <2>1. wire # <<>> /\ wire' = Tail(wire) /\ conn' = conn
    BY <1>4 DEF Respond, connVars
  <2> QED BY <2>1, WireTaken
<1> QED BY <1>1, <1>2, <1>3, <1>4, WireStep

\* requestConnected writes to the connection that registerPendingForConn
\* captured (client_requests.go): no request, however late its write, reaches
\* a connection other than the one that admitted it.
THEOREM RequestsStay == Spec => []RequestsStayOnTheirConnection
<1>1. Init => RequestsStayOnTheirConnection
  BY DEF Init, RequestsStayOnTheirConnection
<1>2. SubsInv /\ RequestsStayOnTheirConnection /\ [Next]_vars => RequestsStayOnTheirConnection'
  BY RequestsStayStep
<1> QED BY <1>1, <1>2, SubsAlways, PTL DEF Spec

-----------------------------------------------------------------------------
(***************************************************************************)
(* The wire gates.                                                         *)
(***************************************************************************)

\* Request r is at work on feed f, with the feed's wire gate in hand.
Holds(r, f) ==
  IF r \in Calls THEN op[r].feed = f /\ pc[r] \in {"table", "unsubscribed", "request", "rollback"}
  ELSE feed[r] = f /\ attPc[r] = "request"

\* A gate has one holder at a time (until Close throws the gates away).
Exclusive ==
  ~Closed => \A f \in Feeds : \A r, s \in Reqs : Holds(r, f) /\ Holds(s, f) => r = s

\* What the subscriber, or the last to leave, knows of its feed while it talks
\* to the exchange.
HolderInv ==
  ~Closed => \A c \in Calls : pc[c] \in {"unsubscribed", "request", "rollback"} =>
    /\ op[c].kind = "subscribe" => table[op[c].feed] \subseteq {c} /\ activeFeeds[op[c].feed] \in {c, None}
    /\ op[c].kind \in {"unsubscribe", "leave"} => activeFeeds[op[c].feed] = None

LEMMA HeldByRequest ==
  ASSUME SubsInv, NEW f \in Feeds
  PROVE  WireHeld(f) <=> \E r \in Reqs : Holds(r, f)
<1>1. \A l \in Lifecycles : l \notin Calls
  BY SubsBasics, ControlTypes
<1> QED BY <1>1 DEF WireHeld, Holds

LEMMA StaysClosed ==
  ASSUME SubsInv, [Next]_vars, Closed
  PROVE  Closed'
<1>1. ASSUME NEW c \in Calls, Start(c) \/ CallStep(c) \/ GiveUpWaiting(c) PROVE Closed'
  BY <1>1 DEF CallStep, Start, ConnectCheck, ConnectWake, ConnectNew, WireAcquire, SubscribeTable,
              UnsubscribeTable, SendUnsubscribe, RequestReturned, Rollback, GiveUpWaiting, connVars
<1>2. ASSUME NEW r \in Reqs, RequestStep(r) \/ Abandon(r) PROVE Closed'
  BY <1>2 DEF RequestStep, Register, Write, Answered, Abandon, connVars
<1>3. ASSUME NEW L \in Lifecycles, AttemptStep(L) PROVE Closed'
  BY <1>3 DEF AttemptStep, Install, ConnectDialFails, ReconnectDialFails, BackoffElapsed, BackoffClosed, GiveUp,
              GiveUpCleanup, Snapshot, ReplayNext, ReplayReturned, ReplayDone, ReplayFailed, ReplayCleanup, connVars
<1>4. ASSUME NEW L \in Lifecycles, PumpStep(L) \/ PumpExit(L) \/ LivenessFails(L) PROVE Closed'
  BY <1>4 DEF PumpStep, PumpError, PumpFail, PumpStale, PumpCleanup, PumpExit, LivenessFails, connVars
<1>5. Respond \/ Close \/ CloseTables \/ UNCHANGED vars => Closed'
  BY DEF Respond, Close, CloseTables, connVars, vars
<1> QED BY <1>1, <1>2, <1>3, <1>4, <1>5 DEF Next

\* How a step moves the calls and the replays: only WireAcquire and ReplayNext
\* take a gate.
LEMMA CallHolds ==
  ASSUME SubsInv, NEW c \in Calls, Start(c) \/ CallStep(c) \/ GiveUpWaiting(c), NEW r \in Reqs, NEW f \in Feeds,
         Holds(r, f)'
  PROVE  Holds(r, f) \/ (r = c /\ f = op[c].feed /\ WireAcquire(c))
<1> USE SubsBasics, ControlTypes, WsClientAssumption
<1>1. CASE r # c
  <2>1. UNCHANGED <<attPc, feed>> \/ ConnectNew(c)
    BY DEF CallStep, Start, ConnectCheck, ConnectWake, WireAcquire, SubscribeTable,
              UnsubscribeTable, SendUnsubscribe, RequestReturned, Rollback, GiveUpWaiting, attVars
  <2>2. \A d \in Calls : d # c => pc'[d] = pc[d] /\ op'[d] = op[d]
    BY DEF CallStep, Start, ConnectCheck, ConnectWake, ConnectNew, WireAcquire, SubscribeTable, PastConnect,
              UnsubscribeTable, Unsubscribe, SendUnsubscribe, RequestReturned, Rollback, GiveUpWaiting
  <2>3. feed' = feed /\ \A l \in Lifecycles : attPc'[l] = attPc[l] \/ attPc'[l] = "dialing"
    BY <2>1 DEF ConnectNew, StartAttempt, attVars
  <2> QED BY <1>1, <2>2, <2>3 DEF Holds
<1>2. CASE r = c /\ ~WireAcquire(c)
  <2>1. CallControl(c)
    BY DEF ControlInv
  <2>2. CASE Start(c) \/ GiveUpWaiting(c) \/ SendUnsubscribe(c) \/ RequestReturned(c) \/ Rollback(c)
    BY <1>2, <2>2 DEF Holds, Start, GiveUpWaiting, SendUnsubscribe, RequestReturned, Rollback
  <2>3. CASE SubscribeTable(c) \/ UnsubscribeTable(c)
    <3>1. pc[c] = "table" /\ op' = op
      BY <2>3 DEF SubscribeTable, UnsubscribeTable
    <3> QED BY <1>2, <3>1 DEF Holds
  <2>4. CASE ConnectCheck(c) \/ ConnectWake(c) \/ ConnectNew(c)
    <3>1. op' = op /\ (pc'[c] \in {"table", "unsubscribed", "request", "rollback"} => op[c].kind = "request")
      BY <2>4 DEF ConnectCheck, ConnectWake, ConnectNew, PastConnect
    <3>2. op[c].feed = None
      BY <1>2, <2>1, <3>1 DEF CallControl, Holds
    <3> QED BY <1>2, <3>1, <3>2 DEF Holds
  <2> QED BY <1>2, <2>2, <2>3, <2>4 DEF CallStep
<1>3. CASE r = c /\ WireAcquire(c)
  BY <1>3 DEF Holds, WireAcquire
<1> QED BY <1>1, <1>2, <1>3

LEMMA AttemptHolds ==
  ASSUME SubsInv, NEW L \in Lifecycles, AttemptStep(L), NEW r \in Reqs, NEW f \in Feeds, Holds(r, f)'
  PROVE  Holds(r, f) \/ (r = L /\ ReplayNext(L) /\ (~WireHeld(f) \/ Closed) /\ lifecycle = L
                         /\ \E e \in todo[L] : e[1] = f /\ StillCurrent(e))
<1> USE SubsBasics, ControlTypes, WsClientAssumption
<1>1. ASSUME NEW c \in Calls, r = c PROVE Holds(r, f)
  <2>1. op' = op
    BY DEF AttemptStep, Install, ConnectDialFails, ReconnectDialFails, BackoffElapsed, BackoffClosed, GiveUp,
              GiveUpCleanup, Snapshot, ReplayNext, ReplayReturned, ReplayDone, ReplayFailed, ReplayCleanup, callVars
  <2> DEFINE Moves == \/ pc'[c] = pc[c]
                      \/ pc'[c] \in {"err", "connect"}
                      \/ pc'[c] \in {"request", "wire"} /\ (pc'[c] = "request" => op[c].kind = "request")
  <2>2. Moves
    <3>1. CASE Install(L) \/ ConnectDialFails(L) \/ ReplayFailed(L) \/ ReplayCleanup(L)
      <4>1. UNCHANGED pc \/ OwnerFails(L)
        BY <3>1 DEF Install, ConnectDialFails, ReplayFailed, ReplayCleanup
      <4>2. UNCHANGED pc \/ pc' = [pc EXCEPT ![owner[L]] = "err"]
        BY <4>1 DEF OwnerFails
      <4> QED BY <4>2
    <3>2. CASE ReplayDone(L)
      <4>1. \/ UNCHANGED pc \/ (\E w \in {"connect", "err"} : pc' = [pc EXCEPT ![owner[L]] = w])
            \/ PastConnect(owner[L])
        BY <3>2 DEF ReplayDone
      <4>2. PastConnect(owner[L]) => pc'[c] = pc[c] \/ (c = owner[L] /\ pc'[c] = IF op[c].kind = "request" THEN "request" ELSE "wire")
        BY DEF PastConnect
      <4> QED BY <4>1, <4>2
    <3>3. CASE ~(Install(L) \/ ConnectDialFails(L) \/ ReplayFailed(L) \/ ReplayCleanup(L) \/ ReplayDone(L))
      BY <3>3 DEF AttemptStep, ReconnectDialFails, BackoffElapsed, BackoffClosed, GiveUp,
              GiveUpCleanup, Snapshot, ReplayNext, ReplayReturned, callVars
    <3> QED BY <3>1, <3>2, <3>3
  <2>3. op[c].kind = "request" => op[c].feed = None
    BY DEF ControlInv, CallControl
  <2> QED BY <1>1, <2>1, <2>2, <2>3 DEF Holds
<1>2. CASE r \in Lifecycles /\ r # L
  <2>1. attPc'[r] = attPc[r] /\ feed'[r] = feed[r]
    <3>1. CASE Install(L) \/ ConnectDialFails(L) \/ ReconnectDialFails(L) \/ BackoffElapsed(L) \/ BackoffClosed(L)
               \/ GiveUp(L) \/ GiveUpCleanup(L)
      BY <1>2, <3>1 DEF Install, ConnectDialFails, ReconnectDialFails, BackoffElapsed, BackoffClosed, GiveUp,
              GiveUpCleanup, AttGoto, AttStep, AttEnd
    <3>2. CASE Snapshot(L) \/ ReplayReturned(L) \/ ReplayDone(L) \/ ReplayFailed(L) \/ ReplayCleanup(L)
      BY <1>2, <3>2 DEF Snapshot, ReplayReturned, ReplayDone, ReplayFailed, ReplayCleanup, AttGoto, AttStep, AttEnd
    <3>3. CASE ReplayNext(L)
      <4>1. UNCHANGED attPc \/ \E w : AttStep(L, w)
        BY <3>3, Zenon DEF ReplayNext, AttGoto
      <4>2. UNCHANGED feed \/ \E g : feed' = [feed EXCEPT ![L] = g]
        BY <3>3, Zenon DEF ReplayNext, AttGoto
      <4> QED BY <1>2, <4>1, <4>2 DEF AttStep
    <3> QED BY <3>1, <3>2, <3>3 DEF AttemptStep
  <2> QED BY <1>2, <2>1 DEF Holds
<1>3. CASE r = L
  <2>0. attPc'[L] = "request" /\ feed'[L] = f
    BY <1>3 DEF Holds
  <2>1. ReplayNext(L)
    BY <2>0, ZenonT(30) DEF AttemptStep, Install, ConnectDialFails, ReconnectDialFails, BackoffElapsed, BackoffClosed, GiveUp,
              GiveUpCleanup, Snapshot, ReplayReturned, ReplayDone, ReplayFailed, ReplayCleanup,
              AttGoto, AttStep, AttEnd
  <2>2. PICK e \in todo[L] : lifecycle = L /\ (~WireHeld(e[1]) \/ Closed) /\ StillCurrent(e) /\ feed' = [feed EXCEPT ![L] = e[1]]
    BY <2>0, <2>1 DEF ReplayNext, AttGoto, AttStep
  <2> QED BY <1>3, <2>0, <2>1, <2>2
<1> QED BY <1>1, <1>2, <1>3

LEMMA OtherHolds ==
  ASSUME SubsInv,
         \/ \E r \in Reqs : RequestStep(r) \/ Abandon(r)
         \/ \E L \in Lifecycles : PumpStep(L) \/ PumpExit(L) \/ LivenessFails(L)
         \/ Respond \/ Close \/ CloseTables \/ UNCHANGED vars,
         NEW r \in Reqs, NEW f \in Feeds, Holds(r, f)'
  PROVE  Holds(r, f)
<1>1. UNCHANGED callVars
  BY DEF RequestStep, Register, Write, Answered, Abandon, PumpStep, PumpExit, PumpError, PumpFail, PumpCleanup,
         LivenessFails, Respond, Close, CloseTables, vars
<1>2. feed' = feed /\ \A l \in Lifecycles : attPc'[l] = attPc[l] \/ attPc'[l] = "backoff"
  <2>1. UNCHANGED attVars \/ \E L : Reconnect(L)
    BY DEF RequestStep, Register, Write, Answered, Abandon, PumpStep, PumpExit, PumpError, PumpFail, PumpCleanup,
         LivenessFails, Respond, Close, CloseTables, vars
  <2> QED BY <2>1, SubsBasics, ControlTypes, ZenonT(30) DEF Reconnect, StartAttempt, attVars
<1> QED BY <1>1, <1>2 DEF Holds, callVars

LEMMA ExclusiveStep ==
  ASSUME SubsInv, Exclusive, [Next]_vars
  PROVE  Exclusive'
<1>1. SUFFICES ASSUME ~Closed', NEW f \in Feeds, NEW r \in Reqs, NEW s \in Reqs, Holds(r, f)', Holds(s, f)', r # s
               PROVE  FALSE
  BY DEF Exclusive
<1>2. ~Closed
  BY <1>1, StaysClosed
<1>3. ASSUME NEW t \in Reqs, Holds(t, f) PROVE WireHeld(f)
  BY <1>3, HeldByRequest
<1>4. ASSUME NEW c \in Calls, Start(c) \/ CallStep(c) \/ GiveUpWaiting(c) PROVE FALSE
  <2>1. WireAcquire(c) => ~WireHeld(op[c].feed)
    BY <1>2 DEF WireAcquire
  <2>2. Holds(r, f) \/ (r = c /\ f = op[c].feed /\ WireAcquire(c))
    BY <1>1, <1>4, CallHolds
  <2>3. Holds(s, f) \/ (s = c /\ f = op[c].feed /\ WireAcquire(c))
    BY <1>1, <1>4, CallHolds
  <2> QED BY <1>1, <1>2, <1>3, <2>1, <2>2, <2>3 DEF Exclusive
<1>5. ASSUME NEW L \in Lifecycles, AttemptStep(L) PROVE FALSE
  <2>2. Holds(r, f) \/ (r = L /\ (~WireHeld(f) \/ Closed))
    BY <1>1, <1>5, AttemptHolds
  <2>3. Holds(s, f) \/ (s = L /\ (~WireHeld(f) \/ Closed))
    BY <1>1, <1>5, AttemptHolds
  <2> QED BY <1>1, <1>2, <1>3, <2>2, <2>3 DEF Exclusive
<1>6. ASSUME \/ \E q \in Reqs : RequestStep(q) \/ Abandon(q)
             \/ \E L \in Lifecycles : PumpStep(L) \/ PumpExit(L) \/ LivenessFails(L)
             \/ Respond \/ Close \/ CloseTables \/ UNCHANGED vars
      PROVE  FALSE
  <2>1. Holds(r, f) /\ Holds(s, f)
    BY <1>1, <1>6, OtherHolds
  <2> QED BY <1>1, <1>2, <2>1 DEF Exclusive
<1> QED BY <1>4, <1>5, <1>6 DEF Next

\* A call changes no feed but the one whose gate it holds.
LEMMA CallKeepsFeeds ==
  ASSUME SubsInv, NEW c \in Calls, Start(c) \/ CallStep(c) \/ GiveUpWaiting(c), NEW f \in Feeds, ~Holds(c, f)
  PROVE  activeFeeds'[f] = activeFeeds[f] /\ table'[f] = table[f]
<1> USE SubsBasics, SubsTypes
<1>1. CASE SubscribeTable(c) \/ UnsubscribeTable(c) \/ Rollback(c)
  <2>1. op[c].feed # f
    BY <1>1 DEF Holds, SubscribeTable, UnsubscribeTable, Rollback
  <2>2. CASE SubscribeTable(c)
    BY <2>1, <2>2 DEF SubscribeTable, subVars
  <2>3. CASE UnsubscribeTable(c)
    BY <2>1, <2>3 DEF UnsubscribeTable, Unsubscribe, subVars
  <2>4. CASE Rollback(c)
    BY <2>1, <2>4 DEF Rollback
  <2> QED BY <1>1, <2>2, <2>3, <2>4
<1>2. CASE ~(SubscribeTable(c) \/ UnsubscribeTable(c) \/ Rollback(c))
  BY <1>2 DEF CallStep, Start, ConnectCheck, ConnectWake, ConnectNew, WireAcquire, SendUnsubscribe, RequestReturned, GiveUpWaiting, subVars
<1> QED BY <1>1, <1>2

\* The tables are emptied altogether only while no connection is installed.
LEMMA ClearedUnconnected ==
  ASSUME SubsInv,
         \/ \E r \in Reqs : RequestStep(r) \/ Abandon(r)
         \/ \E L \in Lifecycles : AttemptStep(L) \/ PumpStep(L) \/ PumpExit(L) \/ LivenessFails(L)
         \/ Respond \/ Close \/ CloseTables \/ UNCHANGED vars,
         conn # 0
  PROVE  UNCHANGED <<activeFeeds, table>>
<1>1. ASSUME NEW r \in Reqs, RequestStep(r) \/ Abandon(r) PROVE UNCHANGED <<activeFeeds, table>>
  BY <1>1 DEF RequestStep, Register, Write, Answered, Abandon, subVars
<1>2. ASSUME NEW L \in Lifecycles, AttemptStep(L) PROVE UNCHANGED <<activeFeeds, table>>
  <2>1. CASE GiveUpCleanup(L)
    BY <2>1, CleanupFindsNoConnection DEF GiveUpCleanup, FailSubscriptions, subVars
  <2>2. ~ReplayCleanup(L)
    BY CleanupFindsNoConnection
  <2>3. CASE ~GiveUpCleanup(L)
    BY <1>2, <2>2, <2>3 DEF AttemptStep, Install, ConnectDialFails, ReconnectDialFails, BackoffElapsed, BackoffClosed,
              GiveUp, Snapshot, ReplayNext, ReplayReturned, ReplayDone, ReplayFailed, subVars
  <2> QED BY <2>1, <2>3
<1>3. ASSUME NEW L \in Lifecycles, PumpStep(L) \/ PumpExit(L) \/ LivenessFails(L) PROVE UNCHANGED <<activeFeeds, table>>
  BY <1>3, CleanupFindsNoConnection DEF PumpStep, PumpError, PumpFail, PumpExit, LivenessFails, subVars
<1>4. Respond \/ Close \/ CloseTables \/ UNCHANGED vars => UNCHANGED <<activeFeeds, table>>
  <2>1. 1 \in Lifecycles
    BY WsClientAssumption
  <2> QED BY <2>1, CleanupFindsNoConnection DEF Respond, Close, subVars, vars
<1> QED BY <1>1, <1>2, <1>3, <1>4

\* The holder of a feed's gate keeps it, and what it knows of the feed.
LEMMA HolderKept ==
  ASSUME SubsInv, Exclusive, [Next]_vars, ~Closed, NEW c \in Calls, NEW f \in Feeds, Holds(c, f),
         ~(Start(c) \/ CallStep(c) \/ GiveUpWaiting(c))
  PROVE  /\ pc'[c] = pc[c] /\ op'[c] = op[c]
         /\ \/ activeFeeds'[f] = activeFeeds[f] /\ table'[f] = table[f]
            \/ activeFeeds'[f] = None /\ table'[f] = {}
<1>1. ASSUME NEW d \in Calls, Start(d) \/ CallStep(d) \/ GiveUpWaiting(d)
      PROVE  /\ pc'[c] = pc[c] /\ op'[c] = op[c]
             /\ activeFeeds'[f] = activeFeeds[f] /\ table'[f] = table[f]
  <2>1. c # d
    BY <1>1
  <2>2. ~Holds(d, f)
    BY <2>1 DEF Exclusive
  <2>3. pc'[c] = pc[c] /\ op'[c] = op[c]
    BY <1>1, SubsBasics, ControlTypes, <2>1 DEF CallStep, Start, ConnectCheck, ConnectWake, ConnectNew, WireAcquire, SubscribeTable, PastConnect,
              UnsubscribeTable, Unsubscribe, SendUnsubscribe, RequestReturned, Rollback, GiveUpWaiting
  <2> QED BY <1>1, <2>2, <2>3, CallKeepsFeeds
<1>2. ASSUME \/ \E r \in Reqs : RequestStep(r) \/ Abandon(r)
             \/ \E L \in Lifecycles : AttemptStep(L) \/ PumpStep(L) \/ PumpExit(L) \/ LivenessFails(L)
             \/ Respond \/ Close \/ CloseTables \/ UNCHANGED vars
      PROVE  /\ pc'[c] = pc[c] /\ op'[c] = op[c]
             /\ \/ activeFeeds'[f] = activeFeeds[f] /\ table'[f] = table[f]
                \/ activeFeeds'[f] = None /\ table'[f] = {}
  <2>1. pc[c] # "attempt"
    BY DEF Holds
  <2> QED BY <1>2, <2>1, OtherKept DEF SubsCleared
<1> QED BY <1>1, <1>2 DEF Next

LEMMA HolderStep ==
  ASSUME SubsInv, Exclusive, HolderInv, [Next]_vars, ControlInv'
  PROVE  HolderInv'
<1> USE SubsBasics, SubsTypes, ControlTypes, WsClientAssumption
<1>1. SUFFICES ASSUME ~Closed', NEW c \in Calls, pc'[c] \in {"unsubscribed", "request", "rollback"}
               PROVE  /\ op'[c].kind = "subscribe" => table'[op'[c].feed] \subseteq {c} /\ activeFeeds'[op'[c].feed] \in {c, None}
                      /\ op'[c].kind \in {"unsubscribe", "leave"} => activeFeeds'[op'[c].feed] = None
  BY DEF HolderInv
<1>2. ~Closed
  BY <1>1, StaysClosed
<1>3. CASE op'[c].kind \notin SubKinds
  BY <1>3 DEF SubKinds
<1>4. CASE op'[c].kind \in SubKinds
  <2>1. PICK f \in Feeds : f = op'[c].feed
    BY <1>4 DEF ControlInv, CallControl
  <2>2. Holds(c, f)'
    BY <1>1, <2>1 DEF Holds
  <2>3. CASE Start(c) \/ CallStep(c) \/ GiveUpWaiting(c)
    <3>1. Holds(c, f)
      BY <1>1, <2>2, <2>3, CallHolds DEF WireAcquire
    <3>2. op[c].feed = f
      BY <3>1 DEF Holds
    <3>3. CASE SubscribeTable(c)
      <4>1. /\ table' = [table EXCEPT ![f] = @ \cup {c}] /\ activeFeeds' = [activeFeeds EXCEPT ![f] = c]
            /\ NeedWireSubscribe(f) /\ op' = op /\ op[c].kind = "subscribe"
        BY <1>1, <3>2, <3>3 DEF SubscribeTable
      <4>2. table[f] = {}
        BY <4>1 DEF NeedWireSubscribe, ActiveMatchesTable
      <4> QED BY <2>1, <4>1, <4>2
    <3>4. CASE UnsubscribeTable(c)
      <4>1. \E gone : Unsubscribe(c, f, gone) /\ table[f] = gone /\ op' = op /\ op[c].kind # "subscribe"
        BY <1>1, <3>2, <3>4 DEF UnsubscribeTable, Unsubscribe
      <4>2. activeFeeds'[f] = None
        BY <4>1 DEF Unsubscribe
      <4> QED BY <2>1, <4>1, <4>2
    <3>5. CASE SendUnsubscribe(c) \/ RequestReturned(c)
      <4>1. /\ op' = op /\ table' = table /\ activeFeeds' = activeFeeds
            /\ pc[c] \in {"unsubscribed", "request"}
        BY <3>5 DEF SendUnsubscribe, RequestReturned, subVars
      <4> QED BY <1>2, <2>1, <4>1 DEF HolderInv
    <3>6. CASE ~(SubscribeTable(c) \/ UnsubscribeTable(c) \/ SendUnsubscribe(c) \/ RequestReturned(c))
      BY <1>1, <2>3, <3>1, <3>6 DEF CallStep, Holds, Start, ConnectCheck, ConnectWake, ConnectNew, WireAcquire, Rollback, GiveUpWaiting
    <3> QED BY <3>3, <3>4, <3>5, <3>6
  <2>4. CASE ~(Start(c) \/ CallStep(c) \/ GiveUpWaiting(c))
    <3>1. Holds(c, f)
      <4>1. ASSUME NEW d \in Calls, Start(d) \/ CallStep(d) \/ GiveUpWaiting(d) PROVE Holds(c, f)
        BY <2>2, <2>4, <4>1, CallHolds
      <4>2. ASSUME NEW L \in Lifecycles, AttemptStep(L) PROVE Holds(c, f)
        BY <2>2, <4>2, AttemptHolds
      <4>3. ASSUME \/ \E q \in Reqs : RequestStep(q) \/ Abandon(q)
                   \/ \E L \in Lifecycles : PumpStep(L) \/ PumpExit(L) \/ LivenessFails(L)
                   \/ Respond \/ Close \/ CloseTables \/ UNCHANGED vars
            PROVE  Holds(c, f)
        BY <2>2, <4>3, OtherHolds
      <4> QED BY <4>1, <4>2, <4>3 DEF Next
    <3>2. /\ pc'[c] = pc[c] /\ op'[c] = op[c]
          /\ \/ activeFeeds'[f] = activeFeeds[f] /\ table'[f] = table[f]
             \/ activeFeeds'[f] = None /\ table'[f] = {}
      BY <1>2, <2>4, <3>1, HolderKept
    <3> QED BY <1>1, <1>2, <2>1, <3>2 DEF HolderInv
  <2> QED BY <2>3, <2>4
<1> QED BY <1>3, <1>4

-----------------------------------------------------------------------------
(***************************************************************************)
(* The replay.                                                             *)
(***************************************************************************)

ReplayPcs == {"snapshot", "replay", "request", "replayed", "failed"}

\* A replay on behalf of the current lifecycle runs on its connection, and
\* keeps everyone else out of it, until Close intervenes.
ReplayInv ==
  \A l \in Lifecycles : attPc[l] \in ReplayPcs /\ lifecycle = l =>
    state = "closed" \/ (state = "connected" /\ replayInProgress)

\* An attempt begins only when its lifecycle does.
LEMMA NewLifecycle ==
  ASSUME SubsInv, [Next]_vars, NEW l \in Lifecycles
  PROVE  /\ lifecycle' = l /\ lifecycle # l => attPc[l] = "none"
         /\ attPc[l] = "none" => attPc'[l] \in {"none", "dialing", "backoff"}
<1> USE SubsBasics, ControlTypes
<1>1. l > lifecycle => attPc[l] = "none"
  BY DEF LifeInv, LifecycleGate, LifecycleState
<1>2. ASSUME NEW c \in Calls, Start(c) \/ CallStep(c) \/ GiveUpWaiting(c)
      PROVE  /\ lifecycle' \in {lifecycle, lifecycle + 1}
             /\ attPc'[l] \in {attPc[l], "dialing"}
  BY <1>2 DEF CallStep, Start, ConnectCheck, ConnectWake, ConnectNew, StartConnectAttempt, StartAttempt, WireAcquire,
              SubscribeTable, UnsubscribeTable, SendUnsubscribe, RequestReturned, Rollback, GiveUpWaiting, connVars, attVars
<1>3. ASSUME NEW r \in Reqs, RequestStep(r) \/ Abandon(r)
      PROVE  lifecycle' = lifecycle /\ attPc'[l] = attPc[l]
  BY <1>3 DEF RequestStep, Register, Write, Answered, Abandon, connVars, attVars
<1>4. ASSUME NEW L \in Lifecycles, AttemptStep(L)
      PROVE  lifecycle' \in {lifecycle, lifecycle + 1} /\ (attPc'[l] = attPc[l] \/ attPc[l] # "none")
  <2>1. lifecycle' \in {lifecycle, lifecycle + 1}
    BY <1>4 DEF AttemptStep, Install, ConnectDialFails, ReconnectDialFails, BackoffElapsed, BackoffClosed, GiveUp,
              GiveUpCleanup, Snapshot, ReplayNext, ReplayReturned, ReplayDone, ReplayFailed, ReplayCleanup, connVars
  <2>2. CASE l # L
    <3>1. \/ attPc' = attPc
          \/ AttEnd(L)
          \/ \E w \in AttPcs : AttStep(L, w)
      BY <1>4 DEF AttemptStep, Install, ConnectDialFails, ReconnectDialFails, BackoffElapsed, BackoffClosed, GiveUp,
              GiveUpCleanup, Snapshot, ReplayNext, ReplayReturned, ReplayDone, ReplayFailed, ReplayCleanup, AttGoto, AttPcs
    <3> QED BY <2>1, <2>2, <3>1 DEF AttEnd, AttStep
  <2>3. CASE l = L
    <3>1. attPc[l] # "none"
      BY <1>4, <2>3 DEF AttemptStep, Install, ConnectDialFails, ReconnectDialFails, BackoffElapsed, BackoffClosed, GiveUp,
              GiveUpCleanup, Snapshot, ReplayNext, ReplayReturned, ReplayDone, ReplayFailed, ReplayCleanup
    <3> QED BY <2>1, <3>1
  <2> QED BY <2>2, <2>3
<1>5. ASSUME NEW L \in Lifecycles, PumpStep(L) \/ PumpExit(L) \/ LivenessFails(L)
      PROVE  /\ lifecycle' \in {lifecycle, lifecycle + 1}
             /\ attPc'[l] \in {attPc[l], "backoff"}
  BY <1>5 DEF PumpStep, PumpError, PumpFail, PumpCleanup, PumpExit, LivenessFails, StartConnectAttempt, Reconnect,
              StartAttempt, connVars, attVars
<1>6. Respond \/ Close \/ CloseTables \/ UNCHANGED vars => lifecycle' = lifecycle /\ attPc'[l] = attPc[l]
  BY DEF Respond, Close, CloseTables, connVars, attVars, vars
<1>7. lifecycle' \in {lifecycle, lifecycle + 1} /\ (attPc[l] = "none" => attPc'[l] \in {"none", "dialing", "backoff"})
  BY <1>2, <1>3, <1>4, <1>5, <1>6 DEF Next
<1>8. lifecycle' = l /\ lifecycle # l => l > lifecycle
  <2>1. PICK n \in Nat : n = lifecycle
    OBVIOUS
  <2> QED BY <1>7, <2>1
<1> QED BY <1>1, <1>7, <1>8

\* While the current lifecycle's replay runs, only it, Close and the loss of the
\* connection change what it relies on.
LEMMA ReplayStep ==
  ASSUME SubsInv, ReplayInv, [Next]_vars
  PROVE  ReplayInv'
<1> USE SubsBasics, ControlTypes
<1>1. SUFFICES ASSUME NEW l \in Lifecycles, attPc'[l] \in ReplayPcs, lifecycle' = l, state' # "closed"
               PROVE  state' = "connected" /\ replayInProgress'
  BY DEF ReplayInv
<1>2. state # "closed"
  BY <1>1, StaysClosed
<1>3. lifecycle = l /\ attPc[l] # "none"
  BY <1>1, NewLifecycle DEF ReplayPcs
<1>4. attPc[l] \in ReplayPcs => state = "connected" /\ replayInProgress
  BY <1>2, <1>3 DEF ReplayInv
<1>5. ASSUME NEW c \in Calls, Start(c) \/ CallStep(c) \/ GiveUpWaiting(c) PROVE state' = "connected" /\ replayInProgress'
  <2>1. state' = state /\ replayInProgress' = replayInProgress /\ attPc' = attPc
    BY <1>1, <1>3, <1>5 DEF CallStep, Start, ConnectCheck, ConnectWake, ConnectNew, StartConnectAttempt, WireAcquire,
              SubscribeTable, UnsubscribeTable, SendUnsubscribe, RequestReturned, Rollback, GiveUpWaiting, connVars, attVars
  <2> QED BY <1>1, <1>4, <2>1
<1>6. ASSUME NEW r \in Reqs, RequestStep(r) \/ Abandon(r) PROVE state' = "connected" /\ replayInProgress'
  BY <1>1, <1>4, <1>6 DEF RequestStep, Register, Write, Answered, Abandon, connVars, attVars
<1>7. ASSUME NEW L \in Lifecycles, AttemptStep(L), L # l PROVE state' = "connected" /\ replayInProgress'
  <2>1. attPc[L] # "dialing"
    BY <1>3, <1>7 DEF LifeInv, LifecycleGate, LifecycleState
  <2>2. state' = state /\ replayInProgress' = replayInProgress
    BY <1>3, <1>7, <2>1 DEF AttemptStep, Install, ConnectDialFails, ReconnectDialFails, BackoffElapsed, BackoffClosed, GiveUp,
              GiveUpCleanup, Snapshot, ReplayNext, ReplayReturned, ReplayDone, ReplayFailed, ReplayCleanup, connVars
  <2>3. attPc'[l] = attPc[l]
    <3>1. \/ attPc' = attPc
          \/ AttEnd(L)
          \/ \E w \in AttPcs : AttStep(L, w)
      BY <1>7 DEF AttemptStep, Install, ConnectDialFails, ReconnectDialFails, BackoffElapsed, BackoffClosed, GiveUp,
              GiveUpCleanup, Snapshot, ReplayNext, ReplayReturned, ReplayDone, ReplayFailed, ReplayCleanup, AttGoto, AttPcs
    <3> QED BY <1>7, <3>1 DEF AttEnd, AttStep
  <2> QED BY <1>1, <1>4, <2>2, <2>3
<1>8. ASSUME AttemptStep(l) PROVE state' = "connected" /\ replayInProgress'
  <2>1. CASE Install(l)
    BY <1>1, <2>1 DEF Install, AttEnd, AttStep, ReplayPcs
  <2>2. CASE Snapshot(l) \/ ReplayNext(l) \/ ReplayReturned(l)
    BY <1>4, <2>2 DEF Snapshot, ReplayNext, ReplayReturned, ReplayPcs, connVars
  <2>3. CASE ConnectDialFails(l) \/ ReconnectDialFails(l) \/ BackoffElapsed(l) \/ BackoffClosed(l) \/ GiveUp(l) \/ GiveUpCleanup(l)
    <3>1. attPc'[l] \notin ReplayPcs
      BY <2>3, ZenonT(30) DEF ConnectDialFails, ReconnectDialFails, BackoffElapsed, BackoffClosed, GiveUp, GiveUpCleanup,
                  AttGoto, AttEnd, AttStep, ReplayPcs
    <3> QED BY <1>1, <3>1
  <2>4. CASE ReplayDone(l) \/ ReplayFailed(l) \/ ReplayCleanup(l)
    <3>1. attPc'[l] \notin ReplayPcs
      BY <2>4 DEF ReplayDone, ReplayFailed, ReplayCleanup, AttGoto, AttEnd, AttStep, ReplayPcs
    <3> QED BY <1>1, <3>1
  <2> QED BY <1>8, <2>1, <2>2, <2>3, <2>4 DEF AttemptStep
<1>9. ASSUME NEW L \in Lifecycles, PumpStep(L) \/ PumpExit(L) \/ LivenessFails(L) PROVE state' = "connected" /\ replayInProgress'
  <2>1. CASE PumpFail(L)
    <3>0. lifecycle' # lifecycle + 1
      BY <1>1, <1>3, WsClientAssumption
    <3>1. PumpStale(L)
      BY <2>1, <3>0 DEF PumpFail, StartConnectAttempt
    <3>2. UNCHANGED <<state, replayInProgress, attPc>>
      BY <2>1, <3>1 DEF PumpFail, connVars, attVars
    <3> QED BY <1>1, <1>4, <3>2
  <2>2. CASE PumpCleanup(L)
    <3>1. state' = state /\ replayInProgress' = replayInProgress /\ attPc'[l] \in {attPc[l], "backoff"}
      BY <2>2 DEF PumpCleanup, Reconnect, StartAttempt, attVars
    <3> QED BY <1>1, <1>4, <3>1 DEF ReplayPcs
  <2>3. CASE PumpError(L) \/ PumpExit(L) \/ LivenessFails(L)
    BY <1>1, <1>4, <2>3 DEF PumpError, PumpExit, LivenessFails, connVars, attVars
  <2> QED BY <1>9, <2>1, <2>2, <2>3 DEF PumpStep
<1>10. Respond \/ Close \/ CloseTables \/ UNCHANGED vars => state' = "connected" /\ replayInProgress'
  <2>1. ~Close
    BY <1>1 DEF Close
  <2>2. Respond \/ CloseTables \/ UNCHANGED vars => UNCHANGED <<state, replayInProgress, attPc>>
    BY DEF Respond, CloseTables, connVars, attVars, vars
  <2> QED BY <1>1, <1>4, <2>1, <2>2
<1> QED BY <1>5, <1>6, <1>7, <1>8, <1>9, <1>10 DEF Next

LEMMA HonoursStep ==
  ASSUME SubsInv, Exclusive, ReplayInv, ReplayHonoursUnsubscribe, [Next]_vars, ControlInv'
  PROVE  ReplayHonoursUnsubscribe'
<1> USE SubsBasics, ControlTypes, WsClientAssumption
<1>1. SUFFICES ASSUME NEW l \in Lifecycles, attPc'[l] = "request", lifecycle' = l, ~Closed'
               PROVE  activeFeeds'[feed'[l]] # None
  BY DEF ReplayHonoursUnsubscribe
<1>2. ~Closed /\ lifecycle = l /\ attPc[l] # "none"
  BY <1>1, StaysClosed, NewLifecycle
<1>3. PICK f \in Feeds : f = feed'[l]
  BY <1>1 DEF ControlInv, AttControl
<1>4. Holds(l, f)' /\ l \notin Calls
  BY <1>1, <1>3 DEF Holds
<1>5. Holds(l, f) => activeFeeds[f] # None /\ conn # 0
  BY <1>2, <1>4 DEF Holds, ReplayHonoursUnsubscribe, ReplayInv, ReplayPcs, LifeInv, ConnectionOwned
<1>6. ASSUME NEW c \in Calls, Start(c) \/ CallStep(c) \/ GiveUpWaiting(c) PROVE activeFeeds'[f] # None
  <2>1. Holds(l, f) /\ ~Holds(c, f)
    <3>1. Holds(l, f)
      BY <1>4, <1>6, CallHolds
    <3> QED BY <1>2, <1>4, <3>1 DEF Exclusive
  <2> QED BY <1>5, <1>6, <2>1, CallKeepsFeeds
<1>7. ASSUME NEW L \in Lifecycles, AttemptStep(L) PROVE activeFeeds'[f] # None
  <2>1. CASE Holds(l, f)
    BY <1>5, <1>7, <2>1, ClearedUnconnected
  <2>2. CASE ~Holds(l, f)
    <3>1. PICK e \in todo[l] : ReplayNext(l) /\ e[1] = f /\ StillCurrent(e)
      BY <1>4, <1>7, <2>2, AttemptHolds
    <3>2. activeFeeds'[f] = e[2]
      BY <3>1 DEF ReplayNext, StillCurrent, subVars
    <3>3. e[2] \in Calls
      BY <3>1 DEF TypeOK, AttType
    <3> QED BY <3>2, <3>3
  <2> QED BY <2>1, <2>2
<1>8. ASSUME \/ \E q \in Reqs : RequestStep(q) \/ Abandon(q)
             \/ \E L \in Lifecycles : PumpStep(L) \/ PumpExit(L) \/ LivenessFails(L)
             \/ Respond \/ Close \/ CloseTables \/ UNCHANGED vars
      PROVE  activeFeeds'[f] # None
  BY <1>4, <1>5, <1>8, OtherHolds, ClearedUnconnected
<1> QED BY <1>3, <1>6, <1>7, <1>8 DEF Next

\* A snapshot names each feed once, and what was taken from it is not in it.
TodoInv ==
  \A l \in Lifecycles :
    /\ \A d, e \in todo[l] : d[1] = e[1] => d = e
    /\ attPc[l] = "request" => \A e \in todo[l] : e[1] # feed[l]

\* A frame on the wire comes from a request that wrote it, and that has not
\* begun again since.
FrameOk(m) ==
  IF m.req \in Calls
  THEN /\ m.feed = op[m.req].feed /\ m.verb = op[m.req].kind
       /\ \/ pc[m.req] = "request" /\ rq[m.req] \in {"await", "ok", "err"}
          \/ pc[m.req] \in {"rollback", "ok", "err"}
  ELSE /\ m.verb = "subscribe" /\ m.feed \in Feeds
       /\ attPc[m.req] \in {"replay", "request", "replayed", "failed", "cleanup", "ended"}
       /\ \A e \in todo[m.req] : e[1] # m.feed
       /\ feed[m.req] = m.feed => rq[m.req] \in {"await", "ok", "err"}

FrameInv == \A i \in DOMAIN wire : FrameOk(wire[i])

\* How an attempt's replay goes on.
LEMMA AttemptTodo ==
  ASSUME SubsInv, NEW L \in Lifecycles, AttemptStep(L)
  PROVE  /\ \A l \in Lifecycles : l # L => attPc'[l] = attPc[l] /\ todo'[l] = todo[l] /\ feed'[l] = feed[l] /\ rq'[l] = rq[l]
         /\ \/ /\ attPc[L] = "snapshot" /\ attPc'[L] = "replay" /\ todo'[L] = ActiveFrames
               /\ feed'[L] = feed[L] /\ rq'[L] = rq[L] /\ lifecycle = L
            \/ /\ attPc[L] = "replay" /\ attPc'[L] = "request" /\ rq'[L] = "send"
               /\ \E e \in todo[L] : todo'[L] = todo[L] \ {e} /\ feed'[L] = e[1]
            \/ /\ todo'[L] \subseteq todo[L] /\ attPc'[L] # "request"
               /\ feed'[L] \in {feed[L], None} /\ (rq'[L] = rq[L] \/ feed'[L] = None)
               /\ attPc[L] \in {"replay", "request", "replayed", "failed", "cleanup", "ended"}
                    => attPc'[L] \in {"replay", "request", "replayed", "failed", "cleanup", "ended"}
<1> USE SubsBasics, ControlTypes
<1>0. DOMAIN todo = Lifecycles /\ \A l \in Lifecycles : l \notin Calls
  BY DEF TypeOK, AttType
<1> USE <1>0
<1> DEFINE Others == \A l \in Lifecycles : l # L => attPc'[l] = attPc[l] /\ todo'[l] = todo[l] /\ feed'[l] = feed[l] /\ rq'[l] = rq[l]
           Fewer == /\ todo'[L] \subseteq todo[L] /\ attPc'[L] # "request"
                    /\ feed'[L] \in {feed[L], None} /\ (rq'[L] = rq[L] \/ feed'[L] = None)
                    /\ attPc[L] \in {"replay", "request", "replayed", "failed", "cleanup", "ended"}
                         => attPc'[L] \in {"replay", "request", "replayed", "failed", "cleanup", "ended"}
<1>1. CASE Install(L) \/ ConnectDialFails(L) \/ ReconnectDialFails(L)
  <2>1. Others
    BY <1>1 DEF Install, ConnectDialFails, ReconnectDialFails, AttGoto, AttStep, AttEnd, reqVars
  <2>2. Fewer
    BY <1>1 DEF Install, ConnectDialFails, ReconnectDialFails, AttGoto, AttStep, AttEnd, reqVars
  <2> QED BY <2>1, <2>2
<1>2. CASE BackoffElapsed(L) \/ BackoffClosed(L) \/ GiveUp(L) \/ GiveUpCleanup(L)
  <2>1. Others
    BY <1>2 DEF BackoffElapsed, BackoffClosed, GiveUp, GiveUpCleanup, AttGoto, AttStep, AttEnd, reqVars
  <2>2. Fewer
    BY <1>2 DEF BackoffElapsed, BackoffClosed, GiveUp, GiveUpCleanup, AttGoto, AttStep, AttEnd, reqVars
  <2> QED BY <2>1, <2>2
<1>3. CASE ReplayFailed(L) \/ ReplayCleanup(L)
  <2>1. Others
    BY <1>3 DEF ReplayFailed, ReplayCleanup, AttGoto, AttStep, AttEnd, reqVars
  <2>2. Fewer
    BY <1>3 DEF ReplayFailed, ReplayCleanup, AttGoto, AttStep, AttEnd, reqVars
  <2> QED BY <2>1, <2>2
<1>4. CASE ReplayDone(L)
  <2>0. rq' = rq \/ (ByCall(L) /\ \E w : rq' = [rq EXCEPT ![owner[L]] = w])
    BY <1>4 DEF ReplayDone, PastConnect
  <2>1. \A l \in Lifecycles : rq'[l] = rq[l]
    BY <2>0
  <2>2. Others
    BY <1>4, <2>1 DEF ReplayDone, AttStep, AttEnd
  <2>3. Fewer
    BY <1>4, <2>1 DEF ReplayDone, AttStep, AttEnd
  <2> QED BY <2>2, <2>3
<1>5. CASE ReplayReturned(L)
  <2>1. Others
    BY <1>5 DEF ReplayReturned, AttStep
  <2>2. Fewer
    BY <1>5 DEF ReplayReturned, AttStep
  <2> QED BY <2>1, <2>2
<1>6. CASE Snapshot(L)
  <2>1. Others
    BY <1>6 DEF Snapshot, AttGoto, AttStep, reqVars
  <2>2. CASE AttGoto(L, "failed") \/ AttGoto(L, "replayed")
    <3>1. Fewer
      BY <1>6, <2>2 DEF Snapshot, AttGoto, AttStep, reqVars
    <3> QED BY <2>1, <3>1
  <2>3. CASE AttStep(L, "replay") /\ lifecycle = L /\ todo' = [todo EXCEPT ![L] = ActiveFrames] /\ feed' = feed
    BY <1>6, <2>1, <2>3 DEF Snapshot, AttStep, reqVars
  <2> QED BY <1>6, <2>2, <2>3 DEF Snapshot
<1>7. CASE ReplayNext(L)
  <2>1. \/ (AttGoto(L, "failed") \/ AttGoto(L, "replayed")) /\ rq' = rq
        \/ \E e \in todo[L] :
             /\ todo' = [todo EXCEPT ![L] = @ \ {e}]
             /\ \/ /\ AttStep(L, "request") /\ feed' = [feed EXCEPT ![L] = e[1]]
                   /\ rq' = [rq EXCEPT ![L] = "send"]
                \/ UNCHANGED <<attPc, feed, rq>>
    BY <1>7 DEF ReplayNext
  <2>2. attPc[L] = "replay"
    BY <1>7 DEF ReplayNext
  <2>3. CASE (AttGoto(L, "failed") \/ AttGoto(L, "replayed")) /\ rq' = rq
    BY <2>2, <2>3 DEF AttGoto, AttStep
  <2>4. ASSUME NEW e \in todo[L], AttStep(L, "request"), feed' = [feed EXCEPT ![L] = e[1]],
               rq' = [rq EXCEPT ![L] = "send"], todo' = [todo EXCEPT ![L] = @ \ {e}]
        PROVE  /\ Others /\ attPc[L] = "replay" /\ attPc'[L] = "request" /\ rq'[L] = "send"
               /\ todo'[L] = todo[L] \ {e} /\ feed'[L] = e[1]
    BY <2>2, <2>4 DEF AttStep
  <2>5. ASSUME NEW e \in todo[L], UNCHANGED <<attPc, feed, rq>>, todo' = [todo EXCEPT ![L] = @ \ {e}]
        PROVE  Others /\ Fewer
    BY <2>2, <2>5
  <2> QED BY <2>1, <2>3, <2>4, <2>5
<1> QED BY <1>1, <1>2, <1>3, <1>4, <1>5, <1>6, <1>7 DEF AttemptStep

\* Nobody else touches a replay.
LEMMA OtherTodo ==
  ASSUME SubsInv, [Next]_vars, NEW l \in Lifecycles,
         ~AttemptStep(l)
  PROVE  /\ todo'[l] = todo[l] /\ feed'[l] = feed[l]
         /\ attPc'[l] # attPc[l] => attPc[l] = "none" /\ attPc'[l] \in {"dialing", "backoff"}
<1> USE SubsBasics, ControlTypes
<1>1. ASSUME NEW c \in Calls, Start(c) \/ CallStep(c) \/ GiveUpWaiting(c)
      PROVE  /\ todo' = todo /\ feed' = feed
             /\ attPc'[l] = attPc[l] \/ (l = lifecycle + 1 /\ attPc'[l] = "dialing")
  <2>1. UNCHANGED attVars \/ StartAttempt(lifecycle + 1, "dialing", c, 0)
    BY <1>1 DEF CallStep, Start, ConnectCheck, ConnectWake, ConnectNew, WireAcquire,
                SubscribeTable, UnsubscribeTable, SendUnsubscribe, RequestReturned, Rollback, GiveUpWaiting, attVars
  <2>2. PICK n \in Nat : n = lifecycle + 1
    OBVIOUS
  <2>3. UNCHANGED attVars \/ StartAttempt(n, "dialing", c, 0)
    BY <2>1, <2>2
  <2>4. todo' = todo /\ feed' = feed /\ (attPc'[l] = attPc[l] \/ (l = n /\ attPc'[l] = "dialing"))
    BY <2>3 DEF StartAttempt, attVars
  <2> QED BY <2>2, <2>4
<1>2. ASSUME NEW r \in Reqs, RequestStep(r) \/ Abandon(r) PROVE todo' = todo /\ feed' = feed /\ attPc' = attPc
  BY <1>2 DEF RequestStep, Register, Write, Answered, Abandon, attVars
<1>3. ASSUME NEW L \in Lifecycles, AttemptStep(L) PROVE todo'[l] = todo[l] /\ feed'[l] = feed[l] /\ attPc'[l] = attPc[l]
  BY <1>3, AttemptTodo
<1>4. ASSUME NEW L \in Lifecycles, PumpStep(L) \/ PumpExit(L) \/ LivenessFails(L)
      PROVE  /\ todo' = todo /\ feed' = feed
             /\ \/ attPc'[l] = attPc[l]
                \/ l = lifecycle + 1 /\ attPc'[l] = "backoff"
                \/ pump[L] = "cleanup" /\ l = L + 1 /\ attPc'[l] = "backoff"
  <2>1. \/ UNCHANGED attVars
        \/ StartAttempt(L + 1, "backoff", None, 1) /\ (lifecycle = L \/ pump[L] = "cleanup")
    BY <1>4 DEF PumpStep, PumpError, PumpFail, PumpStale, PumpCleanup, PumpExit, LivenessFails, Reconnect
  <2>2. PICK n \in Nat : n = L + 1
    BY WsClientAssumption
  <2>3. UNCHANGED attVars \/ (StartAttempt(n, "backoff", None, 1) /\ (lifecycle = L \/ pump[L] = "cleanup"))
    BY <2>1, <2>2
  <2>4. /\ todo' = todo /\ feed' = feed
        /\ attPc'[l] = attPc[l] \/ (l = n /\ attPc'[l] = "backoff" /\ (lifecycle = L \/ pump[L] = "cleanup"))
    BY <2>3 DEF StartAttempt, attVars
  <2> QED BY <2>2, <2>4
<1>5. Respond \/ Close \/ CloseTables \/ UNCHANGED vars => todo' = todo /\ feed' = feed /\ attPc' = attPc
  BY DEF Respond, Close, CloseTables, vars, attVars
<1>6. l = lifecycle + 1 => attPc[l] = "none"
  <2>1. PICK n \in Nat : n = lifecycle
    OBVIOUS
  <2> QED BY <2>1 DEF LifeInv, LifecycleGate, LifecycleState
<1>7. \A L \in Lifecycles : pump[L] = "cleanup" /\ l = L + 1 => attPc[l] = "none"
  BY DEF LifeInv, LifecycleGate, LifecycleState
<1>8. CASE \E c \in Calls : Start(c) \/ CallStep(c) \/ GiveUpWaiting(c)
  BY <1>1, <1>6, <1>8
<1>9. CASE \E L \in Lifecycles : PumpStep(L) \/ PumpExit(L) \/ LivenessFails(L)
  <2>1. PICK L \in Lifecycles : PumpStep(L) \/ PumpExit(L) \/ LivenessFails(L)
    BY <1>9
  <2> QED BY <1>4, <1>6, <1>7, <2>1
<1> QED BY <1>2, <1>3, <1>5, <1>8, <1>9 DEF Next

LEMMA TodoStep ==
  ASSUME SubsInv, TodoInv, [Next]_vars
  PROVE  TodoInv'
<1> USE SubsBasics, ControlTypes
<1>1. SUFFICES ASSUME NEW l \in Lifecycles
               PROVE  /\ \A d, e \in todo'[l] : d[1] = e[1] => d = e
                      /\ attPc'[l] = "request" => \A e \in todo'[l] : e[1] # feed'[l]
  BY DEF TodoInv
<1>2. CASE ~AttemptStep(l)
  BY <1>2, OtherTodo DEF TodoInv
<1>3. CASE AttemptStep(l)
  <2>1. CASE todo'[l] = ActiveFrames /\ attPc'[l] = "replay"
    BY <2>1 DEF ActiveFrames
  <2>2. ASSUME NEW e \in todo[l], todo'[l] = todo[l] \ {e}, feed'[l] = e[1]
        PROVE  /\ \A d, b \in todo'[l] : d[1] = b[1] => d = b
               /\ \A d \in todo'[l] : d[1] # feed'[l]
    BY <2>2 DEF TodoInv
  <2>3. CASE todo'[l] \subseteq todo[l] /\ attPc'[l] # "request"
    BY <2>3 DEF TodoInv
  <2> QED BY <1>3, <2>1, <2>2, <2>3, AttemptTodo
<1> QED BY <1>2, <1>3

\* What was true of a frame stays true of it.
LEMMA CallFrameKept ==
  ASSUME SubsInv, NEW m \in Frames, m.req \in Calls, FrameOk(m), [Next]_vars
  PROVE  FrameOk(m)'
<1> USE SubsBasics, ControlTypes
<1>1. PICK c \in Calls : c = m.req
  OBVIOUS
<1>2. /\ m.feed = op[c].feed /\ m.verb = op[c].kind
      /\ \/ pc[c] = "request" /\ rq[c] \in {"await", "ok", "err"}
         \/ pc[c] \in {"rollback", "ok", "err"}
  BY <1>1 DEF FrameOk
<1> DEFINE Kept == /\ op'[c] = op[c]
                   /\ \/ pc'[c] = "request" /\ rq'[c] \in {"await", "ok", "err"}
                      \/ pc'[c] \in {"rollback", "ok", "err"}
<1>3. ASSUME NEW d \in Calls, Start(d) \/ CallStep(d) \/ GiveUpWaiting(d) PROVE Kept
  <2>1. CASE d # c
    BY <1>2, <1>3, <2>1 DEF CallStep, Start, ConnectCheck, ConnectWake, ConnectNew, WireAcquire, SubscribeTable, PastConnect,
              UnsubscribeTable, Unsubscribe, SendUnsubscribe, RequestReturned, Rollback, GiveUpWaiting, reqVars
  <2>2. CASE d = c
    <3>1. RequestReturned(c) \/ Rollback(c)
      BY <1>2, <1>3, <2>2 DEF CallStep, Start, ConnectCheck, ConnectWake, ConnectNew, WireAcquire, SubscribeTable,
              UnsubscribeTable, SendUnsubscribe, GiveUpWaiting, Blocked
    <3> QED BY <1>2, <3>1 DEF RequestReturned, Rollback
  <2> QED BY <2>1, <2>2
<1>4. ASSUME NEW r \in Reqs, RequestStep(r) \/ Abandon(r) PROVE Kept
  <2>1. pc' = pc /\ op' = op
    BY <1>4 DEF RequestStep, Register, Write, Answered, Abandon, callVars
  <2>2. \/ rq'[c] = rq[c]
        \/ r = c /\ (Register(c) \/ Write(c))
        \/ rq[c] = "await" /\ rq'[c] \in {"ok", "err"}
    BY <1>4 DEF RequestStep, Register, Write, Answered, Abandon, EndRequest, TypeOK, ReqType
  <2>3. pc[c] = "request" => ~(Register(c) \/ Write(c))
    BY <1>2 DEF Register, Write
  <2> QED BY <1>2, <2>1, <2>2, <2>3
<1>5. ASSUME NEW L \in Lifecycles, AttemptStep(L) PROVE Kept
  <2>1. op'[c] = op[c] /\ pc'[c] = pc[c]
    BY <1>2, <1>5, OtherKept
  <2>2. rq'[c] = rq[c]
    <3>1. CASE ReplayDone(L)
      <4>1. rq' = rq \/ (ByCall(L) /\ owner[L] # c /\ \E w : rq' = [rq EXCEPT ![owner[L]] = w])
        BY <1>2, <3>1 DEF ReplayDone, PastConnect, ControlInv, AttControl
      <4> QED BY <4>1
    <3>2. CASE ~ReplayDone(L)
      <4>1. UNCHANGED rq \/ (\E w : rq' = [rq EXCEPT ![L] = w])
        BY <1>5, <3>2 DEF AttemptStep, Install, ConnectDialFails, ReconnectDialFails, BackoffElapsed, BackoffClosed, GiveUp,
              GiveUpCleanup, Snapshot, ReplayNext, ReplayReturned, ReplayFailed, ReplayCleanup, reqVars
      <4> QED BY <4>1
    <3> QED BY <3>1, <3>2
  <2> QED BY <1>2, <2>1, <2>2
<1>6. ASSUME \/ \E L \in Lifecycles : PumpStep(L) \/ PumpExit(L) \/ LivenessFails(L)
             \/ Respond \/ Close \/ CloseTables \/ UNCHANGED vars
      PROVE  Kept
  <2>1. UNCHANGED <<pc, op, rq>>
    BY <1>6 DEF PumpStep, PumpError, PumpFail, PumpCleanup, PumpExit, LivenessFails, FailPending, Respond, Close, CloseTables,
                callVars, reqVars, vars
  <2> QED BY <1>2, <2>1
<1>7. Kept
  BY <1>3, <1>4, <1>5, <1>6 DEF Next
<1> QED BY <1>1, <1>2, <1>7 DEF FrameOk

LEMMA ReplayFrameKept ==
  ASSUME SubsInv, NEW m \in Frames, m.req \in Lifecycles, FrameOk(m), [Next]_vars
  PROVE  FrameOk(m)'
<1> USE SubsBasics, ControlTypes, WsClientAssumption
<1>1. PICK l \in Lifecycles : l = m.req /\ l \notin Calls
  OBVIOUS
<1>2. /\ m.verb = "subscribe" /\ m.feed \in Feeds
      /\ attPc[l] \in {"replay", "request", "replayed", "failed", "cleanup", "ended"}
      /\ \A e \in todo[l] : e[1] # m.feed
      /\ feed[l] = m.feed => rq[l] \in {"await", "ok", "err"}
  BY <1>1 DEF FrameOk
<1> DEFINE Kept == /\ attPc'[l] \in {"replay", "request", "replayed", "failed", "cleanup", "ended"}
                   /\ \A e \in todo'[l] : e[1] # m.feed
                   /\ feed'[l] = m.feed => rq'[l] \in {"await", "ok", "err"}
<1>3. ASSUME AttemptStep(l) PROVE Kept
  <2>1. ASSUME NEW e \in todo[l], todo'[l] = todo[l] \ {e}, feed'[l] = e[1], attPc'[l] = "request" PROVE Kept
    BY <1>2, <2>1
  <2>2. CASE /\ todo'[l] \subseteq todo[l]
             /\ feed'[l] \in {feed[l], None} /\ (rq'[l] = rq[l] \/ feed'[l] = None)
             /\ attPc'[l] \in {"replay", "request", "replayed", "failed", "cleanup", "ended"}
    <3>1. \A e \in todo'[l] : e[1] # m.feed
      BY <1>2, <2>2
    <3>2. m.feed # None
      BY <1>2
    <3>3. feed'[l] = m.feed => rq'[l] \in {"await", "ok", "err"}
      BY <1>2, <2>2, <3>2
    <3> QED BY <2>2, <3>1, <3>3
  <2>3. attPc[l] # "snapshot"
    BY <1>2
  <2>4. CASE /\ attPc[l] = "replay" /\ attPc'[l] = "request" /\ rq'[l] = "send"
             /\ \E e \in todo[l] : todo'[l] = todo[l] \ {e} /\ feed'[l] = e[1]
    BY <2>1, <2>4
  <2>5. CASE /\ todo'[l] \subseteq todo[l] /\ attPc'[l] # "request"
             /\ feed'[l] \in {feed[l], None} /\ (rq'[l] = rq[l] \/ feed'[l] = None)
             /\ attPc[l] \in {"replay", "request", "replayed", "failed", "cleanup", "ended"}
                    => attPc'[l] \in {"replay", "request", "replayed", "failed", "cleanup", "ended"}
    BY <1>2, <2>2, <2>5
  <2> QED BY <1>3, <2>3, <2>4, <2>5, AttemptTodo
<1>4. ASSUME ~AttemptStep(l) PROVE Kept
  <2>1. todo'[l] = todo[l] /\ feed'[l] = feed[l] /\ attPc'[l] = attPc[l]
    BY <1>2, <1>4, OtherTodo
  <2>2. feed[l] = m.feed => (rq[l] \in {"await", "ok", "err"} => rq'[l] \in {"await", "ok", "err"})
    <3>1. ASSUME NEW d \in Calls, Start(d) \/ CallStep(d) \/ GiveUpWaiting(d) PROVE rq'[l] = rq[l]
      BY <1>1, <3>1 DEF CallStep, Start, ConnectCheck, ConnectWake, ConnectNew, WireAcquire, SubscribeTable, PastConnect,
              UnsubscribeTable, Unsubscribe, SendUnsubscribe, RequestReturned, Rollback, GiveUpWaiting, reqVars
    <3>2. ASSUME NEW r \in Reqs, RequestStep(r) \/ Abandon(r), rq[l] \in {"await", "ok", "err"}
          PROVE  rq'[l] \in {"await", "ok", "err"}
      <4>1. CASE Register(r) \/ Write(r)
        <5>1. rq[r] \in {"send", "write"} /\ \E w : rq' = [rq EXCEPT ![r] = w]
          BY <4>1 DEF Register, Write, EndRequest
        <5> QED BY <3>2, <5>1
      <4>2. CASE Answered(r) \/ Abandon(r)
        <5>1. \E w \in {"ok", "err"} : rq' = [rq EXCEPT ![r] = w]
          BY <4>2 DEF Answered, Abandon, EndRequest, TypeOK, ReqType
        <5> QED BY <3>2, <5>1
      <4> QED BY <3>2, <4>1, <4>2 DEF RequestStep
    <3>3. ASSUME NEW L \in Lifecycles, AttemptStep(L) PROVE rq'[l] = rq[l]
      BY <1>4, <3>3, AttemptTodo
    <3>4. ASSUME \/ \E L \in Lifecycles : PumpStep(L) \/ PumpExit(L) \/ LivenessFails(L)
                 \/ Respond \/ Close \/ CloseTables \/ UNCHANGED vars
          PROVE  rq'[l] = rq[l]
      BY <3>4 DEF PumpStep, PumpError, PumpFail, PumpCleanup, PumpExit, LivenessFails, FailPending, Respond, Close, CloseTables,
                  reqVars, vars
    <3> QED BY <3>1, <3>2, <3>3, <3>4 DEF Next
  <2> QED BY <1>2, <2>1, <2>2
<1>5. Kept
  BY <1>3, <1>4
<1> QED BY <1>1, <1>2, <1>5 DEF FrameOk

LEMMA FrameStep ==
  ASSUME SubsInv, TodoInv, FrameInv, [Next]_vars
  PROVE  FrameInv'
<1> USE SubsBasics, ControlTypes, WsClientAssumption
<1>1. ASSUME NEW m \in Frames, FrameOk(m) PROVE FrameOk(m)'
  BY <1>1, CallFrameKept, ReplayFrameKept DEF Frames
<1>2. \A i \in DOMAIN wire : wire[i] \in Frames /\ FrameOk(wire[i])
  BY DEF FrameInv
<1>3. CASE wire' = wire
  BY <1>1, <1>2, <1>3 DEF FrameInv
<1>4. CASE wire' = <<>>
  BY <1>4 DEF FrameInv
<1>5. ASSUME NEW r \in Reqs, Write(r), wire' = Append(wire, Frame(r)), WriteTarget(r) \in sockets
      PROVE  FrameInv'
  <2>1. rq[r] = "write" /\ rq'[r] = "await" /\ UNCHANGED <<pc, op, attPc, feed, todo>>
    BY <1>5 DEF Write, callVars, attVars, EndRequest
  <2>2. PICK m : m = Frame(r)
    OBVIOUS
  <2>3. CASE r \in Calls
    <3>1. m.req = r /\ m.feed = op[r].feed /\ m.verb = op[r].kind
      BY <2>2, <2>3 DEF Frame
    <3>2. pc[r] = "request"
      BY <2>1, <2>3 DEF ControlInv, CallControl
    <3>3. FrameOk(m)'
      BY <2>1, <2>3, <3>1, <3>2 DEF FrameOk
    <3> QED BY <1>1, <1>2, <1>5, <2>2, <3>3, WireAppended DEF FrameInv
  <2>4. CASE r \in Lifecycles /\ r \notin Calls
    <3>1. m.req = r /\ m.feed = feed[r] /\ m.verb = "subscribe"
      BY <2>2, <2>4 DEF Frame
    <3>2. attPc[r] = "request" /\ feed[r] \in Feeds
      BY <2>1, <2>4 DEF ControlInv, AttControl
    <3>3. \A e \in todo[r] : e[1] # feed[r]
      BY <2>4, <3>2 DEF TodoInv
    <3>4. FrameOk(m)'
      BY <2>1, <2>4, <3>1, <3>2, <3>3 DEF FrameOk
    <3> QED BY <1>1, <1>2, <1>5, <2>2, <3>4, WireAppended DEF FrameInv
  <2> QED BY <2>3, <2>4
<1>6. CASE Respond
  <2>1. wire # <<>> /\ wire' = Tail(wire)
    BY <1>6 DEF Respond
  <2> QED BY <1>1, <1>2, <2>1, WireTaken DEF FrameInv
<1> QED BY <1>3, <1>4, <1>5, <1>6, WireStep

-----------------------------------------------------------------------------
(***************************************************************************)
(* Every active feed is streamed, or somebody is seeing to it.             *)
(***************************************************************************)

\* The exchange streams f, and nothing on its way to it says otherwise.
Settled(f) ==
  /\ f \in server
  /\ \A i \in DOMAIN wire : wire[i].feed = f => wire[i].verb = "subscribe"

\* The replay of the current connection has f to do, or will drop the
\* connection.
Unfinished(f) ==
  \/ attPc[lifecycle] \in {"snapshot", "failed"}
  \/ /\ attPc[lifecycle] \in {"replay", "request"}
     /\ failed[lifecycle] \/ <<f, activeFeeds[f]>> \in todo[lifecycle]

\* No UNSUBSCRIBE of f follows the frame of r on the wire.
Latest(r, f) ==
  \A i, j \in DOMAIN wire :
    i < j /\ wire[i].req = r /\ wire[i].feed = f /\ wire[j].feed = f => wire[j].verb = "subscribe"

\* Request r subscribes to f and has not heard that it succeeded.
Works(r, f) ==
  /\ Holds(r, f) /\ reply[r] # "ok" /\ rq[r] # "ok"
  /\ r \in Calls => pc[r] # "table" /\ op[r].kind = "subscribe"
  /\ Latest(r, f)

Working(f) == \E r \in Calls \cup {lifecycle} : Works(r, f)

Streamed ==
  state = "connected" =>
    \A f \in Feeds : activeFeeds[f] # None => Settled(f) \/ Unfinished(f) \/ Working(f)

StreamInv ==
  /\ SubsInv /\ Exclusive /\ HolderInv /\ ReplayInv /\ ReplayHonoursUnsubscribe
  /\ TodoInv /\ FrameInv /\ Streamed

\* A connected client is in the lifecycle of its connection.
LEMMA Connected ==
  ASSUME SubsInv, state = "connected"
  PROVE  /\ lifecycle \in Lifecycles /\ conn = lifecycle /\ conn # 0
         /\ attPc[lifecycle] \notin {"dialing", "backoff", "giveUp", "failSubscriptions", "cleanup"}
         /\ \A l \in Lifecycles : attPc[l] # "dialing"
<1>1. conn # 0 /\ conn = lifecycle /\ conn \in 0 .. MaxLifecycle
  BY SubsBasics DEF LifeInv, ConnectionOwned, TypeOK, ConnType
<1>2. lifecycle \in Lifecycles
  BY <1>1, WsClientAssumption
<1>3. \A l \in Lifecycles : LifecycleState(l)
  BY SubsBasics DEF LifeInv, LifecycleGate
<1>4. lifecycle # lifecycle + 1
  BY <1>2, WsClientAssumption
<1> QED BY <1>1, <1>2, <1>3, <1>4 DEF LifecycleState

\* A client that is connected after a step was connected, in the same
\* lifecycle, or has just installed its connection.
LEMMA ConnectedStep ==
  ASSUME SubsInv, [Next]_vars, state' = "connected"
  PROVE  \/ state = "connected" /\ lifecycle' = lifecycle
         \/ \E L \in Lifecycles : Install(L) /\ lifecycle' = L /\ attPc'[L] = "snapshot"
<1> USE SubsBasics, ControlTypes
<1>1. ASSUME NEW c \in Calls, Start(c) \/ CallStep(c) \/ GiveUpWaiting(c) PROVE state = "connected" /\ lifecycle' = lifecycle
  BY <1>1 DEF CallStep, Start, ConnectCheck, ConnectWake, ConnectNew, WireAcquire, SubscribeTable,
              UnsubscribeTable, SendUnsubscribe, RequestReturned, Rollback, GiveUpWaiting, connVars
<1>2. ASSUME NEW r \in Reqs, RequestStep(r) \/ Abandon(r) PROVE state = "connected" /\ lifecycle' = lifecycle
  BY <1>2 DEF RequestStep, Register, Write, Answered, Abandon, connVars
<1>3. ASSUME NEW L \in Lifecycles, AttemptStep(L), ~Install(L) PROVE state = "connected" /\ lifecycle' = lifecycle
  BY <1>3 DEF AttemptStep, ConnectDialFails, ReconnectDialFails, BackoffElapsed, BackoffClosed, GiveUp,
              GiveUpCleanup, Snapshot, ReplayNext, ReplayReturned, ReplayDone, ReplayFailed, ReplayCleanup, connVars
<1>4. ASSUME NEW L \in Lifecycles, Install(L)
      PROVE  \/ state = "connected" /\ lifecycle' = lifecycle
             \/ lifecycle' = L /\ attPc'[L] = "snapshot"
  <2>1. lifecycle = L
    BY <1>4 DEF Install, LifeInv, LifecycleGate, LifecycleState
  <2> QED BY <1>4, <2>1 DEF Install, AttGoto, AttStep
<1>5. ASSUME NEW L \in Lifecycles, PumpStep(L) \/ PumpExit(L) \/ LivenessFails(L)
      PROVE  state = "connected" /\ lifecycle' = lifecycle
  BY <1>5 DEF PumpStep, PumpError, PumpFail, PumpCleanup, PumpExit, LivenessFails, connVars
<1>6. Respond \/ Close \/ CloseTables \/ UNCHANGED vars => state = "connected" /\ lifecycle' = lifecycle
  BY DEF Respond, Close, CloseTables, connVars, vars
<1> QED BY <1>1, <1>2, <1>3, <1>4, <1>5, <1>6 DEF Next

\* A step that leaves the wire, the feed and the replay alone, and whoever
\* works on the feed.
LEMMA StreamKept ==
  ASSUME SubsInv, Streamed, state = "connected", lifecycle' = lifecycle, NEW f \in Feeds,
         activeFeeds[f] # None, activeFeeds'[f] = activeFeeds[f], wire' = wire, server' = server,
         attPc'[lifecycle] = attPc[lifecycle], todo'[lifecycle] = todo[lifecycle],
         failed'[lifecycle] = failed[lifecycle],
         \A r \in Calls \cup {lifecycle} : Works(r, f) => Works(r, f)'
  PROVE  Settled(f)' \/ Unfinished(f)' \/ Working(f)'
<1>1. Settled(f) => Settled(f)'
  BY DEF Settled
<1>2. Unfinished(f) => Unfinished(f)'
  BY DEF Unfinished
<1>3. Working(f) => Working(f)'
  BY DEF Working
<1> QED BY <1>1, <1>2, <1>3 DEF Streamed

\* Whoever works on a feed goes on while its own variables and the wire stay.
LEMMA WorksKept ==
  ASSUME NEW f, wire' = wire
  PROVE  /\ \A c \in Calls : /\ pc'[c] = pc[c] /\ op'[c] = op[c] /\ rq'[c] = rq[c] /\ reply'[c] = reply[c]
                             => (Works(c, f) => Works(c, f)')
         /\ \A l \in Lifecycles \ Calls : /\ attPc'[l] = attPc[l] /\ feed'[l] = feed[l] /\ rq'[l] = rq[l] /\ reply'[l] = reply[l]
                             => (Works(l, f) => Works(l, f)')
<1>1. \A r : Latest(r, f) => Latest(r, f)'
  BY DEF Latest
<1> QED BY <1>1 DEF Works, Holds

LEMMA CallStreams ==
  ASSUME StreamInv, NEW c \in Calls, Start(c) \/ CallStep(c) \/ GiveUpWaiting(c), state' = "connected",
         NEW f \in Feeds, activeFeeds'[f] # None
  PROVE  Settled(f)' \/ Unfinished(f)' \/ Working(f)'
<1>0. SubsInv /\ Exclusive /\ HolderInv /\ FrameInv /\ Streamed
  BY DEF StreamInv
<1> USE SubsBasics, SubsTypes, ControlTypes, WsClientAssumption, <1>0
<1>1. /\ state = "connected" /\ lifecycle' = lifecycle /\ UNCHANGED <<wire, server, attPc, todo, feed, failed, reply>>
      /\ \A d \in Calls : d # c => pc'[d] = pc[d] /\ op'[d] = op[d]
      /\ \A r \in Reqs : r # c => rq'[r] = rq[r]
  <2>1. state = "connected" /\ lifecycle' = lifecycle /\ UNCHANGED <<wire, server, attPc, todo, feed, failed, reply>>
    BY DEF CallStep, Start, ConnectCheck, ConnectWake, ConnectNew, WireAcquire, SubscribeTable,
              UnsubscribeTable, SendUnsubscribe, RequestReturned, Rollback, GiveUpWaiting, connVars, attVars, netVars, reqVars
  <2>2. \A d \in Calls : d # c => pc'[d] = pc[d] /\ op'[d] = op[d]
    BY DEF CallStep, Start, ConnectCheck, ConnectWake, ConnectNew, WireAcquire, SubscribeTable, PastConnect,
              UnsubscribeTable, Unsubscribe, SendUnsubscribe, RequestReturned, Rollback, GiveUpWaiting
  <2>3. \A r \in Reqs : r # c => rq'[r] = rq[r]
    BY DEF CallStep, Start, ConnectCheck, ConnectWake, ConnectNew, WireAcquire, SubscribeTable, PastConnect,
              UnsubscribeTable, Unsubscribe, SendUnsubscribe, RequestReturned, Rollback, GiveUpWaiting, reqVars
  <2> QED BY <2>1, <2>2, <2>3
<1>2. ~Closed /\ lifecycle \in Lifecycles /\ lifecycle \notin Calls
  BY <1>1, Connected
<1>3. \A r \in Calls \cup {lifecycle} : r # c /\ Works(r, f) => Works(r, f)'
  <2>1. ASSUME NEW r \in Calls, r # c, Works(r, f) PROVE Works(r, f)'
    <3>1. pc'[r] = pc[r] /\ op'[r] = op[r] /\ rq'[r] = rq[r] /\ reply'[r] = reply[r] /\ wire' = wire
      BY <1>1, <2>1 DEF Reqs
    <3> QED BY <2>1, <3>1, WorksKept
  <2>2. ASSUME NEW r \in Lifecycles \ Calls, r = lifecycle, Works(r, f) PROVE Works(r, f)'
    <3>1. attPc'[r] = attPc[r] /\ feed'[r] = feed[r] /\ rq'[r] = rq[r] /\ reply'[r] = reply[r] /\ wire' = wire
      BY <1>1, <1>2, <2>2 DEF Reqs
    <3> QED BY <2>2, <3>1, WorksKept
  <2> QED BY <1>2, <2>1, <2>2
<1>4. ASSUME activeFeeds'[f] = activeFeeds[f], Works(c, f) => Works(c, f)'
      PROVE  Settled(f)' \/ Unfinished(f)' \/ Working(f)'
  BY <1>1, <1>3, <1>4, StreamKept
<1>5. CASE SubscribeTable(c)
  <2>1. ~Works(c, f) /\ pc[c] = "table"
    BY <1>5 DEF SubscribeTable, Works
  <2>2. CASE activeFeeds'[f] = activeFeeds[f]
    BY <1>4, <2>1, <2>2
  <2>3. CASE activeFeeds'[f] # activeFeeds[f]
    <3>1. /\ op[c].feed = f /\ op[c].kind = "subscribe" /\ op' = op /\ pc'[c] = "request" /\ rq'[c] = "send"
      <4>1. op[c].feed = f
        BY <1>5, <2>3, CallKeepsFeeds DEF Holds
      <4> QED BY <1>5, <2>3, <4>1 DEF SubscribeTable, subVars
    <3>2. reply[c] = "none"
      BY <2>1 DEF ControlInv, CallControl, ReqControl
    <3>3. Latest(c, f)'
      <4>1. \A i \in DOMAIN wire : wire[i].req # c
        BY <2>1 DEF FrameInv, FrameOk
      <4> QED BY <1>1, <4>1 DEF Latest
    <3>4. Works(c, f)'
      BY <1>1, <3>1, <3>2, <3>3 DEF Works, Holds
    <3> QED BY <3>4 DEF Working
  <2> QED BY <2>2, <2>3
<1>6. CASE UnsubscribeTable(c)
  <2>1. ~Works(c, f)
    BY <1>6 DEF UnsubscribeTable, Works
  <2>2. activeFeeds'[f] = activeFeeds[f]
    <3>1. activeFeeds'[f] = None \/ activeFeeds'[f] = activeFeeds[f]
      BY <1>6 DEF UnsubscribeTable, Unsubscribe, subVars
    <3> QED BY <3>1
  <2> QED BY <1>4, <2>1, <2>2
<1>10. CASE SendUnsubscribe(c)
  <2>1. activeFeeds' = activeFeeds /\ ~Works(c, f)
    BY <1>10 DEF SendUnsubscribe, Works, subVars, ControlInv, CallControl
  <2> QED BY <1>4, <2>1
<1>7. CASE RequestReturned(c)
  <2>1. activeFeeds' = activeFeeds
    BY <1>7 DEF RequestReturned, subVars
  <2>2. ASSUME Works(c, f) PROVE Works(c, f)'
    <3>1. /\ op' = op /\ pc'[c] = "rollback" /\ rq'[c] = "idle"
      BY <1>7, <2>2 DEF RequestReturned, Works
    <3>2. Latest(c, f)'
      BY <1>1, <2>2 DEF Works, Latest
    <3> QED BY <1>1, <2>2, <3>1, <3>2 DEF Works, Holds
  <2> QED BY <1>4, <2>1, <2>2
<1>8. CASE Rollback(c)
  <2>1. op[c].feed # f
    <3>1. SUFFICES ASSUME op[c].feed = f PROVE FALSE
      OBVIOUS
    <3>2. op[c].kind = "subscribe" /\ pc[c] = "rollback"
      BY <1>8 DEF Rollback, ControlInv, CallControl
    <3>3. table[f] \subseteq {c}
      BY <1>2, <3>1, <3>2 DEF HolderInv
    <3>4. activeFeeds'[f] = None
      <4>1. CASE table[f] = {c}
        BY <1>8, <3>1, <4>1 DEF Rollback
      <4>2. CASE table[f] = {}
        BY <1>8, <3>1, <4>2 DEF Rollback, ActiveMatchesTable
      <4> QED BY <3>3, <4>1, <4>2
    <3> QED BY <3>4
  <2>2. ~Works(c, f) /\ activeFeeds'[f] = activeFeeds[f]
    BY <1>8, <2>1 DEF Works, Holds, Rollback
  <2> QED BY <1>4, <2>2
<1>9. CASE ~(SubscribeTable(c) \/ UnsubscribeTable(c) \/ SendUnsubscribe(c) \/ RequestReturned(c) \/ Rollback(c))
  <2>1. activeFeeds' = activeFeeds
    BY <1>9 DEF CallStep, Start, ConnectCheck, ConnectWake, ConnectNew, WireAcquire, GiveUpWaiting, subVars
  <2>2. ~Works(c, f)
    BY <1>9 DEF CallStep, Start, ConnectCheck, ConnectWake, ConnectNew, WireAcquire, GiveUpWaiting, Blocked, Works, Holds
  <2> QED BY <1>4, <2>1, <2>2
<1> QED BY <1>5, <1>6, <1>7, <1>8, <1>9, <1>10

LEMMA RequestStreams ==
  ASSUME StreamInv, NEW q \in Reqs, RequestStep(q) \/ Abandon(q), state' = "connected",
         NEW f \in Feeds, activeFeeds'[f] # None
  PROVE  Settled(f)' \/ Unfinished(f)' \/ Working(f)'
<1>0. SubsInv /\ Exclusive /\ HolderInv /\ Streamed
  BY DEF StreamInv
<1> USE SubsBasics, ControlTypes, WsClientAssumption, <1>0
<1>1. /\ state = "connected" /\ lifecycle' = lifecycle
      /\ UNCHANGED <<server, attPc, todo, feed, failed, pc, op, activeFeeds, table>>
  BY DEF RequestStep, Register, Write, Answered, Abandon, connVars, subVars, attVars, callVars, netVars
<1>2. \A r \in Reqs : reply[r] # "ok" /\ rq[r] # "ok" => reply'[r] # "ok" /\ rq'[r] # "ok"
  BY DEF RequestStep, Register, Write, Answered, Abandon, EndRequest, TypeOK, ReqType
<1>3. lifecycle \in Lifecycles
  BY <1>1, Connected
<1>4. \/ wire' = wire
      \/ Write(q) /\ wire' = Append(wire, Frame(q))
  BY DEF RequestStep, Register, Write, Answered, Abandon, netVars
<1>5. \A r \in Calls \cup {lifecycle} : Works(r, f) /\ Latest(r, f)' => Works(r, f)'
  BY <1>1, <1>2, <1>3 DEF Works, Holds
<1>6. CASE wire' = wire
  <2>1. \A r \in Calls \cup {lifecycle} : Works(r, f) => Works(r, f)'
    BY <1>5, <1>6 DEF Works, Latest
  <2> QED BY <1>1, <1>6, <2>1, StreamKept
<1>7. CASE Write(q) /\ wire' = Append(wire, Frame(q))
  <2>1. PICK m : m = Frame(q)
    OBVIOUS
  <2>2. m.feed = f => m.verb = "subscribe"
    <3>1. CASE q \in Calls
      <4>1. pc[q] = "request"
        BY <1>7, <3>1 DEF Write, ControlInv, CallControl
      <4>2. op[q].feed = f => op[q].kind # "request" /\ op[q].kind # "none"
        BY <3>1, <4>1 DEF ControlInv, CallControl
      <4>3. op[q].feed = f => op[q].kind \notin {"unsubscribe", "leave"}
        BY <1>1, <3>1, <4>1 DEF HolderInv
      <4>4. op[q].kind \in OpKinds
        BY <3>1 DEF TypeOK, CallType
      <4> QED BY <2>1, <3>1, <4>2, <4>3, <4>4 DEF Frame, OpKinds
    <3>2. CASE q \notin Calls
      BY <2>1, <3>2 DEF Frame
    <3> QED BY <3>1, <3>2
  <2>3. \A i \in DOMAIN wire' : \/ i \in DOMAIN wire /\ wire'[i] = wire[i]
                                \/ i = Len(wire) + 1 /\ wire'[i] = m
    BY <1>7, <2>1, WireAppended
  <2>4. Settled(f) => Settled(f)'
    BY <1>1, <2>2, <2>3 DEF Settled
  <2>5. Unfinished(f) => Unfinished(f)'
    BY <1>1 DEF Unfinished
  <2>6. \A r \in Calls \cup {lifecycle} : Works(r, f) => Latest(r, f)'
    <3>1. SUFFICES ASSUME NEW r \in Calls \cup {lifecycle}, Works(r, f), NEW i \in DOMAIN wire', NEW j \in DOMAIN wire', i < j,
                          wire'[i].req = r, wire'[i].feed = f, wire'[j].feed = f
                   PROVE  wire'[j].verb = "subscribe"
      BY DEF Latest
    <3>2. CASE j \in DOMAIN wire /\ wire'[j] = wire[j]
      <4>1. i \in DOMAIN wire /\ wire'[i] = wire[i]
        <5>1. j <= Len(wire) /\ i < j /\ Len(wire) \in Nat /\ i \in Nat /\ j \in Nat
          BY <1>7, <3>1, <3>2
        <5>2. i # Len(wire) + 1
          BY <5>1
        <5> QED BY <2>3, <5>2
      <4> QED BY <3>1, <3>2, <4>1 DEF Works, Latest
    <3>3. CASE wire'[j] = m
      BY <2>2, <3>1, <3>3
    <3> QED BY <2>3, <3>2, <3>3
  <2>7. Working(f) => Working(f)'
    BY <1>1, <1>5, <2>6 DEF Working
  <2> QED BY <1>1, <2>4, <2>5, <2>7 DEF Streamed
<1> QED BY <1>4, <1>6, <1>7

LEMMA RespondStreams ==
  ASSUME StreamInv, Respond, state' = "connected", NEW f \in Feeds, activeFeeds'[f] # None
  PROVE  Settled(f)' \/ Unfinished(f)' \/ Working(f)'
<1>0. SubsInv /\ FrameInv /\ Streamed
  BY DEF StreamInv
<1> USE SubsBasics, ControlTypes, WsClientAssumption, <1>0
<1>1. /\ state = "connected" /\ lifecycle' = lifecycle
      /\ UNCHANGED <<attPc, todo, feed, failed, pc, op, rq, activeFeeds, table>>
      /\ wire # <<>> /\ wire' = Tail(wire)
  BY DEF Respond, connVars, subVars, attVars, callVars
<1>2. lifecycle \in Lifecycles
  BY <1>1, Connected
<1>3. PICK m \in Frames : m = wire[1] /\ m = Head(wire)
  BY <1>1, WireTaken
<1>4. PICK res \in {"ok", "refused", "malformed"} :
        /\ server' = CASE res = "refused" \/ m.verb = "request" -> server
                       [] res # "refused" /\ m.verb = "subscribe" -> server \cup {m.feed}
                       [] OTHER -> server \ {m.feed}
        /\ reply' = IF Correlated(m)
                    THEN [reply EXCEPT ![m.req] = IF res = "ok" THEN "ok" ELSE "err"] ELSE reply
  BY <1>3 DEF Respond
<1>5. \A i \in DOMAIN wire' : i + 1 \in DOMAIN wire /\ i + 1 > 1 /\ wire'[i] = wire[i + 1]
  BY <1>1, WireTaken
<1>6. ASSUME Settled(f) PROVE Settled(f)'
  <2>1. m.feed = f => m.verb = "subscribe"
    BY <1>1, <1>3, <1>6, WireTaken DEF Settled
  <2>2. f \in server'
    BY <1>4, <1>6, <2>1 DEF Settled
  <2> QED BY <1>5, <1>6, <2>2 DEF Settled
<1>7. ASSUME Unfinished(f) PROVE Unfinished(f)'
  BY <1>1, <1>7 DEF Unfinished
<1>8. ASSUME NEW r \in Calls \cup {lifecycle}, Works(r, f) PROVE Settled(f)' \/ Works(r, f)'
  <2>1. Latest(r, f)'
    <3>1. SUFFICES ASSUME NEW i \in DOMAIN wire', NEW j \in DOMAIN wire', i < j,
                          wire'[i].req = r, wire'[i].feed = f, wire'[j].feed = f
                   PROVE  wire'[j].verb = "subscribe"
      BY DEF Latest
    <3>2. i \in Nat /\ j \in Nat /\ i + 1 < j + 1
      <4>1. DOMAIN wire' = 1 .. Len(wire')
        BY <1>1
      <4>2. Len(wire') \in Nat
        BY <1>1
      <4> QED BY <3>1, <4>1, <4>2
    <3> QED BY <1>5, <1>8, <3>1, <3>2 DEF Works, Latest
  <2>2. CASE reply'[r] # "ok"
    BY <1>1, <1>2, <1>8, <2>1, <2>2 DEF Works, Holds
  <2>3. CASE reply'[r] = "ok"
    <3>1. Correlated(m) /\ m.req = r /\ res = "ok"
      BY <1>4, <1>8, <2>3 DEF Works
    <3>2. FrameOk(m) /\ 1 \in DOMAIN wire
      BY <1>1, <1>3, WireTaken DEF FrameInv
    <3>3. m.feed = f /\ m.verb = "subscribe"
      <4>1. CASE r \in Calls
        BY <1>8, <3>1, <3>2, <4>1 DEF FrameOk, Works, Holds
      <4>2. CASE r \notin Calls
        BY <1>2, <1>8, <3>1, <3>2, <4>2 DEF FrameOk, Works, Holds, Correlated
      <4> QED BY <4>1, <4>2
    <3>4. f \in server'
      BY <1>4, <3>1, <3>3
    <3>5. \A i \in DOMAIN wire' : wire'[i].feed = f => wire'[i].verb = "subscribe"
      <4>1. ASSUME NEW j \in DOMAIN wire, j > 1, wire[j].feed = f PROVE wire[j].verb = "subscribe"
        BY <1>3, <1>8, <3>1, <3>2, <3>3, <4>1 DEF Works, Latest
      <4> QED BY <1>5, <4>1
    <3> QED BY <3>4, <3>5 DEF Settled
  <2> QED BY <2>2, <2>3
<1>9. Working(f) => Settled(f)' \/ Working(f)'
  BY <1>1, <1>8 DEF Working
<1> QED BY <1>1, <1>6, <1>7, <1>9 DEF Streamed

\* An attempt leaves the calls that work on a feed alone.
LEMMA AttemptKeepsCalls ==
  ASSUME SubsInv, NEW L \in Lifecycles, AttemptStep(L), wire' = wire, reply' = reply,
         NEW f, NEW c \in Calls, Works(c, f)
  PROVE  Works(c, f)'
<1> USE SubsBasics, ControlTypes, WsClientAssumption
<1>1. pc[c] # "attempt"
  BY DEF Works, Holds
<1>2. pc'[c] = pc[c] /\ op'[c] = op[c]
  BY <1>1, OtherKept
<1>3. rq'[c] = rq[c]
  <2>1. CASE ReplayDone(L)
    <3>1. ByCall(L) => owner[L] # c
      BY <1>1 DEF ControlInv, AttControl
    <3>2. rq' = rq \/ (ByCall(L) /\ \E w : rq' = [rq EXCEPT ![owner[L]] = w])
      BY <2>1 DEF ReplayDone, PastConnect
    <3> QED BY <3>1, <3>2
  <2>2. CASE ~ReplayDone(L)
    <3>1. UNCHANGED rq \/ (\E w : rq' = [rq EXCEPT ![L] = w])
      BY <2>2 DEF AttemptStep, Install, ConnectDialFails, ReconnectDialFails, BackoffElapsed, BackoffClosed, GiveUp,
            GiveUpCleanup, Snapshot, ReplayNext, ReplayReturned, ReplayFailed, ReplayCleanup, reqVars
    <3> QED BY <3>1
  <2> QED BY <2>1, <2>2
<1> QED BY <1>2, <1>3, WorksKept

\* The replay of another lifecycle than the current one.
LEMMA OldReplayStreams ==
  ASSUME StreamInv, NEW L \in Lifecycles, AttemptStep(L), state = "connected", state' = "connected", L # lifecycle,
         NEW f \in Feeds, activeFeeds'[f] # None
  PROVE  Settled(f)' \/ Unfinished(f)' \/ Working(f)'
<1>0. SubsInv /\ Streamed
  BY DEF StreamInv
<1> USE SubsBasics, ControlTypes, WsClientAssumption, <1>0
<1>1. lifecycle \in Lifecycles /\ conn # 0 /\ attPc[L] # "dialing" /\ lifecycle \notin Calls
  BY Connected
<1>2. lifecycle' = lifecycle /\ UNCHANGED <<wire, server, reply>>
  BY <1>1 DEF AttemptStep, Install, ConnectDialFails, ReconnectDialFails, BackoffElapsed, BackoffClosed, GiveUp,
              GiveUpCleanup, Snapshot, ReplayNext, ReplayReturned, ReplayDone, ReplayFailed, ReplayCleanup,
              connVars, netVars, reqVars
<1>3. UNCHANGED <<activeFeeds, table>>
  BY <1>1, ClearedUnconnected
<1>4. /\ attPc'[lifecycle] = attPc[lifecycle] /\ todo'[lifecycle] = todo[lifecycle]
      /\ feed'[lifecycle] = feed[lifecycle] /\ rq'[lifecycle] = rq[lifecycle]
  BY <1>1, AttemptTodo
<1>5. failed'[lifecycle] = failed[lifecycle]
  <2>1. failed' = failed \/ \E w : failed' = [failed EXCEPT ![L] = w]
    BY DEF AttemptStep, Install, ConnectDialFails, ReconnectDialFails, BackoffElapsed, BackoffClosed, GiveUp,
              GiveUpCleanup, Snapshot, ReplayNext, ReplayReturned, ReplayDone, ReplayFailed, ReplayCleanup,
              AttGoto, AttEnd
  <2> QED BY <1>1, <2>1 DEF TypeOK, AttType
<1>6. ASSUME NEW c \in Calls, Works(c, f) PROVE Works(c, f)'
  BY <1>2, <1>6, AttemptKeepsCalls
<1>8. \A r \in Calls \cup {lifecycle} : Works(r, f) => Works(r, f)'
  <2>1. PICK l \in Lifecycles \ Calls : l = lifecycle
    BY <1>1
  <2>2. Works(l, f) => Works(l, f)'
    BY <1>2, <1>4, <2>1, WorksKept
  <2> QED BY <1>6, <2>1, <2>2
<1> QED BY <1>2, <1>3, <1>4, <1>5, <1>8, StreamKept

\* The replay of the current lifecycle, turn by turn.
LEMMA ReplayStreams ==
  ASSUME StreamInv, NEW L \in Lifecycles, AttemptStep(L), state = "connected", state' = "connected", L = lifecycle,
         NEW f \in Feeds, activeFeeds'[f] # None
  PROVE  Settled(f)' \/ Unfinished(f)' \/ Working(f)'
<1>0. SubsInv /\ Streamed /\ FrameInv
  BY DEF StreamInv
<1> USE SubsBasics, ControlTypes, WsClientAssumption, <1>0
<1>1. /\ L \notin Calls /\ conn # 0
      /\ attPc[L] \notin {"dialing", "backoff", "giveUp", "failSubscriptions", "cleanup"}
  BY Connected
<1>2. Snapshot(L) \/ ReplayNext(L) \/ ReplayReturned(L) \/ ReplayDone(L)
  <2>1. ~ReplayFailed(L)
    BY DEF ReplayFailed
  <2> QED BY <1>1, <2>1 DEF AttemptStep, Install, ConnectDialFails, ReconnectDialFails, BackoffElapsed,
                            BackoffClosed, GiveUp, GiveUpCleanup, ReplayCleanup
<1>3. lifecycle' = lifecycle /\ UNCHANGED <<wire, server, reply, activeFeeds, table>>
  BY <1>2 DEF Snapshot, ReplayNext, ReplayReturned, ReplayDone, connVars, netVars, reqVars, subVars
<1>4. Settled(f) => Settled(f)'
  BY <1>3 DEF Settled
<1>5. ASSUME NEW c \in Calls, Works(c, f) PROVE Working(f)'
  BY <1>3, <1>5, AttemptKeepsCalls DEF Working
<1>6. Settled(f) \/ Unfinished(f) \/ Works(L, f) \/ \E c \in Calls : Works(c, f)
  BY <1>3 DEF Streamed, Working
<1>7. DOMAIN todo = Lifecycles /\ DOMAIN failed = Lifecycles
  BY DEF TypeOK, AttType
<1>8. CASE Snapshot(L)
  <2>1. attPc'[L] = "failed" \/ (attPc'[L] = "replay" /\ todo'[L] = ActiveFrames)
    BY <1>7, <1>8 DEF Snapshot, AttGoto, AttStep
  <2>2. <<f, activeFeeds[f]>> \in ActiveFrames
    BY <1>3 DEF ActiveFrames
  <2> QED BY <1>3, <2>1, <2>2 DEF Unfinished
<1>9. CASE ReplayReturned(L)
  <2>1. /\ attPc[L] = "request" /\ attPc'[L] = "replay" /\ todo' = todo
        /\ failed'[L] = (failed[L] \/ rq[L] = "err") /\ rq[L] \in {"ok", "err"}
    BY <1>7, <1>9 DEF ReplayReturned, AttStep
  <2>2. Unfinished(f) => Unfinished(f)'
    BY <1>3, <2>1 DEF Unfinished
  <2>3. Works(L, f) => Unfinished(f)'
    BY <1>3, <2>1 DEF Unfinished, Works
  <2> QED BY <1>4, <1>5, <1>6, <2>2, <2>3
<1>10. CASE ReplayDone(L)
  <2>1. ~Unfinished(f) /\ ~Works(L, f)
    BY <1>1, <1>10 DEF ReplayDone, Unfinished, Works, Holds
  <2> QED BY <1>4, <1>5, <1>6, <2>1
<1>11. CASE ReplayNext(L)
  <2>0. attPc[L] = "replay" /\ ~Works(L, f)
    BY <1>1, <1>11 DEF ReplayNext, Works, Holds
  <2>1. CASE todo[L] = {} /\ AttGoto(L, IF failed[L] THEN "failed" ELSE "replayed")
    <3>1. Unfinished(f) => Unfinished(f)'
      BY <1>3, <2>0, <2>1 DEF Unfinished, AttGoto, AttStep
    <3> QED BY <1>4, <1>5, <1>6, <2>0, <3>1
  <2>2. ASSUME NEW e \in todo[L], todo' = [todo EXCEPT ![L] = @ \ {e}], failed' = [failed EXCEPT ![L] = TRUE],
               UNCHANGED <<attPc, feed, rq>>
        PROVE  Unfinished(f)'
    BY <1>3, <1>7, <2>0, <2>2 DEF Unfinished
  <2>4. ASSUME NEW e \in todo[L], todo' = [todo EXCEPT ![L] = @ \ {e}], failed' = failed,
               attPc'[L] \in {"replay", "request"}, e # <<f, activeFeeds[f]>>
        PROVE  Settled(f)' \/ Unfinished(f)' \/ Working(f)'
    <3>1. Unfinished(f) => Unfinished(f)'
      <4>1. failed'[L] = failed[L] /\ todo'[L] = todo[L] \ {e}
        BY <1>7, <2>4
      <4> QED BY <1>3, <2>0, <2>4, <4>1 DEF Unfinished
    <3> QED BY <1>4, <1>5, <1>6, <2>0, <3>1
  <2>5. ASSUME NEW e \in todo[L], AttStep(L, "request"), feed' = [feed EXCEPT ![L] = e[1]],
               rq' = [rq EXCEPT ![L] = "send"], e = <<f, activeFeeds[f]>>
        PROVE  Works(L, f)'
    <3>1. attPc'[L] = "request" /\ feed'[L] = f /\ rq'[L] = "send"
      BY <2>5 DEF AttStep
    <3>2. reply'[L] = "none"
      <4>1. rq[L] = "idle"
        BY <2>0 DEF ControlInv, AttControl
      <4> QED BY <1>3, <4>1 DEF ControlInv, ReqControl
    <3>3. Latest(L, f)'
      <4>1. ASSUME NEW i \in DOMAIN wire, wire[i].req = L PROVE wire[i].feed # f
        BY <1>1, <2>5, <4>1 DEF FrameInv, FrameOk
      <4> QED BY <1>3, <4>1 DEF Latest
    <3> QED BY <1>1, <3>1, <3>2, <3>3 DEF Works, Holds
  <2>6. CASE \E e \in todo[L] :
               /\ IF StillCurrent(e)
                  THEN /\ AttStep(L, "request")
                       /\ feed' = [feed EXCEPT ![L] = e[1]]
                       /\ rq' = [rq EXCEPT ![L] = "send"]
                  ELSE UNCHANGED <<attPc, feed, rq>>
               /\ todo' = [todo EXCEPT ![L] = @ \ {e}]
               /\ failed' = failed
    <3>1. PICK e \in todo[L] :
               /\ IF StillCurrent(e)
                  THEN /\ AttStep(L, "request")
                       /\ feed' = [feed EXCEPT ![L] = e[1]]
                       /\ rq' = [rq EXCEPT ![L] = "send"]
                  ELSE UNCHANGED <<attPc, feed, rq>>
               /\ todo' = [todo EXCEPT ![L] = @ \ {e}]
               /\ failed' = failed
      BY <2>6
    <3>2. CASE e = <<f, activeFeeds[f]>>
      <4>1. StillCurrent(e)
        BY <3>2 DEF StillCurrent
      <4>2. Works(L, f)'
        BY <2>5, <3>1, <3>2, <4>1
      <4> QED BY <1>3, <4>2 DEF Working
    <3>3. CASE e # <<f, activeFeeds[f]>>
      <4>1. attPc'[L] \in {"replay", "request"}
        BY <2>0, <3>1 DEF AttStep
      <4> QED BY <2>4, <3>1, <3>3, <4>1
    <3> QED BY <3>2, <3>3
  <2> QED BY <1>11, <2>1, <2>2, <2>6 DEF ReplayNext
<1> QED BY <1>2, <1>8, <1>9, <1>10, <1>11

\* The pumps, Close, and steps that do nothing.
LEMMA OtherStreams ==
  ASSUME StreamInv, state = "connected", state' = "connected", lifecycle' = lifecycle,
         \/ \E L \in Lifecycles : PumpStep(L) \/ PumpExit(L) \/ LivenessFails(L)
         \/ Close \/ CloseTables \/ UNCHANGED vars,
         NEW f \in Feeds, activeFeeds'[f] # None
  PROVE  Settled(f)' \/ Unfinished(f)' \/ Working(f)'
<1>0. SubsInv /\ Streamed
  BY DEF StreamInv
<1> USE SubsBasics, ControlTypes, WsClientAssumption, <1>0
<1>1. conn # 0 /\ lifecycle \in Lifecycles /\ lifecycle \notin Calls
  BY Connected
<1>2. UNCHANGED <<activeFeeds, table>>
  BY <1>1, ClearedUnconnected
<1>3. UNCHANGED <<wire, server, attPc, todo, feed, failed, pc, op, rq, reply>>
  <2>1. ASSUME NEW L \in Lifecycles, PumpError(L) \/ PumpExit(L) \/ LivenessFails(L)
        PROVE  UNCHANGED <<wire, server, attPc, todo, feed, failed, pc, op, rq, reply>>
    BY <2>1 DEF PumpError, PumpExit, LivenessFails, netVars, attVars, callVars, reqVars
  <2>2. ASSUME NEW L \in Lifecycles, PumpFail(L)
        PROVE  UNCHANGED <<wire, server, attPc, todo, feed, failed, pc, op, rq, reply>>
    <3>1. PumpStale(L)
      BY <2>2 DEF PumpFail
    <3> QED BY <2>2, <3>1 DEF PumpFail, netVars, attVars, callVars, reqVars
  <2>3. \A L \in Lifecycles : ~PumpCleanup(L)
    BY <1>1, CleanupFindsNoConnection
  <2>4. ~Close /\ ~CloseTables
    <3>1. ~CloseTables
      BY <1>1, CleanupFindsNoConnection
    <3> QED BY <3>1 DEF Close
  <2>5. UNCHANGED vars => UNCHANGED <<wire, server, attPc, todo, feed, failed, pc, op, rq, reply>>
    BY DEF vars, netVars, attVars, callVars, reqVars
  <2> QED BY <2>1, <2>2, <2>3, <2>4, <2>5 DEF PumpStep
<1>4. \A r \in Calls \cup {lifecycle} : Works(r, f) => Works(r, f)'
  <2>1. PICK l \in Lifecycles \ Calls : l = lifecycle
    BY <1>1
  <2> QED BY <1>3, <2>1, WorksKept
<1> QED BY <1>2, <1>3, <1>4, StreamKept

LEMMA StreamedStep ==
  ASSUME StreamInv, [Next]_vars
  PROVE  Streamed'
<1>1. SUFFICES ASSUME state' = "connected", NEW f \in Feeds, activeFeeds'[f] # None
               PROVE  Settled(f)' \/ Unfinished(f)' \/ Working(f)'
  BY DEF Streamed
<1>2. SubsInv
  BY DEF StreamInv
<1>3. ASSUME NEW L \in Lifecycles, lifecycle' = L, attPc'[L] = "snapshot" PROVE Unfinished(f)'
  BY <1>3 DEF Unfinished
<1>4. CASE state = "connected" /\ lifecycle' = lifecycle
  <2>1. ASSUME NEW c \in Calls, Start(c) \/ CallStep(c) \/ GiveUpWaiting(c)
        PROVE  Settled(f)' \/ Unfinished(f)' \/ Working(f)'
    BY <1>1, <2>1, CallStreams
  <2>2. ASSUME NEW r \in Reqs, RequestStep(r) \/ Abandon(r)
        PROVE  Settled(f)' \/ Unfinished(f)' \/ Working(f)'
    BY <1>1, <2>2, RequestStreams
  <2>3. ASSUME NEW L \in Lifecycles, AttemptStep(L)
        PROVE  Settled(f)' \/ Unfinished(f)' \/ Working(f)'
    BY <1>1, <1>4, <2>3, ReplayStreams, OldReplayStreams
  <2>4. Respond => Settled(f)' \/ Unfinished(f)' \/ Working(f)'
    BY <1>1, RespondStreams
  <2>5. ASSUME \/ \E L \in Lifecycles : PumpStep(L) \/ PumpExit(L) \/ LivenessFails(L)
               \/ Close \/ CloseTables \/ UNCHANGED vars
        PROVE  Settled(f)' \/ Unfinished(f)' \/ Working(f)'
    BY <1>1, <1>4, <2>5, OtherStreams
  <2> QED BY <2>1, <2>2, <2>3, <2>4, <2>5 DEF Next
<1> QED BY <1>1, <1>2, <1>3, <1>4, ConnectedStep

LEMMA InitStream == Init => StreamInv
<1> SUFFICES ASSUME Init PROVE StreamInv
  OBVIOUS
<1>1. SubsInv
  BY InitLife, InitType, InitControl, InitSubs DEF SubsInv, LifeInv
<1>2. Exclusive /\ HolderInv
  BY DEF Init, Exclusive, HolderInv, Holds
<1>3. ReplayInv /\ ReplayHonoursUnsubscribe
  BY DEF Init, ReplayInv, ReplayPcs, ReplayHonoursUnsubscribe
<1>4. TodoInv /\ FrameInv
  BY DEF Init, TodoInv, FrameInv
<1>5. Streamed
  BY DEF Init, Streamed
<1> QED BY <1>1, <1>2, <1>3, <1>4, <1>5 DEF StreamInv

LEMMA StreamAlways == Spec => []StreamInv
<1>1. ASSUME StreamInv, [Next]_vars, SubsInv' PROVE StreamInv'
  <2>1. /\ SubsInv /\ Exclusive /\ HolderInv /\ ReplayInv /\ ReplayHonoursUnsubscribe
        /\ TodoInv /\ FrameInv /\ Streamed
    BY <1>1 DEF StreamInv
  <2>2. ControlInv'
    BY <1>1 DEF SubsInv
  <2>3. Exclusive'
    BY <1>1, <2>1, ExclusiveStep
  <2>4. HolderInv'
    BY <1>1, <2>1, <2>2, HolderStep
  <2>5. ReplayInv'
    BY <1>1, <2>1, ReplayStep
  <2>6. ReplayHonoursUnsubscribe'
    BY <1>1, <2>1, <2>2, HonoursStep
  <2>7. TodoInv' /\ FrameInv'
    BY <1>1, <2>1, TodoStep, FrameStep
  <2>8. Streamed'
    BY <1>1, StreamedStep
  <2> QED BY <1>1, <2>3, <2>4, <2>5, <2>6, <2>7, <2>8 DEF StreamInv
<1> QED BY <1>1, InitStream, SubsAlways, PTL DEF Spec

-----------------------------------------------------------------------------
\* resubscribeActiveFeeds (client_connection.go) looks at activeFeeds again
\* under the feed's wire gate, which every Subscribe and Unsubscribe of the
\* feed takes too (acquireSubscriptionWire): while it sends its SUBSCRIBE,
\* nobody can have taken the feed out of use.
THEOREM ReplayHonours == Spec => []ReplayHonoursUnsubscribe
  BY StreamAlways, PTL DEF StreamInv

\* What subscribing, unsubscribing, dropping the connection and replaying come
\* to (client_subscriptions.go, client_connection.go): once the replay is over
\* every active feed whose wire gate is free is streamed by the exchange.
THEOREM FeedsStreamed == Spec => []ActiveFeedsStreamed
<1>1. ASSUME StreamInv PROVE ActiveFeedsStreamed
  <2>0. SubsInv /\ ReplayInv /\ Streamed
    BY <1>1 DEF StreamInv
  <2>1. SUFFICES ASSUME state = "connected", ~replayInProgress, NEW f \in Feeds, activeFeeds[f] # None, ~WireHeld(f)
                 PROVE  f \in server
    BY DEF ActiveFeedsStreamed
  <2>2. ~Unfinished(f)
    BY <2>0, <2>1, Connected DEF ReplayInv, ReplayPcs, Unfinished
  <2>3. ~Working(f)
    BY <2>0, <2>1, Connected, HeldByRequest DEF Working, Works
  <2> QED BY <2>0, <2>1, <2>2, <2>3 DEF Streamed, Settled
<1> QED BY <1>1, StreamAlways, PTL
=============================================================================
