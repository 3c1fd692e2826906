-------------------------- MODULE MarketDataProofs ---------------------------
(***************************************************************************)
(* What reaches the channels of SubscribeDepth, for any subscriptions,     *)
(* capacities, connections and faults: a feed channel is never closed      *)
(* under a send; a frame delivered as a snapshot is the baseline of the    *)
(* subscription the exchange serves; after it no frame is missing.         *)
(***************************************************************************)
EXTENDS MCMarketData, SequenceTheorems, FiniteSetTheorems, WellFoundedInduction, TLAPS

SubStates == {"none", "open", "doomed", "closing", "closed"}

SubsType == sub \in [Subs -> SubStates] /\ table \subseteq Subs /\ sending \in Subs \cup {0}

\* Who takes a subscription out of the table is the one to close it, once.
TableIsOpen == \A s \in table : sub[s] = "open"

SendIsOpen == sending # 0 => sub[sending] \in {"open", "doomed", "closing"}

CloseInv == SubsType /\ TableIsOpen /\ SendIsOpen

\* What touches neither subscriptions, table nor sends keeps the invariant.
LEMMA CloseElsewhere ==
  ASSUME CloseInv, UNCHANGED <<sub, table, sending>>
  PROVE  CloseInv'
BY DEF CloseInv, SubsType, TableIsOpen, SendIsOpen

\* Taking all subscriptions out of the table (Unsubscribe, a lost connection)
\* dooms open ones only: none that is closed already is closed again.
LEMMA AllDoomed ==
  ASSUME CloseInv, UNCHANGED sending, table' = {},
         sub' = [s \in Subs |-> IF s \in table THEN "doomed" ELSE sub[s]]
  PROVE  CloseInv'
BY DEF CloseInv, SubsType, TableIsOpen, SendIsOpen, SubStates

\* A Subscribe that failed takes back its own subscription.
LEMMA RollbackKeeps ==
  ASSUME CloseInv, UNCHANGED sending, Rollback
  PROVE  CloseInv'
<1>1. CASE call.kind = "subscribe"
  <2>1. /\ sub' = [sub EXCEPT ![call.who] = IF sub[call.who] = "open" THEN "doomed" ELSE sub[call.who]]
        /\ table' = table \ {call.who}
    BY <1>1 DEF Rollback
  <2>2. ASSUME NEW s \in Subs
        PROVE  /\ s # call.who => sub'[s] = sub[s]
               /\ s = call.who => sub'[s] = IF sub[s] = "open" THEN "doomed" ELSE sub[s]
    BY <2>1 DEF CloseInv, SubsType
  <2>3. sub' \in [Subs -> SubStates]
    BY <2>1, <2>2 DEF CloseInv, SubsType, SubStates
  <2> QED BY <2>1, <2>2, <2>3 DEF CloseInv, SubsType, TableIsOpen, SendIsOpen
<1>2. CASE call.kind # "subscribe"
  BY <1>2, CloseElsewhere DEF Rollback
<1> QED BY <1>1, <1>2

\* Subscribe, Unsubscribe and their requests.
LEMMA CallKeeps ==
  ASSUME CloseInv, CallStep
  PROVE  CloseInv'
<1>1. ASSUME NEW s \in Subs, Subscribe(s) PROVE CloseInv'
  BY <1>1 DEF Subscribe, CloseInv, SubsType, TableIsOpen, SendIsOpen, SubStates, dispVars
<1>2. CASE Unsubscribe
  BY <1>2, AllDoomed DEF Unsubscribe, dispVars
<1>3. CASE Unsubscribed \/ Request
  BY <1>3, CloseElsewhere DEF Unsubscribed, Request, feedVars, subVars, dispVars
<1>4. CASE RequestFails \/ Abandon
  BY <1>4, RollbackKeeps DEF RequestFails, Abandon, dispVars
<1> QED BY <1>1, <1>2, <1>3, <1>4 DEF CallStep

\* subscription.close: the channel is closed only when no send is under way.
LEMMA CloseKeeps ==
  ASSUME CloseInv, NEW s \in Subs, CloseStep(s)
  PROVE  CloseInv'
<1>1. CASE CloseMark(s)
  BY <1>1 DEF CloseMark, CloseInv, SubsType, TableIsOpen, SendIsOpen, SubStates, feedVars, dispVars
<1>2. CASE CloseChannel(s)
  BY <1>2 DEF CloseChannel, SendsDone, CloseInv, SubsType, TableIsOpen, SendIsOpen, SubStates, feedVars, dispVars
<1> QED BY <1>1, <1>2 DEF CloseStep

\* The read pump, which fails all subscriptions when a frame does not fit, and
\* the replay, which fails them when it takes too long.
LEMMA ConnectionKeeps ==
  ASSUME CloseInv, Serve \/ Stream \/ Read \/ Drop \/ Redial \/ ReplayMark \/ ReplayRequest \/ ReplayFails
  PROVE  CloseInv'
<1>1. CASE Serve \/ Stream \/ Drop \/ Redial \/ ReplayRequest
  BY <1>1, CloseElsewhere DEF Serve, Stream, Drop, Redial, ReplayRequest, feedVars, subVars, dispVars
<1>2. CASE Read
  <2>1. UNCHANGED sending
    BY <1>2 DEF Read, dispVars
  <2>2. UNCHANGED <<sub, table>> \/ FailSubscriptions
    BY <1>2 DEF Read, FrameDoesNotFit, feedVars
  <2> QED BY <2>1, <2>2, CloseElsewhere, AllDoomed DEF FailSubscriptions
<1>3. CASE ReplayMark
  BY <1>3, CloseElsewhere DEF ReplayMark, subVars, dispVars
<1>4. CASE ReplayFails
  BY <1>4, AllDoomed DEF ReplayFails, FailSubscriptions, dispVars
<1> QED BY <1>1, <1>2, <1>3, <1>4

\* subscription.send: a send registers while the subscription is not closing.
LEMMA DispatchKeeps ==
  ASSUME CloseInv, DispatchStep
  PROVE  CloseInv'
<1>1. CASE TakeFrame \/ Flag
  BY <1>1, CloseElsewhere DEF TakeFrame, Flag, feedVars, subVars
<1>2. ASSUME NEW s \in Subs, SendBegin(s) PROVE CloseInv'
  BY <1>2 DEF SendBegin, SendDone, CloseInv, SubsType, TableIsOpen, SendIsOpen, feedVars, subVars
<1>3. CASE SendStep
  BY <1>3 DEF SendStep, Deliver, SendEnds, SendDone, CloseInv, SubsType, TableIsOpen, SendIsOpen, feedVars, subVars
<1> QED BY <1>1, <1>2, <1>3 DEF DispatchStep

LEMMA CloseKept ==
  ASSUME CloseInv, [Next]_vars PROVE CloseInv'
<1>1. ASSUME NEW s \in Subs, Consume(s) PROVE CloseInv'
  BY <1>1, CloseElsewhere DEF Consume, feedVars, dispVars
<1>2. CASE UNCHANGED vars
  BY <1>2, CloseElsewhere DEF vars, feedVars, subVars, dispVars
<1> QED BY <1>1, <1>2, CallKeeps, CloseKeeps, ConnectionKeeps, DispatchKeeps DEF Next

LEMMA CloseInit ==
  ASSUME Init PROVE CloseInv
BY DepthDeliveryAssumption DEF Init, CloseInv, SubsType, TableIsOpen, SendIsOpen, SubStates

\* subscription.send never sends on a closed channel, whoever closes it when:
\* a channel is closed at most once, and only after sends.Wait.
THEOREM NeverSendsAfterClose == Spec => []NoSendAfterClose
<1>1. Init => CloseInv
  BY CloseInit
<1>2. CloseInv /\ [Next]_vars => CloseInv'
  BY CloseKept
<1>3. CloseInv => NoSendAfterClose
  BY DEF CloseInv, SendIsOpen, NoSendAfterClose
<1> QED BY <1>1, <1>2, <1>3, PTL DEF Spec

-----------------------------------------------------------------------------
\* The fence of subscription generations.

WireForms == {"update", "envelope"}

Requests == [kind : {"subscribe", "unsubscribe", "replay"}, req : Nat]
WireFrames == [epoch : Nat, n : Nat, form : WireForms \cup {"ack"}, req : Nat]
QueuedFrames == [epoch : Nat, n : Nat, form : WireForms, gen : Nat, flag : {FALSE}]
Dispatched == [epoch : Nat, n : Nat, form : WireForms \cup {"ready", "none"}, gen : Nat, flag : BOOLEAN]
FenceCalls == [kind : {"none", "subscribe", "unsubscribe", "replay"}, at : {"none", "close", "send", "wait"},
          who : Subs \cup {0}, conn : Nat, req : Nat]

FenceType ==
  /\ link \in {"up", "replaying", "marked", "down"} /\ conn \in Nat
  /\ generation \in Nat /\ pendingGen \in 0 .. generation
  /\ active \in Nat /\ noted \in Nat /\ to \subseteq Subs
  /\ epoch \in Nat /\ served \in {0, epoch} /\ sent \in Nat
  /\ call \in FenceCalls /\ asked \in Nat
  /\ requests \in Seq(Requests) /\ wire \in Seq(WireFrames)
  /\ frames \in Seq(QueuedFrames) /\ disp \in Dispatched

\* The table, and who holds the wire gate.
GateInv ==
  /\ active = 0 <=> table = {}
  /\ table = {} => pendingGen = 0
  /\ \A s \in Subs : sub[s] = "open" => s \in table
  /\ \A s \in to : sub[s] # "none"
  /\ call.kind = "none" <=> call = Free
  /\ call.conn <= conn
  /\ call.kind = "subscribe" => call.at \in {"send", "wait"} /\ table \subseteq {call.who}
  /\ call.kind = "unsubscribe" => table = {}
  /\ call.kind = "replay" =>
       /\ call.at \in {"send", "wait"} /\ table # {}
       /\ link = "marked" /\ call.conn = conn
  /\ link = "marked" => noted # 0

\* What is queued.
Unready(d) == d.form \in WireForms

QueueInv ==
  /\ disp.gen <= generation /\ \A i \in 1 .. Len(frames) : frames[i].gen <= generation
  /\ disp.form = "none" <=> Idle
  /\ \A i, j \in 1 .. Len(frames) : i < j => frames[i].gen <= frames[j].gen
  /\ Unready(disp) => \A i \in 1 .. Len(frames) : disp.gen <= frames[i].gen
  /\ \A i \in 1 .. Len(wire) : wire[i].form = "envelope" => wire[i].n = 0
  /\ \A i \in 1 .. Len(frames) : frames[i].form = "envelope" => frames[i].n = 0
  /\ disp.form = "envelope" => disp.n = 0
  /\ Unready(disp) => ~disp.flag

\* Nothing has been asked for on this connection, or it was taken back.
Quiet == requests = <<>> /\ wire = <<>> /\ served = 0

\* No frame that the dispatcher has still to look at has passed the fence.
NothingFresh ==
  /\ Unready(disp) => disp.gen < pendingGen
  /\ \A i \in 1 .. Len(frames) : frames[i].gen < pendingGen

Later(f) == f.epoch = epoch /\ f.n # 0
Baseline(f) == f.epoch = epoch /\ f.n = 0

\* When the exchange serves nothing.
QuietInv ==
  /\ link \in {"replaying", "marked"} =>
       /\ frames = <<>> /\ Idle
       /\ \/ Quiet
          \/ /\ call.kind = "replay" /\ call.at = "wait"
             /\ requests # <<>> \/ (wire # <<>> /\ wire[1].form = "ack")
  /\ link = "marked" /\ table # {} => pendingGen # 0
  /\ call = Free /\ table = {} => Quiet
  /\ call # Free /\ call.conn # conn => Quiet
  /\ call.kind = "subscribe" /\ call.at = "send" /\ call.conn = conn /\ link # "down" =>
       Quiet /\ pendingGen # 0 /\ NothingFresh

\* A request on its way is that of the gate's holder, and finds the fence up.
RequestInv ==
  requests # <<>> =>
    /\ Len(requests) = 1 /\ call.at = "wait" /\ call.conn = conn
    /\ requests[1].kind = call.kind /\ requests[1].req = call.req
    /\ call.kind # "unsubscribe" => wire = <<>> /\ served = 0 /\ pendingGen # 0 /\ NothingFresh

AckInv ==
  \A i \in 1 .. Len(wire) : wire[i].form = "ack" =>
    /\ call.at = "wait" /\ call.conn = conn /\ wire[i].req = call.req /\ requests = <<>>
    /\ IF call.kind = "unsubscribe" THEN i = Len(wire) /\ served = 0 ELSE i = 1 /\ Len(wire) = 2 /\ table # {}

\* The first frame past the fence is the baseline, and nothing else is.
WireInv ==
  table # {} => \A i \in 1 .. Len(wire) : wire[i].form # "ack" =>
    /\ i = Len(wire)
    /\ wire[i].epoch = epoch
    /\ wire[i].n = 0 <=> pendingGen # 0 /\ NothingFresh

ServedInv == served # 0 /\ pendingGen # 0 /\ NothingFresh => wire # <<>>

FramesInv ==
  table # {} => \A i \in 1 .. Len(frames) : frames[i].gen >= pendingGen =>
    /\ frames[i].epoch = epoch
    /\ frames[i].n = 0 <=>
         /\ pendingGen # 0
         /\ Unready(disp) => disp.gen < pendingGen
         /\ \A j \in 1 .. i - 1 : frames[j].gen < pendingGen

DispInv ==
  table # {} /\ Unready(disp) /\ disp.gen >= pendingGen =>
    IF pendingGen = 0 THEN Later(disp) ELSE Baseline(disp) /\ to # {}

FlagInv ==
  disp.flag /\ (\E s \in Subs : s \in to \cup {sending} /\ sub[s] = "open") => pendingGen = 0 /\ Baseline(disp)

FencedInv == QuietInv /\ RequestInv /\ AckInv /\ WireInv /\ ServedInv /\ FramesInv /\ DispInv /\ FlagInv

DownInv == link = "down" => Quiet

\* Only a frame that has been looked at is being sent, and once to each.
SendingInv == sending # 0 => disp.form = "ready" /\ sending \notin to

Structure == CloseInv /\ FenceType /\ GateInv /\ QueueInv /\ DownInv /\ SendingInv

FenceInv == Structure /\ (~loose => FencedInv)

\* Sequences, as far as queues use them.
LEMMA Taken ==
  ASSUME NEW S, NEW q \in Seq(S), q # <<>>
  PROVE  /\ Len(q) \in Nat \ {0} /\ Head(q) = q[1] /\ q[1] \in S
         /\ Tail(q) \in Seq(S) /\ Len(Tail(q)) = Len(q) - 1
         /\ \A i \in 1 .. Len(Tail(q)) : Tail(q)[i] = q[i + 1]
OBVIOUS

LEMMA Queued ==
  ASSUME NEW S, NEW q \in Seq(S), NEW x \in S
  PROVE  /\ Append(q, x) \in Seq(S) /\ Len(Append(q, x)) = Len(q) + 1
         /\ \A i \in 1 .. Len(q) : Append(q, x)[i] = q[i]
         /\ Append(q, x)[Len(q) + 1] = x
OBVIOUS

\* Answers to a SUBSCRIBE.
LEMMA Answered ==
  ASSUME NEW S, NEW q \in Seq(S), NEW x \in S, NEW y \in S
  PROVE  /\ q \o <<x, y>> \in Seq(S)
         /\ q = <<>> => /\ Len(q \o <<x, y>>) = 2
                        /\ (q \o <<x, y>>)[1] = x /\ (q \o <<x, y>>)[2] = y
         /\ Len(q \o <<x, y>>) = Len(q) + 2
         /\ \A i \in 1 .. Len(q) : (q \o <<x, y>>)[i] = q[i]
         /\ (q \o <<x, y>>)[Len(q) + 1] = x /\ (q \o <<x, y>>)[Len(q) + 2] = y
<1>1. <<x, y>> \in Seq(S) /\ Len(<<x, y>>) = 2
  OBVIOUS
<1>2. /\ q \o <<x, y>> \in Seq(S) /\ Len(q \o <<x, y>>) = Len(q) + Len(<<x, y>>)
      /\ \A i \in 1 .. Len(q) + Len(<<x, y>>) : (q \o <<x, y>>)[i] =
           IF i <= Len(q) THEN q[i] ELSE <<x, y>>[i - Len(q)]
  BY <1>1, ConcatProperties
<1>3. Len(q) \in Nat /\ (q = <<>> => Len(q) = 0) /\ <<x, y>>[1] = x /\ <<x, y>>[2] = y
  OBVIOUS
<1> HIDE DEF Seq
<1>4. (Len(q) + 1) - Len(q) = 1 /\ (Len(q) + 2) - Len(q) = 2
  BY <1>3
<1> QED BY <1>1, <1>2, <1>3, <1>4

\* Types, action by action.
LEMMA TypeServe ==
  ASSUME CloseInv, FenceType, Serve PROVE FenceType'
<1>1. requests \in Seq(Requests) /\ requests # <<>> /\ requests' = Tail(requests)
  BY DEF Serve, FenceType
<1>2. requests[1] \in Requests /\ Head(requests) = requests[1] /\ requests' \in Seq(Requests)
  BY <1>1, Taken
<1>3. epoch' \in Nat /\ served' \in {0, epoch'} /\ sent' \in Nat
  BY DEF Serve, FenceType
<1>4. Ack(Head(requests).req) \in WireFrames
  BY <1>2 DEF Ack, Requests, WireFrames, WireForms
<1>5. ASSUME NEW form \in {"update", "envelope"} PROVE Frame(epoch', 0, form) \in WireFrames
  BY <1>3 DEF Frame, WireFrames, WireForms
<1>6. wire' \in Seq(WireFrames)
  <2>1. wire \in Seq(WireFrames)
    BY DEF FenceType
  <2>2. CASE Head(requests).kind = "unsubscribe"
    <3>1. wire' = Append(wire, Ack(Head(requests).req))
      BY <2>2 DEF Serve
    <3> QED BY <2>1, <3>1, <1>4, Queued
  <2>3. CASE Head(requests).kind # "unsubscribe"
    <3>1. PICK form \in {"update", "envelope"} :
             wire' = wire \o <<Ack(Head(requests).req), Frame(epoch', 0, form)>>
      BY <2>3 DEF Serve
    <3> QED BY <2>1, <3>1, <1>4, <1>5, Answered
  <2> QED BY <2>2, <2>3
<1> QED BY <1>2, <1>3, <1>6 DEF Serve, FenceType, feedVars, callVars, dispVars

LEMMA TypeStream ==
  ASSUME CloseInv, FenceType, Stream PROVE FenceType'
<1>1. sent' \in Nat /\ Frame(served, sent', "update") \in WireFrames
  BY DEF Stream, FenceType, Frame, WireFrames, WireForms
<1>2. wire' = Append(wire, Frame(served, sent', "update")) /\ wire \in Seq(WireFrames)
  BY DEF Stream, FenceType
<1>3. wire' \in Seq(WireFrames)
  BY <1>1, <1>2, Queued
<1> QED BY <1>1, <1>3 DEF Stream, FenceType, feedVars, callVars, dispVars

LEMMA TypeLost ==
  ASSUME FenceType, LoseConnection, UNCHANGED <<generation, active, to, frames, disp>>, pendingGen' \in {0, pendingGen}
  PROVE  FenceType'
BY DEF FenceType, LoseConnection, Free, FenceCalls

LEMMA TypeLostFailed ==
  ASSUME FenceType, LoseConnection, FailSubscriptions, UNCHANGED <<to, frames, disp>>
  PROVE  FenceType'
BY DEF FenceType, LoseConnection, FailSubscriptions, Free, FenceCalls

LEMMA TypeCall ==
  ASSUME CloseInv, FenceType, GateInv, CallStep PROVE FenceType'
<1>1. ASSUME NEW s \in Subs, Subscribe(s) PROVE FenceType'
  <2>1. call' \in FenceCalls /\ active' \in Nat /\ generation' \in Nat /\ pendingGen' \in 0 .. generation'
    BY <1>1, DepthDeliveryAssumption DEF Subscribe, MarkPending, FenceType, FenceCalls
  <2> QED BY <1>1, <2>1 DEF Subscribe, FenceType, netVars, dispVars
<1>2. CASE Unsubscribe
  <2>1. call' \in FenceCalls
    BY <1>2 DEF Unsubscribe, FenceType, FenceCalls
  <2> QED BY <1>2, <2>1 DEF Unsubscribe, FenceType, netVars, dispVars
<1>3. CASE Unsubscribed
  <2>1. call' \in FenceCalls
    BY <1>3 DEF Unsubscribed, FenceType, FenceCalls, Free
  <2> QED BY <1>3, <2>1 DEF Unsubscribed, FenceType, netVars, dispVars, feedVars
<1>4. CASE Request
  <2>1. asked' \in Nat /\ conn \in Nat /\ call \in FenceCalls
    BY <1>4 DEF Request, FenceType
  <2>2. call' \in FenceCalls
    BY <1>4, <2>1 DEF Request, FenceCalls
  <2>3. call.kind \in {"subscribe", "unsubscribe", "replay"}
    BY <1>4, <2>1 DEF Request, GateInv, FenceCalls, Free
  <2>4. [kind |-> call.kind, req |-> asked'] \in Requests /\ requests \in Seq(Requests)
    BY <2>1, <2>3 DEF Requests, FenceType
  <2>5. requests' \in Seq(Requests)
    BY <1>4, <2>4, Queued DEF Request
  <2> QED BY <1>4, <2>1, <2>2, <2>5 DEF Request, FenceType, dispVars, feedVars
<1>5. CASE RequestFails \/ Abandon
  <2>1. call' \in FenceCalls
    BY <1>5 DEF RequestFails, Abandon, Free, FenceCalls
  <2>2. active' \in Nat /\ pendingGen' \in 0 .. generation /\ generation' = generation
    BY <1>5 DEF RequestFails, Abandon, Rollback, FenceType
  <2> QED BY <1>5, <2>1, <2>2 DEF RequestFails, Abandon, FenceType, netVars, dispVars
<1> QED BY <1>1, <1>2, <1>3, <1>4, <1>5 DEF CallStep

LEMMA TypeRead ==
  ASSUME CloseInv, FenceType, Read PROVE FenceType'
<1>1. /\ wire \in Seq(WireFrames) /\ wire # <<>>
      /\ Head(wire) \in WireFrames /\ Tail(wire) \in Seq(WireFrames)
  BY Taken DEF Read, FenceType
<1>2. CASE Head(wire).form = "ack"
  <2>1. call' \in FenceCalls
    BY <1>2 DEF Read, Free, FenceCalls, FenceType
  <2>2. link' \in {"up", "replaying", "marked", "down"} /\ noted' \in Nat
    BY <1>2 DEF Read, FenceType
  <2> QED BY <1>1, <1>2, <2>1, <2>2 DEF Read, FenceType, feedVars, dispVars
<1>3. CASE Head(wire).form # "ack" /\ Len(frames) < FrameQueue
  <2> DEFINE f == [epoch |-> Head(wire).epoch, n |-> Head(wire).n, form |-> Head(wire).form,
                   gen |-> generation, flag |-> FALSE]
  <2>1. f \in QueuedFrames /\ frames \in Seq(QueuedFrames)
    BY <1>1, <1>3 DEF FenceType, WireFrames, QueuedFrames, WireForms
  <2>2. frames' = Append(frames, f)
    BY <1>3 DEF Read
  <2>3. frames' \in Seq(QueuedFrames)
    BY <2>1, <2>2, Queued
  <2> QED BY <1>1, <1>3, <2>3 DEF Read, FenceType, feedVars, dispVars, callVars
<1>4. CASE Head(wire).form # "ack" /\ ~ (Len(frames) < FrameQueue)
  <2>1. LoseConnection /\ FailSubscriptions /\ UNCHANGED <<to, frames, disp>>
    BY <1>4 DEF Read, FrameDoesNotFit, dispVars
  <2> QED BY <2>1, TypeLostFailed
<1> QED BY <1>2, <1>3, <1>4

LEMMA TypeDispatch ==
  ASSUME CloseInv, FenceType, DispatchStep PROVE FenceType'
<1>1. CASE TakeFrame
  <2>1. Head(frames) \in QueuedFrames /\ Tail(frames) \in Seq(QueuedFrames)
    BY <1>1, Taken DEF TakeFrame, FenceType
  <2>2. disp' \in Dispatched
    BY <1>1, <2>1 DEF TakeFrame, QueuedFrames, Dispatched, WireForms
  <2>3. to' \subseteq Subs
    BY <1>1 DEF TakeFrame, CloseInv, SubsType
  <2> QED BY <1>1, <2>1, <2>2, <2>3 DEF TakeFrame, FenceType, netVars, feedVars, callVars
<1>2. CASE Flag
  <2>1. disp' \in Dispatched
    <3>1. NoFrame \in Dispatched /\ disp \in Dispatched
      BY DEF NoFrame, Dispatched, FenceType
    <3>2. ASSUME NEW b \in BOOLEAN PROVE [disp EXCEPT !.form = "ready", !.flag = b] \in Dispatched
      BY <3>1 DEF Dispatched
    <3> QED BY <1>2, <3>1, <3>2 DEF Flag
  <2>2. pendingGen' \in 0 .. generation /\ to' \subseteq Subs
    BY <1>2 DEF Flag, FenceType
  <2> QED BY <1>2, <2>1, <2>2 DEF Flag, FenceType, netVars, callVars
<1>3. NoFrame \in Dispatched
  BY DEF NoFrame, Dispatched
<1>4. ASSUME NEW s \in Subs, SendBegin(s) PROVE FenceType'
  <2>1. disp' \in Dispatched /\ to' \subseteq Subs
    BY <1>3, <1>4 DEF SendBegin, SendDone, FenceType
  <2> QED BY <1>4, <2>1 DEF SendBegin, FenceType, netVars, callVars, feedVars
<1>5. CASE SendStep
  <2>1. disp' \in Dispatched /\ to' \subseteq Subs
    BY <1>3, <1>5 DEF SendStep, Deliver, SendEnds, SendDone, FenceType
  <2> QED BY <1>5, <2>1 DEF SendStep, Deliver, SendEnds, FenceType, netVars, callVars, feedVars
<1> QED BY <1>1, <1>2, <1>4, <1>5 DEF DispatchStep

LEMMA TypeReconnect ==
  ASSUME CloseInv, FenceType, Drop \/ Redial \/ ReplayMark \/ ReplayRequest \/ ReplayFails PROVE FenceType'
<1>1. CASE Drop
  BY <1>1, TypeLost DEF Drop, feedVars, dispVars
<1>2. CASE Redial
  BY <1>2 DEF Redial, FenceType, feedVars, callVars, dispVars
<1>3. CASE ReplayMark
  BY <1>3 DEF ReplayMark, MarkPending, FenceType, callVars, dispVars
<1>4. CASE ReplayRequest
  <2>1. call' \in FenceCalls
    BY <1>4 DEF ReplayRequest, FenceType, FenceCalls
  <2> QED BY <1>4, <2>1 DEF ReplayRequest, FenceType, feedVars, dispVars
<1>5. CASE ReplayFails
  BY <1>5, TypeLostFailed DEF ReplayFails, dispVars
<1> QED BY <1>1, <1>2, <1>3, <1>4, <1>5

LEMMA TypeKept ==
  ASSUME CloseInv, FenceType, GateInv, [Next]_vars PROVE FenceType'
<1>1. ASSUME NEW s \in Subs, CloseStep(s) \/ Consume(s) PROVE FenceType'
  BY <1>1 DEF CloseStep, CloseMark, CloseChannel, Consume, FenceType, netVars, feedVars, callVars, dispVars
<1>2. CASE UNCHANGED vars
  BY <1>2 DEF vars, FenceType, netVars, feedVars, callVars, dispVars
<1> QED BY <1>1, <1>2, TypeServe, TypeStream, TypeCall, TypeRead, TypeDispatch, TypeReconnect DEF Next

\* The table and the gate.
LEMMA GateElsewhere ==
  ASSUME GateInv, UNCHANGED <<active, table, pendingGen, sub, to, call, conn, link, noted>>
  PROVE  GateInv'
BY DEF GateInv

\* A Subscribe that failed is the only one in the table.
LEMMA RolledBack ==
  ASSUME GateInv, FenceType, CloseInv, Rollback
  PROVE  /\ call.kind = "subscribe" => table' = {} /\ active' = 0 /\ pendingGen' = 0
         /\ call.kind # "subscribe" => UNCHANGED <<sub, table, active, pendingGen>>
         /\ \A s \in Subs : /\ sub'[s] = "open" => s \in table'
                            /\ sub[s] # "none" => sub'[s] # "none"
<1>1. CASE call.kind = "subscribe"
  <2>1. table \subseteq {call.who}
    BY <1>1 DEF GateInv
  <2>2. table' = {} /\ active' = 0 /\ pendingGen' = 0
    BY <1>1, <2>1 DEF Rollback
  <2>3. sub' = [sub EXCEPT ![call.who] = IF sub[call.who] = "open" THEN "doomed" ELSE sub[call.who]]
    BY <1>1 DEF Rollback
  <2>4. ASSUME NEW s \in Subs
        PROVE  /\ s # call.who => sub'[s] = sub[s]
               /\ s = call.who => sub'[s] = IF sub[s] = "open" THEN "doomed" ELSE sub[s]
    BY <2>3 DEF CloseInv, SubsType
  <2>5. ASSUME NEW s \in Subs PROVE sub'[s] # "open" /\ (sub[s] # "none" => sub'[s] # "none")
    BY <2>1, <2>4 DEF GateInv
  <2> QED BY <1>1, <2>2, <2>5
<1>2. CASE call.kind # "subscribe"
  BY <1>2 DEF Rollback, GateInv
<1> QED BY <1>1, <1>2

LEMMA AllFailed ==
  ASSUME GateInv, CloseInv, FailSubscriptions
  PROVE  \A s \in Subs : sub'[s] # "open" /\ (sub[s] # "none" => sub'[s] # "none")
BY DEF GateInv, CloseInv, SubsType, FailSubscriptions

LEMMA GateLost ==
  ASSUME GateInv, FenceType, LoseConnection, UNCHANGED <<active, table, pendingGen, sub, to>>
  PROVE  GateInv'
BY DEF GateInv, LoseConnection, Free, FenceType, FenceCalls

LEMMA GateLostFailed ==
  ASSUME GateInv, FenceType, CloseInv, LoseConnection, FailSubscriptions, UNCHANGED to
  PROVE  GateInv'
<1>1. table' = {} /\ active' = 0 /\ pendingGen' = 0
  BY DEF FailSubscriptions
<1>2. \A s \in Subs : sub'[s] # "open" /\ (sub[s] # "none" => sub'[s] # "none")
  BY AllFailed
<1>3. \A s \in to' : sub'[s] # "none"
  BY <1>2 DEF GateInv, FenceType
<1> QED BY <1>1, <1>2, <1>3 DEF GateInv, LoseConnection, Free, FenceType, FenceCalls

LEMMA GateCall ==
  ASSUME GateInv, FenceType, CloseInv, CallStep PROVE GateInv'
<1>1. ASSUME NEW s \in Subs, Subscribe(s) PROVE GateInv'
  <2>1. \A t \in Subs : sub'[t] = IF t = s THEN "open" ELSE sub[t]
    BY <1>1 DEF Subscribe, CloseInv, SubsType
  <2>2. s # 0
    BY DepthDeliveryAssumption
  <2>3. /\ UNCHANGED <<to, conn, link, noted>> /\ table' = table \cup {s}
        /\ \A t \in to' : sub'[t] # "none"
        /\ \A t \in Subs : sub'[t] = "open" => t \in table'
    BY <1>1, <2>1 DEF Subscribe, netVars, dispVars, GateInv, FenceType
  <2>4. CASE active = 0
    BY <1>1, <2>2, <2>3, <2>4 DEF Subscribe, GateInv, Free, FenceType
  <2>5. CASE active # 0
    <3>1. UNCHANGED <<active, pendingGen, call>>
      BY <1>1, <2>5 DEF Subscribe
    <3>2. call.kind = "none"
      BY <1>1 DEF Subscribe, Free
    <3> QED BY <2>3, <2>5, <3>1, <3>2 DEF GateInv
  <2> QED BY <2>4, <2>5
<1>2. CASE Unsubscribe
  <2>1. \A t \in Subs : sub'[t] # "open" /\ (sub[t] # "none" => sub'[t] # "none")
    BY <1>2 DEF Unsubscribe, GateInv, CloseInv, SubsType
  <2>2. UNCHANGED <<to, conn, link, noted>> /\ table' = {} /\ active' = 0 /\ pendingGen' = 0
    BY <1>2 DEF Unsubscribe, netVars, dispVars
  <2>3. call' = [kind |-> "unsubscribe", at |-> "close", who |-> 0, conn |-> conn, req |-> 0]
    BY <1>2 DEF Unsubscribe
  <2>4. \A t \in to' : sub'[t] # "none"
    BY <2>1, <2>2 DEF GateInv, FenceType
  <2> QED BY <2>1, <2>2, <2>3, <2>4 DEF GateInv, Free, FenceType
<1>3. CASE Unsubscribed
  BY <1>3 DEF Unsubscribed, GateInv, FenceType, Free, FenceCalls, netVars, feedVars, dispVars, subVars
<1>4. CASE Request
  <2>1. UNCHANGED <<active, table, pendingGen, sub, to, conn, link, noted>>
    BY <1>4 DEF Request, feedVars, subVars, dispVars
  <2>2. call' = [call EXCEPT !.at = "wait", !.conn = conn, !.req = asked'] /\ call.at = "send" /\ call \in FenceCalls
    BY <1>4 DEF Request, FenceType
  <2>3. call'.kind = call.kind /\ call'.at = "wait" /\ call'.conn = conn /\ call'.who = call.who
    BY <2>2 DEF FenceCalls
  <2>4. Free.at = "none"
    BY DEF Free
  <2>5. call # Free /\ call' # Free
    BY <2>2, <2>3, <2>4
  <2>6. call.kind # "none" /\ conn \in Nat
    BY <2>5 DEF GateInv, FenceType
  <2> QED BY <2>1, <2>3, <2>5, <2>6 DEF GateInv
<1>5. CASE RequestFails \/ Abandon
  <2>1. Rollback /\ call' = Free /\ UNCHANGED <<to, conn, link, noted>> /\ call.kind # "replay"
    BY <1>5 DEF RequestFails, Abandon, netVars, dispVars
  <2>2. \A t \in to' : sub'[t] # "none"
    BY <2>1, RolledBack DEF GateInv, FenceType
  <2>3. /\ active' = 0 <=> table' = {}
        /\ table' = {} => pendingGen' = 0
    BY <2>1, RolledBack DEF GateInv
  <2> QED BY <2>1, <2>2, <2>3, RolledBack DEF GateInv, Free, FenceType
<1> QED BY <1>1, <1>2, <1>3, <1>4, <1>5 DEF CallStep

LEMMA GateRead ==
  ASSUME GateInv, FenceType, CloseInv, Read PROVE GateInv'
<1>1. CASE Head(wire).form = "ack"
  <2>1. UNCHANGED <<active, table, pendingGen, sub, to, conn>>
    BY <1>1 DEF Read, feedVars, dispVars
  <2>2. CASE call.req = Head(wire).req
    <3>1. call' = Free /\ (call.kind # "replay" => UNCHANGED <<link, noted>>)
      BY <1>1, <2>2 DEF Read
    <3>2. call.kind = "replay" => link' = "up"
      BY <1>1, <2>2 DEF Read
    <3> QED BY <2>1, <3>1, <3>2 DEF GateInv, Free, FenceType
  <2>3. CASE call.req # Head(wire).req
    <3>1. UNCHANGED <<call, link, noted>>
      BY <1>1, <2>3 DEF Read
    <3> QED BY <2>1, <3>1, GateElsewhere
  <2> QED BY <2>2, <2>3
<1>2. CASE Head(wire).form # "ack" /\ Len(frames) < FrameQueue
  <2>1. UNCHANGED <<active, table, pendingGen, sub, to, call, conn, link, noted>>
    BY <1>2 DEF Read, callVars, feedVars, dispVars
  <2> QED BY <2>1, GateElsewhere
<1>3. CASE Head(wire).form # "ack" /\ ~ (Len(frames) < FrameQueue)
  BY <1>3, GateLostFailed DEF Read, FrameDoesNotFit, dispVars
<1> QED BY <1>1, <1>2, <1>3

LEMMA GateDispatch ==
  ASSUME GateInv, FenceType, CloseInv, DispatchStep PROVE GateInv'
<1>1. UNCHANGED <<active, table, sub, call, conn, link, noted>>
  BY DEF DispatchStep, TakeFrame, Flag, SendBegin, SendStep, Deliver, SendEnds, netVars, feedVars, subVars, callVars
<1>2. pendingGen' \in {0, pendingGen}
  BY DEF DispatchStep, TakeFrame, Flag, SendBegin, SendStep, Deliver, SendEnds, feedVars
<1>3. to' \subseteq to \cup table
  BY DEF DispatchStep, TakeFrame, Flag, SendBegin, SendDone, SendStep, Deliver, SendEnds
<1>4. \A s \in to' : sub'[s] # "none"
  BY <1>1, <1>3 DEF GateInv, CloseInv, TableIsOpen
<1> QED BY <1>1, <1>2, <1>4 DEF GateInv

LEMMA GateReconnect ==
  ASSUME GateInv, FenceType, CloseInv, Drop \/ Redial \/ ReplayMark \/ ReplayRequest \/ ReplayFails PROVE GateInv'
<1>1. CASE Drop
  BY <1>1, GateLost DEF Drop, feedVars, dispVars, subVars
<1>2. CASE Redial
  <2>1. conn' = conn + 1 /\ link' = "replaying" /\ link = "down"
        /\ UNCHANGED <<active, table, pendingGen, sub, to, call, noted>>
    BY <1>2 DEF Redial, feedVars, callVars, dispVars, subVars
  <2> QED BY <2>1 DEF GateInv, FenceType, FenceCalls
<1>3. CASE ReplayMark
  <2>1. UNCHANGED <<active, table, sub, to, call, conn>> /\ link = "replaying" /\ noted' = active
    BY <1>3 DEF ReplayMark, callVars, dispVars, subVars
  <2>2. (link' = "marked" => active # 0) /\ (active = 0 => pendingGen' = pendingGen)
    BY <1>3 DEF ReplayMark
  <2> QED BY <2>1, <2>2 DEF GateInv
<1>4. CASE ReplayRequest
  <2>1. UNCHANGED <<active, table, pendingGen, sub, to, conn>> /\ call = Free
    BY <1>4 DEF ReplayRequest, feedVars, dispVars, subVars
  <2>2. CASE active = noted
    <3>1. call' = [kind |-> "replay", at |-> "send", who |-> 0, conn |-> conn, req |-> 0] /\ UNCHANGED <<link, noted>>
          /\ link = "marked"
      BY <1>4, <2>2 DEF ReplayRequest
    <3> QED BY <2>1, <2>2, <3>1 DEF GateInv, Free, FenceType
  <2>3. CASE active # noted
    <3>1. link' = "up" /\ UNCHANGED call
      BY <1>4, <2>3 DEF ReplayRequest
    <3> QED BY <2>1, <3>1 DEF GateInv, Free
  <2> QED BY <2>2, <2>3
<1>5. CASE ReplayFails
  BY <1>5, GateLostFailed DEF ReplayFails, dispVars
<1> QED BY <1>1, <1>2, <1>3, <1>4, <1>5

LEMMA GateKept ==
  ASSUME CloseInv, FenceType, GateInv, [Next]_vars PROVE GateInv'
<1>1. ASSUME NEW s \in Subs, CloseStep(s) PROVE GateInv'
  <2>1. UNCHANGED <<active, table, pendingGen, to, call, conn, link, noted>>
    BY <1>1 DEF CloseStep, CloseMark, CloseChannel, netVars, feedVars, callVars, dispVars
  <2>2. \A t \in Subs : /\ sub'[t] = "open" => sub[t] = "open"
                        /\ sub[t] # "none" => sub'[t] # "none"
    BY <1>1 DEF CloseStep, CloseMark, CloseChannel, CloseInv, SubsType
  <2> QED BY <2>1, <2>2 DEF GateInv, FenceType
<1>2. ASSUME NEW s \in Subs, Consume(s) PROVE GateInv'
  BY <1>2, GateElsewhere DEF Consume, netVars, feedVars, callVars, dispVars
<1>3. CASE Serve \/ Stream \/ UNCHANGED vars
  BY <1>3, GateElsewhere DEF Serve, Stream, vars, netVars, feedVars, callVars, dispVars, subVars
<1> QED BY <1>1, <1>2, <1>3, GateCall, GateRead, GateDispatch, GateReconnect DEF Next

\* Where there is no connection there is nothing on it.
LEMMA DownKept ==
  ASSUME DownInv, FenceType, [Next]_vars PROVE DownInv'
<1>1. CASE Serve \/ Stream \/ Read
  BY <1>1 DEF Serve, Stream, Read, FrameDoesNotFit, LoseConnection, DownInv, Quiet
<1>2. CASE Drop \/ Redial \/ ReplayMark \/ ReplayRequest \/ ReplayFails
  BY <1>2 DEF Drop, Redial, ReplayMark, ReplayRequest, ReplayFails, LoseConnection, DownInv, Quiet
<1>3. CASE Request
  BY <1>3 DEF Request, DownInv
<1>4. ASSUME UNCHANGED netVars PROVE DownInv'
  BY <1>4 DEF netVars, DownInv, Quiet
<1>5. ASSUME NEW s \in Subs, Subscribe(s) \/ CloseStep(s) \/ Consume(s) PROVE DownInv'
  BY <1>4, <1>5 DEF Subscribe, CloseStep, CloseMark, CloseChannel, Consume
<1>6. CASE Unsubscribe \/ Unsubscribed \/ RequestFails \/ Abandon
  BY <1>4, <1>6 DEF Unsubscribe, Unsubscribed, RequestFails, Abandon
<1>7. CASE DispatchStep
  BY <1>4, <1>7 DEF DispatchStep, TakeFrame, Flag, SendBegin, SendStep, Deliver, SendEnds
<1>8. CASE UNCHANGED vars
  BY <1>4, <1>8 DEF vars
<1> QED BY <1>1, <1>2, <1>3, <1>5, <1>6, <1>7, <1>8 DEF Next, CallStep

\* What queued frames are.
LEMMA QueueTypes ==
  ASSUME FenceType
  PROVE  /\ disp \in Dispatched /\ disp.gen \in Nat /\ Len(frames) \in Nat
         /\ \A i \in 1 .. Len(frames) : frames[i] \in QueuedFrames /\ frames[i].gen \in Nat
<1>1. frames \in Seq(QueuedFrames) /\ disp \in Dispatched
  BY DEF FenceType
<1>2. disp.gen \in Nat /\ \A f \in QueuedFrames : f.gen \in Nat
  BY <1>1 DEF Dispatched, QueuedFrames
<1>3. Len(frames) \in Nat /\ \A i \in 1 .. Len(frames) : frames[i] \in QueuedFrames
  BY <1>1
<1> QED BY <1>1, <1>2, <1>3

\* What is queued, whose generations grow.
LEMMA QueueElsewhere ==
  ASSUME QueueInv, FenceType, UNCHANGED <<frames, disp>>, generation' \in Nat, generation' >= generation,
         \A i \in 1 .. Len(wire') : wire'[i].form = "envelope" => wire'[i].n = 0
  PROVE  QueueInv'
<1>1. disp.gen \in Nat /\ \A i \in 1 .. Len(frames) : frames[i].gen \in Nat
  BY QueueTypes
<1> QED BY <1>1 DEF QueueInv, Idle, Unready, FenceType

\* What comes before the last frame of a queue, and that frame.
LEMMA QueueGrows ==
  ASSUME NEW S, NEW q \in Seq(S), NEW x \in S, NEW i \in 1 .. Len(Append(q, x))
  PROVE  \/ i \in 1 .. Len(q) /\ Append(q, x)[i] = q[i]
         \/ i = Len(q) + 1 /\ Append(q, x)[i] = x
OBVIOUS

LEMMA EnvelopesServed ==
  ASSUME QueueInv, FenceType, Serve \/ Stream
  PROVE  \A i \in 1 .. Len(wire') : wire'[i].form = "envelope" => wire'[i].n = 0
<1> SUFFICES ASSUME NEW i \in 1 .. Len(wire') PROVE wire'[i].form = "envelope" => wire'[i].n = 0
  OBVIOUS
<1>1. wire \in Seq(WireFrames) /\ Len(wire) \in Nat /\ epoch \in Nat /\ sent \in Nat /\ served \in Nat
  BY DEF FenceType
<1>2. \A j \in 1 .. Len(wire) : wire[j].form = "envelope" => wire[j].n = 0
  BY DEF QueueInv
<1>3. CASE Stream
  <2>1. Frame(served, sent', "update") \in WireFrames /\ Frame(served, sent', "update").form = "update"
    BY <1>1, <1>3 DEF Stream, Frame, WireFrames, WireForms
  <2>2. wire' = Append(wire, Frame(served, sent', "update"))
    BY <1>3 DEF Stream
  <2> QED BY <1>1, <1>2, <2>1, <2>2, QueueGrows
<1>4. CASE Serve
  <2> DEFINE a == Ack(Head(requests).req)
  <2>1. Head(requests) \in Requests
    BY <1>4, Taken DEF Serve, FenceType
  <2>2. a \in WireFrames /\ a.form = "ack"
    BY <2>1 DEF Ack, Requests, WireFrames, WireForms
  <2>3. CASE wire' = Append(wire, a)
    BY <1>1, <1>2, <2>2, <2>3, QueueGrows
  <2>4. CASE wire' # Append(wire, a)
    <3>1. epoch' \in Nat
      BY <1>1, <1>4 DEF Serve
    <3>2. PICK form \in {"update", "envelope"} : wire' = wire \o <<a, Frame(epoch', 0, form)>>
      BY <1>4, <2>4 DEF Serve
    <3>3. Frame(epoch', 0, form) \in WireFrames /\ Frame(epoch', 0, form).n = 0
      BY <3>1 DEF Frame, WireFrames, WireForms
    <3> DEFINE b == Frame(epoch', 0, form)
    <3> HIDE DEF a, b
    <3>4. /\ Len(wire') = Len(wire) + 2 /\ \A j \in 1 .. Len(wire) : wire'[j] = wire[j]
          /\ wire'[Len(wire) + 1] = a /\ wire'[Len(wire) + 2] = b
      BY <1>1, <2>2, <3>2, <3>3, Answered DEF b
    <3>5. i \in 1 .. Len(wire) \/ i = Len(wire) + 1 \/ i = Len(wire) + 2
      BY <1>1, <3>4
    <3> QED BY <1>2, <2>2, <3>3, <3>4, <3>5 DEF b
  <2> QED BY <2>3, <2>4
<1> QED BY <1>3, <1>4

LEMMA QueueRead ==
  ASSUME QueueInv, FenceType, Read PROVE QueueInv'
<1>1. /\ wire \in Seq(WireFrames) /\ Len(wire) \in Nat \ {0} /\ Head(wire) = wire[1] /\ wire[1] \in WireFrames
      /\ Len(Tail(wire)) = Len(wire) - 1 /\ \A i \in 1 .. Len(Tail(wire)) : Tail(wire)[i] = wire[i + 1]
  BY Taken DEF Read, FenceType
<1>2. \A i \in 1 .. Len(wire) : wire[i].form = "envelope" => wire[i].n = 0
  BY DEF QueueInv
<1>3. ASSUME wire' = Tail(wire)
      PROVE  \A i \in 1 .. Len(wire') : wire'[i].form = "envelope" => wire'[i].n = 0
  BY <1>1, <1>2, <1>3
<1>4. CASE Head(wire).form = "ack"
  BY <1>3, <1>4, QueueElsewhere DEF Read, dispVars, feedVars, FenceType
<1>5. CASE Head(wire).form # "ack" /\ Len(frames) < FrameQueue
  <2> DEFINE f == [epoch |-> Head(wire).epoch, n |-> Head(wire).n, form |-> Head(wire).form,
                   gen |-> generation, flag |-> FALSE]
  <2>1. f \in QueuedFrames /\ f.gen = generation /\ (f.form = "envelope" => f.n = 0)
    BY <1>1, <1>2, <1>5 DEF FenceType, WireFrames, QueuedFrames, WireForms
  <2>2. frames' = Append(frames, f) /\ wire' = Tail(wire) /\ UNCHANGED <<disp, generation>>
    BY <1>5 DEF Read, dispVars, feedVars
  <2> HIDE DEF f
  <2>3. frames \in Seq(QueuedFrames) /\ Len(frames) \in Nat /\ generation \in Nat
        /\ \A i \in 1 .. Len(frames) : frames[i].gen \in Nat
    BY QueueTypes DEF FenceType
  <2>4. ASSUME NEW i \in 1 .. Len(frames')
        PROVE  \/ i \in 1 .. Len(frames) /\ frames'[i] = frames[i]
               \/ i = Len(frames) + 1 /\ frames'[i] = f
    BY <2>1, <2>2, <2>3, QueueGrows
  <2>5. \A i \in 1 .. Len(frames) : frames[i].gen <= generation
    BY DEF QueueInv
  <2>6. \A i \in 1 .. Len(frames') : frames'[i].gen <= generation'
    BY <2>1, <2>2, <2>3, <2>4, <2>5
  <2>7. \A i, j \in 1 .. Len(frames') : i < j => frames'[i].gen <= frames'[j].gen
    <3>1. \A i, j \in 1 .. Len(frames) : i < j => frames[i].gen <= frames[j].gen
      BY DEF QueueInv
    <3>2. Len(frames') = Len(frames) + 1
      BY <2>1, <2>2, <2>3, Queued
    <3> SUFFICES ASSUME NEW i \in 1 .. Len(frames'), NEW j \in 1 .. Len(frames'), i < j
                 PROVE  frames'[i].gen <= frames'[j].gen
      OBVIOUS
    <3>3. CASE j = Len(frames) + 1 /\ frames'[j] = f
      BY <2>1, <2>2, <2>6, <3>3
    <3>4. CASE j \in 1 .. Len(frames) /\ frames'[j] = frames[j]
      <4>1. i \in 1 .. Len(frames) /\ i # Len(frames) + 1
        BY <2>3, <3>2, <3>4
      <4>2. frames'[i] = frames[i]
        BY <2>4, <4>1
      <4> QED BY <3>1, <3>4, <4>1, <4>2
    <3> QED BY <2>4, <3>3, <3>4
  <2>8. Unready(disp) => \A i \in 1 .. Len(frames') : disp.gen <= frames'[i].gen
    BY <2>1, <2>3, <2>4 DEF QueueInv
  <2>9. \A i \in 1 .. Len(frames') : frames'[i].form = "envelope" => frames'[i].n = 0
    BY <2>1, <2>4 DEF QueueInv
  <2> QED BY <1>3, <2>2, <2>6, <2>7, <2>8, <2>9 DEF QueueInv, Unready, Idle
<1>6. CASE Head(wire).form # "ack" /\ ~ (Len(frames) < FrameQueue)
  <2>1. wire' = <<>> /\ generation' = generation /\ UNCHANGED <<frames, disp>>
    BY <1>6 DEF Read, FrameDoesNotFit, LoseConnection, FailSubscriptions, dispVars
  <2> QED BY <2>1, QueueElsewhere DEF FenceType
<1> QED BY <1>4, <1>5, <1>6

LEMMA QueueDispatch ==
  ASSUME QueueInv, FenceType, DispatchStep PROVE QueueInv'
<1>1. UNCHANGED <<wire, generation>> /\ \A i \in 1 .. Len(wire') : wire'[i].form = "envelope" => wire'[i].n = 0
  BY DEF DispatchStep, TakeFrame, Flag, SendBegin, SendStep, Deliver, SendEnds, netVars, feedVars, QueueInv
<1>2. NoFrame.form = "none" /\ NoFrame.gen = 0 /\ ~NoFrame.flag
  BY DEF NoFrame
<1>3. CASE TakeFrame
  <2>1. /\ frames \in Seq(QueuedFrames) /\ frames # <<>> /\ frames' = Tail(frames) /\ disp' = Head(frames)
    BY <1>3 DEF TakeFrame, FenceType
  <2>2. /\ Len(frames) \in Nat \ {0} /\ disp' = frames[1] /\ frames[1] \in QueuedFrames
        /\ Len(frames') = Len(frames) - 1 /\ \A i \in 1 .. Len(frames') : frames'[i] = frames[i + 1]
    BY <2>1, Taken
  <2>3. disp'.form \in WireForms /\ disp'.gen \in Nat /\ ~disp'.flag /\ ~Idle'
    BY <1>2, <2>2 DEF QueuedFrames, Idle, WireForms
  <2>4. disp'.gen <= generation' /\ \A i \in 1 .. Len(frames') : frames'[i].gen <= generation'
    BY <1>1, <2>2 DEF QueueInv
  <2>5. \A i, j \in 1 .. Len(frames') : i < j => frames'[i].gen <= frames'[j].gen
    <3>1. \A i, j \in 1 .. Len(frames) : i < j => frames[i].gen <= frames[j].gen
      BY DEF QueueInv
    <3>2. ASSUME NEW i \in 1 .. Len(frames'), NEW j \in 1 .. Len(frames'), i < j
          PROVE  i + 1 \in 1 .. Len(frames) /\ j + 1 \in 1 .. Len(frames) /\ i + 1 < j + 1
      BY <2>2, <3>2
    <3> QED BY <2>2, <3>1, <3>2
  <2>6. \A i \in 1 .. Len(frames') : disp'.gen <= frames'[i].gen
    <3>1. \A i, j \in 1 .. Len(frames) : i < j => frames[i].gen <= frames[j].gen
      BY DEF QueueInv
    <3>2. ASSUME NEW i \in 1 .. Len(frames')
          PROVE  i + 1 \in 1 .. Len(frames) /\ 1 \in 1 .. Len(frames) /\ 1 < i + 1
      BY <2>2, <3>2
    <3> QED BY <2>2, <3>1, <3>2
  <2>7. /\ \A i \in 1 .. Len(frames') : frames'[i].form = "envelope" => frames'[i].n = 0
        /\ disp'.form = "envelope" => disp'.n = 0
    BY <2>2 DEF QueueInv
  <2> QED BY <1>1, <2>3, <2>4, <2>5, <2>6, <2>7 DEF QueueInv, Unready, WireForms
<1>4. ASSUME frames' = frames, disp' = NoFrame \/ (disp'.gen = disp.gen /\ disp'.form = "ready")
      PROVE  QueueInv'
  BY <1>1, <1>2, <1>4 DEF QueueInv, Unready, WireForms, Idle, FenceType
<1>5. CASE Flag
  <2>1. disp \in Dispatched
    BY DEF FenceType
  <2>2. ASSUME NEW b PROVE [disp EXCEPT !.form = "ready", !.flag = b].gen = disp.gen
                        /\ [disp EXCEPT !.form = "ready", !.flag = b].form = "ready"
    BY <2>1 DEF Dispatched
  <2> QED BY <1>4, <1>5, <2>2 DEF Flag
<1>6. ASSUME frames' = frames, disp' \in {disp, NoFrame} PROVE QueueInv'
  <2>1. CASE disp' = disp
    BY <1>1, <1>6, <2>1, QueueElsewhere DEF FenceType
  <2> QED BY <1>4, <1>6, <2>1
<1>7. CASE SendStep \/ \E s \in Subs : SendBegin(s)
  BY <1>6, <1>7 DEF SendBegin, SendDone, SendStep, Deliver, SendEnds
<1> QED BY <1>3, <1>5, <1>7 DEF DispatchStep

LEMMA QueueKept ==
  ASSUME QueueInv, FenceType, [Next]_vars PROVE QueueInv'
<1>1. \A i \in 1 .. Len(wire) : wire[i].form = "envelope" => wire[i].n = 0
  BY DEF QueueInv
<1>2. generation \in Nat
  BY DEF FenceType
<1>3. CASE Serve \/ Stream
  <2>1. UNCHANGED <<frames, disp, generation>>
    BY <1>3 DEF Serve, Stream, feedVars, dispVars
  <2>2. \A i \in 1 .. Len(wire') : wire'[i].form = "envelope" => wire'[i].n = 0
    BY <1>3, EnvelopesServed
  <2> QED BY <1>2, <2>1, <2>2, QueueElsewhere
<1>4. ASSUME UNCHANGED <<frames, disp>>, generation' \in {generation, generation + 1}, wire' = wire \/ wire' = <<>>
      PROVE  QueueInv'
  BY <1>1, <1>2, <1>4, QueueElsewhere
<1>5. ASSUME NEW s \in Subs, Subscribe(s) \/ CloseStep(s) \/ Consume(s) PROVE QueueInv'
  BY <1>4, <1>5 DEF Subscribe, CloseStep, CloseMark, CloseChannel, Consume, netVars, feedVars, dispVars, MarkPending
<1>6. CASE Unsubscribe \/ Unsubscribed \/ Request \/ RequestFails \/ Abandon
  BY <1>4, <1>6 DEF Unsubscribe, Unsubscribed, Request, RequestFails, Abandon, netVars, feedVars, dispVars
<1>7. CASE Drop \/ ReplayMark \/ ReplayRequest \/ ReplayFails
  BY <1>4, <1>7 DEF Drop, ReplayMark, ReplayRequest, ReplayFails, LoseConnection, FailSubscriptions, MarkPending, netVars, feedVars, dispVars
<1>8. CASE Redial
  BY <1>1, <1>8 DEF Redial, QueueInv, Unready, Idle, feedVars, dispVars
<1>9. CASE UNCHANGED vars
  BY <1>4, <1>9 DEF vars, netVars, feedVars, dispVars
<1> QED BY <1>3, <1>5, <1>6, <1>7, <1>8, <1>9, QueueRead, QueueDispatch DEF Next, CallStep

LEMMA SendingKept ==
  ASSUME SendingInv, [Next]_vars PROVE SendingInv'
<1>1. ASSUME UNCHANGED <<disp, sending, to>> PROVE SendingInv'
  BY <1>1 DEF SendingInv
<1>2. CASE Serve \/ Stream \/ Read \/ UNCHANGED vars
  BY <1>1, <1>2 DEF Serve, Stream, Read, vars, dispVars
<1>3. ASSUME NEW s \in Subs, Subscribe(s) \/ CloseStep(s) \/ Consume(s) PROVE SendingInv'
  BY <1>1, <1>3 DEF Subscribe, CloseStep, CloseMark, CloseChannel, Consume, dispVars
<1>4. CASE Unsubscribe \/ Unsubscribed \/ Request \/ RequestFails \/ Abandon
  BY <1>1, <1>4 DEF Unsubscribe, Unsubscribed, Request, RequestFails, Abandon, dispVars
<1>5. CASE Drop \/ Redial \/ ReplayMark \/ ReplayRequest \/ ReplayFails
  BY <1>1, <1>5 DEF Drop, Redial, ReplayMark, ReplayRequest, ReplayFails, dispVars
<1>6. CASE TakeFrame
  BY <1>6 DEF TakeFrame, SendingInv, Idle, NoFrame
<1>7. CASE Flag
  BY <1>7 DEF Flag, SendingInv
<1>8. CASE SendStep \/ \E s \in Subs : SendBegin(s)
  BY <1>8 DEF SendStep, Deliver, SendEnds, SendBegin, SendDone, SendingInv
<1> QED BY <1>2, <1>3, <1>4, <1>5, <1>6, <1>7, <1>8 DEF Next, CallStep, DispatchStep

\* The fence.  What concerns none of its parts.
LEMMA FencedElsewhere ==
  ASSUME FencedInv, UNCHANGED <<link, conn, requests, wire, served, epoch, frames, pendingGen, table, call, disp, to, sending>>,
         \A s \in Subs : sub'[s] = "open" => sub[s] = "open"
  PROVE  FencedInv'
<1>1. NothingFresh' = NothingFresh
  BY DEF NothingFresh, Unready
<1>2. QuietInv'
  BY <1>1 DEF FencedInv, QuietInv, Quiet, Idle
<1>3. RequestInv' /\ AckInv'
  BY <1>1 DEF FencedInv, RequestInv, AckInv
<1>4. WireInv' /\ ServedInv'
  BY <1>1 DEF FencedInv, WireInv, ServedInv
<1>5. FramesInv' /\ DispInv' /\ FlagInv'
  BY DEF FencedInv, FramesInv, DispInv, FlagInv, Unready, Later, Baseline
<1> QED BY <1>2, <1>3, <1>4, <1>5 DEF FencedInv

\* A connection on which nothing has been asked for yet.
LEMMA FencedQuiet ==
  ASSUME Quiet',
         link' \in {"replaying", "marked"} => frames' = <<>> /\ Idle',
         link' = "marked" /\ table' # {} => pendingGen' # 0,
         call'.kind = "subscribe" /\ call'.at = "send" /\ call'.conn = conn' /\ link' # "down" =>
           pendingGen' # 0 /\ NothingFresh',
         FramesInv', DispInv', FlagInv'
  PROVE  FencedInv'
<1>1. requests' = <<>> /\ wire' = <<>> /\ served' = 0
  BY DEF Quiet
<1>2. QuietInv'
  BY DEF QuietInv
<1>3. RequestInv' /\ ServedInv'
  BY <1>1 DEF RequestInv, ServedInv
<1>4. AckInv' /\ WireInv'
  BY <1>1 DEF AckInv, WireInv
<1> QED BY <1>2, <1>3, <1>4 DEF FencedInv

LEMMA FencedServe ==
  ASSUME Structure, FencedInv, Serve PROVE FencedInv'
<1>1. /\ requests \in Seq(Requests) /\ wire \in Seq(WireFrames) /\ requests # <<>> /\ requests' = Tail(requests)
      /\ Len(wire) \in Nat /\ epoch \in Nat
      /\ UNCHANGED <<link, conn, frames, pendingGen, table, call, disp, to, sending, sub>>
  BY DEF Structure, FenceType, Serve, feedVars, callVars, dispVars, subVars
<1>2. /\ Len(requests) = 1 /\ call.at = "wait" /\ call.conn = conn
      /\ requests[1].kind = call.kind /\ requests[1].req = call.req
      /\ call.kind # "unsubscribe" => wire = <<>> /\ served = 0 /\ pendingGen # 0 /\ NothingFresh
  BY <1>1 DEF FencedInv, RequestInv
<1>3. /\ Head(requests) = requests[1] /\ requests[1] \in Requests /\ requests' = <<>>
  BY <1>1, <1>2, Taken
<1>4. call # Free /\ NothingFresh' = NothingFresh
  BY <1>1, <1>2 DEF Free, NothingFresh, Unready
<1> DEFINE a == Ack(call.req)
<1>5. a \in WireFrames /\ a.form = "ack" /\ a.req = call.req
  BY <1>2, <1>3 DEF Ack, WireFrames, WireForms, Requests
<1>6. \A i \in 1 .. Len(wire) : wire[i].form # "ack"
  BY <1>1 DEF FencedInv, AckInv
<1>7. link \in {"replaying", "marked"} => frames = <<>> /\ Idle /\ call.kind = "replay"
  BY <1>1 DEF FencedInv, QuietInv, Quiet
<1>8. link = "marked" /\ table # {} => pendingGen # 0
  BY DEF FencedInv, QuietInv
<1> HIDE DEF a
<1>9. CASE call.kind = "unsubscribe"
  <2>1. table = {} /\ pendingGen = 0
    BY <1>9 DEF Structure, GateInv
  <2>2. served' = 0 /\ wire' = Append(wire, a) /\ epoch' = epoch
    BY <1>2, <1>3, <1>9 DEF Serve, a
  <2>3. QuietInv'
    BY <1>1, <1>2, <1>4, <1>7, <1>9, <2>1 DEF QuietInv
  <2>4. RequestInv' /\ WireInv' /\ ServedInv' /\ FramesInv' /\ DispInv'
    BY <1>1, <1>3, <2>1, <2>2 DEF RequestInv, WireInv, ServedInv, FramesInv, DispInv
  <2>5. AckInv'
    <3>1. ASSUME NEW i \in 1 .. Len(wire'), wire'[i].form = "ack" PROVE i = Len(wire') /\ wire'[i].req = call.req
      BY <1>1, <1>5, <1>6, <2>2, <3>1, Queued, QueueGrows
    <3> QED BY <1>1, <1>2, <1>3, <1>9, <2>2, <3>1 DEF AckInv
  <2>6. FlagInv'
    BY <1>1, <2>2 DEF FencedInv, FlagInv, Baseline
  <2> QED BY <2>3, <2>4, <2>5, <2>6 DEF FencedInv
<1>10. CASE call.kind # "unsubscribe"
  <2>1. wire = <<>> /\ served = 0 /\ pendingGen # 0 /\ NothingFresh /\ table # {}
    BY <1>2, <1>10 DEF Structure, GateInv
  <2>2. epoch' = epoch + 1 /\ served' = epoch'
    BY <1>2, <1>3, <1>10 DEF Serve
  <2>3. PICK form \in {"update", "envelope"} : wire' = wire \o <<a, Frame(epoch', 0, form)>>
    BY <1>2, <1>3, <1>10 DEF Serve, a
  <2> DEFINE b == Frame(epoch', 0, form)
  <2>4. b \in WireFrames /\ b.form # "ack" /\ b.epoch = epoch' /\ b.n = 0
    BY <1>1, <2>2 DEF Frame, WireFrames, WireForms
  <2> HIDE DEF b
  <2>5. Len(wire') = 2 /\ wire'[1] = a /\ wire'[2] = b /\ wire' # <<>>
    BY <1>1, <1>5, <2>1, <2>3, <2>4, Answered DEF b
  <2>6. QuietInv'
    BY <1>1, <1>2, <1>4, <1>5, <1>7, <1>8, <2>5 DEF QuietInv, Idle
  <2>7. RequestInv' /\ ServedInv'
    BY <1>3, <2>5 DEF RequestInv, ServedInv
  <2>8. AckInv'
    BY <1>1, <1>2, <1>3, <1>5, <1>10, <2>1, <2>4, <2>5 DEF AckInv
  <2>9. WireInv'
    BY <1>1, <1>4, <1>5, <2>1, <2>4, <2>5 DEF WireInv
  <2>10. FramesInv' /\ DispInv'
    <3>1. \A i \in 1 .. Len(frames) : frames[i].gen \in Nat
      BY QueueTypes DEF Structure
    <3>2. pendingGen \in Nat /\ disp.gen \in Nat
      BY QueueTypes DEF Structure, FenceType
    <3> QED BY <1>1, <2>1, <3>1, <3>2 DEF FramesInv, DispInv, NothingFresh, Unready
  <2>11. FlagInv'
    BY <1>1, <2>1 DEF FencedInv, FlagInv
  <2> QED BY <2>6, <2>7, <2>8, <2>9, <2>10, <2>11 DEF FencedInv
<1> QED BY <1>9, <1>10

LEMMA FencedStream ==
  ASSUME Structure, FencedInv, Stream PROVE FencedInv'
<1>1. /\ wire = <<>> /\ wire \in Seq(WireFrames) /\ served # 0 /\ served = epoch /\ sent \in Nat /\ epoch \in Nat
      /\ sent' = sent + 1 /\ wire' = Append(wire, Frame(served, sent', "update"))
      /\ UNCHANGED <<link, conn, requests, served, epoch, frames, pendingGen, table, call, disp, to, sending, sub>>
  BY DEF Structure, FenceType, Stream, feedVars, callVars, dispVars, subVars
<1>2. NothingFresh' = NothingFresh
  BY <1>1 DEF NothingFresh, Unready
<1> DEFINE f == Frame(served, sent', "update")
<1>3. f \in WireFrames /\ f.form = "update" /\ f.epoch = epoch /\ f.n # 0
  BY <1>1 DEF Frame, WireFrames, WireForms
<1> HIDE DEF f
<1>4. Len(wire') = 1 /\ wire'[1] = f /\ wire' # <<>>
  BY <1>1, <1>3, Queued DEF f
<1>5. ~Quiet /\ ~(pendingGen # 0 /\ NothingFresh)
  BY <1>1 DEF Quiet, FencedInv, ServedInv
<1>6. QuietInv'
  <2>1. link \notin {"replaying", "marked"}
    BY <1>1, <1>5 DEF FencedInv, QuietInv, RequestInv
  <2> QED BY <1>1, <1>5, <2>1 DEF FencedInv, QuietInv
<1>7. RequestInv'
  BY <1>1, <1>5 DEF FencedInv, RequestInv
<1>8. AckInv' /\ WireInv' /\ ServedInv'
  BY <1>1, <1>2, <1>3, <1>4, <1>5 DEF AckInv, WireInv, ServedInv
<1>9. FramesInv' /\ DispInv' /\ FlagInv'
  BY <1>1 DEF FencedInv, FramesInv, DispInv, FlagInv, Unready, Later, Baseline
<1> QED BY <1>6, <1>7, <1>8, <1>9 DEF FencedInv

\* Subscribe, Unsubscribe and their requests.
LEMMA FencedSubscribe ==
  ASSUME Structure, FencedInv, NEW s \in Subs, Subscribe(s) PROVE FencedInv'
<1>1. /\ call = Free /\ sub[s] = "none" /\ table' = table \cup {s}
      /\ UNCHANGED <<link, conn, requests, wire, served, epoch, frames, disp, to, sending>>
  BY DEF Subscribe, netVars, dispVars
<1>2. \A t \in Subs : sub'[t] = IF t = s THEN "open" ELSE sub[t]
  BY DEF Subscribe, Structure, CloseInv, SubsType
<1>3. s \notin to /\ s # sending /\ s # 0
  BY <1>1, DepthDeliveryAssumption DEF Structure, GateInv, CloseInv, SendIsOpen
<1>4. ASSUME NEW t \in Subs, t \in to' \cup {sending'}, sub'[t] = "open"
      PROVE  t \in to \cup {sending} /\ sub[t] = "open" /\ table # {}
  BY <1>1, <1>2, <1>3, <1>4 DEF Structure, GateInv
<1>5. CASE active = 0
  <2>1. table = {} /\ pendingGen' = generation + 1 /\ generation \in Nat
        /\ call' = [kind |-> "subscribe", at |-> "send", who |-> s, conn |-> conn, req |-> 0]
    BY <1>5 DEF Subscribe, MarkPending, Structure, GateInv, FenceType
  <2>2. Quiet /\ Quiet'
    BY <1>1, <2>1 DEF FencedInv, QuietInv, Quiet
  <2>3. pendingGen' # 0 /\ pendingGen' \in Nat /\ \A i \in 1 .. Len(frames) : frames[i].gen \in Nat /\ frames[i].gen < pendingGen'
    BY <2>1, QueueTypes DEF Structure, QueueInv
  <2>4. disp.gen \in Nat /\ disp.gen < pendingGen'
    BY <2>1, QueueTypes DEF Structure, QueueInv
  <2>5. NothingFresh'
    BY <1>1, <2>3, <2>4 DEF NothingFresh
  <2>6. FramesInv' /\ DispInv'
    BY <1>1, <2>3, <2>4 DEF FramesInv, DispInv, Unready
  <2>7. FlagInv'
    BY <1>4, <2>1 DEF FlagInv
  <2>8. link' \in {"replaying", "marked"} => frames' = <<>> /\ Idle'
    BY <1>1 DEF FencedInv, QuietInv, Idle
  <2> QED BY <2>2, <2>3, <2>5, <2>6, <2>7, <2>8, FencedQuiet
<1>6. CASE active # 0
  <2>1. table # {} /\ UNCHANGED <<call, pendingGen>> /\ table' # {}
    BY <1>1, <1>6 DEF Subscribe, Structure, GateInv
  <2>2. NothingFresh' = NothingFresh
    BY <1>1, <2>1 DEF NothingFresh, Unready
  <2>3. QuietInv'
    BY <1>1, <2>1, <2>2 DEF FencedInv, QuietInv, Quiet, Idle
  <2>4. RequestInv' /\ AckInv'
    BY <1>1, <2>1, <2>2 DEF FencedInv, RequestInv, AckInv
  <2>5. WireInv' /\ ServedInv'
    BY <1>1, <2>1, <2>2 DEF FencedInv, WireInv, ServedInv
  <2>6. FramesInv' /\ DispInv'
    BY <1>1, <2>1 DEF FencedInv, FramesInv, DispInv, Unready, Later, Baseline
  <2>7. FlagInv'
    BY <1>1, <1>4, <2>1 DEF FencedInv, FlagInv, Baseline
  <2> QED BY <2>3, <2>4, <2>5, <2>6, <2>7 DEF FencedInv
<1> QED BY <1>5, <1>6

LEMMA FencedUnsubscribe ==
  ASSUME Structure, FencedInv, Unsubscribe PROVE FencedInv'
<1>1. /\ call = Free /\ table' = {} /\ pendingGen' = 0
      /\ call' = [kind |-> "unsubscribe", at |-> "close", who |-> 0, conn |-> conn, req |-> 0]
      /\ UNCHANGED <<link, conn, requests, wire, served, epoch, frames, disp, to, sending>>
  BY DEF Unsubscribe, netVars, dispVars
<1>2. \A t \in Subs : sub'[t] # "open"
  BY DEF Unsubscribe, Structure, GateInv, CloseInv, SubsType
<1>3. call.kind = "none" /\ call.at = "none" /\ call' # Free
  BY <1>1 DEF Free
<1>4. requests = <<>> /\ \A i \in 1 .. Len(wire) : wire[i].form # "ack"
  BY <1>3 DEF FencedInv, RequestInv, AckInv
<1>5. QuietInv'
  BY <1>1, <1>3 DEF FencedInv, QuietInv, Quiet, Idle
<1>6. RequestInv' /\ AckInv' /\ WireInv' /\ ServedInv' /\ FramesInv' /\ DispInv'
  BY <1>1, <1>4 DEF RequestInv, AckInv, WireInv, ServedInv, FramesInv, DispInv
<1>7. FlagInv'
  BY <1>2 DEF FlagInv
<1> QED BY <1>5, <1>6, <1>7 DEF FencedInv

LEMMA FencedUnsubscribed ==
  ASSUME Structure, FencedInv, Unsubscribed PROVE FencedInv'
<1>1. /\ call.kind = "unsubscribe" /\ call.at = "close" /\ call' = IF link = "down" THEN Free ELSE [call EXCEPT !.at = "send"]
      /\ UNCHANGED <<link, conn, requests, wire, served, epoch, frames, pendingGen, table, disp, to, sending, sub>>
  BY DEF Unsubscribed, netVars, feedVars, dispVars, subVars
<1>2. /\ link # "down" => call'.conn = call.conn /\ call'.kind = "unsubscribe" /\ call'.at = "send"
      /\ link = "down" => call'.kind = "none" /\ call'.at = "none"
  BY <1>1 DEF Structure, FenceType, FenceCalls, Free
<1>3. call # Free /\ (link # "down" => call' # Free)
  BY <1>1, <1>2 DEF Free
<1>4. NothingFresh' = NothingFresh /\ (link = "down" => Quiet) /\ Quiet' = Quiet
  BY <1>1 DEF NothingFresh, Unready, Quiet, Structure, DownInv
<1>5. QuietInv'
  BY <1>1, <1>2, <1>3, <1>4 DEF FencedInv, QuietInv, Idle
<1>6. requests = <<>> /\ \A i \in 1 .. Len(wire) : wire[i].form # "ack"
  BY <1>1 DEF FencedInv, RequestInv, AckInv
<1>7. RequestInv' /\ AckInv'
  BY <1>1, <1>6 DEF RequestInv, AckInv
<1>8. WireInv' /\ ServedInv'
  BY <1>1, <1>4 DEF FencedInv, WireInv, ServedInv
<1>9. FramesInv' /\ DispInv' /\ FlagInv'
  BY <1>1 DEF FencedInv, FramesInv, DispInv, FlagInv, Unready, Later, Baseline
<1> QED BY <1>5, <1>7, <1>8, <1>9 DEF FencedInv

\* The fence is up when a SUBSCRIBE goes out, unless it escaped to a connection
\* that is not the one it was made for.
LEMMA FencedRequest ==
  ASSUME Structure, FencedInv, Request, ~loose' PROVE FencedInv'
<1>1. /\ call.at = "send" /\ link # "down" /\ asked' \in Nat /\ call \in FenceCalls
      /\ requests' = Append(requests, [kind |-> call.kind, req |-> asked'])
      /\ call' = [call EXCEPT !.at = "wait", !.conn = conn, !.req = asked']
      /\ UNCHANGED <<link, conn, wire, served, epoch, frames, pendingGen, table, disp, to, sending, sub>>
  BY DEF Request, feedVars, dispVars, subVars, Structure, FenceType
<1>2. call.kind = "replay" \/ (link = "up" /\ conn = call.conn)
  BY DEF Request
<1>3. call'.kind = call.kind /\ call'.at = "wait" /\ call'.conn = conn /\ call'.req = asked'
  BY <1>1 DEF FenceCalls
<1>4. call # Free /\ call' # Free
  <2>1. Free.at = "none"
    BY DEF Free
  <2> QED BY <1>1, <1>3, <2>1
<1>5. call.kind \in {"subscribe", "unsubscribe", "replay"}
  BY <1>1, <1>4 DEF FenceCalls, Structure, GateInv
<1>6. requests = <<>> /\ \A i \in 1 .. Len(wire) : wire[i].form # "ack"
  BY <1>1 DEF FencedInv, RequestInv, AckInv
<1>7. /\ Len(requests') = 1 /\ requests'[1].kind = call.kind /\ requests'[1].req = asked' /\ requests' # <<>>
  <2>1. [kind |-> call.kind, req |-> asked'] \in Requests /\ requests \in Seq(Requests)
    BY <1>1, <1>5 DEF Requests, Structure, FenceType
  <2> QED BY <1>1, <1>6, <2>1, Queued
<1>8. NothingFresh' = NothingFresh
  BY <1>1 DEF NothingFresh, Unready
<1>9. call.kind # "unsubscribe" => wire = <<>> /\ served = 0 /\ pendingGen # 0 /\ NothingFresh
  <2>1. CASE call.kind = "replay"
    <3>1. frames = <<>> /\ Idle /\ Quiet /\ pendingGen # 0
      BY <1>1, <2>1 DEF Structure, GateInv, FencedInv, QuietInv
    <3> QED BY <3>1 DEF Quiet, NothingFresh, Unready, Idle, NoFrame, WireForms
  <2>2. CASE call.kind = "subscribe"
    BY <1>1, <1>2, <2>2 DEF FencedInv, QuietInv, Quiet
  <2> QED BY <1>5, <2>1, <2>2
<1>10. QuietInv'
  <2>1. link \in {"replaying", "marked"} => frames = <<>> /\ Idle /\ call.kind = "replay"
    BY <1>2 DEF FencedInv, QuietInv
  <2> QED BY <1>1, <1>3, <1>4, <1>7, <2>1 DEF FencedInv, QuietInv, Idle
<1>11. RequestInv' /\ AckInv'
  BY <1>1, <1>3, <1>6, <1>7, <1>8, <1>9 DEF RequestInv, AckInv
<1>12. WireInv' /\ ServedInv'
  BY <1>1, <1>8 DEF FencedInv, WireInv, ServedInv
<1>13. FramesInv' /\ DispInv' /\ FlagInv'
  BY <1>1 DEF FencedInv, FramesInv, DispInv, FlagInv, Unready, Later, Baseline
<1> QED BY <1>10, <1>11, <1>12, <1>13 DEF FencedInv

LEMMA FencedRequestFails ==
  ASSUME Structure, FencedInv, RequestFails PROVE FencedInv'
<1>1. /\ call.kind # "replay" /\ call.at \in {"send", "wait"} /\ Rollback /\ call' = Free
      /\ link = "down" \/ conn # call.conn
      /\ UNCHANGED <<link, conn, requests, wire, served, epoch, frames, disp, to, sending>>
  BY DEF RequestFails, netVars, dispVars
<1>2. call # Free
  BY <1>1 DEF Free
<1>3. call.kind \in {"subscribe", "unsubscribe"}
  BY <1>1, <1>2 DEF Structure, GateInv, FenceType, FenceCalls
<1>4. Quiet'
  BY <1>1, <1>2 DEF Structure, DownInv, FencedInv, QuietInv, Quiet
<1>5. table' = {}
  BY <1>1, <1>3, RolledBack DEF Structure, GateInv
<1>6. FlagInv'
  <2>1. CASE call.kind = "subscribe"
    BY <1>1, <1>5, <2>1, RolledBack DEF FlagInv, Structure
  <2>2. CASE call.kind = "unsubscribe"
    BY <1>1, <2>2 DEF Rollback, FencedInv, FlagInv, Baseline
  <2> QED BY <1>3, <2>1, <2>2
<1>7. FramesInv' /\ DispInv'
  BY <1>5 DEF FramesInv, DispInv
<1>8. call'.kind # "subscribe"
  BY <1>1 DEF Free
<1>9. link' \in {"replaying", "marked"} => frames' = <<>> /\ Idle'
  BY <1>1 DEF FencedInv, QuietInv, Idle
<1> QED BY <1>4, <1>5, <1>6, <1>7, <1>8, <1>9, FencedQuiet

\* A connection that is lost takes what was on it along.
LEMMA FencedLost ==
  ASSUME Structure, FencedInv, LoseConnection, UNCHANGED <<pendingGen, table, sub, frames, disp, to, sending>>
  PROVE  FencedInv'
<1>1. link' = "down" /\ Quiet' /\ epoch' = epoch
  BY DEF LoseConnection, Quiet
<1>2. FramesInv' /\ DispInv' /\ FlagInv'
  BY <1>1 DEF FencedInv, FramesInv, DispInv, FlagInv, Unready, Later, Baseline
<1> QED BY <1>1, <1>2, FencedQuiet

LEMMA FencedFailed ==
  ASSUME Structure, LoseConnection, FailSubscriptions
  PROVE  FencedInv'
<1>1. link' = "down" /\ Quiet' /\ table' = {}
  BY DEF LoseConnection, FailSubscriptions, Quiet
<1>2. FramesInv' /\ DispInv' /\ FlagInv'
  BY <1>1, AllFailed DEF Structure, FramesInv, DispInv, FlagInv
<1> QED BY <1>1, <1>2, FencedQuiet

\* The read pump.
LEMMA FencedAck ==
  ASSUME Structure, FencedInv, Read, Head(wire).form = "ack"
  PROVE  FencedInv'
<1>1. /\ wire \in Seq(WireFrames) /\ wire # <<>> /\ Len(wire) \in Nat \ {0} /\ Head(wire) = wire[1] /\ wire' = Tail(wire)
      /\ Len(wire') = Len(wire) - 1 /\ \A i \in 1 .. Len(wire') : wire'[i] = wire[i + 1]
  BY Taken DEF Read, Structure, FenceType
<1>2. 1 \in 1 .. Len(wire) /\ wire[1].form = "ack"
  BY <1>1
<1>3. /\ call.at = "wait" /\ call.conn = conn /\ wire[1].req = call.req /\ requests = <<>>
      /\ IF call.kind = "unsubscribe" THEN 1 = Len(wire) /\ served = 0 ELSE Len(wire) = 2 /\ table # {}
  BY <1>2 DEF FencedInv, AckInv
<1>4. /\ call' = Free
      /\ IF call.kind = "replay" THEN link' = "up" ELSE link' = link
      /\ UNCHANGED <<frames, conn, requests, served, epoch, pendingGen, table, sub, disp, to, sending>>
  BY <1>1, <1>3 DEF Read, feedVars, dispVars
<1>5. NothingFresh' = NothingFresh /\ call'.kind = "none"
  BY <1>4 DEF NothingFresh, Unready, Free
<1>6. FramesInv' /\ DispInv' /\ FlagInv'
  BY <1>4 DEF FencedInv, FramesInv, DispInv, FlagInv, Unready, Later, Baseline
<1>7. call.kind = "replay" \/ link \notin {"replaying", "marked"}
  BY <1>1 DEF FencedInv, QuietInv, Quiet
<1>8. CASE call.kind = "unsubscribe"
  <2>1. Quiet'
    <3>1. wire' \in Seq(WireFrames) /\ Len(wire') = 0
      BY <1>1, <1>3, <1>8, Taken
    <3>2. wire' = <<>>
      BY <3>1
    <3> QED BY <1>3, <1>4, <1>8, <3>2 DEF Quiet
  <2> QED BY <1>4, <1>5, <1>6, <1>7, <1>8, <2>1, FencedQuiet
<1>9. CASE call.kind # "unsubscribe"
  <2>1. Len(wire') = 1 /\ wire'[1] = wire[2] /\ wire' # <<>> /\ table # {} /\ 2 \in 1 .. Len(wire) /\ Len(wire) = 2
    <3>1. Len(wire) = 2 /\ table # {}
      BY <1>3, <1>9
    <3>2. Len(wire') = 1 /\ 2 \in 1 .. Len(wire)
      BY <1>1, <3>1
    <3>3. wire'[1] = wire[1 + 1]
      BY <1>1, <3>2
    <3> QED BY <3>1, <3>2, <3>3
  <2>2. wire[2].form # "ack"
    BY <1>9, <2>1 DEF FencedInv, AckInv
  <2>3. QuietInv'
    BY <1>4, <1>5, <1>7, <2>1 DEF QuietInv
  <2>4. RequestInv' /\ AckInv' /\ ServedInv'
    BY <1>3, <1>4, <2>1, <2>2 DEF RequestInv, AckInv, ServedInv
  <2>5. wire[2].epoch = epoch /\ (wire[2].n = 0 <=> pendingGen # 0 /\ NothingFresh)
    BY <2>1, <2>2 DEF FencedInv, WireInv
  <2>6. WireInv'
    BY <1>4, <1>5, <2>1, <2>5 DEF WireInv
  <2> QED BY <1>6, <2>3, <2>4, <2>6 DEF FencedInv
<1> QED BY <1>8, <1>9

LEMMA FencedQueued ==
  ASSUME Structure, FencedInv, Read, Head(wire).form # "ack", Len(frames) < FrameQueue
  PROVE  FencedInv'
<1>1. /\ wire \in Seq(WireFrames) /\ wire # <<>> /\ Len(wire) \in Nat \ {0} /\ Head(wire) = wire[1] /\ wire' = Tail(wire)
      /\ Len(wire') = Len(wire) - 1 /\ \A i \in 1 .. Len(wire') : wire'[i] = wire[i + 1]
      /\ wire[1] \in WireFrames /\ wire' \in Seq(WireFrames)
  BY Taken DEF Read, Structure, FenceType
<1>2. 1 \in 1 .. Len(wire) /\ wire[1].form # "ack"
  BY <1>1
<1> DEFINE f == [epoch |-> Head(wire).epoch, n |-> Head(wire).n, form |-> Head(wire).form,
                 gen |-> generation, flag |-> FALSE]
<1>3. /\ f \in QueuedFrames /\ f.gen = generation /\ f.epoch = wire[1].epoch /\ f.n = wire[1].n
  BY <1>1 DEF Structure, FenceType, WireFrames, QueuedFrames, WireForms
<1>4. /\ frames' = Append(frames, f)
      /\ UNCHANGED <<link, conn, requests, served, epoch, pendingGen, table, call, sub, disp, to, sending>>
  BY DEF Read, feedVars, dispVars, callVars
<1> HIDE DEF f
<1>5. /\ frames \in Seq(QueuedFrames) /\ Len(frames) \in Nat /\ generation \in Nat /\ pendingGen \in Nat
      /\ pendingGen <= generation /\ \A i \in 1 .. Len(frames) : frames[i].gen \in Nat
      /\ disp.gen \in Nat
  BY QueueTypes DEF Structure, FenceType
<1>6. /\ Len(frames') = Len(frames) + 1 /\ frames'[Len(frames) + 1] = f
      /\ \A i \in 1 .. Len(frames) : frames'[i] = frames[i]
  BY <1>3, <1>4, <1>5, Queued
<1>7. ~Quiet /\ ~NothingFresh'
  <2>1. Len(frames) + 1 \in 1 .. Len(frames') /\ ~(f.gen < pendingGen')
    BY <1>3, <1>4, <1>5, <1>6
  <2> QED BY <1>1, <1>6, <2>1 DEF Quiet, NothingFresh
<1>8. link \notin {"replaying", "marked"}
  BY <1>1, <1>2, <1>7 DEF FencedInv, QuietInv, RequestInv
<1>9. QuietInv'
  BY <1>4, <1>7, <1>8 DEF FencedInv, QuietInv
<1>10. RequestInv'
  BY <1>1, <1>4 DEF FencedInv, RequestInv
<1>11. AckInv'
  <2> SUFFICES ASSUME NEW i \in 1 .. Len(wire'), wire'[i].form = "ack"
               PROVE  /\ call.at = "wait" /\ call.conn = conn /\ wire'[i].req = call.req /\ requests = <<>>
                      /\ IF call.kind = "unsubscribe" THEN i = Len(wire') /\ served = 0
                         ELSE i = 1 /\ Len(wire') = 2 /\ table # {}
    BY <1>4 DEF AckInv
  <2>1. PICK j \in 1 .. Len(wire) : j = i + 1 /\ wire'[i] = wire[j]
    BY <1>1
  <2>2. /\ call.at = "wait" /\ call.conn = conn /\ wire[j].req = call.req /\ requests = <<>>
        /\ IF call.kind = "unsubscribe" THEN j = Len(wire) /\ served = 0 ELSE j = 1 /\ Len(wire) = 2 /\ table # {}
    BY <2>1 DEF FencedInv, AckInv
  <2>3. j # 1 /\ (j = Len(wire) => i = Len(wire'))
    <3>1. i \in Nat \ {0} /\ Len(wire') \in Nat /\ Len(wire) = Len(wire') + 1 /\ j = i + 1
      BY <1>1, <2>1
    <3> QED BY <3>1
  <2> QED BY <2>1, <2>2, <2>3
<1>12. WireInv' /\ ServedInv'
  <2>1. table # {} => wire' = <<>>
    <3>1. table # {} => 1 = Len(wire)
      BY <1>2 DEF FencedInv, WireInv
    <3> QED BY <1>1, <3>1
  <2> QED BY <1>4, <1>7, <2>1 DEF WireInv, ServedInv
<1>13. FramesInv'
  <2> SUFFICES ASSUME table # {}, NEW i \in 1 .. Len(frames'), frames'[i].gen >= pendingGen
               PROVE  /\ frames'[i].epoch = epoch
                      /\ frames'[i].n = 0 <=>
                           /\ pendingGen # 0
                           /\ Unready(disp) => disp.gen < pendingGen
                           /\ \A j \in 1 .. i - 1 : frames'[j].gen < pendingGen
    BY <1>4 DEF FramesInv, Unready
  <2>1. \A j \in 1 .. i - 1 : j \in 1 .. Len(frames) /\ frames'[j] = frames[j]
    BY <1>5, <1>6
  <2>2. CASE i \in 1 .. Len(frames)
    BY <1>6, <2>1, <2>2 DEF FencedInv, FramesInv
  <2>3. CASE i = Len(frames) + 1
    <3>1. wire[1].epoch = epoch /\ (wire[1].n = 0 <=> pendingGen # 0 /\ NothingFresh)
      BY <1>2 DEF FencedInv, WireInv
    <3>2. frames'[i] = f /\ 1 .. i - 1 = 1 .. Len(frames)
      BY <1>5, <1>6, <2>3
    <3> QED BY <1>3, <2>1, <3>1, <3>2 DEF NothingFresh
  <2> QED BY <1>5, <1>6, <2>2, <2>3
<1>14. DispInv' /\ FlagInv'
  BY <1>4 DEF FencedInv, DispInv, FlagInv, Unready, Later, Baseline
<1> QED BY <1>9, <1>10, <1>11, <1>12, <1>13, <1>14 DEF FencedInv

LEMMA FencedRead ==
  ASSUME Structure, FencedInv, Read PROVE FencedInv'
<1>1. CASE Head(wire).form # "ack" /\ ~(Len(frames) < FrameQueue)
  BY <1>1, FencedFailed DEF Read, FrameDoesNotFit
<1> QED BY <1>1, FencedAck, FencedQueued

\* Reconnects.
LEMMA FencedRedial ==
  ASSUME Structure, Redial PROVE FencedInv'
<1>1. /\ link = "down" /\ Idle /\ link' = "replaying" /\ conn' = conn + 1 /\ frames' = <<>>
      /\ UNCHANGED <<requests, wire, served, call, disp, pendingGen>>
  BY DEF Redial, callVars, dispVars, feedVars
<1>2. Quiet' /\ Idle'
  BY <1>1 DEF Structure, DownInv, Quiet, Idle
<1>3. call'.conn # conn'
  <2>1. call.conn \in Nat /\ conn \in Nat /\ call.conn <= conn
    BY DEF Structure, FenceType, GateInv, FenceCalls
  <2> QED BY <1>1, <2>1
<1>4. FramesInv' /\ DispInv' /\ FlagInv'
  BY <1>1, <1>2 DEF FramesInv, DispInv, FlagInv, Idle, NoFrame, Unready, WireForms
<1> QED BY <1>1, <1>2, <1>3, <1>4, FencedQuiet

LEMMA FencedReplay ==
  ASSUME Structure, FencedInv, ReplayMark \/ ReplayRequest PROVE FencedInv'
<1>1. /\ UNCHANGED <<conn, requests, wire, served, epoch, frames, table, sub, disp, to, sending>>
      /\ link \in {"replaying", "marked"} /\ link' # "replaying"
  BY DEF ReplayMark, ReplayRequest, feedVars, callVars, dispVars, subVars
<1>2. frames = <<>> /\ Idle /\ Quiet
  <2>1. call.kind # "replay"
    BY DEF ReplayMark, ReplayRequest, Structure, GateInv, Free
  <2> QED BY <1>1, <2>1 DEF FencedInv, QuietInv
<1>3. frames' = <<>> /\ Idle' /\ Quiet' /\ NoFrame.form = "none" /\ ~NoFrame.flag
  BY <1>1, <1>2 DEF Idle, Quiet, NoFrame
<1>4. NothingFresh' /\ FramesInv' /\ DispInv' /\ FlagInv'
  BY <1>3 DEF NothingFresh, FramesInv, DispInv, FlagInv, Idle, Unready, WireForms
<1>5. CASE ReplayMark
  <2>1. CASE active = 0
    <3>1. link' = "up" /\ UNCHANGED <<pendingGen, call>>
      BY <1>5, <2>1 DEF ReplayMark, callVars
    <3> QED BY <1>1, <1>3, <1>4, <1>5, <3>1, FencedQuiet DEF FencedInv, QuietInv, ReplayMark
  <2>2. CASE active # 0
    <3>1. pendingGen' # 0
      BY <1>5, <2>2 DEF ReplayMark, MarkPending, Structure, FenceType
    <3> QED BY <1>3, <1>4, <3>1, FencedQuiet
  <2> QED BY <2>1, <2>2
<1>6. CASE ReplayRequest
  <2>1. call'.kind # "subscribe" /\ pendingGen' = pendingGen
    BY <1>6 DEF ReplayRequest, Free, feedVars
  <2>2. link' = "marked" /\ table' # {} => pendingGen' # 0
    BY <1>1, <1>6, <2>1 DEF FencedInv, QuietInv, ReplayRequest
  <2> QED BY <1>3, <1>4, <2>1, <2>2, FencedQuiet
<1> QED BY <1>5, <1>6

\* The dispatcher.
LEMMA FencedTake ==
  ASSUME Structure, FencedInv, TakeFrame PROVE FencedInv'
<1>1. /\ frames \in Seq(QueuedFrames) /\ frames # <<>> /\ frames' = Tail(frames) /\ disp' = Head(frames) /\ to' = table /\ Idle
      /\ UNCHANGED <<link, conn, requests, wire, served, epoch, pendingGen, table, call, sub, sending>>
  BY DEF TakeFrame, netVars, feedVars, callVars, subVars, Structure, FenceType
<1>2. /\ Len(frames) \in Nat \ {0} /\ disp' = frames[1] /\ frames[1] \in QueuedFrames
      /\ Len(frames') = Len(frames) - 1 /\ \A i \in 1 .. Len(frames') : frames'[i] = frames[i + 1]
  BY <1>1, Taken
<1>3. disp'.form \in WireForms /\ disp'.gen \in Nat /\ ~disp'.flag /\ ~Unready(disp) /\ Unready(disp') /\ pendingGen \in Nat
  <2>1. disp'.form \in WireForms /\ disp'.gen \in Nat /\ ~disp'.flag
    BY <1>2 DEF QueuedFrames
  <2>2. disp.form = "none"
    BY <1>1 DEF Idle, NoFrame
  <2> QED BY <2>1, <2>2 DEF Unready, WireForms, Structure, FenceType
<1>4. 1 \in 1 .. Len(frames) /\ \A i \in 1 .. Len(frames') : i + 1 \in 1 .. Len(frames)
  BY <1>2
<1>5. NothingFresh' <=> NothingFresh
  <2>1. ASSUME NothingFresh PROVE NothingFresh'
    BY <1>1, <1>2, <1>4, <2>1 DEF NothingFresh
  <2>2. ASSUME NothingFresh' PROVE NothingFresh
    <3>1. frames[1].gen < pendingGen
      BY <1>1, <1>2, <1>3, <2>2 DEF NothingFresh, Unready
    <3>2. ASSUME NEW i \in 1 .. Len(frames), i # 1 PROVE frames[i].gen < pendingGen
      <4>1. PICK j \in 1 .. Len(frames') : i = j + 1
        BY <1>2, <3>2
      <4> QED BY <1>1, <1>2, <2>2, <4>1 DEF NothingFresh
    <3> QED BY <1>3, <3>1, <3>2 DEF NothingFresh
  <2> QED BY <2>1, <2>2
<1>6. link \notin {"replaying", "marked"}
  BY <1>1 DEF FencedInv, QuietInv
<1>7. QuietInv'
  BY <1>1, <1>5, <1>6 DEF FencedInv, QuietInv, Quiet
<1>8. RequestInv' /\ AckInv'
  BY <1>1, <1>5 DEF FencedInv, RequestInv, AckInv
<1>9. WireInv' /\ ServedInv'
  BY <1>1, <1>5 DEF FencedInv, WireInv, ServedInv
<1>10. FramesInv'
  <2> SUFFICES ASSUME table # {}, NEW i \in 1 .. Len(frames'), frames'[i].gen >= pendingGen
               PROVE  /\ frames'[i].epoch = epoch
                      /\ frames'[i].n = 0 <=>
                           /\ pendingGen # 0
                           /\ Unready(disp') => disp'.gen < pendingGen
                           /\ \A j \in 1 .. i - 1 : frames'[j].gen < pendingGen
    BY <1>1 DEF FramesInv, Unready
  <2>1. PICK k \in 1 .. Len(frames) : k = i + 1 /\ frames'[i] = frames[k]
    BY <1>2, <1>4
  <2>2. /\ frames[k].epoch = epoch
        /\ frames[k].n = 0 <=> pendingGen # 0 /\ \A j \in 1 .. k - 1 : frames[j].gen < pendingGen
    BY <1>3, <2>1 DEF FencedInv, FramesInv
  <2>3. ASSUME \A j \in 1 .. k - 1 : frames[j].gen < pendingGen
        PROVE  disp'.gen < pendingGen /\ \A j \in 1 .. i - 1 : frames'[j].gen < pendingGen
    <3>1. 1 \in 1 .. k - 1 /\ \A j \in 1 .. i - 1 : j + 1 \in 1 .. k - 1 /\ j \in 1 .. Len(frames')
      BY <2>1, <1>2
    <3> QED BY <1>2, <2>3, <3>1
  <2>4. ASSUME disp'.gen < pendingGen, \A j \in 1 .. i - 1 : frames'[j].gen < pendingGen
        PROVE  \A j \in 1 .. k - 1 : frames[j].gen < pendingGen
    <3>1. ASSUME NEW j \in 1 .. k - 1, j # 1 PROVE frames[j].gen < pendingGen
      <4>1. PICK m : m = j - 1
        OBVIOUS
      <4>2. m \in 1 .. i - 1 /\ j = m + 1 /\ m \in 1 .. Len(frames')
        BY <1>2, <2>1, <3>1, <4>1
      <4> QED BY <1>2, <2>4, <4>2
    <3> QED BY <1>2, <2>4, <3>1
  <2> QED BY <1>3, <2>1, <2>2, <2>3, <2>4
<1>11. DispInv'
  <2> SUFFICES ASSUME table # {}, frames[1].gen >= pendingGen
               PROVE  IF pendingGen = 0 THEN frames[1].epoch = epoch /\ frames[1].n # 0
                      ELSE frames[1].epoch = epoch /\ frames[1].n = 0
    BY <1>1, <1>2 DEF DispInv, Later, Baseline
  <2>1. /\ frames[1].epoch = epoch
        /\ frames[1].n = 0 <=> pendingGen # 0 /\ \A j \in 1 .. 1 - 1 : frames[j].gen < pendingGen
    BY <1>3, <1>4 DEF FencedInv, FramesInv
  <2> QED BY <2>1
<1>12. FlagInv'
  BY <1>3 DEF FlagInv
<1> QED BY <1>7, <1>8, <1>9, <1>10, <1>11, <1>12 DEF FencedInv

\* A fresh frame is the baseline and lowers the fence; what follows is later.
LEMMA FencedFlag ==
  ASSUME Structure, FencedInv, Flag PROVE FencedInv'
<1>1. /\ ~Idle /\ disp.form # "ready"
      /\ UNCHANGED <<link, conn, requests, wire, served, epoch, frames, table, call, sub, sending>>
  BY DEF Flag, netVars, callVars, subVars
<1>2. Unready(disp) /\ disp \in Dispatched /\ disp.gen \in Nat /\ pendingGen \in Nat
  BY <1>1, QueueTypes DEF Structure, QueueInv, FenceType, Unready, Dispatched
<1>3. /\ NoFrame.form = "none" /\ ~NoFrame.flag
      /\ \A b \in BOOLEAN : LET d == [disp EXCEPT !.form = "ready", !.flag = b]
                            IN d.form = "ready" /\ d.flag = b /\ d.n = disp.n /\ d.epoch = disp.epoch
  BY <1>2 DEF NoFrame, Dispatched
<1>4. ~Unready(disp') /\ to' \subseteq to
  BY <1>3 DEF Flag, Unready, WireForms
<1>5. link \notin {"replaying", "marked"}
  BY <1>1 DEF FencedInv, QuietInv
<1>6. DispInv'
  BY <1>4 DEF DispInv
<1>7. CASE pendingGen = 0 \/ Fenced(disp)
  <2>1. pendingGen' = pendingGen
    BY <1>7 DEF Flag
  <2>2. pendingGen # 0 => disp.gen < pendingGen
    BY <1>7 DEF Fenced
  <2>3. pendingGen # 0 => (NothingFresh' <=> NothingFresh)
    BY <1>1, <1>4, <2>1, <2>2 DEF NothingFresh
  <2>4. QuietInv'
    BY <1>1, <1>5, <2>1, <2>3 DEF FencedInv, QuietInv, Quiet
  <2>5. RequestInv' /\ AckInv'
    BY <1>1, <2>1, <2>3 DEF FencedInv, RequestInv, AckInv
  <2>6. WireInv' /\ ServedInv'
    BY <1>1, <2>1, <2>3 DEF FencedInv, WireInv, ServedInv
  <2>7. FramesInv'
    BY <1>1, <1>4, <2>1, <2>2 DEF FencedInv, FramesInv
  <2>8. FlagInv'
    <3> SUFFICES ASSUME disp'.flag, NEW s \in Subs, sub[s] = "open" PROVE FALSE
      BY <1>1 DEF FlagInv
    <3>1. table # {} /\ disp.form = "envelope"
      BY <1>3, <1>7 DEF Flag, Structure, GateInv
    <3>2. pendingGen = 0
      BY <1>3, <1>7, <3>1 DEF Flag
    <3>3. Later(disp)
      BY <1>2, <3>1, <3>2 DEF FencedInv, DispInv
    <3> QED BY <3>1, <3>3 DEF Later, Structure, QueueInv
  <2> QED BY <1>6, <2>4, <2>5, <2>6, <2>7, <2>8 DEF FencedInv
<1>8. CASE pendingGen # 0 /\ ~Fenced(disp)
  <2>1. disp.gen >= pendingGen /\ table # {}
    BY <1>2, <1>8 DEF Fenced, Structure, GateInv
  <2>2. Baseline(disp) /\ to # {}
    BY <1>2, <1>8, <2>1 DEF FencedInv, DispInv
  <2>3. disp' = [disp EXCEPT !.form = "ready", !.flag = TRUE] /\ pendingGen' = 0 /\ to' = to
    BY <1>8, <2>2 DEF Flag
  <2>4. ~NothingFresh
    BY <1>2, <2>1 DEF NothingFresh
  <2>5. QuietInv'
    BY <1>1, <1>5, <2>4 DEF FencedInv, QuietInv, Quiet
  <2>6. RequestInv' /\ AckInv'
    BY <1>1, <2>4 DEF FencedInv, RequestInv, AckInv
  <2>7. WireInv' /\ ServedInv'
    BY <1>1, <2>3, <2>4 DEF FencedInv, WireInv, ServedInv
  <2>8. FramesInv'
    <3> SUFFICES ASSUME NEW i \in 1 .. Len(frames) PROVE frames[i].epoch = epoch /\ frames[i].n # 0
      BY <1>1, <2>3 DEF FramesInv
    <3>1. frames[i].gen \in Nat /\ disp.gen <= frames[i].gen
      BY <1>2, QueueTypes DEF Structure, QueueInv
    <3>2. frames[i].gen >= pendingGen /\ ~(disp.gen < pendingGen)
      BY <1>2, <2>1, <3>1
    <3> QED BY <1>2, <2>1, <3>2 DEF FencedInv, FramesInv
  <2>9. FlagInv'
    BY <1>1, <1>3, <2>2, <2>3 DEF FlagInv, Baseline
  <2> QED BY <1>6, <2>5, <2>6, <2>7, <2>8, <2>9 DEF FencedInv
<1> QED BY <1>7, <1>8

LEMMA FencedSend ==
  ASSUME Structure, FencedInv, SendStep \/ \E s \in Subs : SendBegin(s) PROVE FencedInv'
<1>1. UNCHANGED <<link, conn, requests, wire, served, epoch, frames, pendingGen, table, call, sub>>
  BY DEF SendStep, Deliver, SendEnds, SendBegin, netVars, feedVars, callVars, subVars
<1>2. disp.form = "ready"
  BY DEF SendStep, Deliver, SendEnds, SendBegin, Structure, SendingInv
<1>3. disp' \in {disp, NoFrame} /\ to' \cup {sending'} \subseteq to \cup {sending, 0}
  BY DEF SendStep, Deliver, SendEnds, SendBegin, SendDone
<1>4. ~Unready(disp) /\ ~Unready(disp') /\ ~Idle /\ ~NoFrame.flag
  BY <1>2, <1>3 DEF Unready, Idle, NoFrame, WireForms
<1>5. NothingFresh' = NothingFresh
  BY <1>1, <1>4 DEF NothingFresh
<1>6. QuietInv'
  BY <1>1, <1>4, <1>5 DEF FencedInv, QuietInv, Quiet
<1>7. RequestInv' /\ AckInv'
  BY <1>1, <1>5 DEF FencedInv, RequestInv, AckInv
<1>8. WireInv' /\ ServedInv'
  BY <1>1, <1>5 DEF FencedInv, WireInv, ServedInv
<1>9. FramesInv' /\ DispInv'
  BY <1>1, <1>4 DEF FencedInv, FramesInv, DispInv
<1>10. FlagInv'
  BY <1>1, <1>3, <1>4, DepthDeliveryAssumption DEF FencedInv, FlagInv, Baseline
<1> QED BY <1>6, <1>7, <1>8, <1>9, <1>10 DEF FencedInv

\* Whatever is done to the structure, the fence holds as long as no request escaped it.
LEMMA FencedKept ==
  ASSUME Structure, ~loose => FencedInv, [Next]_vars, ~loose' PROVE FencedInv'
<1>1. CASE Redial
  BY <1>1, FencedRedial
<1>2. loose' = loose \/ Redial \/ Request \/ Abandon
  BY DEF Next, CallStep, CloseStep, DispatchStep, SendStep, Serve, Stream, Read, Drop, Subscribe, Unsubscribe, Unsubscribed,
         RequestFails, CloseMark, CloseChannel, Consume, TakeFrame, Flag, SendBegin, Deliver, SendEnds,
         ReplayMark, ReplayRequest, ReplayFails, vars
<1>3. CASE ~Redial
  <2>1. FencedInv
    BY <1>2, <1>3 DEF Request, Abandon
  <2>2. ASSUME NEW s \in Subs, CloseStep(s) \/ Consume(s) PROVE FencedInv'
    <3>1. \A t \in Subs : sub'[t] = "open" => sub[t] = "open"
      BY <2>2 DEF CloseStep, CloseMark, CloseChannel, Consume, Structure, CloseInv, SubsType
    <3> QED BY <2>1, <2>2, <3>1, FencedElsewhere
            DEF CloseStep, CloseMark, CloseChannel, Consume, netVars, feedVars, callVars, dispVars
  <2>3. CASE UNCHANGED vars
    BY <2>1, <2>3, FencedElsewhere DEF vars, netVars, feedVars, callVars, dispVars, subVars
  <2>4. CASE CallStep
    BY <2>1, <2>4, FencedSubscribe, FencedUnsubscribe, FencedUnsubscribed, FencedRequest, FencedRequestFails
       DEF CallStep, Abandon
  <2>5. CASE Drop \/ ReplayFails
    BY <2>1, <2>5, FencedLost, FencedFailed DEF Drop, ReplayFails, feedVars, subVars, dispVars
  <2> QED BY <1>3, <2>1, <2>2, <2>3, <2>4, <2>5, FencedServe, FencedStream, FencedRead, FencedReplay,
             FencedTake, FencedFlag, FencedSend DEF Next, DispatchStep
<1> QED BY <1>1, <1>3

LEMMA FenceInit ==
  ASSUME Init PROVE FenceInv
<1>1. /\ link = "up" /\ conn = 1 /\ noted = 0 /\ requests = <<>> /\ wire = <<>>
      /\ served = 0 /\ epoch = 0 /\ sent = 0 /\ frames = <<>>
      /\ generation = 0 /\ pendingGen = 0 /\ table = {} /\ active = 0
      /\ call = Free /\ asked = 0 /\ disp = NoFrame /\ to = {} /\ sending = 0
  BY DEF Init
<1>2. NoFrame.form = "none" /\ ~NoFrame.flag /\ NoFrame.gen = 0
  BY DEF NoFrame
<1>3. Free.kind = "none" /\ Free.at = "none" /\ Free.conn = 0
  BY DEF Free
<1>4. CloseInv
  BY CloseInit
<1>5. FenceType
  <2>1. NoFrame \in Dispatched /\ Free \in FenceCalls
    BY DEF NoFrame, Dispatched, Free, FenceCalls
  <2> QED BY <1>1, <2>1 DEF FenceType
<1>6. GateInv
  BY <1>1, <1>3 DEF GateInv, Init
<1>7. QueueInv /\ DownInv /\ SendingInv
  BY <1>1, <1>2 DEF QueueInv, DownInv, SendingInv, Idle, Unready, WireForms
<1>8. FencedInv
  <2>1. QuietInv
    BY <1>1, <1>3 DEF QuietInv, Quiet
  <2>2. RequestInv /\ AckInv /\ WireInv /\ ServedInv /\ FramesInv
    BY <1>1 DEF RequestInv, AckInv, WireInv, ServedInv, FramesInv
  <2>3. DispInv /\ FlagInv
    BY <1>1, <1>2 DEF DispInv, FlagInv
  <2> QED BY <2>1, <2>2, <2>3 DEF FencedInv
<1> QED BY <1>4, <1>5, <1>6, <1>7, <1>8 DEF FenceInv, Structure

LEMMA FenceKept ==
  ASSUME FenceInv, [Next]_vars PROVE FenceInv'
<1>1. Structure'
  BY CloseKept, TypeKept, GateKept, QueueKept, DownKept, SendingKept DEF FenceInv, Structure
<1> QED BY <1>1, FencedKept DEF FenceInv

\* However subscriptions, connections and replays follow each other: a frame that
\* reaches a subscriber as its snapshot is the baseline of the subscription that
\* is served, unless a request has escaped the fence on this connection.
THEOREM BaselinesFlagged == Spec => []FlaggedIsBaseline
<1>1. Init => FenceInv
  BY FenceInit
<1>2. FenceInv /\ [Next]_vars => FenceInv'
  BY FenceKept
<1>3. FenceInv => FlaggedIsBaseline
  BY DEF FenceInv, FencedInv, FlagInv, FlaggedIsBaseline, Baseline
<1> QED BY <1>1, <1>2, <1>3, PTL DEF Spec

-----------------------------------------------------------------------------
\* Nothing is missing after a baseline.

\* Subscriptions and what reached them.
LastInv ==
  /\ last \in [Subs -> Nat \X Nat]
  /\ \A s \in Subs : last[s] # Nowhere => sub[s] \in {"open", "doomed", "closing"}
  /\ Idle => to = {}
  /\ link = "up" /\ call.kind = "subscribe" /\ call.conn # conn => table = {}

\* The number of the last frame that left the queue, counted back from the last
\* one sent.
Cursor == sent - (IF wire = <<>> THEN 0 ELSE 1) - Len(frames)

\* What is queued for the subscriptions in the table is numbered without a gap.
NumbersInv ==
  table # {} =>
    /\ \A i \in 1 .. Len(frames) : frames[i].gen >= pendingGen => frames[i].n = Cursor + i
    /\ \A i \in 1 .. Len(wire) : wire[i].form # "ack" => wire[i].n = sent
    /\ ~Idle /\ (IF pendingGen = 0 THEN \E s \in table : s \in to \cup {sending}
                 ELSE Unready(disp) /\ disp.gen >= pendingGen) =>
         disp.epoch = epoch /\ disp.n = Cursor

\* Where a subscription that has its baseline stands.
PlaceInv ==
  \A s \in table : last[s] # Nowhere =>
    /\ pendingGen # 0 => /\ \A i \in 1 .. Len(frames) : frames[i].gen >= pendingGen
                         /\ ~Idle => Unready(disp) /\ disp.gen >= pendingGen
    /\ pendingGen = 0 /\ link = "up" /\ s \notin to \cup {sending} => last[s] = <<epoch, Cursor>>
    /\ Unready(disp) => s \in to

\* The frame under way is the next one for whom it is still sent to.
DueInv ==
  \A s \in Subs : s \in to \cup {sending} /\ last[s] # Nowhere =>
    /\ \/ disp.epoch = epoch /\ disp.n = 0
       \/ last[s] = <<disp.epoch, disp.n - 1>>
    /\ s \notin table => call.kind = "unsubscribe" /\ call.at = "close"

GapInv == link # "down" /\ ~loose => NumbersInv /\ PlaceInv /\ DueInv

LEMMA LastElsewhere ==
  ASSUME LastInv, UNCHANGED <<last, sub, disp, to, link, call, conn, table>> PROVE LastInv'
BY DEF LastInv, Idle

\* Where a channel that had frames stays one that is still to be closed.
LEMMA LastKept ==
  ASSUME Structure, Structure', LastInv, [Next]_vars PROVE LastInv'
<1>1. Nowhere \in Nat \X Nat /\ 0 \notin Subs /\ Free.kind = "none"
  BY DepthDeliveryAssumption DEF Nowhere, Free
<1>2. ASSUME UNCHANGED <<last, disp, to>>,
             \A s \in Subs : sub[s] \in {"open", "doomed", "closing"} => sub'[s] \in {"open", "doomed", "closing"},
             link' = "up" /\ call'.kind = "subscribe" /\ call'.conn # conn' => table' = {}
      PROVE  LastInv'
  BY <1>2 DEF LastInv, Idle
<1>3. ASSUME NEW s \in Subs, Subscribe(s) PROVE LastInv'
  <2>1. \A t \in Subs : sub'[t] = IF t = s THEN "open" ELSE sub[t]
    BY <1>3 DEF Subscribe, Structure, CloseInv, SubsType
  <2>2. link' = "up" /\ call'.kind = "subscribe" /\ call'.conn # conn' => table' = {}
    BY <1>1, <1>3 DEF Subscribe, netVars
  <2> QED BY <1>2, <1>3, <2>1, <2>2 DEF Subscribe, dispVars
<1>4. CASE Unsubscribe
  BY <1>2, <1>4 DEF Unsubscribe, dispVars, Structure, CloseInv, SubsType
<1>5. CASE Unsubscribed \/ Request
  <2>1. call.kind \in {"subscribe", "unsubscribe", "replay", "none"} /\ call \in FenceCalls
    BY DEF Structure, FenceType, FenceCalls
  <2>2. link' = "up" /\ call'.kind = "subscribe" /\ call'.conn # conn' => table' = {}
    BY <1>1, <1>5, <2>1 DEF Unsubscribed, Request, netVars, FenceCalls
  <2> QED BY <1>2, <1>5, <2>2 DEF Unsubscribed, Request, dispVars, subVars
<1>6. CASE RequestFails \/ Abandon
  <2>1. \A s \in Subs : sub[s] \in {"open", "doomed", "closing"} => sub'[s] \in {"open", "doomed", "closing"}
    BY <1>6 DEF RequestFails, Abandon, Rollback, Structure, CloseInv, SubsType
  <2> QED BY <1>1, <1>2, <1>6, <2>1 DEF RequestFails, Abandon, dispVars
<1>7. ASSUME NEW s \in Subs, CloseMark(s) PROVE LastInv'
  BY <1>2, <1>7 DEF CloseMark, netVars, feedVars, callVars, dispVars, Structure, CloseInv, SubsType, LastInv
<1>8. ASSUME NEW s \in Subs, CloseChannel(s) PROVE LastInv'
  <2>1. \A t \in Subs : /\ sub'[t] = IF t = s THEN "closed" ELSE sub[t]
                        /\ last'[t] = IF t = s THEN Nowhere ELSE last[t]
    BY <1>8 DEF CloseChannel, Structure, CloseInv, SubsType, LastInv
  <2>2. last' \in [Subs -> Nat \X Nat]
    BY <1>1, <1>8 DEF CloseChannel, LastInv
  <2>3. UNCHANGED <<disp, to, link, call, conn, table>>
    BY <1>8 DEF CloseChannel, netVars, feedVars, callVars, dispVars
  <2> QED BY <2>1, <2>2, <2>3 DEF LastInv, Idle
<1>9. ASSUME NEW s \in Subs, Consume(s) PROVE LastInv'
  BY <1>9, LastElsewhere DEF Consume, netVars, feedVars, callVars, dispVars
<1>10. CASE Serve \/ Stream \/ UNCHANGED vars
  BY <1>10, LastElsewhere DEF Serve, Stream, vars, netVars, feedVars, callVars, dispVars, subVars
<1>11. ASSUME LoseConnection, UNCHANGED <<last, disp, to>>, UNCHANGED sub \/ FailSubscriptions PROVE LastInv'
  <2>1. \A s \in Subs : sub[s] \in {"open", "doomed", "closing"} => sub'[s] \in {"open", "doomed", "closing"}
    BY <1>11 DEF FailSubscriptions, Structure, CloseInv, SubsType
  <2> QED BY <1>2, <1>11, <2>1 DEF LoseConnection
<1>12. CASE Drop \/ ReplayFails
  BY <1>11, <1>12 DEF Drop, ReplayFails, dispVars, subVars
<1>13. CASE Read
  <2>1. UNCHANGED <<last, disp, to>>
    BY <1>13 DEF Read, dispVars
  <2>2. CASE LoseConnection
    BY <1>11, <1>13, <2>1, <2>2 DEF Read, feedVars, FrameDoesNotFit
  <2>3. CASE ~LoseConnection
    <3>1. UNCHANGED <<sub, conn, table>> /\ (call' = call \/ call' = Free)
          /\ (UNCHANGED link \/ call' = Free)
      BY <1>13, <2>3 DEF Read, feedVars, callVars, FrameDoesNotFit
    <3> QED BY <1>1, <1>2, <2>1, <3>1 DEF LastInv
  <2> QED BY <2>2, <2>3
<1>14. CASE Redial
  BY <1>2, <1>14 DEF Redial, dispVars, subVars
<1>15. CASE ReplayMark
  <2>1. link' = "up" => table' = {}
    BY <1>15 DEF ReplayMark, Structure, GateInv
  <2> QED BY <1>2, <1>15, <2>1 DEF ReplayMark, dispVars, subVars
<1>16. CASE ReplayRequest
  <2>1. call'.kind # "subscribe"
    BY <1>1, <1>16 DEF ReplayRequest
  <2> QED BY <1>2, <1>16, <2>1 DEF ReplayRequest, dispVars, subVars
<1>17. CASE TakeFrame \/ Flag \/ \E s \in Subs : SendBegin(s)
  <2>1. UNCHANGED <<last, sub, link, call, conn, table>>
    BY <1>17 DEF TakeFrame, Flag, SendBegin, netVars, feedVars, callVars, subVars
  <2>2. Idle' => to' = {}
    <3>1. CASE TakeFrame
      <4>1. Head(frames) \in QueuedFrames
        BY <3>1, Taken DEF TakeFrame, Structure, FenceType
      <4>2. disp' # NoFrame
        BY <3>1, <4>1 DEF TakeFrame, QueuedFrames, NoFrame, WireForms
      <4> QED BY <4>2 DEF Idle
    <3>2. CASE Flag
      <4>1. \A b : [disp EXCEPT !.form = "ready", !.flag = b].form = "ready"
        BY DEF Structure, FenceType, Dispatched
      <4>2. disp'.form = "ready" \/ to' = {}
        BY <3>2, <4>1 DEF Flag
      <4> QED BY <4>2 DEF Idle, NoFrame
    <3>3. ASSUME NEW s \in Subs, SendBegin(s) PROVE Idle' => to' = {}
      BY <3>3 DEF SendBegin, SendDone, Idle, NoFrame
    <3> QED BY <1>17, <3>1, <3>2, <3>3
  <2> QED BY <2>1, <2>2 DEF LastInv
<1>18. CASE SendStep
  <2>1. sending \in Subs /\ sub[sending] \in {"open", "doomed", "closing"} /\ disp.form = "ready"
    BY <1>18 DEF SendStep, Deliver, SendEnds, Structure, CloseInv, SubsType, SendIsOpen, SendingInv
  <2>2. <<disp.epoch, disp.n>> \in Nat \X Nat
    BY DEF Structure, FenceType, Dispatched
  <2>3. last' \in [Subs -> Nat \X Nat] /\ \A s \in Subs : s # sending => last'[s] = last[s]
    BY <1>18, <2>1, <2>2 DEF SendStep, Deliver, SendEnds, subVars, LastInv
  <2>4. Idle' => to' = {}
    BY <1>18, <2>1 DEF SendStep, Deliver, SendEnds, SendDone, Idle, NoFrame
  <2>5. UNCHANGED <<sub, link, call, conn, table>>
    BY <1>18 DEF SendStep, Deliver, SendEnds, netVars, feedVars, callVars, subVars
  <2> QED BY <2>1, <2>3, <2>4, <2>5 DEF LastInv
<1> QED BY <1>3, <1>4, <1>5, <1>6, <1>7, <1>8, <1>9, <1>10, <1>12, <1>13, <1>14, <1>15, <1>16, <1>17, <1>18
        DEF Next, CallStep, CloseStep, DispatchStep

\* Numbers: what is not about the pipeline of the table keeps them.
LEMMA GapElsewhere ==
  ASSUME NumbersInv, PlaceInv, DueInv,
         UNCHANGED <<link, wire, sent, epoch, frames, pendingGen, table, call, disp, to, sending, last>>
  PROVE  NumbersInv' /\ PlaceInv' /\ DueInv'
<1>1. Cursor' = Cursor
  BY DEF Cursor
<1>2. NumbersInv'
  BY <1>1 DEF NumbersInv, Idle, Unready
<1>3. PlaceInv'
  BY <1>1 DEF PlaceInv, Idle, Unready
<1>4. DueInv'
  BY DEF DueInv
<1> QED BY <1>2, <1>3, <1>4

\* On an empty pipeline, with a frame to come that is a baseline.
LEMMA GapQuiet ==
  ASSUME wire' = <<>>, frames' = <<>>, Idle', to' = {}, sending' = 0, 0 \notin Subs,
         pendingGen' # 0 \/ link' # "up" \/ table' = {}
  PROVE  NumbersInv' /\ PlaceInv' /\ DueInv'
<1>1. ~Unready(disp')
  BY DEF Idle, NoFrame, Unready, WireForms
<1>2. NumbersInv'
  BY DEF NumbersInv
<1>3. PlaceInv'
  BY <1>1 DEF PlaceInv
<1>4. DueInv'
  BY DEF DueInv
<1> QED BY <1>2, <1>3, <1>4

\* Nobody is left in the table.
LEMMA GapNobody ==
  ASSUME table' = {}, DueInv' PROVE NumbersInv' /\ PlaceInv' /\ DueInv'
BY DEF NumbersInv, PlaceInv

LEMMA CursorType ==
  ASSUME Structure PROVE Cursor \in Int /\ sent \in Nat /\ Len(frames) \in Nat /\ pendingGen \in Nat
BY QueueTypes DEF Structure, FenceType, Cursor

\* The exchange.
LEMMA GapServe ==
  ASSUME Structure, FencedInv, LastInv, NumbersInv, PlaceInv, DueInv, Serve
  PROVE  NumbersInv' /\ PlaceInv' /\ DueInv'
<1>1. /\ requests # <<>> /\ requests \in Seq(Requests) /\ wire \in Seq(WireFrames) /\ epoch \in Nat
      /\ UNCHANGED <<link, conn, frames, pendingGen, table, call, disp, to, sending, last>>
  BY DEF Serve, feedVars, callVars, dispVars, subVars, Structure, FenceType
<1>2. /\ Head(requests) = requests[1] /\ requests[1] \in Requests /\ requests[1].kind = call.kind
      /\ call.at = "wait"
      /\ call.kind # "unsubscribe" => wire = <<>> /\ served = 0 /\ pendingGen # 0 /\ NothingFresh
  BY <1>1, Taken DEF FencedInv, RequestInv
<1>3. CASE call.kind = "unsubscribe"
  <2>1. table' = {} /\ epoch' = epoch
    BY <1>1, <1>2, <1>3 DEF Serve, Structure, GateInv
  <2>2. DueInv'
    BY <1>1, <2>1 DEF DueInv
  <2> QED BY <2>1, <2>2, GapNobody
<1>4. CASE call.kind # "unsubscribe"
  <2>1. wire = <<>> /\ pendingGen # 0 /\ NothingFresh /\ sent' = 0
    BY <1>2, <1>4 DEF Serve
  <2>2. PICK form \in {"update", "envelope"} : wire' = wire \o <<Ack(Head(requests).req), Frame(epoch', 0, form)>>
    BY <1>2, <1>4 DEF Serve
  <2> DEFINE a == Ack(Head(requests).req)
             b == Frame(epoch', 0, form)
  <2>3. epoch' \in Nat
    BY <1>1, <1>2, <1>4 DEF Serve
  <2>4. a \in WireFrames /\ b \in WireFrames /\ a.form = "ack" /\ b.n = 0
    BY <1>2, <2>3 DEF Ack, Frame, WireFrames, WireForms, Requests
  <2> HIDE DEF a, b
  <2>5. Len(wire') = 2 /\ wire'[1] = a /\ wire'[2] = b
    BY <1>1, <2>1, <2>2, <2>4, Answered DEF a, b
  <2>6. \A i \in 1 .. Len(frames) : ~(frames[i].gen >= pendingGen)
    BY <2>1, QueueTypes, CursorType DEF NothingFresh, Structure
  <2>7. ~(Unready(disp) /\ disp.gen >= pendingGen)
    BY <2>1, QueueTypes, CursorType DEF NothingFresh, Structure
  <2>8. NumbersInv'
    BY <1>1, <2>1, <2>4, <2>5, <2>6, <2>7 DEF NumbersInv, Unready
  <2>9. PlaceInv'
    BY <1>1, <2>1 DEF PlaceInv, Idle, Unready
  <2>10. DueInv'
    <3> SUFFICES ASSUME NEW s \in Subs, s \in to \cup {sending}, last[s] # Nowhere PROVE FALSE
      BY <1>1 DEF DueInv
    <3>1. s \in table
      BY <1>2 DEF DueInv
    <3>2. ~Idle
      BY <1>1, DepthDeliveryAssumption DEF LastInv, Structure, SendingInv, Idle, NoFrame
    <3> QED BY <2>1, <2>7, <3>1, <3>2 DEF PlaceInv
  <2> QED BY <2>8, <2>9, <2>10
<1> QED BY <1>3, <1>4

LEMMA GapStream ==
  ASSUME Structure, FencedInv, NumbersInv, PlaceInv, DueInv, Stream
  PROVE  NumbersInv' /\ PlaceInv' /\ DueInv'
<1>1. /\ wire = <<>> /\ wire \in Seq(WireFrames) /\ sent \in Nat /\ served \in Nat
      /\ sent' = sent + 1 /\ wire' = Append(wire, Frame(served, sent', "update"))
      /\ UNCHANGED <<link, epoch, frames, pendingGen, table, call, disp, to, sending, last>>
  BY DEF Structure, FenceType, Stream, feedVars, callVars, dispVars, subVars
<1> DEFINE f == Frame(served, sent', "update")
<1>2. f \in WireFrames /\ f.n = sent'
  BY <1>1 DEF Frame, WireFrames, WireForms
<1> HIDE DEF f
<1>3. Len(wire') = 1 /\ wire'[1] = f /\ wire' # <<>>
  BY <1>1, <1>2, Queued DEF f
<1>4. Cursor' = Cursor
  BY <1>1, <1>3, CursorType DEF Cursor
<1>5. NumbersInv'
  BY <1>1, <1>2, <1>3, <1>4 DEF NumbersInv, Idle, Unready
<1>6. PlaceInv'
  BY <1>1, <1>4 DEF PlaceInv, Idle, Unready
<1>7. DueInv'
  BY <1>1 DEF DueInv
<1> QED BY <1>5, <1>6, <1>7

\* Who comes and goes.
LEMMA GapSubscribe ==
  ASSUME Structure, FencedInv, LastInv, NumbersInv, PlaceInv, DueInv, NEW s \in Subs, Subscribe(s)
  PROVE  NumbersInv' /\ PlaceInv' /\ DueInv'
<1>1. /\ call = Free /\ sub[s] = "none" /\ table' = table \cup {s} /\ last[s] = Nowhere
      /\ UNCHANGED <<link, conn, wire, sent, epoch, frames, disp, to, sending, last>>
  BY DEF Subscribe, netVars, dispVars, LastInv
<1>2. s \notin to /\ s # sending
  BY <1>1, DepthDeliveryAssumption DEF Structure, GateInv, CloseInv, SendIsOpen
<1>3. Cursor' = Cursor /\ call.kind = "none"
  BY <1>1 DEF Cursor, Free
<1>4. DueInv'
  BY <1>1, <1>3 DEF DueInv
<1>5. CASE active = 0
  <2>1. table = {} /\ pendingGen' = generation + 1 /\ generation \in Nat
    BY <1>5 DEF Subscribe, MarkPending, Structure, GateInv, FenceType
  <2>2. pendingGen' # 0 /\ \A i \in 1 .. Len(frames) : ~(frames[i].gen >= pendingGen')
    BY <2>1, QueueTypes DEF Structure, QueueInv
  <2>3. ~(disp.gen >= pendingGen')
    BY <2>1, QueueTypes DEF Structure, QueueInv
  <2>4. wire = <<>>
    BY <1>1, <2>1 DEF FencedInv, QuietInv, Quiet
  <2>5. NumbersInv'
    BY <1>1, <2>2, <2>3, <2>4 DEF NumbersInv, Unready
  <2>6. PlaceInv'
    BY <1>1, <2>1 DEF PlaceInv
  <2> QED BY <1>4, <2>5, <2>6
<1>6. CASE active # 0
  <2>1. table # {} /\ pendingGen' = pendingGen
    BY <1>6 DEF Subscribe, Structure, GateInv
  <2>2. NumbersInv'
    BY <1>1, <1>2, <1>3, <2>1 DEF NumbersInv, Idle, Unready
  <2>3. PlaceInv'
    BY <1>1, <1>3, <2>1 DEF PlaceInv, Idle, Unready
  <2> QED BY <1>4, <2>2, <2>3
<1> QED BY <1>5, <1>6

LEMMA GapCall ==
  ASSUME Structure, FencedInv, LastInv, NumbersInv, PlaceInv, DueInv,
         Unsubscribe \/ Unsubscribed \/ Request \/ RequestFails, link # "down"
  PROVE  NumbersInv' /\ PlaceInv' /\ DueInv'
<1>1. UNCHANGED <<link, conn, wire, sent, epoch, frames, disp, to, sending, last>> /\ 0 \notin Subs
  BY DepthDeliveryAssumption DEF Unsubscribe, Unsubscribed, Request, RequestFails, netVars, dispVars, subVars
<1>2. CASE Unsubscribe
  <2>1. table' = {} /\ call = Free /\ call.kind = "none"
        /\ call'.kind = "unsubscribe" /\ call'.at = "close"
    BY <1>2 DEF Unsubscribe, Free
  <2>2. DueInv'
    BY <1>1, <2>1 DEF DueInv
  <2> QED BY <2>1, <2>2, GapNobody
<1>3. CASE Unsubscribed
  <2>1. table = {} /\ table' = {} /\ \A s \in Subs : sub[s] \notin {"doomed", "closing", "open"}
    BY <1>3 DEF Unsubscribed, feedVars, Structure, GateInv
  <2>2. DueInv'
    BY <1>1, <2>1 DEF DueInv, LastInv
  <2> QED BY <2>1, <2>2, GapNobody
<1>4. CASE Request
  <2>1. UNCHANGED <<pendingGen, table>> /\ call.at = "send"
    BY <1>4 DEF Request, feedVars
  <2>2. Cursor' = Cursor
    BY <1>1 DEF Cursor
  <2>3. NumbersInv'
    BY <1>1, <2>1, <2>2 DEF NumbersInv, Idle, Unready
  <2>4. PlaceInv'
    BY <1>1, <2>1, <2>2 DEF PlaceInv, Idle, Unready
  <2>5. DueInv'
    BY <1>1, <2>1 DEF DueInv
  <2> QED BY <2>3, <2>4, <2>5
<1>5. CASE RequestFails
  <2>1. Rollback /\ call.at = "wait" /\ call.kind # "replay" /\ call.conn # conn
    BY <1>5 DEF RequestFails
  <2>2. call.kind \in {"subscribe", "unsubscribe"}
    <3>1. call # Free
      BY <2>1 DEF Free
    <3> QED BY <2>1, <3>1 DEF Structure, GateInv, FenceType, FenceCalls
  <2>3. table' = {}
    BY <2>1, <2>2, RolledBack DEF Structure, GateInv
  <2>4. \A s \in Subs : s \in to \cup {sending} => last[s] = Nowhere
    <3>1. CASE link \in {"replaying", "marked"}
      BY <1>1, <3>1 DEF FencedInv, QuietInv, LastInv, Structure, SendingInv, Idle, NoFrame
    <3>2. CASE link = "up"
      <4>1. table = {}
        BY <2>1, <2>2, <3>2 DEF LastInv, Structure, GateInv
      <4> QED BY <2>1, <4>1 DEF DueInv
    <3> QED BY <3>1, <3>2 DEF Structure, FenceType
  <2>5. DueInv'
    BY <1>1, <2>4 DEF DueInv
  <2> QED BY <2>3, <2>5, GapNobody
<1> QED BY <1>2, <1>3, <1>4, <1>5

\* The read pump moves a frame from the wire into the queue, which moves nobody's place.
LEMMA GapRead ==
  ASSUME Structure, FencedInv, LastInv, NumbersInv, PlaceInv, DueInv, Read, link' # "down"
  PROVE  NumbersInv' /\ PlaceInv' /\ DueInv'
<1>1. /\ wire \in Seq(WireFrames) /\ wire # <<>> /\ Len(wire) \in Nat \ {0} /\ Head(wire) = wire[1]
      /\ Len(Tail(wire)) = Len(wire) - 1 /\ \A i \in 1 .. Len(Tail(wire)) : Tail(wire)[i] = wire[i + 1]
      /\ wire[1] \in WireFrames /\ 1 \in 1 .. Len(wire) /\ Tail(wire) \in Seq(WireFrames)
  BY Taken DEF Read, Structure, FenceType
<1>2. /\ wire' = Tail(wire)
      /\ UNCHANGED <<sent, epoch, pendingGen, table, disp, to, sending, last>>
  BY DEF Read, FrameDoesNotFit, LoseConnection, feedVars, dispVars
<1>3. table # {} => \A i \in 1 .. Len(wire') : wire'[i].form # "ack" => wire'[i].n = sent'
  <2> SUFFICES ASSUME table # {}, NEW i \in 1 .. Len(wire'), wire'[i].form # "ack" PROVE wire'[i].n = sent
    BY <1>2
  <2>1. wire'[i] = wire[i + 1] /\ i + 1 \in 1 .. Len(wire)
    BY <1>1, <1>2
  <2> QED BY <2>1 DEF NumbersInv
<1>4. CASE Head(wire).form = "ack"
  <2>1. /\ call.at = "wait" /\ wire[1].req = call.req
        /\ table # {} => Len(wire) = 2 /\ (call.kind = "replay" \/ link \notin {"replaying", "marked"})
        /\ call.kind = "replay" => link = "marked"
    BY <1>1, <1>4 DEF FencedInv, AckInv, QuietInv, Quiet, Structure, GateInv
  <2>2. frames' = frames /\ (link' = link \/ (link = "marked" /\ link' = "up"))
    BY <1>1, <1>4, <2>1 DEF Read
  <2>3. table # {} => Cursor' = Cursor
    <3>1. table # {} => wire' # <<>>
      BY <1>1, <1>2, <2>1
    <3> QED BY <1>1, <1>2, <2>2, <3>1 DEF Cursor
  <2>4. NumbersInv'
    BY <1>2, <1>3, <2>2, <2>3 DEF NumbersInv, Idle, Unready
  <2>5. PlaceInv'
    <3>1. link = "marked" /\ table # {} => pendingGen # 0
      BY DEF FencedInv, QuietInv
    <3> QED BY <1>2, <2>2, <2>3, <3>1 DEF PlaceInv, Idle, Unready
  <2>6. DueInv'
    BY <1>2, <2>1 DEF DueInv
  <2> QED BY <2>4, <2>5, <2>6
<1>5. CASE Head(wire).form # "ack" /\ Len(frames) < FrameQueue
  <2> DEFINE f == [epoch |-> Head(wire).epoch, n |-> Head(wire).n, form |-> Head(wire).form,
                   gen |-> generation, flag |-> FALSE]
  <2>1. f \in QueuedFrames /\ f.gen = generation /\ f.n = wire[1].n
    BY <1>1, <1>5 DEF Structure, FenceType, WireFrames, QueuedFrames, WireForms
  <2>2. frames' = Append(frames, f) /\ UNCHANGED <<link, call>>
    BY <1>5 DEF Read, callVars
  <2> HIDE DEF f
  <2>3. /\ frames \in Seq(QueuedFrames) /\ generation \in Nat /\ pendingGen <= generation
    BY DEF Structure, FenceType
  <2>4. /\ Len(frames') = Len(frames) + 1 /\ frames'[Len(frames) + 1] = f
        /\ \A i \in 1 .. Len(frames) : frames'[i] = frames[i]
    BY <2>1, <2>2, <2>3, Queued
  <2>5. table # {} => wire' = <<>> /\ wire[1].n = sent
    <3>1. table # {} => 1 = Len(wire)
      BY <1>1, <1>5 DEF FencedInv, WireInv
    <3> QED BY <1>1, <1>2, <1>5, <3>1 DEF NumbersInv
  <2>6. table # {} => Cursor' = Cursor /\ f.n = Cursor + (Len(frames) + 1)
    <3> SUFFICES ASSUME table # {} PROVE Cursor' = Cursor /\ f.n = Cursor + (Len(frames) + 1)
      OBVIOUS
    <3>1. Cursor = sent - 1 - Len(frames)
      BY <1>1 DEF Cursor
    <3>2. Cursor' = sent' - 0 - Len(frames')
      BY <2>5 DEF Cursor
    <3>3. Cursor' = sent - (Len(frames) + 1)
      BY <1>2, <2>4, <3>2, CursorType
    <3>4. f.n = sent
      BY <2>1, <2>5
    <3> QED BY <3>1, <3>3, <3>4, CursorType
  <2>7. ASSUME table # {}, NEW i \in 1 .. Len(frames'), frames'[i].gen >= pendingGen PROVE frames'[i].n = Cursor + i
    <3>1. CASE i \in 1 .. Len(frames)
      BY <2>4, <2>7, <3>1 DEF NumbersInv
    <3>2. CASE i = Len(frames) + 1
      BY <2>4, <2>6, <2>7, <3>2
    <3> QED BY <2>4, <3>1, <3>2, CursorType
  <2>8. NumbersInv'
    BY <1>2, <1>3, <2>2, <2>6, <2>7 DEF NumbersInv, Idle, Unready
  <2>9. PlaceInv'
    <3>1. ASSUME NEW s \in table, last[s] # Nowhere, pendingGen # 0, NEW i \in 1 .. Len(frames')
          PROVE  frames'[i].gen >= pendingGen
      <4>1. i \in 1 .. Len(frames) \/ i = Len(frames) + 1
        BY <2>4, CursorType
      <4> QED BY <2>1, <2>3, <2>4, <3>1, <4>1, CursorType DEF PlaceInv
    <3> QED BY <1>2, <2>2, <2>6, <3>1 DEF PlaceInv, Idle, Unready
  <2>10. DueInv'
    BY <1>2, <2>2 DEF DueInv
  <2> QED BY <2>8, <2>9, <2>10
<1>6. CASE Head(wire).form # "ack" /\ ~(Len(frames) < FrameQueue)
  BY <1>6 DEF Read, FrameDoesNotFit, LoseConnection
<1> QED BY <1>4, <1>5, <1>6

\* The dispatcher takes the frame that is next for everybody in the table.
LEMMA GapTake ==
  ASSUME Structure, FencedInv, LastInv, NumbersInv, PlaceInv, DueInv, TakeFrame, link # "down"
  PROVE  NumbersInv' /\ PlaceInv' /\ DueInv'
<1>1. /\ frames \in Seq(QueuedFrames) /\ frames # <<>> /\ frames' = Tail(frames) /\ disp' = Head(frames) /\ to' = table /\ Idle
      /\ UNCHANGED <<link, wire, sent, epoch, pendingGen, table, call, sending, last>>
  BY DEF TakeFrame, netVars, feedVars, callVars, subVars, Structure, FenceType
<1>2. /\ Len(frames) \in Nat \ {0} /\ disp' = frames[1] /\ frames[1] \in QueuedFrames
      /\ Len(frames') = Len(frames) - 1 /\ \A i \in 1 .. Len(frames') : frames'[i] = frames[i + 1]
      /\ 1 \in 1 .. Len(frames)
  BY <1>1, Taken
<1>3. /\ disp'.form \in WireForms /\ disp'.gen \in Nat /\ disp'.n \in Nat /\ Unready(disp') /\ ~Unready(disp)
      /\ sending = 0 /\ to = {} /\ 0 \notin Subs /\ table \subseteq Subs
  <2>1. disp'.form \in WireForms /\ disp'.gen \in Nat /\ disp'.n \in Nat
    BY <1>2 DEF QueuedFrames
  <2>2. disp.form = "none"
    BY <1>1 DEF Idle, NoFrame
  <2> QED BY <1>1, <2>1, <2>2, DepthDeliveryAssumption
          DEF Unready, WireForms, Structure, SendingInv, LastInv, CloseInv, SubsType
<1>4. Cursor' = Cursor + 1
  BY <1>1, <1>2, CursorType DEF Cursor
<1>5. link = "up" \/ link = "down"
  BY <1>1 DEF FencedInv, QuietInv, Structure, FenceType
<1>6. table # {} /\ disp'.gen >= pendingGen => disp'.epoch = epoch /\ disp'.n = Cursor'
  BY <1>1, <1>2, <1>4 DEF NumbersInv, FencedInv, FramesInv
<1>7. NumbersInv'
  <2>1. ASSUME table # {}, NEW i \in 1 .. Len(frames'), frames'[i].gen >= pendingGen PROVE frames'[i].n = Cursor' + i
    <3>1. PICK k \in 1 .. Len(frames) : k = i + 1 /\ frames'[i] = frames[k]
      BY <1>2
    <3>2. frames[k].n = Cursor + k
      BY <2>1, <3>1 DEF NumbersInv
    <3> QED BY <1>4, <3>1, <3>2, CursorType
  <2>2. pendingGen = 0 => disp'.gen >= pendingGen
    BY <1>3
  <2> QED BY <1>1, <1>6, <2>1, <2>2 DEF NumbersInv
<1>8. PlaceInv'
  <2> SUFFICES ASSUME NEW s \in table, last[s] # Nowhere
               PROVE  pendingGen # 0 => /\ \A i \in 1 .. Len(frames') : frames'[i].gen >= pendingGen
                                        /\ disp'.gen >= pendingGen
    BY <1>1, <1>3 DEF PlaceInv
  <2> QED BY <1>2 DEF PlaceInv
<1>9. DueInv'
  <2> SUFFICES ASSUME NEW s \in table, last[s] # Nowhere, link = "up"
               PROVE  (disp'.epoch = epoch /\ disp'.n = 0) \/ last[s] = <<disp'.epoch, disp'.n - 1>>
    BY <1>1, <1>3, <1>5 DEF DueInv
  <2>1. CASE pendingGen = 0
    <3>1. last[s] = <<epoch, Cursor>> /\ disp'.epoch = epoch /\ disp'.n = Cursor + 1
      BY <1>3, <1>4, <1>6, <2>1 DEF PlaceInv
    <3>2. Cursor = disp'.n - 1
      BY <3>1, CursorType
    <3> QED BY <3>1, <3>2
  <2>2. CASE pendingGen # 0
    <3>1. frames[1].gen >= pendingGen
      BY <1>2, <2>2 DEF PlaceInv
    <3>2. \A j \in 1 .. 1 - 1 : frames[j].gen < pendingGen
      OBVIOUS
    <3> QED BY <1>2, <1>3, <2>2, <3>1, <3>2 DEF FencedInv, FramesInv
  <2> QED BY <2>1, <2>2
<1> QED BY <1>7, <1>8, <1>9

\* The fence lets the frame through, lifts itself with it, or drops it.
LEMMA GapFlag ==
  ASSUME Structure, FencedInv, LastInv, NumbersInv, PlaceInv, DueInv, Flag
  PROVE  NumbersInv' /\ PlaceInv' /\ DueInv'
<1>1. /\ ~Idle /\ disp.form # "ready" /\ disp \in Dispatched /\ table \subseteq Subs
      /\ UNCHANGED <<link, wire, sent, epoch, frames, table, call, sending, last>>
  BY DEF Flag, netVars, callVars, subVars, Structure, FenceType, CloseInv, SubsType
<1>2. Unready(disp) /\ sending = 0 /\ 0 \notin Subs
  BY <1>1, DepthDeliveryAssumption DEF Structure, QueueInv, SendingInv, Unready, WireForms, Dispatched
<1>3. Cursor' = Cursor
  BY <1>1 DEF Cursor
<1>4. \A s \in table : last[s] # Nowhere => s \in to /\ ~Fenced(disp)
  <2>1. disp.gen \in Nat /\ pendingGen \in Nat
    BY <1>1 DEF Structure, FenceType, Dispatched
  <2>2. \A s \in table : last[s] # Nowhere => s \in to
    BY <1>2 DEF PlaceInv
  <2>3. \A s \in table : last[s] # Nowhere /\ pendingGen # 0 => disp.gen >= pendingGen
    BY <1>1 DEF PlaceInv
  <2> QED BY <2>1, <2>2, <2>3 DEF Fenced
<1>5. /\ pendingGen' = pendingGen \/ (pendingGen' = 0 /\ pendingGen # 0 /\ ~Fenced(disp))
      /\ pendingGen' = 0 => ~Fenced(disp)
  BY DEF Flag, Fenced
<1>6. pendingGen' # pendingGen => pendingGen # 0 /\ disp.gen >= pendingGen /\ pendingGen' = 0
                                   /\ \A i \in 1 .. Len(frames) : frames[i].gen >= pendingGen
  <2>1. disp.gen \in Nat /\ pendingGen \in Nat /\ \A i \in 1 .. Len(frames) : frames[i].gen \in Nat /\ disp.gen <= frames[i].gen
    BY <1>1, <1>2, QueueTypes DEF Structure, FenceType, Dispatched, QueueInv
  <2> QED BY <1>5, <2>1 DEF Fenced
<1>7. table # {} => \A i \in 1 .. Len(frames) : frames[i].gen >= pendingGen' => frames[i].n = Cursor + i
  BY <1>6 DEF NumbersInv
<1>8. CASE disp' = NoFrame
  <2>1. Idle' /\ ~Unready(disp') /\ to' = {}
    <3>1. \A b : [disp EXCEPT !.form = "ready", !.flag = b].form = "ready"
      BY <1>1 DEF Dispatched
    <3>2. to' = {} \/ disp'.form = "ready"
      BY <3>1 DEF Flag
    <3> QED BY <1>8, <3>2 DEF Idle, NoFrame, Unready, WireForms
  <2>2. \A s \in table : last[s] = Nowhere
    <3>1. to = {} \/ Fenced(disp)
      BY <2>1 DEF Flag
    <3> QED BY <1>4, <3>1
  <2>3. NumbersInv'
    BY <1>1, <1>3, <1>7, <2>1 DEF NumbersInv
  <2>4. PlaceInv'
    BY <1>1, <2>2 DEF PlaceInv
  <2>5. DueInv'
    BY <1>1, <1>2, <2>1 DEF DueInv
  <2> QED BY <2>3, <2>4, <2>5
<1>9. CASE disp' # NoFrame
  <2>1. PICK b : disp' = [disp EXCEPT !.form = "ready", !.flag = b]
    BY <1>9 DEF Flag
  <2>2. disp'.form = "ready" /\ disp'.n = disp.n /\ disp'.epoch = disp.epoch
    BY <1>1, <2>1 DEF Dispatched
  <2>3. to' = to /\ ~Unready(disp')
    BY <1>9, <2>2 DEF Flag, Unready, WireForms
  <2>4. NumbersInv'
    <3>1. ASSUME table # {}, pendingGen' = 0, \E s \in table : s \in to \cup {sending}
          PROVE  disp.epoch = epoch /\ disp.n = Cursor
      BY <1>1, <1>2, <1>6, <3>1 DEF NumbersInv
    <3> QED BY <1>1, <1>3, <1>7, <2>2, <2>3, <3>1 DEF NumbersInv
  <2>5. PlaceInv'
    <3>1. pendingGen' # 0 => Fenced(disp)
      BY <1>9, <2>1 DEF Flag, Fenced
    <3> QED BY <1>1, <1>3, <1>4, <2>3, <3>1 DEF PlaceInv
  <2>6. DueInv'
    BY <1>1, <2>2, <2>3 DEF DueInv
  <2> QED BY <2>4, <2>5, <2>6
<1> QED BY <1>8, <1>9

\* A send that leaves a channel's place alone.
LEMMA GapPassed ==
  ASSUME Structure, LastInv, NumbersInv, PlaceInv, DueInv,
         disp.form = "ready", disp' = disp \/ (disp' = NoFrame /\ to' = {} /\ sending' = 0), to' \subseteq to,
         UNCHANGED <<link, wire, sent, epoch, frames, pendingGen, table, call, last>>,
         sending' = 0 \/ sending' \in to \cup {sending},
         \A s \in table : s \in to \cup {sending} => s \in to' \cup {sending'}
  PROVE  NumbersInv' /\ PlaceInv' /\ DueInv'
<1>1. Cursor' = Cursor /\ 0 \notin Subs /\ ~Idle /\ ~Unready(disp) /\ ~Unready(disp') /\ table \subseteq Subs
  BY DepthDeliveryAssumption DEF Cursor, Idle, NoFrame, Unready, WireForms, Structure, CloseInv, SubsType
<1>2. disp' = disp => ~Idle'
  BY <1>1 DEF Idle
<1>3. disp' # disp => Idle'
  BY DEF Idle
<1>4. NumbersInv'
  <2>1. (\E s \in table : s \in to' \cup {sending'}) => \E s \in table : s \in to \cup {sending}
    BY <1>1
  <2> QED BY <1>1, <1>2, <1>3, <2>1 DEF NumbersInv
<1>5. PlaceInv'
  <2>1. \A s \in table : last[s] # Nowhere => pendingGen = 0
    BY <1>1 DEF PlaceInv
  <2> QED BY <1>1, <2>1 DEF PlaceInv
<1>6. DueInv'
  <2>1. disp' # disp => \A s \in Subs : s \notin to' \cup {sending'}
    BY <1>1
  <2> QED BY <1>1, <2>1 DEF DueInv
<1> QED BY <1>4, <1>5, <1>6

\* A subscription that is not to be sent to any more is not in the table; one
\* that is sent to is brought to the cursor.
LEMMA GapSend ==
  ASSUME Structure, FencedInv, LastInv, NumbersInv, PlaceInv, DueInv, link # "down",
         SendStep \/ \E s \in Subs : SendBegin(s)
  PROVE  NumbersInv' /\ PlaceInv' /\ DueInv'
<1>1. UNCHANGED <<link, wire, sent, epoch, frames, pendingGen, table, call, sub>> /\ 0 \notin Subs
  BY DepthDeliveryAssumption DEF SendStep, Deliver, SendEnds, SendBegin, netVars, feedVars, callVars, subVars
<1>2. ASSUME NEW s \in Subs, SendBegin(s) PROVE NumbersInv' /\ PlaceInv' /\ DueInv'
  <2>1. /\ disp.form = "ready" /\ last' = last /\ to' = to \ {s} /\ sending = 0 /\ s \in to
        /\ disp' = disp \/ (disp' = NoFrame /\ to' = {} /\ sending' = 0)
        /\ sending' = 0 \/ sending' \in to \cup {sending}
    BY <1>2 DEF SendBegin, SendDone, subVars
  <2>2. s \in table => sending' = s
    BY <1>2 DEF SendBegin, Structure, CloseInv, TableIsOpen
  <2>3. 0 \notin table
    BY <1>1 DEF Structure, CloseInv, SubsType
  <2>4. \A t \in table : t \in to \cup {sending} => t \in to' \cup {sending'}
    BY <2>1, <2>2, <2>3
  <2> QED BY <1>1, <2>1, <2>4, GapPassed
<1>3. CASE SendEnds
  <2>1. /\ sending # 0 /\ last' = last /\ sub[sending] = "closing" /\ to' = to /\ sending' = 0
        /\ disp' = disp \/ (disp' = NoFrame /\ to' = {} /\ sending' = 0)
    BY <1>3 DEF SendEnds, SendDone, GivesUp, Stopping, subVars
  <2>2. disp.form = "ready" /\ sending \notin table
    BY <2>1 DEF Structure, SendingInv, CloseInv, TableIsOpen
  <2>3. \A t \in table : t \in to \cup {sending} => t \in to' \cup {sending'}
    BY <2>1, <2>2
  <2> QED BY <1>1, <2>1, <2>2, <2>3, GapPassed
<1>4. CASE Deliver
  <2>1. /\ sending # 0 /\ to' = to /\ sending' = 0
        /\ disp' = IF to = {} THEN NoFrame ELSE disp
        /\ last' = [last EXCEPT ![sending] = IF disp.flag \/ last[sending] # Nowhere
                                             THEN <<disp.epoch, disp.n>> ELSE last[sending]]
    BY <1>4 DEF Deliver, SendDone
  <2>2. /\ disp.form = "ready" /\ sending \notin to /\ sending \in Subs /\ table \subseteq Subs
        /\ \A s \in table : sub[s] = "open"
    BY <2>1 DEF Structure, SendingInv, CloseInv, SubsType, TableIsOpen
  <2>3. /\ \A s \in Subs : s # sending => last'[s] = last[s]
        /\ last'[sending] # Nowhere => /\ disp.flag \/ last[sending] # Nowhere
                                       /\ last'[sending] = <<disp.epoch, disp.n>>
    BY <2>1, <2>2 DEF LastInv
  <2>4. ~Idle /\ ~Unready(disp) /\ ~Unready(disp') /\ Cursor' = Cursor /\ (to # {} => ~Idle' /\ disp' = disp)
        /\ (to = {} => Idle')
    BY <1>1, <2>1, <2>2 DEF Idle, NoFrame, Unready, WireForms, Cursor
  <2>5. NumbersInv'
    <3>1. (\E s \in table : s \in to' \cup {sending'}) => \E s \in table : s \in to \cup {sending}
      BY <1>1, <2>1, <2>2
    <3> QED BY <1>1, <2>4, <3>1 DEF NumbersInv
  <2>6. PlaceInv'
    <3> SUFFICES ASSUME NEW s \in table, last'[s] # Nowhere
                 PROVE  /\ pendingGen = 0
                        /\ link = "up" /\ s \notin to' \cup {sending'} => last'[s] = <<epoch, Cursor>>
      BY <1>1, <2>4 DEF PlaceInv
    <3>1. CASE s # sending
      <4>1. last'[s] = last[s] /\ s \in Subs
        BY <2>2, <2>3, <3>1
      <4>2. pendingGen = 0
        BY <2>4, <4>1 DEF PlaceInv
      <4> QED BY <2>1, <3>1, <4>1, <4>2 DEF PlaceInv
    <3>2. CASE s = sending
      <4>1. pendingGen = 0
        <5>1. CASE disp.flag
          BY <2>2, <3>2, <5>1 DEF FencedInv, FlagInv
        <5>2. CASE last[sending] # Nowhere
          BY <2>4, <3>2, <5>2 DEF PlaceInv
        <5> QED BY <2>3, <3>2, <5>1, <5>2
      <4>2. disp.epoch = epoch /\ disp.n = Cursor
        BY <2>4, <3>2, <4>1 DEF NumbersInv
      <4> QED BY <2>3, <3>2, <4>1, <4>2
    <3> QED BY <3>1, <3>2
  <2>7. DueInv'
    BY <1>1, <2>1, <2>2, <2>3, <2>4 DEF DueInv
  <2> QED BY <2>5, <2>6, <2>7
<1> QED BY <1>2, <1>3, <1>4 DEF SendStep

\* A new connection starts with nothing under way, and its replay raises the
\* fence before anything is asked for.
LEMMA GapReconnect ==
  ASSUME Structure, LastInv, ~loose => FencedInv, ~loose', Redial \/ ReplayMark \/ ReplayRequest
  PROVE  NumbersInv' /\ PlaceInv' /\ DueInv'
<1>1. UNCHANGED <<wire, table, disp, to, sending, active>> /\ 0 \notin Subs
  BY DepthDeliveryAssumption DEF Redial, ReplayMark, ReplayRequest, feedVars, dispVars
<1>2. /\ wire' = <<>> /\ frames' = <<>> /\ Idle
  <2>1. CASE Redial
    BY <2>1 DEF Redial, Structure, DownInv, Quiet
  <2>2. CASE ReplayMark
    <3>1. ~loose /\ link = "replaying" /\ frames' = frames
      BY <2>2 DEF ReplayMark
    <3>2. call.kind # "replay"
      BY <3>1 DEF Structure, GateInv
    <3> QED BY <1>1, <3>1, <3>2 DEF FencedInv, QuietInv, Quiet
  <2>3. CASE ReplayRequest
    <3>1. ~loose /\ link = "marked" /\ call = Free /\ frames' = frames
      BY <2>3 DEF ReplayRequest
    <3>2. call.kind # "replay"
      BY <3>1 DEF Free
    <3> QED BY <1>1, <3>1, <3>2 DEF FencedInv, QuietInv, Quiet
  <2> QED BY <2>1, <2>2, <2>3
<1>3. Idle' /\ to' = {} /\ sending' = 0
  BY <1>1, <1>2 DEF Idle, LastInv, Structure, SendingInv, NoFrame
<1>4. pendingGen' # 0 \/ link' # "up" \/ table' = {}
  <2>1. CASE Redial
    BY <2>1 DEF Redial
  <2>2. CASE ReplayMark
    BY <1>1, <2>2 DEF ReplayMark, Structure, GateInv
  <2>3. CASE ReplayRequest
    <3>1. ~loose /\ link = "marked" /\ pendingGen' = pendingGen
      BY <2>3 DEF ReplayRequest, feedVars
    <3> QED BY <1>1, <3>1 DEF FencedInv, QuietInv
  <2> QED BY <2>1, <2>2, <2>3
<1> QED BY <1>1, <1>2, <1>3, <1>4, GapQuiet

\* Closing a channel: nothing is under way to it, and it is in no table.
LEMMA GapClose ==
  ASSUME Structure, LastInv, NumbersInv, PlaceInv, DueInv, NEW s \in Subs, CloseStep(s) \/ Consume(s)
  PROVE  NumbersInv' /\ PlaceInv' /\ DueInv'
<1>1. UNCHANGED <<link, wire, sent, epoch, frames, pendingGen, table, call, disp, to, sending>>
  BY DEF CloseStep, CloseMark, CloseChannel, Consume, netVars, feedVars, callVars, dispVars
<1>2. CASE CloseMark(s) \/ Consume(s)
  BY <1>1, <1>2, GapElsewhere DEF CloseMark, Consume
<1>3. CASE CloseChannel(s)
  <2>1. \A t \in Subs : last'[t] # Nowhere => last[t] # Nowhere /\ last'[t] = last[t]
    BY <1>3 DEF CloseChannel, LastInv
  <2>2. Cursor' = Cursor /\ table \subseteq Subs
    BY <1>1 DEF Cursor, Structure, CloseInv, SubsType
  <2>3. NumbersInv'
    BY <1>1, <2>2 DEF NumbersInv, Idle, Unready
  <2>4. PlaceInv'
    BY <1>1, <2>1, <2>2 DEF PlaceInv, Idle, Unready
  <2>5. DueInv'
    BY <1>1, <2>1 DEF DueInv
  <2> QED BY <2>3, <2>4, <2>5
<1> QED BY <1>2, <1>3 DEF CloseStep

LEMMA GapKept ==
  ASSUME FenceInv, LastInv, GapInv, [Next]_vars PROVE GapInv'
<1> SUFFICES ASSUME link' # "down", ~loose' PROVE NumbersInv' /\ PlaceInv' /\ DueInv'
  BY DEF GapInv
<1> USE DEF FenceInv
<1>1. CASE Redial \/ ReplayMark \/ ReplayRequest
  BY <1>1, GapReconnect
<1>2. ASSUME link # "down", ~loose PROVE Structure /\ FencedInv /\ NumbersInv /\ PlaceInv /\ DueInv
  BY <1>2 DEF GapInv
<1>3. CASE Serve \/ Stream
  BY <1>2, <1>3, GapServe, GapStream DEF Serve, Stream
<1>4. CASE Read
  BY <1>2, <1>4, GapRead DEF Read
<1>5. CASE Drop \/ ReplayFails
  BY <1>5 DEF Drop, ReplayFails, LoseConnection
<1>6. ASSUME NEW s \in Subs, Subscribe(s) PROVE NumbersInv' /\ PlaceInv' /\ DueInv'
  BY <1>2, <1>6, GapSubscribe DEF Subscribe, netVars
<1>7. CASE Unsubscribe \/ Unsubscribed \/ Request \/ RequestFails
  <2>1. link # "down" /\ ~loose
    <3>1. CASE Unsubscribe \/ Unsubscribed \/ RequestFails
      BY <3>1 DEF Unsubscribe, Unsubscribed, RequestFails, netVars
    <3>2. CASE Request
      <4>1. loose' = (loose \/ (call.kind # "replay" /\ (link # "up" \/ conn # call.conn)))
        BY <3>2 DEF Request
      <4>2. ~loose
        BY ZenonT(20), <4>1
      <4> QED BY <3>2, <4>2 DEF Request
    <3> QED BY <1>7, <3>1, <3>2
  <2> QED BY <1>2, <1>7, <2>1, GapCall
<1>8. CASE Abandon
  BY <1>8 DEF Abandon
<1>9. ASSUME NEW s \in Subs, CloseStep(s) \/ Consume(s) PROVE NumbersInv' /\ PlaceInv' /\ DueInv'
  <2>1. link # "down" /\ ~loose
    BY <1>9 DEF CloseStep, CloseMark, CloseChannel, Consume, netVars
  <2> QED BY <1>2, <1>9, <2>1, GapClose
<1>10. CASE DispatchStep
  <2>1. link # "down" /\ ~loose
    <3>1. UNCHANGED netVars /\ UNCHANGED loose
      BY <1>10 DEF DispatchStep, TakeFrame, Flag, SendBegin, SendStep, Deliver, SendEnds
    <3> QED BY <3>1 DEF netVars
  <2> QED BY <1>2, <1>10, <2>1, GapTake, GapFlag, GapSend DEF DispatchStep
<1>11. CASE UNCHANGED vars
  <2>1. link # "down" /\ ~loose
        /\ UNCHANGED <<link, wire, sent, epoch, frames, pendingGen, table, call, disp, to, sending, last>>
    BY <1>11 DEF vars, netVars, feedVars, callVars, dispVars, subVars
  <2> QED BY <1>2, <2>1, GapElsewhere
<1> QED BY <1>1, <1>3, <1>4, <1>5, <1>6, <1>7, <1>8, <1>9, <1>10, <1>11 DEF Next, CallStep

LEMMA GapInit ==
  ASSUME Init PROVE LastInv /\ GapInv
<1>1. Nowhere \in Nat \X Nat /\ Free.kind = "none"
  BY DEF Nowhere, Free
<1>2. LastInv
  BY <1>1 DEF Init, LastInv
<1>3. /\ table = {} /\ to = {} /\ sending = 0 /\ 0 \notin Subs
  BY DepthDeliveryAssumption DEF Init
<1> QED BY <1>2, <1>3 DEF GapInv, NumbersInv, PlaceInv, DueInv

\* Only a delivery moves a subscriber on.
LEMMA NoGapStep ==
  ASSUME FenceInv, LastInv, GapInv, [Next]_vars, NEW s \in Subs,
         last[s] # Nowhere, last'[s] \notin {last[s], Nowhere}, ~Stopping, ~loose
  PROVE  last'[s] = <<last[s][1], last[s][2] + 1>> \/ last'[s] = <<epoch, 0>>
<1>1. UNCHANGED last \/ Deliver \/ \E t \in Subs : CloseChannel(t)
  <2>1. CASE Serve \/ Stream \/ Read \/ Drop \/ UNCHANGED vars
    BY <2>1 DEF Serve, Stream, Read, Drop, vars, subVars
  <2>2. CASE CallStep
    BY <2>2 DEF CallStep, Subscribe, Unsubscribe, Unsubscribed, Request, RequestFails, Abandon, subVars
  <2>3. ASSUME NEW t \in Subs, CloseStep(t) \/ Consume(t) PROVE UNCHANGED last \/ CloseChannel(t)
    BY <2>3 DEF CloseStep, CloseMark, Consume
  <2>4. CASE DispatchStep
    BY <2>4 DEF DispatchStep, TakeFrame, Flag, SendBegin, SendStep, SendEnds, subVars
  <2>5. CASE Redial \/ ReplayMark \/ ReplayRequest \/ ReplayFails
    BY <2>5 DEF Redial, ReplayMark, ReplayRequest, ReplayFails, subVars
  <2> QED BY <2>1, <2>2, <2>3, <2>4, <2>5 DEF Next
<1>2. ASSUME NEW t \in Subs, CloseChannel(t) PROVE FALSE
  BY <1>2 DEF CloseChannel, LastInv
<1>3. Deliver
  BY <1>1, <1>2
<1>4. sending = s /\ last'[s] = <<disp.epoch, disp.n>>
  BY <1>3 DEF Deliver, LastInv
<1>5. (disp.epoch = epoch /\ disp.n = 0) \/ last[s] = <<disp.epoch, disp.n - 1>>
  BY <1>4 DEF GapInv, DueInv, Stopping
<1>6. disp.epoch \in Nat /\ disp.n \in Nat
  BY DEF FenceInv, Structure, FenceType, Dispatched
<1>7. CASE last[s] = <<disp.epoch, disp.n - 1>>
  <2>1. last[s][1] = disp.epoch /\ last[s][2] = disp.n - 1
    BY <1>7
  <2>2. last[s][2] + 1 = disp.n
    BY <1>6, <2>1
  <2> QED BY <1>4, <2>1, <2>2
<1> QED BY <1>4, <1>5, <1>7

\* A subscriber that has its baseline never silently loses a frame: every frame
\* it gets is the next one of the same subscription or the baseline of the one
\* that is served, for any number of subscriptions, queue sizes and
\* reconnects, as long as the connection lasts and no request has escaped the
\* fence on it.
THEOREM NoFrameLost == Spec => NoSilentLoss
<1>1. Init => FenceInv /\ LastInv /\ GapInv
  BY FenceInit, GapInit
<1>2. FenceInv /\ LastInv /\ GapInv /\ [Next]_vars => (FenceInv /\ LastInv /\ GapInv)'
  <2> SUFFICES ASSUME FenceInv, LastInv, GapInv, [Next]_vars PROVE (FenceInv /\ LastInv /\ GapInv)'
    OBVIOUS
  <2>1. FenceInv'
    BY FenceKept
  <2>2. LastInv'
    BY <2>1, LastKept DEF FenceInv
  <2>3. GapInv'
    BY GapKept
  <2> QED BY <2>1, <2>2, <2>3
<1>3. FenceInv /\ LastInv /\ GapInv /\ [Next]_vars =>
        [\A s \in Subs :
           last[s] # Nowhere /\ last'[s] \notin {last[s], Nowhere} /\ ~Stopping /\ ~loose
             => last'[s] = <<last[s][1], last[s][2] + 1>> \/ last'[s] = <<epoch, 0>>]_vars
  BY NoGapStep
<1> QED BY <1>1, <1>2, <1>3, PTL DEF Spec, NoSilentLoss

-----------------------------------------------------------------------------
(***************************************************************************)
(* The reference counts of isolated clients are large enough, for any      *)
(* number of calls and variants: a failed Subscribe closes no client that  *)
(* another call uses, and no client is left open.                          *)
(***************************************************************************)
\* Calls that count on the client in the table.
Users ==
  {c \in Calls : current # 0 /\ using[c] = current
                 /\ pc[c] \in {"acquired", "registered", "cut", "serving", "failed"}}

\* References are counted: at least one for each call that uses the client.
\* There may be more, for channels that have been closed.
Counted ==
  /\ IsFiniteSet(Users) /\ Cardinality(Users) <= refs
  /\ current = 0 => refs = 0

\* What is about to be closed has left the table, and only Close sweeps.
Removed ==
  /\ \A c \in Calls : pc[c] \notin {"idle", "ended"} => using[c] # 0
  /\ \A c \in Calls : Isolated!Closer(c) => using[c] # current
  /\ parent \in {"open", "closed"} => swept = {}

ClientsInv == Isolated!TypeOK /\ Counted /\ Removed /\ Isolated!IsolationHolds

LEMMA ClientsStart == Isolated!Init => ClientsInv
<1> SUFFICES ASSUME Isolated!Init PROVE ClientsInv
  OBVIOUS
<1>1. Isolated!TypeOK
  BY DEF Isolated!Init, Isolated!TypeOK, Isolated!Places
<1>2. Users = {}
  BY DEF Isolated!Init, Users
<1>3. Counted
  BY <1>2, FS_EmptySet DEF Counted, Isolated!Init
<1>4. Removed /\ Isolated!IsolationHolds
  BY DEF Isolated!Init, Removed, Isolated!Closer, Isolated!IsolationHolds, Isolated!ReleasedIsUnused, Isolated!NoneLeftOpen
<1> QED
  BY <1>1, <1>3, <1>4 DEF ClientsInv

\* Fewer users are no fewer references.
LEMMA FewerUsers ==
  ASSUME Counted, Users' \subseteq Users, refs' = refs, refs \in Nat,
         current' = 0 => current = 0
  PROVE  Counted'
<1>1. IsFiniteSet(Users') /\ Cardinality(Users') <= Cardinality(Users)
  BY FS_Subset DEF Counted
<1>2. Cardinality(Users') \in Nat /\ Cardinality(Users) \in Nat
  BY <1>1, FS_CardinalityType DEF Counted
<1> QED
  BY <1>1, <1>2 DEF Counted

\* The type of what every step leaves behind.
LEMMA ClientsType == ClientsInv /\ Isolated!Next => Isolated!TypeOK'
<1> SUFFICES ASSUME Isolated!TypeOK, Isolated!Next PROVE Isolated!TypeOK'
  BY DEF ClientsInv
<1> USE DEF Isolated!TypeOK, Isolated!Places, Isolated!Goes, Isolated!tableVars, Isolated!callVars
<1>1. ASSUME NEW c \in Calls, Isolated!Acquire(c) PROVE Isolated!TypeOK'
  <2>1. CASE current = 0
    <3>1. activeFeed' \in [1 .. made' -> Variants \cup {NoVariant}]
      BY <1>1, <2>1 DEF Isolated!Acquire
    <3>2. /\ made' = made + 1 /\ current' = made + 1 /\ refs' = refs + 1 /\ open' = open \cup {made + 1}
          /\ using' = [using EXCEPT ![c] = made + 1] /\ pc' = [pc EXCEPT ![c] = "acquired"]
          /\ UNCHANGED <<parent, variant, swept, losses>>
      BY <1>1, <2>1 DEF Isolated!Acquire
    <3>3. made \in Nat /\ 0 .. made \subseteq 0 .. made + 1 /\ 1 .. made \subseteq 1 .. made + 1
          /\ made + 1 \in 1 .. made + 1 /\ made + 1 \in 0 .. made + 1
      OBVIOUS
    <3> QED
      BY <3>1, <3>2, <3>3
  <2>2. CASE current # 0
    <3>1. /\ refs' = refs + 1
          /\ using' = [using EXCEPT ![c] = current] /\ pc' = [pc EXCEPT ![c] = "acquired"]
          /\ UNCHANGED <<parent, current, made, open, activeFeed, variant, swept, losses>>
      BY <1>1, <2>2 DEF Isolated!Acquire
    <3> QED
      BY <3>1
  <2> QED
    BY <2>1, <2>2
<1>2. ASSUME NEW c \in Calls, Isolated!Register(c) \/ Isolated!Subscribed(c) \/ Isolated!SubscribeFails(c) PROVE Isolated!TypeOK'
  BY <1>2 DEF Isolated!Register, Isolated!Subscribed, Isolated!SubscribeFails, Isolated!WithoutFeed
<1>3. ASSUME NEW c \in Calls, Isolated!Release(c) PROVE Isolated!TypeOK'
  BY <1>3 DEF Isolated!Release
<1>4. ASSUME NEW c \in Calls, Isolated!Remove(c) \/ Isolated!RemoveFails(c) \/ Isolated!AcquireFails(c) PROVE Isolated!TypeOK'
  <2>1. CASE Isolated!Remove(c)
    BY <2>1 DEF Isolated!Remove
  <2>2. CASE Isolated!RemoveFails(c) \/ Isolated!AcquireFails(c)
    BY <2>2 DEF Isolated!RemoveFails, Isolated!AcquireFails
  <2> QED
    BY <1>4, <2>1, <2>2
<1>5. ASSUME NEW x PROVE Isolated!CloseChannels(x) \in [Calls -> Isolated!Places]
  BY DEF Isolated!CloseChannels
<1>6. ASSUME NEW c \in Calls, Isolated!Unsubscribed(c) PROVE Isolated!TypeOK'
  <2>1. Isolated!CloseChannels(using[c]) \in [Calls -> Isolated!Places] /\ "unsubscribing" \in Isolated!Places
    BY <1>5
  <2> HIDE DEF Isolated!Places
  <2>2. pc' \in [Calls -> Isolated!Places]
    BY <1>6, <2>1 DEF Isolated!Unsubscribed
  <2>3. activeFeed' \in [1 .. made -> Variants \cup {NoVariant}]
    BY <1>6 DEF Isolated!Unsubscribed
  <2> QED
    BY <1>6, <2>2, <2>3 DEF Isolated!Unsubscribed
<1>7. ASSUME NEW c \in Calls, Isolated!CloseClient(c) PROVE Isolated!TypeOK'
  BY <1>7, <1>5 DEF Isolated!CloseClient
<1>8. ASSUME NEW x \in open, Isolated!LosesConnection(x) PROVE Isolated!TypeOK'
  BY <1>8, <1>5 DEF Isolated!LosesConnection
<1>9. ASSUME Isolated!CloseBegins \/ Isolated!CloseSweeps \/ Isolated!CloseReturns PROVE Isolated!TypeOK'
  <2>1. CASE Isolated!CloseBegins
    BY <2>1 DEF Isolated!CloseBegins
  <2>2. CASE Isolated!CloseSweeps
    BY <2>2 DEF Isolated!CloseSweeps
  <2>3. CASE Isolated!CloseReturns
    BY <2>3 DEF Isolated!CloseReturns
  <2> QED
    BY <1>9, <2>1, <2>2, <2>3
<1>10. ASSUME NEW x \in swept, Isolated!CloseSwept(x) PROVE Isolated!TypeOK'
  BY <1>10, <1>5 DEF Isolated!CloseSwept
<1> QED
  BY <1>1, <1>2, <1>3, <1>4, <1>6, <1>7, <1>8, <1>9, <1>10 DEF Isolated!Next, Isolated!CallStep

\* A Subscribe that finds a client or makes one adds one user and one reference.
LEMMA AcquireStep ==
  ASSUME ClientsInv, NEW c \in Calls, Isolated!Acquire(c)
  PROVE  Counted' /\ Removed' /\ Isolated!IsolationHolds'
<1> USE DEF ClientsInv, Isolated!tableVars, Isolated!callVars
<1>1. Users' \subseteq Users \cup {c} /\ c \notin Users
  BY DEF Isolated!Acquire, Users, Isolated!TypeOK, Isolated!Places, Isolated!Goes
<1>2. Counted'
  <2>1. IsFiniteSet(Users \cup {c}) /\ Cardinality(Users \cup {c}) = Cardinality(Users) + 1
    BY <1>1, FS_AddElement DEF Counted
  <2>2. IsFiniteSet(Users') /\ Cardinality(Users') <= Cardinality(Users) + 1
    BY <1>1, <2>1, FS_Subset
  <2>3. Cardinality(Users') \in Nat /\ Cardinality(Users) \in Nat
    BY <2>2, FS_CardinalityType DEF Counted
  <2>4. refs' = refs + 1 /\ current' # 0 /\ refs \in Nat
    BY DEF Isolated!Acquire, Isolated!TypeOK
  <2> QED
    BY <2>2, <2>3, <2>4 DEF Counted
<1>3. Removed'
  BY DEF Isolated!Acquire, Removed, Isolated!Closer, Isolated!TypeOK, Isolated!Places, Isolated!Goes
<1>4. Isolated!ReleasedIsUnused'
  BY DEF Isolated!Acquire, Removed, Isolated!Closer, Isolated!IsolationHolds, Isolated!ReleasedIsUnused, Isolated!Subscribing, Isolated!TypeOK, Isolated!Places, Isolated!Goes
<1>5. Isolated!NoneLeftOpen'
  <2>1. \A d \in Calls : Isolated!Closer(d) => Isolated!Closer(d)' /\ using'[d] = using[d]
    BY DEF Isolated!Acquire, Isolated!Closer, Isolated!TypeOK, Isolated!Goes
  <2>2. swept' = swept /\ parent' = parent /\ parent = "open"
    BY DEF Isolated!Acquire
  <2>3. open' \subseteq open \cup {current'} /\ (current # 0 => current' = current) /\ 0 \notin open
    BY DEF Isolated!Acquire, Isolated!TypeOK
  <2> QED
    BY <2>1, <2>2, <2>3 DEF Isolated!IsolationHolds, Isolated!NoneLeftOpen
<1> QED
  BY <1>2, <1>3, <1>4, <1>5 DEF Isolated!IsolationHolds

\* The last reference closes the client only if it is the last user's.
LEMMA ReleaseStep ==
  ASSUME ClientsInv, NEW c \in Calls, Isolated!Release(c)
  PROVE  Counted' /\ Removed' /\ Isolated!IsolationHolds'
<1> USE DEF ClientsInv, Isolated!tableVars, Isolated!callVars
<1>1. CASE ~Isolated!StillCurrent(c)
  <2>1. Users' \subseteq Users
    BY <1>1 DEF Isolated!Release, Users, Isolated!Goes, Isolated!TypeOK
  <2>2. Counted'
    BY <1>1, <2>1, FewerUsers DEF Isolated!Release, Isolated!TypeOK
  <2>3. Removed' /\ Isolated!IsolationHolds'
    BY <1>1, SMTT(30) DEF Isolated!Release, Removed, Isolated!Closer, Isolated!IsolationHolds, Isolated!ReleasedIsUnused, Isolated!Subscribing, Isolated!NoneLeftOpen,
                Isolated!TypeOK, Isolated!Places, Isolated!Goes
  <2> QED
    BY <2>2, <2>3
<1>2. CASE Isolated!StillCurrent(c) /\ current # 0
  <2>1. c \in Users
    BY <1>2 DEF Isolated!Release, Isolated!StillCurrent, Users
  <2>2. IsFiniteSet(Users \ {c}) /\ Cardinality(Users \ {c}) = Cardinality(Users) - 1
    BY <2>1, FS_RemoveElement DEF Counted
  <2>3. CASE refs > 1
    <3>1. Users' \subseteq Users \ {c}
      BY <1>2, <2>3 DEF Isolated!Release, Users, Isolated!Goes, Isolated!TypeOK
    <3>2. IsFiniteSet(Users') /\ Cardinality(Users') <= Cardinality(Users) - 1
      BY <2>2, <3>1, FS_Subset
    <3>3. Cardinality(Users') \in Nat /\ Cardinality(Users) \in Nat
      BY <3>2, FS_CardinalityType DEF Counted
    <3>4. refs' = refs - 1 /\ current' = current
      BY <1>2, <2>3 DEF Isolated!Release
    <3>5. Counted'
      BY <1>2, <3>2, <3>3, <3>4 DEF Counted, Isolated!TypeOK
    <3>6. /\ pc' = [pc EXCEPT ![c] = "ended"] /\ pc[c] = "failed"
          /\ UNCHANGED <<parent, current, open, using, swept>>
      BY <1>2, <2>3 DEF Isolated!Release, Isolated!Goes
    <3>7. Removed'
      BY <3>6 DEF Removed, Isolated!Closer, Isolated!TypeOK
    <3>8. Isolated!ReleasedIsUnused'
      BY <3>6 DEF Isolated!IsolationHolds, Isolated!ReleasedIsUnused, Isolated!Subscribing, Isolated!TypeOK
    <3>9. Isolated!NoneLeftOpen'
      BY <3>6 DEF Isolated!IsolationHolds, Isolated!NoneLeftOpen, Isolated!Closer, Isolated!TypeOK
    <3> QED
      BY <3>5, <3>7, <3>8, <3>9 DEF Isolated!IsolationHolds
  <2>4. CASE ~(refs > 1)
    <3>1. Cardinality(Users \ {c}) = 0
      <4>1. Cardinality(Users) \in Nat /\ Cardinality(Users \ {c}) \in Nat
        BY <2>2, FS_CardinalityType DEF Counted
      <4> QED
        BY <2>2, <2>4, <4>1 DEF Counted, Isolated!TypeOK
    <3>2. Users \ {c} = {}
      BY <2>2, <3>1, FS_EmptySet
    <3>3. pc' = [pc EXCEPT ![c] = "releasing"] /\ current' = 0 /\ refs' = 0 /\ using' = using
          /\ pc[c] = "failed" /\ using[c] = current
          /\ UNCHANGED <<parent, made, open, activeFeed, swept>>
      BY <1>2, <2>4 DEF Isolated!Release, Isolated!Goes, Isolated!StillCurrent
    <3>4. Users' = {}
      BY <3>3 DEF Users
    <3>5. Counted'
      BY <3>3, <3>4, FS_EmptySet DEF Counted
    <3>6. Removed'
      BY <1>2, <3>3 DEF Removed, Isolated!Closer, Isolated!TypeOK
    <3>7. Isolated!ReleasedIsUnused'
      <4> SUFFICES ASSUME NEW a \in Calls, NEW d \in Calls, pc'[a] = "releasing", using'[d] = using'[a]
                   PROVE  ~Isolated!Subscribing(d)'
        BY DEF Isolated!ReleasedIsUnused
      <4>1. CASE a = c
        BY <1>2, <3>2, <3>3, <4>1 DEF Users, Isolated!Subscribing, Isolated!TypeOK
      <4>2. CASE a # c
        BY <3>3, <4>2 DEF Isolated!IsolationHolds, Isolated!ReleasedIsUnused, Isolated!Subscribing, Isolated!TypeOK
      <4> QED
        BY <4>1, <4>2
    <3>8. Isolated!NoneLeftOpen'
      BY <1>2, <3>3 DEF Isolated!IsolationHolds, Isolated!NoneLeftOpen, Isolated!Closer, Isolated!TypeOK
    <3> QED
      BY <3>5, <3>6, <3>7, <3>8 DEF Isolated!IsolationHolds
  <2> QED
    BY <2>3, <2>4
<1>3. ~(Isolated!StillCurrent(c) /\ current = 0)
  BY DEF Isolated!Release, Isolated!StillCurrent, Removed
<1> QED
  BY <1>1, <1>2, <1>3

\* Unsubscribe takes the client out of the table and will close it.  A call
\* that finds nothing to do ends.
LEMMA RemoveStep ==
  ASSUME ClientsInv, NEW c \in Calls, Isolated!Remove(c) \/ Isolated!RemoveFails(c) \/ Isolated!AcquireFails(c)
  PROVE  Counted' /\ Removed' /\ Isolated!IsolationHolds'
<1> USE DEF ClientsInv, Isolated!tableVars, Isolated!callVars
<1>1. CASE Isolated!Remove(c)
  <2>1. /\ current # 0 /\ current' = 0 /\ refs' = 0 /\ pc[c] = "idle"
        /\ using' = [using EXCEPT ![c] = current] /\ pc' = [pc EXCEPT ![c] = "removed"]
        /\ UNCHANGED <<parent, made, open, activeFeed, swept>>
    BY <1>1 DEF Isolated!Remove, Isolated!Removable, Isolated!Goes
  <2>2. Counted'
    <3>1. Users' = {}
      BY <2>1 DEF Users
    <3> QED
      BY <2>1, <3>1, FS_EmptySet DEF Counted
  <2>3. Removed'
    BY <2>1 DEF Removed, Isolated!Closer, Isolated!TypeOK
  <2>4. Isolated!ReleasedIsUnused'
    BY <2>1 DEF Removed, Isolated!Closer, Isolated!IsolationHolds, Isolated!ReleasedIsUnused, Isolated!Subscribing, Isolated!TypeOK
  <2>5. Isolated!NoneLeftOpen'
    BY <2>1 DEF Isolated!IsolationHolds, Isolated!NoneLeftOpen, Isolated!Closer, Isolated!TypeOK, Removed
  <2> QED
    BY <2>2, <2>3, <2>4, <2>5 DEF Isolated!IsolationHolds
<1>2. CASE Isolated!RemoveFails(c) \/ Isolated!AcquireFails(c)
  <2>1. /\ pc[c] = "idle" /\ pc' = [pc EXCEPT ![c] = "ended"]
        /\ UNCHANGED <<parent, current, refs, made, open, activeFeed, using, swept>>
    BY <1>2 DEF Isolated!RemoveFails, Isolated!AcquireFails, Isolated!Goes
  <2>2. Counted'
    <3>1. Users' \subseteq Users
      BY <2>1 DEF Users, Isolated!TypeOK
    <3> QED
      BY <2>1, <3>1, FewerUsers DEF Isolated!TypeOK
  <2>3. Removed' /\ Isolated!IsolationHolds'
    BY <2>1 DEF Removed, Isolated!Closer, Isolated!IsolationHolds, Isolated!ReleasedIsUnused, Isolated!Subscribing, Isolated!NoneLeftOpen, Isolated!TypeOK
  <2> QED
    BY <2>2, <2>3
<1> QED
  BY <1>1, <1>2

\* How a call moves in a step that leaves the table alone: among the users of
\* its client, to its end, or on its way to close a client.
Moves(d) ==
  \/ pc'[d] = pc[d]
  \/ Isolated!Subscribing(d) /\ (Isolated!Subscribing(d)' \/ pc'[d] \in {"failed", "ended"})
  \/ Isolated!Closer(d) /\ pc'[d] \in {"unsubscribing", "ended"}

\* Such a step is harmless if who stops being a closer has closed its client.
LEMMA OtherStep ==
  ASSUME ClientsInv, UNCHANGED <<current, refs, using>>,
         \A d \in Calls : Moves(d),
         open' \subseteq open,
         \A d \in Calls : Isolated!Closer(d) => Isolated!Closer(d)' \/ using[d] \notin open',
         \A x \in swept : x \in swept' \/ x \notin open',
         parent' \in {"sweeping", "done"} => parent \in {"sweeping", "done"},
         parent' \in {"open", "closed"} => swept' = {}
  PROVE  Counted' /\ Removed' /\ Isolated!IsolationHolds'
<1> USE DEF ClientsInv, Moves
<1>1. Counted'
  <2>1. Users' \subseteq Users
    BY DEF Users, Isolated!Subscribing, Isolated!Closer, Isolated!TypeOK
  <2> QED
    BY <2>1, FewerUsers DEF Isolated!TypeOK
<1>2. Removed'
  BY DEF Removed, Isolated!Closer, Isolated!Subscribing
<1>3. Isolated!ReleasedIsUnused'
  BY DEF Isolated!IsolationHolds, Isolated!ReleasedIsUnused, Isolated!Subscribing, Isolated!Closer
<1>4. Isolated!NoneLeftOpen'
  BY DEF Isolated!IsolationHolds, Isolated!NoneLeftOpen
<1> QED
  BY <1>1, <1>2, <1>3, <1>4 DEF Isolated!IsolationHolds

\* Closing the channels of a client moves nobody but those who had them.
LEMMA ChannelsMove ==
  ASSUME Isolated!TypeOK, NEW x, NEW d \in Calls
  PROVE  \/ Isolated!CloseChannels(x)[d] = pc[d]
         \/ pc[d] = "serving" /\ Isolated!CloseChannels(x)[d] = "ended"
         \/ pc[d] = "registered" /\ Isolated!CloseChannels(x)[d] = "cut"
  BY DEF Isolated!CloseChannels, Isolated!TypeOK

LEMMA ClientsStep == ClientsInv /\ [Isolated!Next]_(Isolated!vars) => ClientsInv'
<1> SUFFICES ASSUME ClientsInv, [Isolated!Next]_(Isolated!vars) PROVE Counted' /\ Removed' /\ Isolated!IsolationHolds' /\ Isolated!TypeOK'
  BY DEF ClientsInv
<1> USE DEF Isolated!tableVars, Isolated!callVars
<1>1. CASE UNCHANGED Isolated!vars
  <2>1. Isolated!TypeOK' /\ Users' = Users
    BY <1>1 DEF Isolated!vars, ClientsInv, Isolated!TypeOK, Users
  <2>2. Counted' /\ Removed' /\ Isolated!IsolationHolds'
    BY <1>1, <2>1 DEF Isolated!vars, ClientsInv, Counted, Removed, Isolated!Closer, Isolated!IsolationHolds, Isolated!ReleasedIsUnused,
                      Isolated!Subscribing, Isolated!NoneLeftOpen
  <2> QED
    BY <2>1, <2>2
<1>2. CASE Isolated!Next
  <2>1. Isolated!TypeOK'
    BY <1>2, ClientsType
  <2>2. ASSUME NEW c \in Calls, Isolated!CallStep(c) PROVE Counted' /\ Removed' /\ Isolated!IsolationHolds'
    <3>1. CASE Isolated!Acquire(c)
      BY <3>1, AcquireStep
    <3>2. CASE Isolated!Register(c) \/ Isolated!Subscribed(c) \/ Isolated!SubscribeFails(c)
      <4>1. /\ Isolated!Subscribing(c)
            /\ \E place \in {"registered", "serving", "ended", "failed"} : pc' = [pc EXCEPT ![c] = place]
            /\ UNCHANGED <<parent, current, refs, open, using, swept>>
        BY <3>2 DEF Isolated!Register, Isolated!Subscribed, Isolated!SubscribeFails, Isolated!Subscribing, Isolated!Goes
      <4>2. \A d \in Calls : Moves(d) /\ (Isolated!Closer(d) => Isolated!Closer(d)')
        BY <4>1 DEF Moves, Isolated!Subscribing, Isolated!Closer, ClientsInv, Isolated!TypeOK
      <4> QED
        BY <4>1, <4>2, OtherStep DEF ClientsInv, Removed
    <3>3. CASE Isolated!Release(c)
      BY <3>3, ReleaseStep
    <3>4. CASE Isolated!Remove(c) \/ Isolated!RemoveFails(c) \/ Isolated!AcquireFails(c)
      BY <3>4, RemoveStep
    <3>5. CASE Isolated!Unsubscribed(c)
      <4>1. /\ pc[c] = "removed"
            /\ \/ pc' = [Isolated!CloseChannels(using[c]) EXCEPT ![c] = "unsubscribing"]
               \/ pc' = [pc EXCEPT ![c] = "unsubscribing"]
            /\ UNCHANGED <<parent, current, refs, open, using, swept>>
        BY <3>5 DEF Isolated!Unsubscribed, Isolated!Goes
      <4>2. \A d \in Calls : d # c => pc'[d] = pc[d] \/ pc'[d] = Isolated!CloseChannels(using[c])[d]
        BY <4>1 DEF Isolated!CloseChannels, ClientsInv, Isolated!TypeOK
      <4>3. pc'[c] = "unsubscribing"
        BY <4>1 DEF Isolated!CloseChannels, ClientsInv, Isolated!TypeOK
      <4>4. \A d \in Calls : Moves(d) /\ (Isolated!Closer(d) => Isolated!Closer(d)')
        BY <4>1, <4>2, <4>3, ChannelsMove DEF Moves, Isolated!Subscribing, Isolated!Closer, ClientsInv
      <4> QED
        BY <4>1, <4>4, OtherStep DEF ClientsInv, Removed
    <3>6. CASE Isolated!CloseClient(c)
      <4>1. /\ pc[c] \in {"releasing", "unsubscribing"}
            /\ pc' = [Isolated!CloseChannels(using[c]) EXCEPT ![c] = "ended"]
            /\ open' = open \ {using[c]}
            /\ UNCHANGED <<parent, current, refs, using, swept>>
        BY <3>6 DEF Isolated!CloseClient
      <4>2. \A d \in Calls : d # c => pc'[d] = Isolated!CloseChannels(using[c])[d]
        BY <4>1 DEF Isolated!CloseChannels
      <4>3. pc'[c] = "ended"
        BY <4>1 DEF Isolated!CloseChannels
      <4>4. \A d \in Calls : Moves(d) /\ (Isolated!Closer(d) => Isolated!Closer(d)' \/ d = c)
        BY <4>1, <4>2, <4>3, ChannelsMove DEF Moves, Isolated!Subscribing, Isolated!Closer, ClientsInv
      <4> QED
        BY <4>1, <4>4, OtherStep DEF ClientsInv, Removed
    <3> QED
      BY <2>2, <3>1, <3>2, <3>3, <3>4, <3>5, <3>6 DEF Isolated!CallStep
  <2>3. ASSUME NEW x \in open, Isolated!LosesConnection(x) PROVE Counted' /\ Removed' /\ Isolated!IsolationHolds'
    <3>1. pc' = Isolated!CloseChannels(x) /\ UNCHANGED <<parent, current, refs, open, using, swept>>
      BY <2>3 DEF Isolated!LosesConnection
    <3>2. \A d \in Calls : Moves(d) /\ (Isolated!Closer(d) => Isolated!Closer(d)')
      BY <3>1, ChannelsMove DEF Moves, Isolated!Subscribing, Isolated!Closer, ClientsInv
    <3> QED
      BY <3>1, <3>2, OtherStep DEF ClientsInv, Removed
  <2>4. ASSUME NEW x \in swept, Isolated!CloseSwept(x) PROVE Counted' /\ Removed' /\ Isolated!IsolationHolds'
    <3>1. /\ parent = "sweeping" /\ pc' = Isolated!CloseChannels(x)
          /\ swept' = swept \ {x} /\ open' = open \ {x}
          /\ UNCHANGED <<parent, current, refs, using>>
      BY <2>4 DEF Isolated!CloseSwept
    <3>2. \A d \in Calls : Moves(d) /\ (Isolated!Closer(d) => Isolated!Closer(d)')
      BY <3>1, ChannelsMove DEF Moves, Isolated!Subscribing, Isolated!Closer, ClientsInv
    <3> QED
      BY <3>1, <3>2, OtherStep
  <2>5. ASSUME Isolated!CloseBegins \/ Isolated!CloseReturns PROVE Counted' /\ Removed' /\ Isolated!IsolationHolds'
    <3>1. /\ UNCHANGED <<current, refs, open, using, pc, swept>>
          /\ \/ parent = "open" /\ parent' = "closed"
             \/ parent = "sweeping" /\ parent' = "done"
      BY <2>5 DEF Isolated!CloseBegins, Isolated!CloseReturns
    <3>2. \A d \in Calls : Moves(d) /\ (Isolated!Closer(d) => Isolated!Closer(d)')
      BY <3>1 DEF Moves, Isolated!Closer
    <3> QED
      BY <3>1, <3>2, OtherStep DEF ClientsInv, Removed
  <2>6. ASSUME Isolated!CloseSweeps PROVE Counted' /\ Removed' /\ Isolated!IsolationHolds'
    <3>1. /\ parent' = "sweeping" /\ swept = {} /\ swept' = {current} \ {0}
          /\ current' = 0 /\ refs' = 0 /\ UNCHANGED <<open, using, pc>>
      BY <2>6 DEF Isolated!CloseSweeps, ClientsInv, Removed
    <3>2. Counted'
      <4>1. Users' = {}
        BY <3>1 DEF Users
      <4> QED
        BY <3>1, <4>1, FS_EmptySet DEF Counted
    <3>3. Removed'
      BY <3>1 DEF ClientsInv, Removed, Isolated!Closer
    <3>4. Isolated!IsolationHolds'
      BY <3>1 DEF ClientsInv, Isolated!TypeOK, Isolated!IsolationHolds, Isolated!ReleasedIsUnused, Isolated!Subscribing, Isolated!NoneLeftOpen, Isolated!Closer
    <3> QED
      BY <3>2, <3>3, <3>4
  <2> QED
    BY <1>2, <2>1, <2>2, <2>3, <2>4, <2>5, <2>6 DEF Isolated!Next
<1> QED
  BY <1>1, <1>2

LEMMA MarketClients == MarketSpec => []ClientsInv
<1>1. MarketInit => ClientsInv
  BY ClientsStart DEF MarketInit
<1>2. ClientsInv /\ [MarketNext]_<<vars, bookVars, clientVars, layer>> => ClientsInv'
  <2> SUFFICES ASSUME ClientsInv, [MarketNext]_<<vars, bookVars, clientVars, layer>> PROVE ClientsInv'
    OBVIOUS
  <2>1. Isolated!Next \/ UNCHANGED clientVars
    BY DEF MarketNext
  <2>2. UNCHANGED clientVars => UNCHANGED Isolated!vars
    BY DEF clientVars, Isolated!vars, Isolated!tableVars, Isolated!callVars
  <2>3. [Isolated!Next]_(Isolated!vars)
    BY <2>1, <2>2
  <2> QED BY <2>3, ClientsStep
<1> QED BY <1>1, <1>2, PTL DEF MarketSpec

\* For any number of calls and variants: a Subscribe that fails closes only a
\* client that nobody uses, and every open client is found by later calls or
\* is about to be closed, also when Close comes between any two steps
\* (snapshot_isolation.go).
THEOREM IsolationCorrect == MarketSpec => []IsolationHolds
<1>1. ClientsInv => IsolationHolds
  BY DEF ClientsInv, IsolationHolds
<1> QED BY <1>1, MarketClients, PTL
=============================================================================
