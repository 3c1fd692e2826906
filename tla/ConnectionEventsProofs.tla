----------------------- MODULE ConnectionEventsProofs -----------------------
(***************************************************************************)
(* The channels of lifecycle events implement the abstract feeds, for any  *)
(* subscribers, any capacities and any number of events.                   *)
(*                                                                         *)
(* A step does one of three things to a channel: it publishes an event, it *)
(* leaves the channel alone, or it is a step of the channel's own.  The    *)
(* first two are the lemmas Published and Elsewhere of each half.          *)
(***************************************************************************)
EXTENDS CliStream, TLAPS

SubEvents == [n : Nat, state : States]

LifeType == published \in Nat /\ state \in States

-----------------------------------------------------------------------------
(***************************************************************************)
(* The private channels: a channel and its reader hold consecutive events, *)
(* up to the newest one while the subscriber is registered.                *)
(***************************************************************************)
SubType ==
  /\ LifeType
  /\ sub \in [Subscribers -> {"none", "on", "over"}]
  /\ subQueue \in [Subscribers -> Seq(SubEvents)]
  /\ subSeen \in [Subscribers -> Nat]

Consecutive(s) ==
  /\ \A i \in 1 .. Len(subQueue[s]) : subQueue[s][i].n = subSeen[s] + i
  /\ sub[s] = "none" => subQueue[s] = <<>>
  /\ sub[s] = "on" => subSeen[s] + Len(subQueue[s]) = published
  /\ sub[s] # "none" => subSeen[s] + Len(subQueue[s]) <= published

SubInv == SubType /\ \A s \in Subscribers : Consecutive(s)

SubStep == \A s \in Subscribers : [Private(s)!Next]_(Private(s)!vars)

\* A client that has just been made has empty channels, and its feeds are in
\* their initial state.
LEMMA SubInit == Init => SubInv /\ \A s \in Subscribers : Private(s)!Init
<1> SUFFICES ASSUME Init PROVE SubInv /\ \A s \in Subscribers : Private(s)!Init
  OBVIOUS
<1>1. SubInv
  BY ConnectionEventsAssumption DEF Init, SubInv, SubType, LifeType, Consecutive, States
<1>2. ASSUME NEW s \in Subscribers PROVE Private(s)!Init
  BY DEF Init, Private!Init
<1> QED BY <1>1, <1>2

\* What touches neither a subscriber's channel nor the count of events is a
\* stutter of every private feed.
LEMMA SubElsewhere ==
  ASSUME SubInv, UNCHANGED <<published, sub, subQueue, subSeen>>, state' \in States
  PROVE  SubInv' /\ SubStep
<1>1. SubInv'
  BY DEF SubInv, SubType, LifeType, Consecutive
<1>2. ASSUME NEW s \in Subscribers PROVE UNCHANGED Private(s)!vars
  BY DEF Private!vars
<1> QED BY <1>1, <1>2 DEF SubStep

\* publishEvent appends the event to each registered subscriber's channel, or
\* closes the channel that is full: never does it leave out an event in between.
LEMMA SubPublished ==
  ASSUME SubInv, NEW t \in States, ToSubscribers([n |-> published + 1, state |-> t]),
         published' = published + 1, UNCHANGED subSeen, state' \in States
  PROVE  SubInv' /\ SubStep
<1> DEFINE e == [n |-> published + 1, state |-> t]
<1>0. SubType /\ published + 1 \in Nat
  BY DEF SubInv, SubType, LifeType
<1>1. SubType /\ e \in SubEvents
  BY <1>0 DEF SubEvents
<1>2. SubType'
  <2>1. sub' \in [Subscribers -> {"none", "on", "over"}]
    BY <1>1 DEF ToSubscribers, SubType
  <2>2. subQueue' \in [Subscribers -> Seq(SubEvents)]
    BY <1>1 DEF ToSubscribers, SubType
  <2> QED BY <1>1, <2>1, <2>2 DEF SubType, LifeType
<1>3. ASSUME NEW s \in Subscribers PROVE Consecutive(s)' /\ Private(s)!Next
  <2>1. /\ Consecutive(s) /\ subQueue[s] \in Seq(SubEvents) /\ subSeen[s] \in Nat /\ published \in Nat
        /\ Len(subQueue[s]) \in Nat /\ sub[s] \in {"none", "on", "over"}
    BY <1>1 DEF SubInv, SubType, LifeType
  <2>2. CASE sub[s] = "on" /\ ~Full(s)
    <3>1. subQueue'[s] = Append(subQueue[s], e) /\ sub'[s] = "on"
      BY <2>2, <1>1 DEF ToSubscribers, SubType
    <3>2. /\ Len(subQueue'[s]) = Len(subQueue[s]) + 1
          /\ \A i \in 1 .. Len(subQueue[s]) : subQueue'[s][i] = subQueue[s][i]
          /\ subQueue'[s][Len(subQueue[s]) + 1].n = published + 1
      BY <3>1, <2>1
    <3>3. subSeen[s] + Len(subQueue[s]) = published
      BY <2>1, <2>2 DEF Consecutive
    <3>4. ASSUME NEW i \in 1 .. Len(subQueue'[s]) PROVE subQueue'[s][i].n = subSeen[s] + i
      <4>1. CASE i \in 1 .. Len(subQueue[s]) BY <4>1, <3>2, <2>1 DEF Consecutive
      <4>2. CASE i = Len(subQueue[s]) + 1
        <5>1. subQueue'[s][i].n = published + 1 BY <4>2, <3>2
        <5>2. subSeen[s] + i = published + 1 BY <4>2, <3>3, <2>1
        <5> QED BY <5>1, <5>2
      <4> QED BY <4>1, <4>2, <3>2, <2>1
    <3>5. Consecutive(s)'
      BY <3>1, <3>2, <3>3, <3>4, <2>1 DEF Consecutive
    <3> QED BY <3>1, <3>5, <2>2, <2>1 DEF Private!Next, Private!Publish
  <2>3. CASE sub[s] = "on" /\ Full(s)
    <3>1. subQueue'[s] = subQueue[s] /\ sub'[s] = "over"
      BY <2>3, <1>1 DEF ToSubscribers, SubType
    <3> QED BY <3>1, <2>1, <2>3 DEF Consecutive, Private!Next, Private!Publish
  <2>4. CASE sub[s] # "on"
    <3>1. subQueue'[s] = subQueue[s] /\ sub'[s] = sub[s]
      BY <2>4, <1>1 DEF ToSubscribers, SubType
    <3> QED BY <3>1, <2>1, <2>4 DEF Consecutive, Private!Next, Private!Publish
  <2> QED BY <2>2, <2>3, <2>4
<1> QED BY <1>2, <1>3 DEF SubInv, SubStep

\* Registering, reading and stopping are steps of one private feed.
LEMMA SubReaders ==
  ASSUME SubInv, ReaderStep
  PROVE  SubInv' /\ SubStep
<1>0. SubType
  BY DEF SubInv
<1>1. CASE ReadEvents
  BY <1>1, <1>0, SubElsewhere DEF ReadEvents, lifeVars, subVars, SubType, LifeType
<1>2. ASSUME NEW s \in Subscribers, ReadSubscriber(s) PROVE SubInv' /\ SubStep
  <2>1. /\ subQueue[s] \in Seq(SubEvents) /\ subQueue[s] # <<>> /\ Consecutive(s)
        /\ subSeen[s] \in Nat /\ published \in Nat /\ sub[s] \in {"none", "on", "over"}
    BY <1>2, <1>0 DEF ReadSubscriber, SubInv, SubType, LifeType
  <2>2. /\ Head(subQueue[s]) = subQueue[s][1] /\ Head(subQueue[s]).n = subSeen[s] + 1
        /\ Tail(subQueue[s]) \in Seq(SubEvents) /\ Len(Tail(subQueue[s])) = Len(subQueue[s]) - 1
        /\ Len(subQueue[s]) \in Nat \ {0}
        /\ \A i \in 1 .. Len(subQueue[s]) - 1 : Tail(subQueue[s])[i] = subQueue[s][i + 1]
    BY <2>1 DEF Consecutive
  <2>3. /\ subSeen' = [subSeen EXCEPT ![s] = subSeen[s] + 1]
        /\ subQueue' = [subQueue EXCEPT ![s] = Tail(subQueue[s])]
        /\ UNCHANGED <<published, state, closing, sub>>
    BY <1>2, <2>2 DEF ReadSubscriber, lifeVars
  <2>4. SubType'
    BY <2>1, <2>2, <2>3, <1>0 DEF SubType, LifeType
  <2>5. ASSUME NEW t \in Subscribers, t # s PROVE Consecutive(t)' /\ UNCHANGED Private(t)!vars
    <3>1. subSeen'[t] = subSeen[t] /\ subQueue'[t] = subQueue[t]
      BY <2>3, <2>5, <1>0 DEF SubType
    <3> QED BY <3>1, <2>3 DEF SubInv, Consecutive, Private!vars
  <2>6. subSeen'[s] = subSeen[s] + 1 /\ subQueue'[s] = Tail(subQueue[s])
    BY <2>3, <1>0 DEF SubType
  <2>7. Consecutive(s)'
    <3>1. ASSUME NEW i \in 1 .. Len(subQueue'[s]) PROVE subQueue'[s][i].n = subSeen'[s] + i
      <4>1. i + 1 \in 1 .. Len(subQueue[s]) /\ subQueue'[s][i] = subQueue[s][i + 1]
        BY <2>2, <2>6
      <4>2. subQueue[s][i + 1].n = subSeen[s] + (i + 1)
        BY <4>1, <2>1 DEF Consecutive
      <4>3. subSeen[s] + (i + 1) = (subSeen[s] + 1) + i
        BY <2>1
      <4> QED BY <4>1, <4>2, <4>3, <2>6
    <3>2. sub[s] # "none"
      BY <2>1 DEF Consecutive
    <3> QED BY <3>1, <3>2, <2>1, <2>2, <2>3, <2>6 DEF Consecutive
  <2>8. Private(s)!Next
    <3>1. subSeen[s] + 1 \in subSeen[s] + 1 .. published /\ sub[s] # "none"
      BY <2>1, <2>2 DEF Consecutive
    <3>2. Private(s)!Receive(subSeen[s] + 1)
      BY <3>1, <2>1, <2>3, <2>6 DEF Private!Receive
    <3> QED BY <3>1, <3>2 DEF Private!Next
  <2> QED BY <2>4, <2>5, <2>7, <2>8 DEF SubInv, SubStep
<1>3. ASSUME NEW s \in Subscribers, SubscribeConnectionEvents(s) PROVE SubInv' /\ SubStep
  <2>1. /\ sub[s] = "none" /\ Consecutive(s) /\ published \in Nat
        /\ sub'[s] \in {"on", "over"} /\ subSeen'[s] = published /\ subQueue'[s] = <<>>
        /\ UNCHANGED <<published, state, closing>>
    BY <1>3, <1>0 DEF SubscribeConnectionEvents, SubInv, SubType, LifeType, Consecutive, lifeVars
  <2>2. SubType'
    BY <1>3, <1>0 DEF SubscribeConnectionEvents, SubType, LifeType, lifeVars
  <2>3. ASSUME NEW t \in Subscribers, t # s PROVE Consecutive(t)' /\ UNCHANGED Private(t)!vars
    <3>1. subSeen'[t] = subSeen[t] /\ subQueue'[t] = subQueue[t] /\ sub'[t] = sub[t]
      BY <1>3, <2>3, <1>0 DEF SubscribeConnectionEvents, SubType
    <3> QED BY <3>1, <2>1 DEF SubInv, Consecutive, Private!vars
  <2>4. Consecutive(s)'
    BY <2>1 DEF Consecutive
  <2>5. Private(s)!Next
    BY <2>1 DEF Private!Next, Private!Register, Private!Finish
  <2> QED BY <2>2, <2>3, <2>4, <2>5 DEF SubInv, SubStep
<1>4. ASSUME NEW s \in Subscribers, CloseSubscriber(s) PROVE SubInv' /\ SubStep
  <2>1. /\ sub' = [sub EXCEPT ![s] = "over"] /\ sub[s] = "on"
        /\ UNCHANGED <<published, state, closing, subQueue, subSeen>>
    BY <1>4 DEF CloseSubscriber, lifeVars, readVars
  <2>2. SubType'
    BY <2>1, <1>0 DEF SubType, LifeType
  <2>3. ASSUME NEW t \in Subscribers PROVE Consecutive(t)' /\ [Private(t)!Next]_(Private(t)!vars)
    <3>1. CASE t # s
      BY <3>1, <2>1, <1>0 DEF SubInv, SubType, Consecutive, Private!vars
    <3>2. CASE t = s
      BY <3>2, <2>1, <1>0 DEF SubInv, SubType, Consecutive, Private!Next, Private!Finish
    <3> QED BY <3>1, <3>2
  <2> QED BY <2>2, <2>3 DEF SubInv, SubStep
<1> QED BY <1>1, <1>2, <1>3, <1>4 DEF ReaderStep

\* Close ends every private feed, with what is still buffered to be read.
LEMMA SubChannelsClosed ==
  ASSUME SubInv, ChannelsClosed
  PROVE  SubInv' /\ SubStep
<1>1. /\ sub' = [s \in Subscribers |-> IF sub[s] = "on" THEN "over" ELSE sub[s]]
      /\ UNCHANGED <<published, state, subQueue, subSeen>> /\ closing' = "done"
  BY DEF ChannelsClosed, lifeVars, readVars
<1>2. SubType'
  BY <1>1 DEF SubInv, SubType, LifeType
<1>3. ASSUME NEW t \in Subscribers PROVE Consecutive(t)' /\ [Private(t)!Next]_(Private(t)!vars)
  <2>1. CASE sub[t] = "on"
    BY <2>1, <1>1 DEF SubInv, SubType, Consecutive, Private!Next, Private!Finish
  <2>2. CASE sub[t] # "on"
    BY <2>2, <1>1 DEF SubInv, SubType, Consecutive, Private!vars
  <2> QED BY <2>1, <2>2
<1> QED BY <1>2, <1>3 DEF SubInv, SubStep

-----------------------------------------------------------------------------
(***************************************************************************)
(* The shared channel: what the reader has, what the channel holds, the    *)
(* event being sent and the pending one are in the order of publication.   *)
(***************************************************************************)
SharedType ==
  /\ published \in Nat /\ seen \in Nat /\ held \in Nat /\ pendingEvent \in Nat
  /\ eventChan \in Seq(Nat)
  /\ drain \in {"off", "take", "send"}

\* Event k comes after all that the reader has and the channel holds.
Newer(k) == seen < k /\ k <= published /\ \A i \in 1 .. Len(eventChan) : eventChan[i] < k

ChannelInOrder ==
  /\ seen <= published
  /\ \A i \in 1 .. Len(eventChan) : seen < eventChan[i] /\ eventChan[i] <= published
  /\ \A i, j \in 1 .. Len(eventChan) : i < j => eventChan[i] < eventChan[j]

PumpInOrder ==
  /\ drain = "send" => Newer(held)
  /\ pendingEvent # Nothing =>
       Newer(pendingEvent) /\ drain # "off" /\ (drain = "send" => held < pendingEvent)

SharedInv == SharedType /\ ChannelInOrder /\ PumpInOrder

SharedStep == [Shared!Next]_(Shared!vars)

\* The shared channel starts empty, with no pump.
LEMMA SharedInit == Init => SharedInv /\ Shared!Init
BY DEF Init, SharedInv, SharedType, ChannelInOrder, PumpInOrder, Nothing, Shared!Init

\* What touches neither the shared channel nor its pump is a stutter of the
\* shared feed.
LEMMA SharedElsewhere ==
  ASSUME SharedInv, UNCHANGED <<published, chanVars, seen>>, closing = "no" <=> closing' = "no"
  PROVE  SharedInv' /\ SharedStep
<1>1. SharedInv'
  BY DEF SharedInv, SharedType, ChannelInOrder, PumpInOrder, Newer, chanVars
<1>2. UNCHANGED Shared!vars
  BY DEF Shared!vars
<1> QED BY <1>1, <1>2 DEF SharedStep

\* What appending an event that is newer than the channel does.
LEMMA Appended ==
  ASSUME SharedInv, NEW k \in Nat, seen < k, k <= published',
         \A i \in 1 .. Len(eventChan) : eventChan[i] < k,
         eventChan' = Append(eventChan, k), UNCHANGED seen,
         published' \in Nat, published <= published'
  PROVE  /\ eventChan' \in Seq(Nat) /\ ChannelInOrder'
         /\ \A j \in 1 .. Len(eventChan') : eventChan'[j] <= k
<1>1. eventChan \in Seq(Nat) /\ Len(eventChan) \in Nat /\ published \in Nat /\ seen \in Nat
  BY DEF SharedInv, SharedType
<1>2. /\ eventChan' \in Seq(Nat) /\ Len(eventChan') = Len(eventChan) + 1
      /\ \A i \in 1 .. Len(eventChan) : eventChan'[i] = eventChan[i]
      /\ eventChan'[Len(eventChan) + 1] = k
  BY <1>1
<1>3. ASSUME NEW i \in 1 .. Len(eventChan')
      PROVE  /\ i \in 1 .. Len(eventChan) \/ i = Len(eventChan) + 1
             /\ i \in 1 .. Len(eventChan) => eventChan[i] \in Nat
  BY <1>1, <1>2
<1>4. ASSUME NEW i \in 1 .. Len(eventChan')
      PROVE  seen < eventChan'[i] /\ eventChan'[i] <= published' /\ eventChan'[i] <= k
  BY <1>1, <1>2, <1>3 DEF SharedInv, ChannelInOrder
<1>5. ASSUME NEW i \in 1 .. Len(eventChan'), NEW j \in 1 .. Len(eventChan'), i < j
      PROVE  eventChan'[i] < eventChan'[j]
  BY <1>1, <1>2, <1>3, <1>5 DEF SharedInv, ChannelInOrder
<1> QED BY <1>1, <1>2, <1>4, <1>5 DEF SharedInv, ChannelInOrder

\* publishEvent keeps the order: it uses the channel only while no pump runs, and
\* what it replaces in the coalescing slot is older.
LEMMA SharedPublished ==
  ASSUME SharedInv, ToShared(published + 1), published' = published + 1, UNCHANGED seen,
         closing # "no" => closing' # "no"
  PROVE  SharedInv' /\ SharedStep
<1>1. /\ SharedType /\ published + 1 \in Nat /\ seen < published + 1
      /\ published' \in Nat /\ published <= published' /\ published + 1 <= published'
  BY DEF SharedInv, SharedType, ChannelInOrder
<1>2. \A i \in 1 .. Len(eventChan) : eventChan[i] \in Nat /\ eventChan[i] < published + 1
  BY <1>1 DEF SharedInv, SharedType, ChannelInOrder
<1>3. SharedInv'
  <2>1. CASE drain = "off" /\ Len(eventChan) < EventBuffer
    <3>1. eventChan' = Append(eventChan, published + 1) /\ UNCHANGED <<pendingEvent, drain, held>>
      BY <2>1 DEF ToShared
    <3>2. \A i \in 1 .. Len(eventChan) : eventChan[i] < published + 1
      BY <1>2
    <3>3. eventChan' \in Seq(Nat) /\ ChannelInOrder'
      BY <1>1, <3>1, <3>2, Appended
    <3> QED BY <1>1, <2>1, <3>1, <3>3 DEF SharedInv, SharedType, PumpInOrder
  <2>2. CASE ~(drain = "off" /\ Len(eventChan) < EventBuffer)
    <3>1. /\ pendingEvent' = published + 1 /\ UNCHANGED <<eventChan, held>>
          /\ drain' = IF drain = "off" THEN "take" ELSE drain
      BY <2>2 DEF ToShared
    <3>2. SharedType'
      BY <1>1, <3>1 DEF SharedType
    <3>3. ChannelInOrder'
      BY <1>1, <1>2, <3>1 DEF SharedInv, SharedType, ChannelInOrder
    <3>4. Newer(pendingEvent)'
      BY <1>1, <1>2, <3>1 DEF Newer
    <3>5. drain' = "send" => Newer(held)' /\ held' < pendingEvent'
      BY <1>1, <3>1 DEF SharedInv, SharedType, PumpInOrder, Newer
    <3> QED BY <3>1, <3>2, <3>3, <3>4, <3>5, <1>1 DEF SharedInv, SharedType, PumpInOrder
  <2> QED BY <2>1, <2>2
<1>4. Shared!Next
  BY DEF Shared!Next, Shared!Publish
<1> QED BY <1>3, <1>4 DEF SharedStep

\* The pump (drainEvents) is invisible to the reader and keeps the order.
LEMMA SharedDrain ==
  ASSUME SharedInv, DrainStep
  PROVE  SharedInv' /\ SharedStep
<1>0. /\ SharedType /\ UNCHANGED <<published, closing, seen>>
  BY DEF SharedInv, DrainStep, DrainTake, DrainSend, DrainStop, readVars
<1>1. UNCHANGED Shared!vars
  BY <1>0 DEF Shared!vars
<1>2. CASE DrainTake
  <2>1. UNCHANGED eventChan
    BY <1>2 DEF DrainTake
  <2>2. SharedType' /\ ChannelInOrder'
    BY <1>0, <1>2, <2>1 DEF SharedInv, SharedType, ChannelInOrder, DrainTake, Nothing
  <2>3. PumpInOrder'
    BY <1>0, <1>2, <2>1 DEF SharedInv, PumpInOrder, Newer, DrainTake, Nothing
  <2> QED BY <1>1, <2>2, <2>3 DEF SharedInv, SharedStep
<1>3. CASE DrainSend
  <2>1. CASE EventClosed
    BY <1>0, <1>1, <1>3, <2>1 DEF DrainSend, SharedInv, SharedType, ChannelInOrder, PumpInOrder, Newer, SharedStep
  <2>2. CASE ~EventClosed
    <3>1. /\ drain = "send" /\ eventChan' = Append(eventChan, held) /\ held' = Nothing
          /\ drain' = "take" /\ UNCHANGED pendingEvent
      BY <1>3, <2>2 DEF DrainSend
    <3>2. Newer(held)
      BY <3>1 DEF SharedInv, PumpInOrder
    <3>3. /\ eventChan' \in Seq(Nat) /\ ChannelInOrder'
          /\ \A j \in 1 .. Len(eventChan') : eventChan'[j] <= held /\ eventChan'[j] \in Nat
      BY <1>0, <3>1, <3>2, Appended DEF SharedType, Newer
    <3>4. SharedType'
      BY <1>0, <3>1, <3>3 DEF SharedType, Nothing
    <3>5. pendingEvent' # Nothing => Newer(pendingEvent)'
      BY <1>0, <3>1, <3>3 DEF SharedInv, SharedType, PumpInOrder, Newer
    <3> QED BY <1>1, <3>1, <3>3, <3>4, <3>5 DEF SharedInv, PumpInOrder, SharedStep
  <2> QED BY <2>1, <2>2
<1>4. CASE DrainStop
  BY <1>0, <1>1, <1>4 DEF DrainStop, SharedInv, SharedType, ChannelInOrder, PumpInOrder, SharedStep, Nothing
<1> QED BY <1>2, <1>3, <1>4 DEF DrainStep

\* The reader of Events() receives a newer event than any before.
LEMMA SharedRead ==
  ASSUME SharedInv, ReadEvents
  PROVE  SharedInv' /\ SharedStep
<1>1. /\ SharedType /\ eventChan # <<>> /\ seen' = Head(eventChan) /\ eventChan' = Tail(eventChan)
      /\ UNCHANGED <<published, pendingEvent, drain, held, closing>>
  BY DEF ReadEvents, SharedInv
<1>2. /\ Len(eventChan) \in Nat \ {0} /\ seen' = eventChan[1]
      /\ eventChan' \in Seq(Nat) /\ Len(eventChan') = Len(eventChan) - 1
      /\ \A i \in 1 .. Len(eventChan') : eventChan'[i] = eventChan[i + 1] /\ i + 1 \in 1 .. Len(eventChan)
  BY <1>1 DEF SharedType
<1>3. /\ seen < eventChan[1] /\ eventChan[1] <= published /\ eventChan[1] \in Nat
      /\ \A i \in 1 .. Len(eventChan') : eventChan[1] < eventChan[i + 1] /\ eventChan[i + 1] <= published
  BY <1>1, <1>2 DEF SharedInv, ChannelInOrder, SharedType
<1>4. SharedType'
  BY <1>1, <1>2, <1>3 DEF SharedType
<1>5. ChannelInOrder'
  BY <1>1, <1>2, <1>3 DEF SharedInv, ChannelInOrder
<1>6. ASSUME NEW k, Newer(k) PROVE Newer(k)'
  BY <1>1, <1>2, <1>6 DEF Newer
<1>7. PumpInOrder'
  BY <1>1, <1>6 DEF SharedInv, PumpInOrder
<1>8. Shared!Next
  <2>1. eventChan[1] \in seen + 1 .. published
    BY <1>1, <1>3 DEF SharedType
  <2>2. Shared!Receive(eventChan[1])
    BY <1>1, <1>2, <1>3 DEF Shared!Receive
  <2> QED BY <2>1, <2>2 DEF Shared!Next
<1> QED BY <1>4, <1>5, <1>7, <1>8 DEF SharedInv, SharedStep

-----------------------------------------------------------------------------
Publishing ==
  /\ \E t \in States : PublishToAll(t)
  /\ closing # "no" => closing' # "no"

Quiet ==
  /\ UNCHANGED <<published, chanVars, subVars, readVars>>
  /\ closing = "no" <=> closing' = "no"

\* publishEvent publishes, or finds the channels closed.
LEMMA PublishEventKind ==
  ASSUME NEW t \in States, PublishEvent(t)
  PROVE  Publishing \/ Quiet
<1>1. CASE EventClosed
  BY <1>1 DEF PublishEvent, Quiet
<1>2. CASE ~EventClosed
  BY <1>2 DEF PublishEvent, Publishing
<1> QED BY <1>1, <1>2

\* The steps of the connection publish one event or none.
LEMMA LifeKind ==
  ASSUME state \in States, LifeStep
  PROVE  state' \in States /\ (Publishing \/ Quiet)
<1>0. {"disconnected", "connecting", "connected", "reconnecting"} \subseteq States
  BY DEF States
<1>1. CASE Connect
  BY <1>0, <1>1, PublishEventKind DEF Connect, SetState
<1>2. CASE DialFails
  BY <1>0, <1>2, PublishEventKind DEF DialFails, SetState
<1>3. CASE Install
  BY <1>0, <1>3 DEF Install, Quiet
<1>4. CASE Replayed
  BY <1>0, <1>4, PublishEventKind DEF Replayed
<1>5. CASE ReplayFails
  BY <1>0, <1>5, PublishEventKind DEF ReplayFails, SetState
<1>6. CASE Dropped
  BY <1>0, <1>6, PublishEventKind DEF Dropped, SetState
<1>7. CASE GiveUp
  BY <1>0, <1>7, PublishEventKind DEF GiveUp, SetState
<1>8. CASE FailGate \/ FailCheck \/ DispatchStops \/ PumpReturns
  BY <1>8 DEF FailGate, FailCheck, DispatchStops, PumpReturns, Quiet
<1>9. CASE FailPublish
  BY <1>9, PublishEventKind DEF FailPublish
<1>10. CASE Report
  BY <1>0, <1>10, PublishEventKind DEF Report, lifeVars
<1> QED BY <1>1, <1>2, <1>3, <1>4, <1>5, <1>6, <1>7, <1>8, <1>9, <1>10 DEF LifeStep

\* Every step of the client is of one of five kinds.
LEMMA NextKind ==
  ASSUME state \in States, [Next]_vars
  PROVE  state' \in States /\ (Publishing \/ Quiet \/ DrainStep \/ ReaderStep \/ ChannelsClosed)
<1>1. CASE LifeStep
  BY <1>1, LifeKind
<1>2. CASE DrainStep
  BY <1>2 DEF DrainStep, DrainTake, DrainSend, DrainStop, lifeVars
<1>3. CASE CloseBegin
  BY <1>3 DEF CloseBegin, Publishing, States
<1>4. CASE CloseStep
  BY <1>4 DEF CloseStep, PumpsWaited, EventsWaited, TablesClosed, ChannelsClosed, Quiet, lifeVars
<1>5. CASE ReaderStep
  BY <1>5 DEF ReaderStep, ReadEvents, ReadSubscriber, SubscribeConnectionEvents, CloseSubscriber, lifeVars
<1>6. CASE UNCHANGED vars
  BY <1>6 DEF vars, lifeVars, Quiet
<1> QED BY <1>1, <1>2, <1>3, <1>4, <1>5, <1>6 DEF Next

\* A step of the client keeps the order of events in its channels, and is a
\* step or a stutter of each of them.
LEMMA EventStep ==
  ASSUME SubInv, SharedInv, [Next]_vars
  PROVE  SubInv' /\ SubStep /\ SharedInv' /\ SharedStep
<1>1. state \in States /\ state' \in States
  BY NextKind DEF SubInv, SubType, LifeType
<1>2. CASE Publishing
  <2>1. PICK t \in States : PublishToAll(t)
    BY <1>2 DEF Publishing
  <2> QED BY <1>1, <1>2, <2>1, SubPublished, SharedPublished DEF PublishToAll, Publishing, readVars
<1>3. CASE Quiet
  BY <1>1, <1>3, SubElsewhere, SharedElsewhere DEF Quiet, subVars, readVars
<1>4. CASE DrainStep
  <2>1. UNCHANGED <<published, sub, subQueue, subSeen>>
    BY <1>4 DEF DrainStep, DrainTake, DrainSend, DrainStop, subVars, readVars
  <2> QED BY <1>1, <1>4, <2>1, SubElsewhere, SharedDrain
<1>5. CASE ReaderStep
  <2>1. CASE ReadEvents
    BY <1>5, <2>1, SubReaders, SharedRead
  <2>2. CASE \E s \in Subscribers : SubscribeConnectionEvents(s) \/ CloseSubscriber(s) \/ ReadSubscriber(s)
    <3>1. UNCHANGED <<published, chanVars, seen, closing>>
      BY <2>2 DEF SubscribeConnectionEvents, CloseSubscriber, ReadSubscriber, readVars
    <3> QED BY <1>5, <3>1, SubReaders, SharedElsewhere
  <2> QED BY <1>5, <2>1, <2>2 DEF ReaderStep
<1>6. CASE ChannelsClosed
  <2>1. UNCHANGED <<published, chanVars, seen>> /\ (closing = "no" <=> closing' = "no")
    BY <1>6 DEF ChannelsClosed, readVars
  <2> QED BY <1>6, <2>1, SubChannelsClosed, SharedElsewhere
<1> QED BY <1>1, <1>2, <1>3, <1>4, <1>5, <1>6, NextKind

\* A stream command makes no step of the client but those any application can.
LEMMA CommandStep == [CliNext]_allVars => [Next]_vars
<1>1. ClientStep => Next
  BY DEF ClientStep, Next, LifeStep, CloseStep
<1>2. CmdConnect => Next
  BY DEF CmdConnect, Next, LifeStep
<1>3. RegisterForEvents \/ TakesEvent => Next
  BY CliStreamAssumption DEF RegisterForEvents, TakesEvent, Next, ReaderStep
<1>4. StopsEvents => [Next]_vars
  BY CliStreamAssumption DEF StopsEvents, Next, ReaderStep
<1>5. ClosesClient => Next
  BY DEF ClosesClient, Next
<1>6. DeliverItem \/ Cancel \/ Subscribed \/ SeesCancel \/ TakesItem \/ SeesFeedClosed
        \/ SeesEventsClosed \/ Returns => UNCHANGED vars
  BY DEF DeliverItem, Cancel, Subscribed, SeesCancel, TakesItem, SeesFeedClosed, SeesEventsClosed, Returns
<1>7. AppStep => Next
  BY DEF AppStep
<1> QED BY <1>1, <1>2, <1>3, <1>4, <1>5, <1>6, <1>7 DEF CliNext, CmdStep, SelectStep, allVars

\* The client of the SDK refines both abstract feeds, also the lossless one that
\* the reconciler and the stream commands rely on, whatever publishes, reads,
\* stops or closes when.
THEOREM FeedsImplemented == Spec => SharedFeed /\ PrivateFeed
<1>1. Init => SubInv /\ SharedInv /\ Shared!Init /\ \A s \in Subscribers : Private(s)!Init
  BY SubInit, SharedInit
<1>2. SubInv /\ SharedInv /\ [Next]_vars => (SubInv /\ SharedInv)'
  BY EventStep
<1>3. SubInv /\ SharedInv /\ [Next]_vars => SharedStep /\ [SubStep]_vars
  BY EventStep
<1> QED BY <1>1, <1>2, <1>3, PTL DEF Spec, SharedFeed, PrivateFeed, Shared!Spec, SharedStep, SubStep

\* The same of a client that serves a stream command.
THEOREM CommandFeeds == CliSpec => SharedFeed /\ PrivateFeed
<1>1. CliInit => Init
  BY DEF CliInit
<1>2. CliSpec => Spec
  BY <1>1, CommandStep, PTL DEF CliSpec, Spec
<1> QED BY <1>2, FeedsImplemented, PTL
=============================================================================
