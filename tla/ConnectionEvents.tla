-------------------------- MODULE ConnectionEvents --------------------------
(***************************************************************************)
(* Lifecycle events of the Go SDK's WebSocket client: who publishes them,  *)
(* the shared channel of Events() with the goroutine drainEvents that      *)
(* coalesces what does not fit, the private channels of                    *)
(* SubscribeConnectionEvents, and the end of all of them in Close.         *)
(*                                                                         *)
(* The lifecycle itself (WsClient) appears by the events it publishes.     *)
(* setState publishes under c.mu, so not after Close has taken over; the   *)
(* dispatcher and failSubscriptionsIfCurrentLocked publish without c.mu.   *)
(* One action is one critical section of c.mu or c.eventMu, or one         *)
(* operation on a channel.                                                 *)
(***************************************************************************)
EXTENDS Naturals, Sequences

CONSTANTS
  Subscribers,  \* calls of SubscribeConnectionEvents
  EventBuffer,  \* capacity of eventChan
  SubBuffer,    \* capacity of a subscriber's channel
  MaxEvents,    \* bound: events published, Close's own not counted
  MayStop       \* whether subscribers call stop

ASSUME ConnectionEventsAssumption ==
  /\ EventBuffer \in Nat \ {0} /\ SubBuffer \in Nat \ {0}
  /\ MaxEvents \in Nat
  /\ MayStop \in BOOLEAN

\* No event (nil); events are numbered from 1.
Nothing == 0

States == {"disconnected", "connecting", "connected", "reconnecting", "closed"}

VARIABLES
  state,         \* c.state, and doneChan (closed iff "closed")
  autoReconnect, \* c.autoReconnect
  replaying,     \* c.replayInProgress
  byCaller,      \* the attempt that installed the connection is a connectNew
  pumping,       \* pumpWg is not zero: a readPump or a reconnectLoop runs
  dispatching,   \* the readPump's dispatcher runs
  failer,        \* who is in failSubscriptionsIfCurrent: "none", "pump", "caller"
  failPc,        \* ... where: "idle", "gate", "check", "publish"
  published,     \* events published so far; an event is named by its place
  eventChan,     \* c.eventChan: numbers of events
  pendingEvent,  \* c.pendingEvent
  drain,         \* drainEvents: "off", "take", "send"; eventPumpRunning iff not "off"
  held,          \* ... the event it is sending
  closing,       \* Close: "no", "pumps", "events", "tables", "channels", "done"
  panicked,      \* a goroutine sent on a closed channel (what comes after it does not matter)
  seen,          \* the newest event received from Events()
  sub,           \* subscribers: "none", "on", "over" (channel closed)
  subQueue,      \* ... events in the channel, with the State they carry
  subSeen        \* ... the newest event received, or published before registration

lifeVars == <<state, autoReconnect, replaying, byCaller, pumping, dispatching, failer, failPc>>
chanVars == <<eventChan, pendingEvent, drain, held>>
subVars == <<sub, subQueue>>
readVars == <<seen, subSeen>>
vars == <<lifeVars, published, chanVars, closing, panicked, subVars, readVars>>

Init ==
  /\ state = "disconnected" /\ autoReconnect \in BOOLEAN
  /\ replaying = FALSE /\ byCaller = FALSE /\ pumping = FALSE /\ dispatching = FALSE
  /\ failer = "none" /\ failPc = "idle"
  /\ published = 0
  /\ eventChan = <<>> /\ pendingEvent = Nothing /\ drain = "off" /\ held = Nothing
  /\ closing = "no" /\ panicked = FALSE
  /\ seen = 0
  /\ sub = [s \in Subscribers |-> "none"]
  /\ subQueue = [s \in Subscribers |-> <<>>]
  /\ subSeen = [s \in Subscribers |-> 0]

EventClosed == closing = "done"

(***************************************************************************)
(* publishEvent.                                                           *)
(***************************************************************************)
Full(s) == Len(subQueue[s]) = SubBuffer

\* Mutant: a subscriber whose buffer is full misses the event.
ToSubscribersLossy(e) ==
  /\ subQueue' = [s \in Subscribers |->
       IF sub[s] = "on" /\ ~Full(s) THEN Append(subQueue[s], e) ELSE subQueue[s]]
  /\ UNCHANGED sub

\* Event e goes to every subscriber; one whose buffer is full is closed.
ToSubscribers(e) ==
  /\ sub' = [s \in Subscribers |-> IF sub[s] = "on" /\ Full(s) THEN "over" ELSE sub[s]]
  /\ subQueue' = [s \in Subscribers |->
       IF sub[s] = "on" /\ ~Full(s) THEN Append(subQueue[s], e) ELSE subQueue[s]]

\* Mutant: room in the channel is used even while an older event is drained.
ToSharedOvertakes(n) ==
  IF Len(eventChan) < EventBuffer
  THEN eventChan' = Append(eventChan, n) /\ UNCHANGED <<pendingEvent, drain, held>>
  ELSE /\ pendingEvent' = n
       /\ drain' = IF drain = "off" THEN "take" ELSE drain
       /\ UNCHANGED <<eventChan, held>>

\* Event n goes to the shared channel, or it replaces what is pending there.
ToShared(n) ==
  IF drain = "off" /\ Len(eventChan) < EventBuffer
  THEN eventChan' = Append(eventChan, n) /\ UNCHANGED <<pendingEvent, drain, held>>
  ELSE /\ pendingEvent' = n
       /\ drain' = IF drain = "off" THEN "take" ELSE drain
       /\ UNCHANGED <<eventChan, held>>

PublishToAll(s) ==
  /\ published' = published + 1
  /\ ToSubscribers([n |-> published + 1, state |-> s])
  /\ ToShared(published + 1)
  /\ UNCHANGED <<panicked, readVars>>

PublishEvent(s) ==
  IF EventClosed THEN UNCHANGED <<published, chanVars, closing, panicked, subVars, readVars>>
  ELSE PublishToAll(s) /\ UNCHANGED closing

Bounded == published < MaxEvents

SetState(s) == state' = s /\ PublishEvent(s)

(***************************************************************************)
(* The publishers: one disjunct for each change of state.                  *)
(***************************************************************************)

\* connectNew begins; whoever fails subscriptions holds the lifecycle gate
\* against it, or finds the lifecycle changed.
Connect ==
  /\ state = "disconnected" /\ failPc \in {"idle", "gate"} /\ Bounded
  /\ SetState("connecting")
  /\ failer' = "none" /\ failPc' = "idle"
  /\ UNCHANGED <<autoReconnect, replaying, byCaller, pumping, dispatching>>

DialFails ==
  /\ state = "connecting" /\ Bounded
  /\ SetState("disconnected")
  /\ UNCHANGED <<autoReconnect, replaying, byCaller, pumping, dispatching, failer, failPc>>

\* The connection is installed: connected, but not announced before the
\* feeds are replayed.
Install ==
  /\ state \in {"connecting", "reconnecting"} /\ failPc = "idle" /\ ~dispatching
  /\ state' = "connected" /\ replaying' = TRUE
  /\ byCaller' = (state = "connecting")
  /\ pumping' = TRUE /\ dispatching' = TRUE
  /\ UNCHANGED <<autoReconnect, failer, failPc, published, chanVars, closing, panicked,
                 subVars, readVars>>

Replayed ==
  /\ state = "connected" /\ replaying /\ Bounded
  /\ replaying' = FALSE
  /\ PublishEvent("connected")
  /\ UNCHANGED <<state, autoReconnect, byCaller, pumping, dispatching, failer, failPc>>

\* handleResubscribeFailure, in the goroutine that replayed.
ReplayFails ==
  /\ state = "connected" /\ replaying /\ failPc = "idle" /\ Bounded
  /\ replaying' = FALSE
  /\ SetState("disconnected")
  /\ failer' = IF byCaller THEN "caller" ELSE "pump"
  /\ failPc' = "check"
  /\ UNCHANGED <<autoReconnect, byCaller, pumping, dispatching>>

\* readPump notices the loss of the connection, or a slow consumer.
Dropped ==
  /\ state = "connected" /\ failPc = "idle" /\ Bounded
  /\ replaying' = FALSE /\ dispatching' = FALSE
  /\ SetState(IF autoReconnect THEN "reconnecting" ELSE "disconnected")
  /\ \E slowConsumer \in BOOLEAN :
       IF autoReconnect /\ ~slowConsumer THEN UNCHANGED <<failer, failPc>>
       ELSE failer' = "pump" /\ failPc' = "check"
  /\ UNCHANGED <<autoReconnect, byCaller, pumping>>

\* reconnectLoop gives up.
GiveUp ==
  /\ state = "reconnecting" /\ failPc = "idle" /\ Bounded
  /\ SetState("disconnected")
  /\ failer' = "pump" /\ failPc' = "gate"
  /\ UNCHANGED <<autoReconnect, replaying, byCaller, pumping, dispatching>>

FailGate ==
  /\ failPc = "gate"
  /\ failPc' = IF state = "closed" THEN "idle" ELSE "check"
  /\ failer' = IF state = "closed" THEN "none" ELSE failer
  /\ UNCHANGED <<state, autoReconnect, replaying, byCaller, pumping, dispatching, published,
                 chanVars, closing, panicked, subVars, readVars>>

\* The last look at State before the tables are emptied.
FailCheck ==
  /\ failPc = "check"
  /\ failPc' = IF state = "closed" THEN "idle" ELSE "publish"
  /\ failer' = IF state = "closed" THEN "none" ELSE failer
  /\ UNCHANGED <<state, autoReconnect, replaying, byCaller, pumping, dispatching, published,
                 chanVars, closing, panicked, subVars, readVars>>

\* What is left to do is to publish, whatever Close has done meanwhile.
FailPublish ==
  /\ failPc = "publish" /\ (Bounded \/ state = "closed")
  /\ PublishEvent(state)
  /\ failer' = "none" /\ failPc' = "idle"
  /\ UNCHANGED <<state, autoReconnect, replaying, byCaller, pumping, dispatching>>

\* The dispatcher reports a frame it could not deliver.
Report ==
  /\ dispatching /\ Bounded
  /\ \E s \in {"connected", state} : PublishEvent(s)
  /\ UNCHANGED lifeVars

\* A readPump that has lost its connection returns; so does a reconnectLoop
\* that is no longer wanted.
DispatchStops ==
  /\ dispatching /\ state # "connected"
  /\ dispatching' = FALSE
  /\ UNCHANGED <<state, autoReconnect, replaying, byCaller, pumping, failer, failPc, published,
                 chanVars, closing, panicked, subVars, readVars>>

PumpReturns ==
  /\ pumping /\ ~dispatching /\ failer # "pump" /\ state \in {"disconnected", "closed"}
  /\ pumping' = FALSE
  /\ UNCHANGED <<state, autoReconnect, replaying, byCaller, dispatching, failer, failPc, published,
                 chanVars, closing, panicked, subVars, readVars>>

(***************************************************************************)
(* drainEvents.                                                            *)
(***************************************************************************)
DrainTake ==
  /\ drain = "take"
  /\ IF pendingEvent = Nothing THEN drain' = "off" /\ UNCHANGED <<held, pendingEvent>>
     ELSE drain' = "send" /\ held' = pendingEvent /\ pendingEvent' = Nothing
  /\ UNCHANGED <<lifeVars, published, eventChan, closing, panicked, subVars, readVars>>

\* Mutant: the goroutine ends after one event.
DrainSendOnce ==
  /\ drain = "send" /\ ~EventClosed
  /\ Len(eventChan) < EventBuffer
  /\ eventChan' = Append(eventChan, held) /\ held' = Nothing
  /\ drain' = "off"
  /\ UNCHANGED <<lifeVars, published, pendingEvent, closing, panicked, subVars, readVars>>

\* The select's send.  Close may have closed the channel.
DrainSend ==
  /\ drain = "send"
  /\ IF EventClosed THEN panicked' = TRUE /\ UNCHANGED <<drain, held, eventChan>>
     ELSE /\ Len(eventChan) < EventBuffer
          /\ eventChan' = Append(eventChan, held) /\ held' = Nothing
          /\ drain' = "take" /\ UNCHANGED panicked
  /\ UNCHANGED <<lifeVars, published, pendingEvent, closing, subVars, readVars>>

\* Mutant: the select has no case for doneChan.
DrainStopNever == FALSE /\ UNCHANGED vars

\* The select's receive from doneChan.
DrainStop ==
  /\ drain = "send" /\ state = "closed"
  /\ drain' = "off" /\ held' = Nothing /\ pendingEvent' = Nothing
  /\ UNCHANGED <<lifeVars, published, eventChan, closing, panicked, subVars, readVars>>

(***************************************************************************)
(* Close.                                                                  *)
(***************************************************************************)
CloseBegin ==
  /\ closing = "no"
  /\ state' = "closed" /\ closing' = "pumps"
  /\ PublishToAll("closed")
  /\ replaying' = FALSE
  /\ UNCHANGED <<autoReconnect, byCaller, pumping, dispatching, failer, failPc>>

\* pumpWg.Wait, then eventWg.Wait.
PumpsWaited ==
  /\ closing = "pumps" /\ ~pumping
  /\ closing' = "events"
  /\ UNCHANGED <<lifeVars, published, chanVars, panicked, subVars, readVars>>

EventsWaited ==
  /\ closing = "events" /\ drain = "off"
  /\ closing' = "tables"
  /\ UNCHANGED <<lifeVars, published, chanVars, panicked, subVars, readVars>>

\* The subscription tables are emptied and the feeds closed.
TablesClosed ==
  /\ closing = "tables"
  /\ closing' = "channels"
  /\ UNCHANGED <<lifeVars, published, chanVars, panicked, subVars, readVars>>

\* eventChan and the channels of all subscribers are closed.
ChannelsClosed ==
  /\ closing = "channels"
  /\ closing' = "done"
  /\ sub' = [s \in Subscribers |-> IF sub[s] = "on" THEN "over" ELSE sub[s]]
  /\ UNCHANGED <<lifeVars, published, chanVars, panicked, subQueue, readVars>>

(***************************************************************************)
(* The application: SubscribeConnectionEvents, stop, and the readers.      *)
(***************************************************************************)
SubscribeConnectionEvents(s) ==
  /\ sub[s] = "none"
  /\ sub' = [sub EXCEPT ![s] = IF EventClosed THEN "over" ELSE "on"]
  /\ subSeen' = [subSeen EXCEPT ![s] = published]
  /\ UNCHANGED <<lifeVars, published, chanVars, closing, panicked, subQueue, seen>>

\* The stop function, the first time and unless the channel is closed already.
CloseSubscriber(s) ==
  /\ sub[s] = "on"
  /\ sub' = [sub EXCEPT ![s] = "over"]
  /\ UNCHANGED <<lifeVars, published, chanVars, closing, panicked, subQueue, readVars>>

ReadSubscriber(s) ==
  /\ subQueue[s] # <<>>
  /\ subSeen' = [subSeen EXCEPT ![s] = Head(subQueue[s]).n]
  /\ subQueue' = [subQueue EXCEPT ![s] = Tail(@)]
  /\ UNCHANGED <<lifeVars, published, chanVars, closing, panicked, sub, seen>>

ReadEvents ==
  /\ eventChan # <<>>
  /\ seen' = Head(eventChan)
  /\ eventChan' = Tail(eventChan)
  /\ UNCHANGED <<lifeVars, published, pendingEvent, drain, held, closing, panicked, subVars, subSeen>>

LifeStep ==
  \/ Connect \/ DialFails \/ Install \/ Replayed \/ ReplayFails \/ Dropped \/ GiveUp
  \/ FailGate \/ FailCheck \/ FailPublish \/ Report \/ DispatchStops \/ PumpReturns

DrainStep == DrainTake \/ DrainSend \/ DrainStop

CloseStep == PumpsWaited \/ EventsWaited \/ TablesClosed \/ ChannelsClosed

ReaderStep ==
  \/ ReadEvents
  \/ \E s \in Subscribers : SubscribeConnectionEvents(s) \/ (MayStop /\ CloseSubscriber(s)) \/ ReadSubscriber(s)

Next == LifeStep \/ DrainStep \/ CloseBegin \/ CloseStep \/ ReaderStep

Spec == Init /\ [][Next]_vars

-----------------------------------------------------------------------------
\* The channel of Events(), and that of each subscriber, as the abstract feeds.
Shared == INSTANCE EventFeed WITH
  Lossless <- FALSE, latest <- published, seen <- seen,
  phase <- IF closing = "no" THEN "on" ELSE "over"

Private(s) == INSTANCE EventFeed WITH
  Lossless <- TRUE, latest <- published,
  seen <- IF sub[s] = "none" THEN published ELSE subSeen[s],
  phase <- IF sub[s] = "none" THEN "off" ELSE sub[s]

\* Events() implements a lossy feed: backpressure may coalesce events, but
\* neither the goroutine that drains them, nor Close, nor publishers outside
\* c.mu ever deliver two events in the wrong order or one of them twice.
SharedFeed == Shared!Spec

\* A channel of SubscribeConnectionEvents implements a lossless feed: its
\* reader cannot miss an event between registration and the channel's end.
PrivateFeed ==
  /\ \A s \in Subscribers : Private(s)!Init
  /\ [][\A s \in Subscribers : [Private(s)!Next]_(Private(s)!vars)]_vars

\* "The channel is closed after Close has stopped the read and reconnect
\* pumps": nobody sends on it afterwards.
NoSendOnClosedChannel == ~panicked
=============================================================================
