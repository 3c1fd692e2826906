-------------------------- MODULE QuoteReconciler --------------------------
(***************************************************************************)
(* QuoteReconciler of the Go SDK: the ledger of resting orders, the Sync   *)
(* and CancelAll cycles that change orders over REST, and StartStreaming,  *)
(* which keeps the ledger up to date from the WebSocket order feed and     *)
(* hydrates it anew after every reconnect.                                 *)
(*                                                                         *)
(* Processes: the caller of StartStreaming and the stream goroutine, both  *)
(* of which run hydrateAndReplay; one cycle (Sync, CancelAll or a plain    *)
(* Hydrate) at a time under syncMu; the exchange and the WebSocket client. *)
(*                                                                         *)
(* Sides and prices of quotes are one integer price.  All orders are       *)
(* placed for the amount Full, which fills reduce.  Order IDs grow, as the *)
(* exchange assigns them.  Event payloads are well formed (ApplyOrderEvent *)
(* ignores others) and distinct, so the deduplication of pending events    *)
(* has nothing to do.                                                      *)
(***************************************************************************)
EXTENDS Integers, Sequences, SequencesExt, FiniteSetsExt

CONSTANTS
  Prices,       \* prices of quotes
  Tolerance,    \* WithToleranceBps, as a distance of prices
  Full,         \* amount of a new order
  MaxOrders,    \* bound: orders ever placed
  MaxPending,   \* maxPendingOrderEvents
  MaxQueued,    \* bound: order events in the channel, and on the wire before another one
  MaxFaults,    \* bound: faults explored
  MaxTargets,   \* bound: targets of a Sync
  Outside,      \* what happens to the account from outside: subset of
                \* {"place", "fill", "cancel", "modify"}
  Faults,       \* which faults happen: subset of {"drop", "malformed", "rest", "stop"}
  Cycles,       \* cycles the application runs: subset of {"sync", "cancelAll", "hydrate"}
  MayStream     \* whether the application calls StartStreaming

ASSUME QuoteReconcilerAssumption ==
  /\ Prices \subseteq Nat \ {0}
  /\ Tolerance \in Nat
  /\ Full \in Nat \ {0}
  /\ MaxOrders \in Nat /\ MaxPending \in Nat /\ MaxQueued \in Nat /\ MaxFaults \in Nat
  /\ MaxTargets \in Nat
  /\ MayStream \in BOOLEAN

Ids == 1 .. MaxOrders
NoOrder == [price |-> 0, amount |-> 0]
Event(kind, id, o) == [kind |-> kind, id |-> id, price |-> o.price, amount |-> o.amount]

VARIABLES
  open,       \* the exchange: orders on its book
  nextId,     \* the exchange: next order ID
  resting,    \* r.resting
  link,       \* the WebSocket connection: "up", "replaying" (feeds not yet resubscribed), "down"
  wire,       \* order events sent on the connection
  ch,         \* the channel of SubscribeOrderEvents
  connEvents, \* the channel of SubscribeConnectionEvents
  stream,     \* the stream goroutine: "none", "running", "ended"
  hydrating, recovering, generation, pending, pendingErr,  \* variables of StartStreaming
  early,      \* history: an event has started a hydration of this stream too early
  overtaken,  \* history: orders whose end this stream applied before Sync noted their placement
  hp,         \* hydrateAndReplay of "start" and "stream": control
  hgen,       \* ... the generation it began with
  batch,      \* ... the events it is applying
  snapshot,   \* answer of GetActiveOrders to whoever holds syncMu
  cycle,      \* holder of syncMu: "none", a cycle, or a hydrating process
  phase,      \* Sync, CancelAll: "cancel", "place"
  wanted,     \* Sync: the targets
  expected,   \* Sync, CancelAll: the orders to cancel, as they were when the cycle looked
  toCancel, toPlace, cancelled, placed, errs,  \* Sync, CancelAll: work left and results
  faults      \* bound: faults so far

exchangeVars == <<open, nextId>>
wsVars == <<link, wire, ch, connEvents>>
streamVars == <<stream, early, overtaken, hydrating, recovering, generation, pending, pendingErr>>
hydrateVars == <<hp, hgen, batch>>
cycleVars == <<cycle, snapshot, phase, wanted, expected, toCancel, toPlace, cancelled, placed, errs>>
vars == <<exchangeVars, resting, wsVars, streamVars, hydrateVars, cycleVars, faults>>

Hydrators == {"start", "stream"}
Nobody == [o \in Ids |-> NoOrder]

Init ==
  /\ open = Nobody /\ nextId = 1 /\ resting = Nobody
  /\ link = "up" /\ wire = <<>> /\ ch = <<>> /\ connEvents = <<>>
  /\ stream = "none" /\ early = FALSE /\ overtaken = {} /\ hydrating = FALSE /\ recovering = FALSE /\ generation = 0
  /\ pending = <<>> /\ pendingErr = FALSE
  /\ hp = [h \in Hydrators |-> "idle"] /\ hgen = [h \in Hydrators |-> 0]
  /\ batch = [h \in Hydrators |-> <<>>]
  /\ cycle = "none" /\ snapshot = Nobody /\ phase = "none" /\ wanted = {} /\ expected = Nobody
  /\ toCancel = {} /\ toPlace = {} /\ cancelled = {} /\ placed = {} /\ errs = FALSE
  /\ faults = 0

Fault(f) == f \in Faults /\ faults < MaxFaults /\ faults' = faults + 1

(***************************************************************************)
(* The exchange, and the WebSocket client as the reconciler uses it.       *)
(***************************************************************************)

\* Order id becomes o.  The event goes out on the feed, if it is subscribed.
ExchangeStep(kind, id, o) ==
  /\ open' = [open EXCEPT ![id] = o]
  /\ wire' = IF link = "up" /\ stream = "running"
             THEN Append(wire, Event(kind, id, IF o = NoOrder THEN open[id] ELSE o)) ELSE wire

NewOrder(p) ==
  /\ nextId <= MaxOrders
  /\ nextId' = nextId + 1
  /\ ExchangeStep("new", nextId, [price |-> p, amount |-> Full])

OutsideStep ==
  /\ Len(wire) < MaxQueued
  /\ \/ "place" \in Outside /\ \E p \in Prices : NewOrder(p)
     \/ \E id \in Ids :
          /\ open[id] # NoOrder /\ UNCHANGED nextId
          /\ \/ "fill" \in Outside /\ open[id].amount > 1
                /\ ExchangeStep("partial", id, [open[id] EXCEPT !.amount = @ - 1])
             \/ "fill" \in Outside /\ ExchangeStep("done", id, NoOrder)
             \/ "cancel" \in Outside /\ ExchangeStep("done", id, NoOrder)
             \/ "modify" \in Outside /\ \E p \in {q \in Prices : q > open[id].price} :
                  ExchangeStep("modified", id, [open[id] EXCEPT !.price = p])
  /\ UNCHANGED <<resting, link, ch, connEvents, streamVars, hydrateVars, cycleVars, faults>>

\* The read pump puts the next event into the subscription's channel.
Deliver ==
  /\ wire # <<>> /\ Len(ch) < MaxQueued
  /\ ch' = Append(ch, Head(wire)) /\ wire' = Tail(wire)
  /\ UNCHANGED <<exchangeVars, resting, link, connEvents, streamVars, hydrateVars, cycleVars, faults>>

Drop ==
  /\ link # "down" /\ stream = "running" /\ Fault("drop")
  /\ early' = (early \/ hp["start"] = "begin")
  /\ link' = "down" /\ wire' = <<>>
  /\ connEvents' = Append(connEvents, "reconnecting")
  /\ UNCHANGED <<exchangeVars, resting, ch, stream, overtaken, hydrating, recovering, generation, pending,
                 pendingErr, hydrateVars, cycleVars>>

Redial ==
  /\ link = "down" /\ link' = "replaying"
  /\ UNCHANGED <<exchangeVars, resting, wire, ch, connEvents, streamVars, hydrateVars, cycleVars, faults>>

\* The feeds are subscribed again, and the connection is reported.
Resubscribed ==
  /\ link = "replaying" /\ link' = "up"
  /\ connEvents' = Append(connEvents, "connected")
  /\ UNCHANGED <<exchangeVars, resting, wire, ch, streamVars, hydrateVars, cycleVars, faults>>

\* A frame that cannot be dispatched is reported as an event of a connected
\* client, even while the feeds are still being resubscribed.
MalformedFrame ==
  /\ link # "down" /\ stream = "running" /\ Fault("malformed")
  /\ early' = (early \/ link = "replaying")
  /\ connEvents' = Append(connEvents, "connected")
  /\ UNCHANGED <<exchangeVars, resting, link, wire, ch, stream, overtaken, hydrating, recovering, generation,
                 pending, pendingErr, hydrateVars, cycleVars>>

(***************************************************************************)
(* ApplyOrderEvent.                                                        *)
(***************************************************************************)

\* The ledger r after event e; a partial fill of an unknown order adds it.
Applied(r, e) ==
  [r EXCEPT ![e.id] =
     CASE e.kind = "done" -> NoOrder
       [] e.kind = "partial" /\ r[e.id] # NoOrder -> [r[e.id] EXCEPT !.amount = e.amount]
       [] OTHER -> [price |-> e.price, amount |-> e.amount]]

\* ApplyOrderEvent; the event may be the end of an order that Sync has placed and
\* not noted yet.
ApplyOrderEvent(e) ==
  /\ resting' = Applied(resting, e)
  /\ overtaken' = IF e.kind = "done" /\ \E pl \in placed : pl[1] = e.id
                  THEN overtaken \cup {e.id} ELSE overtaken

(***************************************************************************)
(* StartStreaming: hydrateAndReplay, by the caller ("start") and by the    *)
(* stream goroutine after a reconnect ("stream").                          *)
(***************************************************************************)

\* The one stream is set up, its goroutine runs and the caller hydrates.
StartStreaming ==
  /\ MayStream /\ stream # "running" /\ link = "up"
  /\ \A h \in Hydrators : hp[h] = "idle"
  /\ stream' = "running"
  /\ early' = FALSE /\ overtaken' = {} /\ hydrating' = TRUE /\ recovering' = FALSE /\ generation' = 0
  /\ pending' = <<>> /\ pendingErr' = FALSE
  /\ wire' = <<>> /\ ch' = <<>> /\ connEvents' = <<>>
  /\ hp' = [hp EXCEPT !["start"] = "begin"]
  /\ UNCHANGED <<exchangeVars, resting, link, hgen, batch, cycleVars, faults>>

\* The context of the stream ends, or one of its channels is closed.
StreamEnds ==
  /\ stream = "running" /\ Fault("stop")
  /\ stream' = "ended"
  /\ UNCHANGED <<exchangeVars, resting, wsVars, early, overtaken, hydrating, recovering, generation, pending,
                 pendingErr, hydrateVars, cycleVars>>

\* hydrationMu, then the generation.
HydrateBegin(h) ==
  /\ hp[h] = "begin"
  /\ \A g \in Hydrators : hp[g] \in {"idle", "begin"}
  /\ hgen' = [hgen EXCEPT ![h] = generation]
  /\ hp' = [hp EXCEPT ![h] = "query"]
  /\ UNCHANGED <<exchangeVars, resting, wsVars, streamVars, batch, cycleVars, faults>>

\* hydrateAndReplay returns.  An error ends the stream: the caller cancels it,
\* the goroutine returns.
Return(h, err) ==
  /\ hp' = [hp EXCEPT ![h] = "idle"]
  /\ recovering' = IF h = "stream" /\ ~err THEN FALSE ELSE recovering
  /\ stream' = IF err THEN "ended" ELSE stream

\* Hydrate takes syncMu and asks the exchange for the open orders.
HydrateQuery(h) ==
  /\ hp[h] = "query" /\ cycle = "none"
  /\ \/ /\ cycle' = h /\ snapshot' = open
        /\ hp' = [hp EXCEPT ![h] = "install"]
        /\ UNCHANGED <<stream, recovering, faults>>
     \/ /\ Fault("rest")
        /\ Return(h, hgen[h] = generation)
        /\ UNCHANGED <<cycle, snapshot>>
  /\ UNCHANGED <<exchangeVars, resting, wsVars, early, overtaken, hydrating, generation, pending, pendingErr, hgen,
                 batch, phase, wanted, expected, toCancel, toPlace, cancelled, placed, errs>>

HydrateInstall(h) ==
  /\ hp[h] = "install"
  /\ resting' = snapshot
  /\ cycle' = "none" /\ snapshot' = Nobody
  /\ hp' = [hp EXCEPT ![h] = "handoff"]
  /\ UNCHANGED <<exchangeVars, wsVars, streamVars, hgen, batch, phase, wanted, expected, toCancel, toPlace,
                 cancelled, placed, errs, faults>>

\* A reconnect has begun since this hydration read the generation.
StaleGeneration(h) == hgen[h] # generation

\* Mutant: the handoff is closed without looking at what is pending.
HandoffEarly(h) ==
  /\ hp[h] = "handoff"
  /\ hydrating' = FALSE /\ Return(h, FALSE)
  /\ UNCHANGED <<pending, batch, generation, pendingErr>>
  /\ UNCHANGED <<exchangeVars, resting, wsVars, early, overtaken, hgen, cycleVars, faults>>

\* One turn of the handoff loop under handoffMu: stale, overflown, complete,
\* or another batch to apply.
Handoff(h) ==
  /\ hp[h] = "handoff"
  /\ \/ /\ StaleGeneration(h)
        /\ Return(h, FALSE) /\ UNCHANGED <<hydrating, pending, batch>>
     \/ /\ ~StaleGeneration(h) /\ pendingErr
        /\ Return(h, TRUE) /\ UNCHANGED <<hydrating, pending, batch>>
     \/ /\ ~StaleGeneration(h) /\ ~pendingErr /\ pending = <<>>
        /\ hydrating' = FALSE
        /\ Return(h, FALSE) /\ UNCHANGED <<pending, batch>>
     \/ /\ ~StaleGeneration(h) /\ ~pendingErr /\ pending # <<>>
        /\ batch' = [batch EXCEPT ![h] = pending] /\ pending' = <<>>
        /\ hp' = [hp EXCEPT ![h] = "apply"]
        /\ UNCHANGED <<hydrating, recovering, stream>>
  /\ UNCHANGED <<exchangeVars, resting, wsVars, early, overtaken, generation, pendingErr, hgen, cycleVars, faults>>

ApplyBatch(h) ==
  /\ hp[h] = "apply"
  /\ ApplyOrderEvent(Head(batch[h]))
  /\ batch' = [batch EXCEPT ![h] = Tail(@)]
  /\ hp' = [hp EXCEPT ![h] = IF Len(batch[h]) = 1 THEN "handoff" ELSE "apply"]
  /\ UNCHANGED <<exchangeVars, wsVars, stream, early, hydrating, recovering, generation, pending, pendingErr, hgen,
                 cycleVars, faults>>

(***************************************************************************)
(* The stream goroutine's select.                                          *)
(***************************************************************************)
Selecting == stream = "running" /\ hp["stream"] = "idle"

\* Mutant: the ledger is hydrated when the connection is lost, not when it is back.
OnReconnectingHydrates ==
  /\ Selecting /\ connEvents # <<>> /\ Head(connEvents) = "reconnecting"
  /\ connEvents' = Tail(connEvents)
  /\ generation' = generation + 1
  /\ hydrating' = TRUE /\ recovering' = TRUE
  /\ pending' = <<>> /\ pendingErr' = FALSE
  /\ hp' = [hp EXCEPT !["stream"] = "begin"]
  /\ UNCHANGED <<stream, early, overtaken, exchangeVars, resting, link, wire, ch, hgen, batch, cycleVars, faults>>

OnReconnecting ==
  /\ Selecting /\ connEvents # <<>> /\ Head(connEvents) = "reconnecting"
  /\ connEvents' = Tail(connEvents)
  /\ IF recovering THEN UNCHANGED streamVars
     ELSE /\ generation' = generation + 1
          /\ hydrating' = TRUE /\ recovering' = TRUE
          /\ pending' = <<>> /\ pendingErr' = FALSE
          /\ UNCHANGED <<stream, early, overtaken>>
  /\ UNCHANGED <<exchangeVars, resting, link, wire, ch, hydrateVars, cycleVars, faults>>

\* Mutant: only a Connected event outside a recovery hydrates.
OnConnectedIgnored ==
  /\ Selecting /\ connEvents # <<>> /\ Head(connEvents) = "connected"
  /\ connEvents' = Tail(connEvents)
  /\ hp' = [hp EXCEPT !["stream"] = IF recovering THEN @ ELSE "begin"]
  /\ UNCHANGED <<exchangeVars, resting, link, wire, ch, streamVars, hgen, batch, cycleVars, faults>>

OnConnected ==
  /\ Selecting /\ connEvents # <<>> /\ Head(connEvents) = "connected"
  /\ connEvents' = Tail(connEvents)
  /\ hp' = [hp EXCEPT !["stream"] = IF recovering THEN "begin" ELSE @]
  /\ UNCHANGED <<exchangeVars, resting, link, wire, ch, streamVars, hgen, batch, cycleVars, faults>>

\* enqueuePendingOrderEvent, and the stop flag it raises when it overflows.
EnqueuePending(e) ==
  /\ pending' = IF Len(pending) < MaxPending THEN Append(pending, e) ELSE pending
  /\ pendingErr' = (pendingErr \/ Len(pending) >= MaxPending)

\* An order event is applied, or kept until the hydration is over.
OnOrderEvent ==
  /\ Selecting /\ ch # <<>>
  /\ ch' = Tail(ch)
  /\ IF hydrating
     THEN EnqueuePending(Head(ch)) /\ UNCHANGED <<resting, overtaken>>
     ELSE ApplyOrderEvent(Head(ch)) /\ UNCHANGED <<pending, pendingErr>>
  /\ UNCHANGED <<exchangeVars, link, wire, connEvents, stream, early, hydrating, recovering, generation,
                 hydrateVars, cycleVars, faults>>

(***************************************************************************)
(* Cycles under syncMu: Sync, CancelAll, Hydrate.                          *)
(***************************************************************************)

\* Price and amount of a resting order match a target.
Matches(o, p) ==
  o # NoOrder /\ o.amount = Full /\ o.price - p <= Tolerance /\ p - o.price <= Tolerance

\* Mutant: the youngest order is kept.
KeepYoungest(kept, p) ==
  LET fits == {id \in Ids \ kept : Matches(resting[id], p)} IN
  IF fits = {} THEN kept ELSE kept \cup {Max(fits)}

\* A target keeps the oldest order that matches and is not kept yet.
Keep(kept, p) ==
  LET fits == {id \in Ids \ kept : Matches(resting[id], p)} IN
  IF fits = {} THEN kept ELSE kept \cup {Min(fits)}

\* What the first targets keep, in the order the caller gave them.
Kept(targets) ==
  LET kept[k \in 0 .. Len(targets)] == IF k = 0 THEN {} ELSE Keep(kept[k - 1], targets[k])
  IN kept

\* The diff of Sync.
SyncStart(targets) ==
  LET kept == Kept(targets)
      n == Len(targets)
  IN /\ "sync" \in Cycles /\ cycle = "none"
     /\ cycle' = "sync" /\ phase' = "cancel"
     /\ wanted' = Range(targets)
     /\ toCancel' = {id \in Ids : resting[id] # NoOrder} \ kept[n]
     /\ expected' = [id \in Ids |-> IF id \in toCancel' THEN resting[id] ELSE NoOrder]
     /\ toPlace' = {targets[k] : k \in {i \in 1 .. n : kept[i] = kept[i - 1]}}
     /\ UNCHANGED <<exchangeVars, resting, wsVars, streamVars, hydrateVars, snapshot, cancelled, placed, errs, faults>>

CancelAllStart ==
  /\ "cancelAll" \in Cycles /\ cycle = "none"
  /\ cycle' = "cancelAll" /\ phase' = "cancel"
  /\ expected' = resting
  /\ toCancel' = {id \in Ids : resting[id] # NoOrder}
  /\ UNCHANGED <<exchangeVars, resting, wsVars, streamVars, hydrateVars, snapshot, wanted, toPlace, cancelled, placed, errs, faults>>

\* validateCancelResponse accepts only an answer that says the order is not live.
CancelProved(live) == ~live

\* One cancellation: the exchange cancels and says so; the order is gone
\* already; it does not cancel (the order stays live, or the call fails); or it
\* cancels and the answer is lost.
CancelOne(id) ==
  /\ phase = "cancel" /\ id \in toCancel
  /\ toCancel' = toCancel \ {id}
  /\ \E gone, answered \in BOOLEAN :
       /\ IF gone /\ answered THEN UNCHANGED faults ELSE Fault("rest")
       /\ IF gone /\ open[id] # NoOrder THEN ExchangeStep("done", id, NoOrder) ELSE UNCHANGED <<open, wire>>
       /\ IF answered /\ CancelProved(open'[id] # NoOrder)
          THEN cancelled' = cancelled \cup {id} /\ UNCHANGED errs
          ELSE errs' = TRUE /\ UNCHANGED cancelled
  /\ UNCHANGED <<nextId, resting, link, ch, connEvents, streamVars, hydrateVars, cycle, snapshot, phase,
                 wanted, expected, toPlace, placed>>

\* The caller's context ends: what was not started is an error.
ContextEnds ==
  /\ phase # "none" /\ Fault("rest")
  /\ toCancel' = {} /\ errs' = TRUE
  /\ toPlace' = IF phase = "place" THEN {} ELSE toPlace
  /\ UNCHANGED <<exchangeVars, resting, wsVars, streamVars, hydrateVars, cycle, snapshot, phase, wanted, expected,
                 cancelled, placed>>

EndCycle ==
  /\ cycle' = "none" /\ phase' = "none" /\ wanted' = {} /\ expected' = Nobody /\ errs' = FALSE
  /\ toCancel' = {} /\ toPlace' = {} /\ cancelled' = {} /\ placed' = {}

\* Mutant: replacements are placed whatever became of the cancellations.
PlacingUnchecked == cycle = "sync"

\* Replacements are placed only after a fully successful cancellation phase.
Placing == cycle = "sync" /\ ~errs

\* Mutant: the comparison with the order seen is inverted.
SameRestingOrderInverted(id) == resting[id] # expected[id]

\* The ledger still holds the order the cycle cancelled, not a fresher one.
SameRestingOrder(id) == resting[id] = expected[id]

\* deleteRestingIfUnchanged for what was cancelled, then the placements.
CancelDone ==
  /\ phase = "cancel" /\ toCancel = {}
  /\ resting' = [id \in Ids |-> IF id \in cancelled /\ SameRestingOrder(id) THEN NoOrder ELSE resting[id]]
  /\ IF Placing
     THEN phase' = "place" /\ UNCHANGED <<cycle, wanted, expected, toCancel, toPlace, cancelled, placed, errs>>
     ELSE EndCycle
  /\ UNCHANGED <<exchangeVars, wsVars, streamVars, hydrateVars, snapshot, faults>>

\* One placement: accepted, refused (post-only, or the call fails), or
\* accepted with the answer lost.  (The bound of orders refuses as well.)
PlaceOne(p) ==
  /\ phase = "place" /\ p \in toPlace
  /\ toPlace' = toPlace \ {p}
  /\ \/ NewOrder(p) /\ placed' = placed \cup {<<nextId, p>>} /\ UNCHANGED <<errs, faults>>
     \/ NewOrder(p) /\ Fault("rest") /\ errs' = TRUE /\ UNCHANGED placed
     \/ /\ Fault("rest") \/ (nextId > MaxOrders /\ UNCHANGED faults)
        /\ errs' = TRUE /\ UNCHANGED <<exchangeVars, wire, placed>>
  /\ UNCHANGED <<resting, link, ch, connEvents, streamVars, hydrateVars, cycle, snapshot, phase, wanted, expected,
                 toCancel, cancelled>>

\* Placements enter the ledger unless an event put them there already.
PlaceDone ==
  /\ phase = "place" /\ toPlace = {}
  /\ resting' = [id \in Ids |->
       IF resting[id] = NoOrder /\ \E pl \in placed : pl[1] = id
       THEN [price |-> (CHOOSE pl \in placed : pl[1] = id)[2], amount |-> Full] ELSE resting[id]]
  /\ EndCycle
  /\ UNCHANGED <<exchangeVars, wsVars, streamVars, hydrateVars, snapshot, faults>>

\* Hydrate called by the application, to initialise the ledger.
PlainHydrate ==
  /\ "hydrate" \in Cycles /\ cycle = "none" /\ stream = "none"
  /\ \/ cycle' = "hydrate" /\ snapshot' = open /\ UNCHANGED faults
     \/ Fault("rest") /\ UNCHANGED <<cycle, snapshot>>
  /\ UNCHANGED <<exchangeVars, resting, wsVars, streamVars, hydrateVars, phase, wanted, expected, toCancel, toPlace,
                 cancelled, placed, errs>>

PlainInstall ==
  /\ cycle = "hydrate"
  /\ resting' = snapshot
  /\ cycle' = "none" /\ snapshot' = Nobody
  /\ UNCHANGED <<exchangeVars, wsVars, streamVars, hydrateVars, phase, wanted, expected, toCancel, toPlace,
                 cancelled, placed, errs, faults>>

\* Targets without duplicates, which normalizeTargets refuses.
Targets == {s \in UNION {[1 .. k -> Prices] : k \in 0 .. MaxTargets} : \A i, j \in DOMAIN s : i # j => s[i] # s[j]}

ClientStep == Deliver \/ Redial \/ Resubscribed

HydrateStep(h) ==
  HydrateBegin(h) \/ HydrateQuery(h) \/ HydrateInstall(h) \/ Handoff(h) \/ ApplyBatch(h)

SelectStep == OnReconnecting \/ OnConnected \/ OnOrderEvent

CycleStep ==
  \/ \E id \in Ids : CancelOne(id)
  \/ CancelDone
  \/ \E p \in Prices : PlaceOne(p)
  \/ PlaceDone \/ PlainInstall

Next ==
  \/ OutsideStep \/ ClientStep \/ Drop \/ MalformedFrame
  \/ StartStreaming \/ StreamEnds \/ SelectStep
  \/ \E h \in Hydrators : HydrateStep(h)
  \/ \E targets \in Targets : SyncStart(targets)
  \/ CancelAllStart \/ PlainHydrate \/ CycleStep \/ ContextEnds

Spec == Init /\ [][Next]_vars

\* Goroutines run, REST calls return, the client redials, and syncMu does not
\* starve who waits for it (sync.Mutex hands over after a millisecond).  What
\* the account does from outside, what the application calls and faults are
\* not forced.
Fairness ==
  /\ WF_vars(ClientStep) /\ WF_vars(SelectStep) /\ WF_vars(CycleStep)
  /\ \A h \in Hydrators : WF_vars(HydrateStep(h)) /\ SF_vars(HydrateQuery(h))

-----------------------------------------------------------------------------
\* The stream is established and there is nothing left for it to do.
Settled ==
  /\ stream = "running" /\ link = "up" /\ cycle = "none"
  /\ ~hydrating /\ \A h \in Hydrators : hp[h] = "idle"
  /\ wire = <<>> /\ ch = <<>> /\ connEvents = <<>>

\* Once the stream has caught up, the ledger is exactly the exchange's book of
\* open orders.
LedgerExact == Settled => resting = open

\* The same as long as the first connection lasts: the startup race between
\* the REST snapshot and the order feed is closed, whatever happens to the
\* orders, whichever calls fail and whatever a Sync cancels and places
\* meanwhile.  Only an order whose end the stream applied before Sync noted its
\* placement may be in the ledger although it is gone.
LedgerExactAtFirst ==
  generation = 0 /\ Settled => \A id \in DOMAIN resting \ overtaken : resting[id] = open[id]

\* Once the stream has caught up, no open order is missing from the ledger,
\* however connections dropped and hydrations were overtaken; unless a hydration
\* of this stream began too early: on the connected event that a malformed frame
\* causes while the feeds are still being resubscribed, or as the hydration of
\* the caller, waiting while the connection drops.
NoOrderForgotten == Settled /\ ~early => \A id \in Ids : open[id] # NoOrder => resting[id] # NoOrder

\* Replacements never add to the exposure: while a cycle places new orders,
\* none of the orders it set out to cancel is still live on the exchange,
\* whichever calls failed or were answered late.
ReplacedOrdersAreGone ==
  phase = "place" => \A id \in DOMAIN expected : expected[id] # NoOrder => open[id] = NoOrder

\* Of two equal resting orders a cycle never cancels the older one, which has
\* the better place in the exchange's queue, to keep the younger.
OldestKept ==
  [][cycle = "none" /\ cycle' = "sync" =>
       \A i, j \in DOMAIN resting :
         i < j /\ resting[i] # NoOrder /\ resting[i] = resting[j] /\ expected'[j] = NoOrder
           => expected'[i] = NoOrder]_vars

\* A Sync that reports no error leaves one order per target in the ledger and
\* nothing else, unless the application has started a stream, which may change
\* the ledger meanwhile.
SyncReachesTargets ==
  [][phase = "place" /\ phase' = "none" /\ ~errs /\ stream = "none" =>
       /\ Cardinality({id \in DOMAIN resting' : resting'[id] # NoOrder}) = Cardinality(wanted)
       /\ \A p \in wanted : \E id \in DOMAIN resting' : Matches(resting'[id], p)]_vars

\* What a cycle leaves: of equal orders the oldest, and when it reports no error
\* one order per target and no other (reconciler.go: Sync).
CyclesReachTargets == OldestKept /\ SyncReachesTargets

\* A hydration that was begun ends: the stream gets back to applying events
\* directly or reports that it cannot.
StreamRecovers == hydrating ~> (~hydrating \/ stream = "ended")
=============================================================================
