---------------------------- MODULE DepthDelivery ----------------------------
(***************************************************************************)
(* How differential depth frames of one symbol get from the exchange to    *)
(* the channels of SubscribeDepth: the read pump that queues frames and    *)
(* the dispatcher that sends them, the fence of subscription generations   *)
(* that decides which frame is the baseline (WithSnapshot), Subscribe and  *)
(* Unsubscribe under the wire gate of the feed, reconnects with their      *)
(* replay, and the coordination of a channel's sends with its closing.     *)
(*                                                                         *)
(* WsClient has the connection lifecycle and the requests in detail; here  *)
(* a connection is up or down, and LiveOrderBook relies on what this       *)
(* module promises: a frame with Snapshot set carries a whole book.        *)
(* Frames are numbered in each subscription the exchange serves; frame 0   *)
(* is its baseline, either an ordinary depth update or the envelope that   *)
(* snapshot_routing.go recognises.                                         *)
(***************************************************************************)
EXTENDS Integers, Sequences, FiniteSets

CONSTANTS
  Subs,        \* calls of SubscribeDepth in the order they are made, each with its channel
  MaxFrames,   \* bound: frames after the baseline of a subscription
  FrameQueue,  \* capacity of frames
  ChanBuf,     \* capacity of a subscription's channel
  MaxFaults    \* bound: dropped connections, timeouts and cancelled contexts

ASSUME DepthDeliveryAssumption ==
  /\ Subs \subseteq Nat \ {0}
  /\ MaxFrames \in Nat /\ MaxFaults \in Nat
  /\ FrameQueue \in Nat \ {0} /\ ChanBuf \in Nat

VARIABLES
  link, conn,        \* the connection: "up", "replaying", "marked" (the replay waits), "down"; its number
  noted,             \* the replay: the frame of activeFeeds it has noted, or 0
  requests, wire,    \* frames on the way to the exchange, and from it
  served, epoch, sent, \* the exchange: subscription served (0: none), their count, last frame sent
  frames,            \* readPump: frames
  generation, pendingGen, \* subscriptionGeneration; snapshotPending of the symbol, or 0
  table, active,     \* depthSubs of the symbol; the call whose frame activeFeeds holds, or 0
  call, asked,       \* holder of the wire gate; requests so far
  disp, to, sending, \* dispatchFrame: its frame, subscriptions still to send to, the send under way
  sub, buffered,     \* subscription: "none", "open", "doomed", "closing", "closed"; len(ch)
  last,              \* history: the last frame of a baselined sequence put into a channel
  loose,             \* history: a frame may have been sent outside the fence
  faults             \* bound: faults so far

netVars  == <<link, conn, noted, requests, wire, served, epoch, sent>>
feedVars == <<generation, pendingGen, table, active>>
callVars == <<call, asked>>
dispVars == <<disp, to, sending>>
subVars  == <<sub, buffered, last>>
vars == <<netVars, frames, feedVars, callVars, dispVars, subVars, loose, faults>>

NoFrame == [epoch |-> 0, n |-> 0, form |-> "none", gen |-> 0, flag |-> FALSE]
Free == [kind |-> "none", at |-> "none", who |-> 0, conn |-> 0, req |-> 0]
Nowhere == <<0, 0>>

Init ==
  /\ link = "up" /\ conn = 1 /\ noted = 0 /\ requests = <<>> /\ wire = <<>>
  /\ served = 0 /\ epoch = 0 /\ sent = 0
  /\ frames = <<>>
  /\ generation = 0 /\ pendingGen = 0 /\ table = {} /\ active = 0
  /\ call = Free /\ asked = 0
  /\ disp = NoFrame /\ to = {} /\ sending = 0
  /\ sub = [s \in Subs |-> "none"] /\ buffered = [s \in Subs |-> 0]
  /\ last = [s \in Subs |-> Nowhere]
  /\ loose = FALSE /\ faults = 0

Fault == faults < MaxFaults /\ faults' = faults + 1

(***************************************************************************)
(* The exchange.                                                           *)
(***************************************************************************)
Frame(e, k, form) == [epoch |-> e, n |-> k, form |-> form, req |-> 0]
Ack(r) == [epoch |-> 0, n |-> 0, form |-> "ack", req |-> r]

\* A SUBSCRIBE is acknowledged and starts with a baseline, an UNSUBSCRIBE
\* stops the frames.
Serve ==
  /\ link # "down" /\ requests # <<>>
  /\ requests' = Tail(requests)
  /\ LET r == Head(requests) IN
     IF r.kind = "unsubscribe"
     THEN served' = 0 /\ sent' = 0 /\ wire' = Append(wire, Ack(r.req)) /\ UNCHANGED epoch
     ELSE /\ epoch' = epoch + 1 /\ served' = epoch' /\ sent' = 0
          /\ \E form \in {"update", "envelope"} :
               wire' = wire \o <<Ack(r.req), Frame(epoch', 0, form)>>
  /\ UNCHANGED <<link, conn, noted, frames, feedVars, callVars, dispVars, subVars, loose, faults>>

Stream ==
  /\ link # "down" /\ served # 0 /\ sent < MaxFrames /\ wire = <<>>
  /\ sent' = sent + 1
  /\ wire' = Append(wire, Frame(served, sent', "update"))
  /\ UNCHANGED <<link, conn, noted, requests, served, epoch, frames, feedVars, callVars, dispVars, subVars, loose, faults>>

(***************************************************************************)
(* Subscribe and Unsubscribe under the wire gate of the feed.              *)
(***************************************************************************)

\* The next frame read is expected to be the baseline.
MarkPending == generation' = generation + 1 /\ pendingGen' = generation + 1

\* subscribePublicFeed, to the end of its subsMu section.
Subscribe(s) ==
  /\ call = Free /\ sub[s] = "none" /\ \A t \in 1 .. s - 1 : sub[t] # "none"
  /\ sub' = [sub EXCEPT ![s] = "open"]
  /\ table' = table \cup {s}
  /\ IF active = 0
     THEN /\ active' = s /\ MarkPending
          /\ call' = [kind |-> "subscribe", at |-> "send", who |-> s, conn |-> conn, req |-> 0]
     ELSE UNCHANGED <<active, generation, pendingGen, call>>
  /\ UNCHANGED <<netVars, frames, asked, dispVars, buffered, last, loose, faults>>

\* unsubscribePublicFeed, to the end of its subsMu section.
Unsubscribe ==
  /\ call = Free /\ table # {}
  /\ sub' = [s \in Subs |-> IF s \in table THEN "doomed" ELSE sub[s]]
  /\ table' = {} /\ active' = 0
  /\ pendingGen' = 0 /\ generation' = generation + 1
  /\ call' = [kind |-> "unsubscribe", at |-> "close", who |-> 0, conn |-> conn, req |-> 0]
  /\ UNCHANGED <<netVars, frames, asked, dispVars, buffered, last, loose, faults>>

\* closeSubscriptions is through; the exchange is told if it is there.
Unsubscribed ==
  /\ call.kind = "unsubscribe" /\ call.at = "close"
  /\ \A s \in Subs : sub[s] \notin {"doomed", "closing"}
  /\ call' = IF link = "down" THEN Free ELSE [call EXCEPT !.at = "send"]
  /\ UNCHANGED <<netVars, frames, asked, feedVars, dispVars, subVars, loose, faults>>

\* requestConnected writes the request to whatever connection there is now.
Request ==
  /\ call.at = "send" /\ link # "down"
  /\ asked' = asked + 1
  /\ requests' = Append(requests, [kind |-> call.kind, req |-> asked'])
  /\ call' = [call EXCEPT !.at = "wait", !.conn = conn, !.req = asked']
  /\ loose' = (loose \/ (call.kind # "replay" /\ (link # "up" \/ conn # call.conn)))
  /\ UNCHANGED <<link, conn, noted, wire, served, epoch, sent, frames, feedVars, dispVars, subVars, faults>>

\* The caller's call has failed: removePublicSubscription of a Subscribe.
Rollback ==
  IF call.kind = "subscribe"
  THEN /\ sub' = [sub EXCEPT ![call.who] = IF @ = "open" THEN "doomed" ELSE @]
       /\ table' = table \ {call.who}
       /\ IF table' = {} THEN active' = 0 /\ pendingGen' = 0 ELSE UNCHANGED <<active, pendingGen>>
  ELSE UNCHANGED <<sub, table, active, pendingGen>>

\* There is no connection, or the one that was asked has failed.
RequestFails ==
  /\ call.kind # "replay"
  /\ \/ call.at = "send" /\ link = "down"
     \/ call.at = "wait" /\ (link = "down" \/ conn # call.conn)
  /\ Rollback /\ call' = Free
  /\ UNCHANGED <<netVars, frames, generation, asked, dispVars, buffered, last, loose, faults>>

\* The caller's context ends, and nobody takes the request back.
Abandon ==
  /\ call.kind # "replay" /\ call.at = "wait" /\ Fault
  /\ Rollback /\ call' = Free /\ loose' = TRUE
  /\ UNCHANGED <<netVars, frames, generation, asked, dispVars, buffered, last>>

(***************************************************************************)
(* subscription.close.                                                     *)
(***************************************************************************)

\* closed is set and done is closed.
CloseMark(s) ==
  /\ sub[s] = "doomed" /\ sub' = [sub EXCEPT ![s] = "closing"]
  /\ UNCHANGED <<netVars, frames, feedVars, callVars, dispVars, buffered, last, loose, faults>>

\* Mutant: the channel is closed without waiting for sends.
SendsDoneUnchecked(s) == TRUE

\* s.sends.Wait returns.
SendsDone(s) == sending # s

\* What is left in the channel no longer concerns the client.
CloseChannel(s) ==
  /\ sub[s] = "closing" /\ SendsDone(s)
  /\ sub' = [sub EXCEPT ![s] = "closed"]
  /\ buffered' = [buffered EXCEPT ![s] = 0] /\ last' = [last EXCEPT ![s] = Nowhere]
  /\ UNCHANGED <<netVars, frames, feedVars, callVars, dispVars, loose, faults>>

(***************************************************************************)
(* readPump.                                                               *)
(***************************************************************************)

\* The connection is gone, for the pump and for the exchange.
LoseConnection ==
  /\ link' = "down" /\ requests' = <<>> /\ wire' = <<>> /\ served' = 0 /\ sent' = 0 /\ noted' = 0
  /\ call' = IF call.kind = "replay" THEN Free ELSE call
  /\ UNCHANGED <<conn, epoch, asked>>

\* failSubscriptionsIfCurrent.
FailSubscriptions ==
  /\ sub' = [s \in Subs |-> IF s \in table THEN "doomed" ELSE sub[s]]
  /\ table' = {} /\ active' = 0 /\ pendingGen' = 0
  /\ UNCHANGED generation

\* Mutant: a frame that does not fit is dropped.
FrameDoesNotFitIgnored == UNCHANGED <<link, conn, noted, requests, served, epoch, sent, callVars, feedVars, sub>> /\ wire' = Tail(wire)

\* ErrSlowConsumer.
FrameDoesNotFit == LoseConnection /\ FailSubscriptions

\* A response goes to its request at once, any other frame into the queue with
\* the generation of that moment.
Read ==
  /\ link # "down" /\ wire # <<>>
  /\ LET f == Head(wire) IN
     IF f.form = "ack"
     THEN /\ call' = IF call.req = f.req THEN Free ELSE call
          /\ IF call.kind = "replay" /\ call.req = f.req
             THEN link' = "up" /\ noted' = 0 ELSE UNCHANGED <<link, noted>>
          /\ wire' = Tail(wire)
          /\ UNCHANGED <<frames, conn, requests, served, epoch, sent, asked, feedVars, sub>>
     ELSE IF Len(frames) < FrameQueue
     THEN /\ frames' = Append(frames, [epoch |-> f.epoch, n |-> f.n, form |-> f.form, gen |-> generation, flag |-> FALSE])
          /\ wire' = Tail(wire)
          /\ UNCHANGED <<link, conn, noted, requests, served, epoch, sent, callVars, feedVars, sub>>
     ELSE FrameDoesNotFit /\ UNCHANGED frames
  /\ UNCHANGED <<dispVars, buffered, last, loose, faults>>

\* The connection drops.
Drop ==
  /\ link # "down" /\ Fault
  /\ LoseConnection
  /\ UNCHANGED <<frames, feedVars, dispVars, subVars, loose>>

(***************************************************************************)
(* The dispatcher: dispatchFrame, dispatchOrderBookSnapshot and            *)
(* subscription.send.  When the connection is gone its stop channel is     *)
(* closed, which it may notice late.                                       *)
(***************************************************************************)
Stopping == link = "down"
Idle == disp = NoFrame

TakeFrame ==
  /\ Idle /\ frames # <<>>
  /\ disp' = Head(frames) /\ frames' = Tail(frames)
  /\ to' = table
  /\ UNCHANGED <<netVars, feedVars, callVars, sending, subVars, loose, faults>>

\* Mutant: the generation of the frame is not compared.
FencedNot(f) == FALSE

\* The frame was queued before the subscription that waits for its baseline.
Fenced(f) == pendingGen # 0 /\ f.gen < pendingGen

\* consumeSnapshotPending marks the first frame of a new subscription; an
\* envelope is a snapshot in any case, and dropped when it is fenced off.
Flag ==
  /\ ~Idle /\ disp.form # "ready"
  /\ IF disp.form = "envelope" /\ (Fenced(disp) \/ to = {})
     THEN disp' = NoFrame /\ to' = {} /\ UNCHANGED pendingGen
     ELSE /\ disp' = IF to = {} THEN NoFrame
                     ELSE [disp EXCEPT !.form = "ready",
                             !.flag = disp.form = "envelope" \/ (pendingGen # 0 /\ ~Fenced(disp))]
          /\ pendingGen' = IF pendingGen # 0 /\ ~Fenced(disp) THEN 0 ELSE pendingGen
          /\ UNCHANGED to
  /\ UNCHANGED <<netVars, frames, generation, table, active, callVars, sending, subVars, loose, faults>>

\* dispatchFrame returns when there is nobody left to send to.
SendDone(left) ==
  /\ sending' = 0 /\ to' = left
  /\ disp' = IF left = {} THEN NoFrame ELSE disp

\* send registers itself, unless the subscription is closed.
SendBegin(s) ==
  /\ disp.form = "ready" /\ sending = 0 /\ s \in to
  /\ IF sub[s] \in {"open", "doomed"}
     THEN sending' = s /\ to' = to \ {s} /\ UNCHANGED disp
     ELSE SendDone(to \ {s})
  /\ UNCHANGED <<netVars, frames, feedVars, callVars, subVars, loose, faults>>

\* The channel takes the frame.
Deliver ==
  /\ sending # 0 /\ buffered[sending] < ChanBuf
  /\ buffered' = [buffered EXCEPT ![sending] = @ + 1]
  /\ last' = [last EXCEPT ![sending] = IF disp.flag \/ @ # Nowhere THEN <<disp.epoch, disp.n>> ELSE @]
  /\ SendDone(to)
  /\ UNCHANGED <<netVars, frames, feedVars, callVars, sub, loose, faults>>

\* Mutant: a send looks at nothing but its channel and the stop channel.
GivesUpOnlyStopped == Stopping

\* A send gives up when its subscription is closed or the dispatcher stopped.
GivesUp == sub[sending] = "closing" \/ Stopping

SendEnds ==
  /\ sending # 0 /\ GivesUp
  /\ SendDone(to)
  /\ UNCHANGED <<netVars, frames, feedVars, callVars, subVars, loose, faults>>

(***************************************************************************)
(* Reconnects.                                                             *)
(***************************************************************************)

\* A new connection, once stopDispatch has returned.
Redial ==
  /\ link = "down" /\ Idle
  /\ link' = "replaying" /\ conn' = conn + 1 /\ frames' = <<>> /\ loose' = FALSE
  /\ UNCHANGED <<noted, requests, wire, served, epoch, sent, feedVars, callVars, dispVars, subVars, faults>>

\* resubscribeActiveFeeds notes the active feed and marks it, without the wire gate.
ReplayMark ==
  /\ link = "replaying"
  /\ noted' = active
  /\ IF active = 0 THEN link' = "up" /\ UNCHANGED <<generation, pendingGen>>
                   ELSE link' = "marked" /\ MarkPending
  /\ UNCHANGED <<conn, requests, wire, served, epoch, sent, frames, table, active, callVars, dispVars, subVars,
                 loose, faults>>

\* With the wire gate it subscribes again what is still active.
ReplayRequest ==
  /\ link = "marked" /\ call = Free
  /\ IF active = noted
     THEN call' = [kind |-> "replay", at |-> "send", who |-> 0, conn |-> conn, req |-> 0] /\ UNCHANGED <<link, noted>>
     ELSE link' = "up" /\ noted' = 0 /\ UNCHANGED call
  /\ UNCHANGED <<conn, requests, wire, served, epoch, sent, frames, feedVars, asked, dispVars, subVars,
                 loose, faults>>

\* It takes too long: handleResubscribeFailure gives the connection up.
ReplayFails ==
  /\ link = "marked" /\ Fault
  /\ LoseConnection /\ FailSubscriptions
  /\ UNCHANGED <<frames, dispVars, buffered, last, loose>>

\* The application reads a channel.
Consume(s) ==
  /\ buffered[s] > 0 /\ buffered' = [buffered EXCEPT ![s] = @ - 1]
  /\ UNCHANGED <<netVars, frames, feedVars, callVars, dispVars, sub, last, loose, faults>>

CallStep ==
  \/ \E s \in Subs : Subscribe(s)
  \/ Unsubscribe \/ Unsubscribed \/ Request \/ RequestFails \/ Abandon

CloseStep(s) == CloseMark(s) \/ CloseChannel(s)
SendStep == Deliver \/ SendEnds
DispatchStep == TakeFrame \/ Flag \/ (\E s \in Subs : SendBegin(s)) \/ SendStep

Next ==
  \/ Serve \/ Stream \/ Read \/ Drop
  \/ CallStep \/ (\E s \in Subs : CloseStep(s) \/ Consume(s))
  \/ DispatchStep
  \/ Redial \/ ReplayMark \/ ReplayRequest \/ ReplayFails

Spec == Init /\ [][Next]_vars

\* Closers and senders run.  No consumer has to read.
Fairness == WF_vars(\E s \in Subs : CloseStep(s)) /\ WF_vars(SendStep)

-----------------------------------------------------------------------------
\* A frame that reaches a subscriber as the snapshot it asked for ("Snapshot is
\* set by the client when this frame is the snapshot requested") is the
\* baseline of the subscription that is served now, however frames of earlier
\* subscriptions and connections are still queued, unless a request has
\* escaped the fence on this connection.
FlaggedIsBaseline ==
  disp.flag /\ ~loose /\ (\E s \in Subs : s \in to \cup {sending} /\ sub[s] = "open")
    => disp.n = 0 /\ disp.epoch = epoch

\* After a baseline a subscriber gets every frame in order while the
\* connection lasts: nothing is dropped for a slow consumer, who loses its
\* connection instead, and only a new baseline interrupts the sequence.
NoSilentLoss ==
  [][\A s \in Subs :
       last[s] # Nowhere /\ last'[s] \notin {last[s], Nowhere} /\ ~Stopping /\ ~loose
         => last'[s] = <<last[s][1], last[s][2] + 1>> \/ last'[s] = <<epoch, 0>>]_vars

\* The dispatcher never sends on a closed channel (which would panic), at
\* whatever point of a send the channel is closed.
NoSendAfterClose == sending # 0 => sub[sending] # "closed"

\* Closing a channel ends although nobody reads it and a send is blocked on it:
\* again and again no channel is about to be closed.
ClosesReturn == []<>(\A s \in Subs : sub[s] \notin {"doomed", "closing"})
=============================================================================
