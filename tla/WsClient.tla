------------------------------ MODULE WsClient ------------------------------
(***************************************************************************)
(* The connection lifecycle of the Go SDK's WebSocket client together with *)
(* everything whose correctness hangs on it: correlated requests, the      *)
(* subscription tables and the replay of active feeds on a new connection. *)
(*                                                                         *)
(* One action is one critical section of the code (a c.mu or c.subsMu      *)
(* section, or a channel operation), so every interleaving the locks allow *)
(* is a behaviour.  The processes are                                      *)
(*   - calls: goroutines of the application, each in one Subscribe*,       *)
(*     Unsubscribe*, Unsubscribe*Channel or Request call;                  *)
(*   - attempts: connectNew or reconnectLoop(L), one per lifecycle L, both *)
(*     ending in resubscribeActiveFeeds(L) and handleResubscribeFailure(L);*)
(*   - pumps: readPump(L), one per installed connection;                   *)
(*   - Close, and the exchange at the other end of the socket.             *)
(*                                                                         *)
(* A lifecycle installs at most one connection, so a connection is named   *)
(* by its lifecycle and 0 is nil.  A call is one operation, so a call also *)
(* names its subscription and its SUBSCRIBE frame (the frame ID that       *)
(* sameRequestFrame compares).  doneChan is closed in the critical section *)
(* that sets StateClosed, so state = "closed" stands for both.             *)
(***************************************************************************)
EXTENDS Naturals, Sequences, FiniteSets

CONSTANTS
  Calls,          \* API calls made by the application, one operation each
  Feeds,          \* feed keys
  Private,        \* the feed keys of authenticated feeds
  Family,         \* subscriptionVariantFamily: feeds of one family exclude each other
  Kinds,          \* the operations the application may call
  AutoReconnect,  \* WithAutoReconnect
  MaxReconnects,  \* WithMaxReconnects; 0 is "no limit"
  MayClose,       \* whether the application calls Close
  MaxLifecycle,   \* bound: connection attempts explored
  MaxFaults,      \* bound: faults of the network or the exchange explored
  None            \* absence of a call

ASSUME WsClientAssumption ==
  /\ Private \subseteq Feeds
  /\ Kinds \subseteq {"subscribe", "unsubscribe", "leave", "request"}
  /\ AutoReconnect \in BOOLEAN
  /\ MayClose \in BOOLEAN
  /\ MaxReconnects \in Nat
  /\ MaxLifecycle \in Nat \ {0}
  /\ MaxFaults \in Nat
  /\ None \notin Calls \cup Feeds
  /\ Calls \cap Nat = {}

Lifecycles == 1 .. MaxLifecycle

\* Requests in flight: one per call, and one for the replay of each attempt.
Reqs == Calls \cup Lifecycles

States == {"disconnected", "connecting", "connected", "reconnecting", "closed"}

VARIABLES
  state,            \* c.state (and doneChan: closed iff "closed")
  lifecycle,        \* c.lifecycle
  conn,             \* c.conn
  sockets,          \* dialled sockets on which Close was not called
  replayInProgress, \* c.replayInProgress
  gateFree,         \* lifecycleGate holds its token
  doneClosed,       \* the connectDone channel is closed (also while there is none yet)
  waiters,          \* calls that captured connectDone and have not seen it closed
  connectErr,       \* c.connectErr # nil
  activeFeeds,      \* c.activeFeeds: feed -> the call whose frame it holds
  table,            \* c.subTables: feed -> subscriptions
  chan,             \* subscription channel of a call: "none", "open", "closed"
  pending,          \* c.pending: request -> the connection it waits on, 0 if absent
  admitted,         \* the connection registerPendingForConn returned to a request
  reply,            \* content of a request's result channel
  rq,               \* where a request is in requestConnected
  wire,             \* frames written to conn that the exchange has not handled
  server,           \* feeds the exchange streams on conn
  pc, op,           \* calls: control and operation
  attPc, owner,     \* attempts: control, and the call in connectNew (None: reconnectLoop)
  tries, todo,      \* attempts: dials so far; entries of the snapshot still to replay
  feed, failed,     \* attempts: the feed being replayed; whether one was refused
  pump,             \* read pumps
  closing,          \* Close: "no", "waiting" (pumpWg.Wait), "done"
  faults            \* bound: faults so far

connVars == <<state, lifecycle, conn, sockets, replayInProgress, gateFree>>
doneVars == <<doneClosed, waiters, connectErr>>
subVars  == <<activeFeeds, table, chan>>
reqVars  == <<pending, admitted, reply, rq>>
netVars  == <<wire, server>>
callVars == <<pc, op>>
attVars  == <<attPc, owner, tries, todo, feed, failed>>
vars == <<connVars, doneVars, subVars, reqVars, netVars, callVars,
          attVars, pump, closing, faults>>

Init ==
  /\ state = "disconnected" /\ lifecycle = 0 /\ conn = 0 /\ sockets = {}
  /\ replayInProgress = FALSE /\ gateFree = TRUE
  /\ doneClosed = TRUE /\ waiters = {} /\ connectErr = FALSE
  /\ activeFeeds = [f \in Feeds |-> None]
  /\ table = [f \in Feeds |-> {}]
  /\ chan = [c \in Calls |-> "none"]
  /\ pending = [r \in Reqs |-> 0]
  /\ admitted = [r \in Reqs |-> 0]
  /\ reply = [r \in Reqs |-> "none"]
  /\ rq = [r \in Reqs |-> "idle"]
  /\ wire = <<>> /\ server = {}
  /\ pc = [c \in Calls |-> "idle"]
  /\ op = [c \in Calls |-> [kind |-> "none", feed |-> None, target |-> None]]
  /\ attPc = [l \in Lifecycles |-> "none"] /\ owner = [l \in Lifecycles |-> None]
  /\ tries = [l \in Lifecycles |-> 0] /\ todo = [l \in Lifecycles |-> {}]
  /\ feed = [l \in Lifecycles |-> None] /\ failed = [l \in Lifecycles |-> FALSE]
  /\ pump = [l \in Lifecycles |-> "none"]
  /\ closing = "no" /\ faults = 0

Closed == state = "closed"
Fault == faults < MaxFaults /\ faults' = faults + 1

(***************************************************************************)
(* Pieces of critical sections.                                            *)
(***************************************************************************)

\* startConnectAttemptLocked, the new lifecycle included.
StartConnectAttempt ==
  /\ lifecycle < MaxLifecycle
  /\ lifecycle' = lifecycle + 1
  /\ doneClosed' = FALSE
  /\ connectErr' = FALSE
  /\ UNCHANGED waiters

\* Mutant: connectErr is set but connectDone is not closed.
BroadcastWithoutClose(err) == connectErr' = err /\ doneClosed' = TRUE /\ UNCHANGED waiters

\* broadcastConnectLocked(err).
Broadcast(err) ==
  /\ connectErr' = err
  /\ doneClosed' = TRUE
  /\ waiters' = {}

\* conn.Close(); c.conn = nil.  What was on the socket is lost with it.
DropConn ==
  /\ sockets' = sockets \ {conn}
  /\ conn' = 0
  /\ wire' = <<>>
  /\ server' = {}

\* failPending: every pending request is answered with the error.
FailPending ==
  /\ pending' = [r \in Reqs |-> 0]
  /\ reply' = [r \in Reqs |-> IF pending[r] # 0 THEN "err" ELSE reply[r]]
  /\ UNCHANGED <<admitted, rq>>

\* Mutant: the lifecycle is not compared.
FailSubscriptionsAnyLifecycle(L) ==
  /\ activeFeeds' = [f \in Feeds |-> None]
  /\ table' = [f \in Feeds |-> {}]
  /\ chan' = [c \in Calls |-> IF \E f \in Feeds : c \in table[f] THEN "closed" ELSE chan[c]]

\* The table swap of failSubscriptionsIfCurrentLocked(L), which its two
\* checks turn into nothing for a superseded lifecycle or a closed client.
FailSubscriptions(L) ==
  IF lifecycle = L /\ ~Closed
  THEN /\ activeFeeds' = [f \in Feeds |-> None]
       /\ table' = [f \in Feeds |-> {}]
       /\ chan' = [c \in Calls |-> IF \E f \in Feeds : c \in table[f]
                                   THEN "closed" ELSE chan[c]]
  ELSE UNCHANGED subVars

\* Who holds the wire gate of a feed: a call between acquireSubscriptionWire
\* and its deferred release, or a replay with that feed's request in flight.
WireHeld(f) ==
  \/ \E c \in Calls : op[c].feed = f /\ pc[c] \in {"table", "unsubscribed", "request", "rollback"}
  \/ \E l \in Lifecycles : feed[l] = f /\ attPc[l] = "request"

\* Nobody is between registerPendingForConn and WriteMessage.
WriteMuFree == \A r \in Reqs : rq[r] # "write"

\* A call that has got past Connect: on to its subscription or its request.
PastConnect(c) ==
  /\ pc' = [pc EXCEPT ![c] = IF op[c].kind = "request" THEN "request" ELSE "wire"]
  /\ rq' = [rq EXCEPT ![c] = IF op[c].kind = "request" THEN "send" ELSE @]

Goto(c, where) == pc' = [pc EXCEPT ![c] = where]

\* connectNew on behalf of call c, or reconnectLoop (None), takes up lifecycle L.
StartAttempt(L, where, c, n) ==
  /\ attPc' = [attPc EXCEPT ![L] = where]
  /\ owner' = [owner EXCEPT ![L] = c]
  /\ tries' = [tries EXCEPT ![L] = n]
  /\ UNCHANGED <<todo, feed, failed>>

ByCall(L) == owner[L] # None
AttStep(L, where) == attPc' = [attPc EXCEPT ![L] = where]
AttGoto(L, where) == AttStep(L, where) /\ UNCHANGED <<owner, tries, todo, feed, failed>>

AttEnd(L) ==
  /\ AttStep(L, "ended")
  /\ owner' = [owner EXCEPT ![L] = None]
  /\ tries' = [tries EXCEPT ![L] = 0]
  /\ todo' = [todo EXCEPT ![L] = {}]
  /\ feed' = [feed EXCEPT ![L] = None]
  /\ failed' = [failed EXCEPT ![L] = FALSE]

(***************************************************************************)
(* Calls: Connect.                                                         *)
(***************************************************************************)

\* The application calls the client.  Unsubscribing does not connect first,
\* and a channel can only be left once Subscribe has returned it.
Start(c) ==
  /\ pc[c] = "idle"
  /\ \E k \in Kinds, f \in Feeds, t \in Calls :
       /\ k = "leave" => f \in Private /\ op[t].feed = f /\ pc[t] = "ok" /\ chan[t] # "none"
       /\ k # "leave" => t = c
       /\ op' = [op EXCEPT ![c] = [kind |-> k, feed |-> IF k = "request" THEN None ELSE f,
                                   target |-> IF k = "leave" THEN t ELSE None]]
       /\ Goto(c, IF k \in {"unsubscribe", "leave"} THEN "wire" ELSE "connect")
  /\ UNCHANGED <<connVars, doneVars, subVars, reqVars, netVars, attVars, pump, closing, faults>>

\* The head of Connect's loop.
ConnectCheck(c) ==
  /\ pc[c] = "connect"
  /\ \/ Closed /\ Goto(c, "err") /\ UNCHANGED <<waiters, rq>>
     \/ conn # 0 /\ state = "connected" /\ ~replayInProgress /\ PastConnect(c) /\ UNCHANGED waiters
     \/ /\ state \in {"connecting", "reconnecting"} \/ (replayInProgress /\ ~Closed)
        /\ waiters' = IF doneClosed THEN waiters ELSE waiters \cup {c}
        /\ Goto(c, "wait") /\ UNCHANGED rq
     \/ state = "disconnected" /\ ~replayInProgress /\ Goto(c, "connectNew") /\ UNCHANGED <<waiters, rq>>
  /\ UNCHANGED <<connVars, doneClosed, connectErr, subVars, pending, admitted, reply, netVars, op, attVars, pump, closing, faults>>

\* A waiter sees the connectDone channel it captured closed.
ConnectWake(c) ==
  /\ pc[c] = "wait"
  /\ c \notin waiters
  /\ IF state = "connected" /\ ~replayInProgress THEN PastConnect(c)
     ELSE Goto(c, IF Closed \/ connectErr THEN "err" ELSE "connect") /\ UNCHANGED rq
  /\ UNCHANGED <<connVars, doneVars, subVars, pending, admitted, reply, netVars, op, attVars, pump, closing, faults>>

\* Mutant: the state is not looked at again under the gate.
ConnectNewUnchecked(c) ==
  /\ pc[c] = "connectNew" /\ gateFree /\ ~Closed
  /\ state' = "connecting"
  /\ StartConnectAttempt
  /\ gateFree' = FALSE
  /\ StartAttempt(lifecycle + 1, "dialing", c, 0)
  /\ Goto(c, "attempt")
  /\ UNCHANGED <<conn, sockets, replayInProgress, rq, subVars, pending, admitted, reply, netVars,
                 op, pump, closing, faults>>

\* connectNew: acquire the gate, look again, and start dialling under it.
ConnectNew(c) ==
  /\ pc[c] = "connectNew"
  /\ gateFree
  /\ \/ /\ Closed
        /\ Goto(c, "err")
        /\ UNCHANGED <<connVars, doneVars, rq, attVars>>
     \/ /\ state = "connected" /\ conn # 0 /\ ~replayInProgress
        /\ PastConnect(c)
        /\ UNCHANGED <<connVars, doneVars, attVars>>
     \/ /\ state \in {"connecting", "reconnecting"} \/ (state = "connected" /\ replayInProgress)
        /\ Goto(c, "connect")
        /\ UNCHANGED <<connVars, doneVars, rq, attVars>>
     \/ /\ state = "disconnected"
        /\ state' = "connecting"
        /\ StartConnectAttempt
        /\ gateFree' = FALSE
        /\ StartAttempt(lifecycle + 1, "dialing", c, 0)
        /\ Goto(c, "attempt")
        /\ UNCHANGED <<conn, sockets, replayInProgress, rq>>
  /\ UNCHANGED <<subVars, pending, admitted, reply, netVars, op, pump, closing, faults>>

\* The context of a call ends, or doneChan closes, while it is blocked in a
\* select outside a request: connectDone, lifecycleGate, the wire gate or the
\* replay gate.  The wire gate, if held, is released by the defer.
Blocked == {"wait", "connectNew", "wire", "table"}

GiveUpWaiting(c) ==
  /\ pc[c] \in Blocked
  /\ Goto(c, "err")
  /\ waiters' = waiters \ {c}
  /\ UNCHANGED <<connVars, doneClosed, connectErr, subVars, reqVars, netVars, op, attVars, pump, closing, faults>>

(***************************************************************************)
(* Calls: subscriptions.                                                   *)
(***************************************************************************)

\* acquireSubscriptionWire takes the token of the feed's gate.  Close clears
\* the gate map, so a call that was already past the doneChan check gets a
\* fresh gate whoever holds the old one.
WireAcquire(c) ==
  /\ pc[c] = "wire"
  /\ ~WireHeld(op[c].feed) \/ Closed
  /\ Goto(c, "table")
  /\ UNCHANGED <<connVars, doneVars, subVars, reqVars, netVars, op, attVars, pump, closing, faults>>

\* validateActiveSubscriptionVariantLocked finds another variant active.
VariantMismatch(f) ==
  /\ Family[f] # None
  /\ \E g \in Feeds \ {f} : Family[g] = Family[f] /\ activeFeeds[g] # None

\* Public feeds ask activeFeeds, private feeds the subscription table.
NeedWireSubscribe(f) ==
  IF f \in Private THEN table[f] = {} ELSE activeFeeds[f] = None

\* The subsMu section of subscribePublicFeed and subscribePrivateFeed.
SubscribeTable(c) ==
  LET f == op[c].feed IN
  /\ pc[c] = "table" /\ op[c].kind = "subscribe"
  /\ IF VariantMismatch(f)
     THEN Goto(c, "err") /\ UNCHANGED <<subVars, rq>>
     ELSE /\ table' = [table EXCEPT ![f] = @ \cup {c}]
          /\ chan' = [chan EXCEPT ![c] = "open"]
          /\ IF NeedWireSubscribe(f)
             THEN /\ activeFeeds' = [activeFeeds EXCEPT ![f] = c]
                  /\ rq' = [rq EXCEPT ![c] = "send"]
                  /\ Goto(c, "request")
             ELSE Goto(c, "ok") /\ UNCHANGED <<activeFeeds, rq>>
  /\ UNCHANGED <<connVars, doneVars, pending, admitted, reply, netVars, op, attVars, pump, closing, faults>>

\* Remove the subscriptions gone from feed f; the last one to go takes the
\* feed with it, and the exchange has to be told.
Unsubscribe(c, f, gone) ==
  /\ table' = [table EXCEPT ![f] = @ \ gone]
  /\ chan' = [s \in Calls |-> IF s \in gone THEN "closed" ELSE chan[s]]
  /\ activeFeeds' = [activeFeeds EXCEPT ![f] = IF table[f] = gone THEN None ELSE @]
  /\ Goto(c, IF table[f] = gone THEN "unsubscribed" ELSE "ok")

\* The subsMu section of unsubscribePublicFeed, unsubscribePrivateFeed and
\* (for one channel) unsubscribePrivateFeedChannel.
UnsubscribeTable(c) ==
  LET f == op[c].feed
      gone == IF op[c].kind = "leave" THEN {op[c].target} \cap table[f] ELSE table[f]
  IN
  /\ pc[c] = "table" /\ op[c].kind \in {"unsubscribe", "leave"}
  /\ IF f \notin Private /\ VariantMismatch(f)
     THEN Goto(c, "err") /\ UNCHANGED subVars
     ELSE IF gone = {}
     THEN /\ Goto(c, "ok")
          /\ activeFeeds' = IF f \in Private /\ op[c].kind = "unsubscribe"
                            THEN [activeFeeds EXCEPT ![f] = None] ELSE activeFeeds
          /\ UNCHANGED <<table, chan>>
     ELSE Unsubscribe(c, f, gone)
  /\ UNCHANGED <<connVars, doneVars, reqVars, netVars, op, attVars, pump, closing, faults>>

\* With subsMu released the state is read: an UNSUBSCRIBE is sent if the
\* client is connected.
SendUnsubscribe(c) ==
  /\ pc[c] = "unsubscribed"
  /\ IF state = "connected"
     THEN rq' = [rq EXCEPT ![c] = "send"] /\ Goto(c, "request")
     ELSE Goto(c, "ok") /\ UNCHANGED rq
  /\ UNCHANGED <<connVars, doneVars, subVars, pending, admitted, reply, netVars, op, attVars, pump, closing, faults>>

\* requestConnected has returned to the call.
RequestReturned(c) ==
  /\ pc[c] = "request" /\ rq[c] \in {"ok", "err"}
  /\ Goto(c, IF op[c].kind = "subscribe" /\ rq[c] = "err" THEN "rollback" ELSE rq[c])
  /\ rq' = [rq EXCEPT ![c] = "idle"]
  /\ UNCHANGED <<connVars, doneVars, subVars, pending, admitted, reply, netVars, op, attVars, pump, closing, faults>>

\* Mutant: the rolled-back feed stays in activeFeeds.
RollbackKeepsFeed(c) ==
  LET f == op[c].feed IN
  /\ pc[c] = "rollback"
  /\ table' = [table EXCEPT ![f] = @ \ {c}]
  /\ chan' = [chan EXCEPT ![c] = "closed"]
  /\ Goto(c, "err")
  /\ UNCHANGED <<activeFeeds, connVars, doneVars, reqVars, netVars, op, attVars, pump, closing, faults>>

\* removePublicSubscription and removePrivateSubscription, then the error.
Rollback(c) ==
  LET f == op[c].feed IN
  /\ pc[c] = "rollback"
  /\ table' = [table EXCEPT ![f] = @ \ {c}]
  /\ activeFeeds' = [activeFeeds EXCEPT ![f] = IF table[f] = {c} THEN None ELSE @]
  /\ chan' = [chan EXCEPT ![c] = "closed"]
  /\ Goto(c, "err")
  /\ UNCHANGED <<connVars, doneVars, reqVars, netVars, op, attVars, pump, closing, faults>>

(***************************************************************************)
(* requestConnected, for calls and for replays.                            *)
(***************************************************************************)

\* requestConnected(r) returns: the request leaves c.pending, its result
\* channel and its connection go out of scope.
EndRequest(r, res) ==
  /\ rq' = [rq EXCEPT ![r] = res]
  /\ pending' = [pending EXCEPT ![r] = 0]
  /\ admitted' = [admitted EXCEPT ![r] = 0]
  /\ reply' = [reply EXCEPT ![r] = "none"]

\* registerPendingForConn, under writeMu.
Register(r) ==
  /\ rq[r] = "send" /\ WriteMuFree
  /\ IF conn # 0 /\ state = "connected"
     THEN /\ pending' = [pending EXCEPT ![r] = conn]
          /\ admitted' = [admitted EXCEPT ![r] = conn]
          /\ rq' = [rq EXCEPT ![r] = "write"]
          /\ UNCHANGED reply
     ELSE EndRequest(r, "err")
  /\ UNCHANGED <<connVars, doneVars, subVars, netVars, callVars, attVars, pump, closing, faults>>

\* The frame a request puts on the wire.
Frame(r) ==
  [req |-> r, admitted |-> admitted[r],
   verb |-> IF r \in Calls THEN op[r].kind ELSE "subscribe",
   feed |-> IF r \in Calls THEN op[r].feed ELSE feed[r]]

\* Mutant: c.conn is read again for the write.
WriteTargetReread(r) == conn

\* The socket requestConnected writes to: the one that admitted the request.
WriteTarget(r) == admitted[r]

\* WriteMessage on the captured connection: it fails on a closed socket, and
\* may fail on an open one.
Write(r) ==
  /\ rq[r] = "write"
  /\ \/ /\ WriteTarget(r) \in sockets
        /\ wire' = Append(wire, Frame(r))
        /\ rq' = [rq EXCEPT ![r] = "await"]
        /\ UNCHANGED <<pending, admitted, reply, faults>>
     \/ /\ (WriteTarget(r) \notin sockets /\ UNCHANGED faults) \/ Fault
        /\ EndRequest(r, "err")
        /\ UNCHANGED wire
  /\ UNCHANGED <<connVars, doneVars, subVars, server, callVars, attVars, pump, closing>>

\* The result channel is ready.
Answered(r) ==
  /\ rq[r] = "await" /\ reply[r] # "none"
  /\ EndRequest(r, reply[r])
  /\ UNCHANGED <<connVars, doneVars, subVars, netVars, callVars, attVars, pump, closing, faults>>

\* The request's context ends or doneChan closes first.  A replay has its own
\* five-second context: running out of it counts as a fault while an answer
\* can still come.
Abandon(r) ==
  /\ rq[r] = "await"
  /\ IF r \in Lifecycles /\ ~Closed /\ pending[r] = conn THEN Fault ELSE UNCHANGED faults
  /\ EndRequest(r, "err")
  /\ UNCHANGED <<connVars, doneVars, subVars, netVars, callVars, attVars, pump, closing>>

(***************************************************************************)
(* The exchange and dispatchResponse.                                      *)
(***************************************************************************)

\* Frame m carries the ID of a request that is still pending.
Correlated(m) ==
  pending[m.req] # 0 /\ (m.req \in Lifecycles => feed[m.req] = m.feed)

\* The exchange handles the next frame and the read pump of the connection
\* dispatches its response: accepted, refused, or (malformed) such that the
\* request fails and so does the connection.
Respond ==
  /\ wire # <<>>
  /\ conn \in sockets /\ pump[conn] = "reading" /\ lifecycle = conn
  /\ LET m == Head(wire) IN
     \E res \in {"ok", "refused", "malformed"} :
       /\ IF res = "ok" THEN UNCHANGED faults ELSE Fault
       /\ server' = CASE res = "refused" \/ m.verb = "request" -> server
                      [] res # "refused" /\ m.verb = "subscribe" -> server \cup {m.feed}
                      [] OTHER -> server \ {m.feed}
       /\ pending' = IF Correlated(m) THEN [pending EXCEPT ![m.req] = 0] ELSE pending
       /\ reply' = IF Correlated(m)
                   THEN [reply EXCEPT ![m.req] = IF res = "ok" THEN "ok" ELSE "err"] ELSE reply
       /\ pump' = IF res = "malformed" THEN [pump EXCEPT ![conn] = "failing"] ELSE pump
  /\ wire' = Tail(wire)
  /\ UNCHANGED <<connVars, doneVars, subVars, admitted, rq, callVars, attVars, closing>>

(***************************************************************************)
(* Attempts: dialling in connectNew and reconnectLoop.                     *)
(***************************************************************************)

\* reconnectLoop's reasons to stop without a word.
Superseded(L) == Closed \/ lifecycle # L \/ (state = "connected" /\ conn # 0)

\* A caller of connectNew returns with err; reconnectLoop returns to nobody.
OwnerFails(L) ==
  IF ByCall(L) THEN Goto(owner[L], "err") ELSE UNCHANGED pc

\* The dial succeeded: install the connection and start its read pump, or
\* close the socket again.
Install(L) ==
  /\ attPc[L] = "dialing"
  /\ gateFree' = TRUE
  /\ IF Closed \/ (~ByCall(L) /\ Superseded(L))
     THEN /\ AttEnd(L) /\ OwnerFails(L)
          /\ IF ByCall(L) THEN Broadcast(TRUE) ELSE UNCHANGED doneVars
          /\ UNCHANGED <<state, conn, sockets, replayInProgress, pump, netVars>>
     ELSE /\ conn' = L
          /\ sockets' = sockets \cup {L}
          /\ state' = "connected"
          /\ replayInProgress' = TRUE
          /\ pump' = [pump EXCEPT ![L] = "reading"]
          /\ wire' = <<>> /\ server' = {}
          /\ AttGoto(L, "snapshot")
          /\ UNCHANGED <<doneVars, pc>>
  /\ UNCHANGED <<lifecycle, subVars, reqVars, op, closing, faults>>

\* The dial failed in connectNew: the attempt is over for everyone who waits.
ConnectDialFails(L) ==
  /\ attPc[L] = "dialing" /\ ByCall(L)
  /\ IF Closed THEN UNCHANGED <<state, faults>> ELSE state' = "disconnected" /\ Fault
  /\ Broadcast(TRUE)
  /\ gateFree' = TRUE
  /\ AttEnd(L) /\ OwnerFails(L)
  /\ UNCHANGED <<lifecycle, conn, sockets, replayInProgress, subVars, reqVars, netVars, op, pump, closing>>

\* The dial failed in reconnectLoop: try again, or give up when attempts run
\* out or the token source failed.
ReconnectDialFails(L) ==
  /\ attPc[L] = "dialing" /\ ~ByCall(L)
  /\ IF Closed THEN UNCHANGED faults ELSE Fault
  /\ gateFree' = TRUE
  /\ \E authFailed \in BOOLEAN :
       LET exhausted == MaxReconnects > 0 /\ tries[L] >= MaxReconnects IN
       /\ AttStep(L, IF authFailed \/ exhausted THEN "giveUp" ELSE "backoff")
       /\ tries' = [tries EXCEPT ![L] = IF MaxReconnects > 0 THEN @ + 1 ELSE @]
  /\ UNCHANGED <<owner, todo, feed, failed>>
  /\ UNCHANGED <<state, lifecycle, conn, sockets, replayInProgress, doneVars, subVars, reqVars,
                 netVars, callVars, pump, closing>>

\* reconnectLoop after its backoff: dial under the gate unless superseded.
BackoffElapsed(L) ==
  /\ attPc[L] = "backoff"
  /\ IF Superseded(L) THEN AttEnd(L) /\ UNCHANGED gateFree
     ELSE gateFree /\ gateFree' = FALSE /\ AttGoto(L, "dialing")
  /\ UNCHANGED <<state, lifecycle, conn, sockets, replayInProgress, doneVars, subVars, reqVars,
                 netVars, callVars, pump, closing, faults>>

\* doneChan closes during the backoff.
BackoffClosed(L) ==
  /\ attPc[L] = "backoff" /\ Closed
  /\ Broadcast(TRUE)
  /\ AttEnd(L)
  /\ UNCHANGED <<connVars, subVars, reqVars, netVars, callVars, pump, closing, faults>>

\* reconnectLoop ends in StateDisconnected, without the gate.
GiveUp(L) ==
  /\ attPc[L] = "giveUp"
  /\ IF Closed \/ lifecycle # L
     THEN AttEnd(L) /\ UNCHANGED <<state, doneVars>>
     ELSE state' = "disconnected" /\ Broadcast(TRUE) /\ AttGoto(L, "failSubscriptions")
  /\ UNCHANGED <<lifecycle, conn, sockets, replayInProgress, gateFree, subVars, reqVars, netVars,
                 callVars, pump, closing, faults>>

\* failSubscriptionsIfCurrent: takes the gate, unless already out of date.
GiveUpCleanup(L) ==
  /\ attPc[L] = "failSubscriptions"
  /\ gateFree \/ lifecycle # L \/ Closed
  /\ FailSubscriptions(L)
  /\ AttEnd(L)
  /\ UNCHANGED <<connVars, doneVars, reqVars, netVars, callVars, pump, closing, faults>>

(***************************************************************************)
(* Attempts: resubscribeActiveFeeds and what follows it.                   *)
(***************************************************************************)

ActiveFrames == {<<f, activeFeeds[f]>> : f \in {g \in Feeds : activeFeeds[g] # None}}

\* The snapshot of activeFeeds under the replay gate; the closed doneChan may
\* win the select instead.
Snapshot(L) ==
  /\ attPc[L] = "snapshot"
  /\ \/ Closed /\ AttGoto(L, "failed")
     \/ lifecycle # L /\ AttGoto(L, "replayed")
     \/ /\ lifecycle = L
        /\ AttStep(L, "replay")
        /\ todo' = [todo EXCEPT ![L] = ActiveFrames]
        /\ UNCHANGED <<owner, tries, feed, failed>>
  /\ UNCHANGED <<connVars, doneVars, subVars, reqVars, netVars, callVars, pump, closing, faults>>

\* Mutant: the snapshot is replayed unseen.
StillCurrentUnchecked(e) == TRUE

\* The frame taken in the snapshot is still the feed's frame.
StillCurrent(e) == activeFeeds[e[1]] = e[2]

\* One turn of the replay loop, in whatever order the map was ranged over.
ReplayNext(L) ==
  /\ attPc[L] = "replay"
  /\ \/ /\ todo[L] = {}
        /\ AttGoto(L, IF failed[L] THEN "failed" ELSE "replayed")
        /\ UNCHANGED <<rq, faults>>
     \/ /\ todo[L] # {} /\ lifecycle # L
        /\ AttGoto(L, "replayed")
        /\ UNCHANGED <<rq, faults>>
     \/ \E e \in todo[L] :
          /\ lifecycle = L
          /\ ~WireHeld(e[1]) \/ Closed
          /\ IF StillCurrent(e)
             THEN /\ AttStep(L, "request")
                  /\ feed' = [feed EXCEPT ![L] = e[1]]
                  /\ rq' = [rq EXCEPT ![L] = "send"]
             ELSE UNCHANGED <<attPc, feed, rq>>
          /\ todo' = [todo EXCEPT ![L] = @ \ {e}]
          /\ UNCHANGED <<owner, tries, failed, faults>>
     \/ \E e \in todo[L] :      \* the wire gate was not to be had in time
          /\ lifecycle = L
          /\ IF Closed THEN UNCHANGED faults ELSE WireHeld(e[1]) /\ Fault
          /\ todo' = [todo EXCEPT ![L] = @ \ {e}]
          /\ failed' = [failed EXCEPT ![L] = TRUE]
          /\ UNCHANGED <<attPc, owner, tries, feed, rq>>
  /\ UNCHANGED <<connVars, doneVars, subVars, pending, admitted, reply, netVars, callVars, pump, closing>>

\* Mutant: a refused feed is not recorded as a failure of the replay.
ReplayReturnedIgnoringErrors(L) ==
  /\ attPc[L] = "request" /\ rq[L] \in {"ok", "err"}
  /\ AttStep(L, "replay")
  /\ feed' = [feed EXCEPT ![L] = None]
  /\ UNCHANGED <<owner, tries, todo, failed>>
  /\ rq' = [rq EXCEPT ![L] = "idle"]
  /\ UNCHANGED <<connVars, doneVars, subVars, pending, admitted, reply, netVars, callVars, pump, closing, faults>>

\* requestConnected has returned to the replay.
ReplayReturned(L) ==
  /\ attPc[L] = "request" /\ rq[L] \in {"ok", "err"}
  /\ AttStep(L, "replay")
  /\ feed' = [feed EXCEPT ![L] = None]
  /\ failed' = [failed EXCEPT ![L] = @ \/ rq[L] = "err"]
  /\ UNCHANGED <<owner, tries, todo>>
  /\ rq' = [rq EXCEPT ![L] = "idle"]
  /\ UNCHANGED <<connVars, doneVars, subVars, pending, admitted, reply, netVars, callVars, pump, closing, faults>>

\* The replay is complete: let everyone in, unless the lifecycle has moved on.
ReplayDone(L) ==
  /\ attPc[L] = "replayed"
  /\ AttEnd(L)
  /\ IF state = "connected" /\ lifecycle = L
     THEN /\ replayInProgress' = FALSE
          /\ Broadcast(FALSE)
          /\ IF ByCall(L) THEN PastConnect(owner[L]) ELSE UNCHANGED <<pc, rq>>
     ELSE /\ IF ByCall(L)
             THEN Goto(owner[L], IF state \in {"reconnecting", "connecting"} THEN "connect" ELSE "err")
             ELSE UNCHANGED pc
          /\ UNCHANGED <<replayInProgress, doneVars, rq>>
  /\ UNCHANGED <<state, lifecycle, conn, sockets, gateFree, subVars, pending, admitted, reply,
                 netVars, op, pump, closing, faults>>

\* handleResubscribeFailure, first half: under the gate and c.mu, disconnect
\* and move to a new lifecycle.
ReplayFailed(L) ==
  /\ attPc[L] = "failed"
  /\ IF Closed \/ (gateFree /\ lifecycle # L)
     THEN /\ AttEnd(L) /\ OwnerFails(L)
          /\ UNCHANGED <<connVars, doneVars, netVars>>
     ELSE /\ gateFree /\ gateFree' = FALSE
          /\ replayInProgress' = FALSE
          /\ DropConn
          /\ lifecycle' = lifecycle + 1
          /\ state' = "disconnected"
          /\ Broadcast(TRUE)
          /\ AttGoto(L, "cleanup")
          /\ UNCHANGED pc
  /\ UNCHANGED <<subVars, reqVars, op, pump, closing, faults>>

\* handleResubscribeFailure, second half: the gate is still held.
ReplayCleanup(L) ==
  /\ attPc[L] = "cleanup"
  /\ FailSubscriptions(L + 1)
  /\ gateFree' = TRUE
  /\ AttEnd(L) /\ OwnerFails(L)
  /\ UNCHANGED <<state, lifecycle, conn, sockets, replayInProgress, doneVars, reqVars, netVars,
                 op, pump, closing, faults>>

(***************************************************************************)
(* readPump.                                                               *)
(***************************************************************************)

\* ReadMessage fails: the socket was closed here, the peer is gone, or the
\* frame is too large or overflows the queue of a slow consumer.
PumpError(L) ==
  /\ pump[L] = "reading"
  /\ \/ L \notin sockets /\ pump' = [pump EXCEPT ![L] = "failing"] /\ UNCHANGED faults
     \/ L \in sockets /\ Fault /\ \E e \in {"failing", "slow"} : pump' = [pump EXCEPT ![L] = e]
  /\ UNCHANGED <<connVars, doneVars, subVars, reqVars, netVars, callVars, attVars, closing>>

\* The checks at the head of the loop.
PumpExit(L) ==
  /\ pump[L] = "reading"
  /\ Closed \/ lifecycle # L \/ conn = 0
  /\ pump' = [pump EXCEPT ![L] = "ended"]
  /\ UNCHANGED <<connVars, doneVars, subVars, reqVars, netVars, callVars, attVars, closing, faults>>

\* livenessPump: its ping failed while the connection is still current; the
\* socket is closed and left to the read pump.
LivenessFails(L) ==
  /\ state = "connected" /\ lifecycle = L /\ ~replayInProgress /\ conn \in sockets
  /\ Fault
  /\ sockets' = sockets \ {conn}
  /\ UNCHANGED <<state, lifecycle, conn, replayInProgress, gateFree, doneVars, subVars, reqVars,
                 netVars, callVars, attVars, pump, closing>>

\* reconnectLoop(L) is started.
Reconnect(L) == StartAttempt(L, "backoff", None, 1)

\* The pump's failure is stale: closed, superseded, or handled by a failed replay.
PumpStale(L) == Closed \/ lifecycle # L \/ (state = "disconnected" /\ conn = 0)

\* A dropped connection's replay no longer keeps Connect waiting.
EndReplayTurn == replayInProgress' = FALSE

\* Failure handling under the gate and c.mu.
PumpFail(L) ==
  /\ pump[L] \in {"failing", "slow"}
  /\ gateFree \/ Closed
  /\ IF PumpStale(L)
     THEN /\ pump' = [pump EXCEPT ![L] = "ended"]
          /\ UNCHANGED <<connVars, doneVars, reqVars, netVars, attVars>>
     ELSE /\ DropConn
          /\ EndReplayTurn
          /\ FailPending
          /\ IF AutoReconnect
             THEN /\ state' = "reconnecting"
                  /\ StartConnectAttempt
                  /\ IF pump[L] = "slow"
                     THEN gateFree' = FALSE /\ pump' = [pump EXCEPT ![L] = "cleanup"] /\ UNCHANGED attVars
                     ELSE pump' = [pump EXCEPT ![L] = "ended"] /\ Reconnect(L + 1) /\ UNCHANGED gateFree
             ELSE /\ state' = "disconnected"
                  /\ lifecycle' = lifecycle + 1
                  /\ Broadcast(TRUE)
                  /\ gateFree' = FALSE /\ pump' = [pump EXCEPT ![L] = "cleanup"] /\ UNCHANGED attVars
  /\ UNCHANGED <<subVars, callVars, closing, faults>>

\* The subscriptions are failed with the gate still held, and only then does
\* the reconnect loop start.
PumpCleanup(L) ==
  /\ pump[L] = "cleanup"
  /\ FailSubscriptions(L + 1)
  /\ gateFree' = TRUE
  /\ pump' = [pump EXCEPT ![L] = "ended"]
  /\ IF AutoReconnect THEN Reconnect(L + 1) ELSE UNCHANGED attVars
  /\ UNCHANGED <<state, lifecycle, conn, sockets, replayInProgress, doneVars, reqVars, netVars,
                 callVars, closing, faults>>

\* Mutant: Close leaves the socket to its peer.
CloseKeepsSocket ==
  /\ MayClose /\ ~Closed
  /\ state' = "closed"
  /\ Broadcast(TRUE)
  /\ FailPending
  /\ conn' = 0 /\ UNCHANGED <<sockets, netVars>>
  /\ closing' = "waiting"
  /\ UNCHANGED <<lifecycle, replayInProgress, gateFree, subVars, callVars, attVars, pump, faults>>

(***************************************************************************)
(* Close.                                                                  *)
(***************************************************************************)
Close ==
  /\ MayClose /\ ~Closed
  /\ state' = "closed"
  /\ Broadcast(TRUE)
  /\ FailPending
  /\ DropConn
  /\ closing' = "waiting"
  /\ UNCHANGED <<lifecycle, replayInProgress, gateFree, subVars, callVars, attVars, pump, faults>>

\* pumpWg counts the read pumps and the reconnect loops.
PumpsDone ==
  /\ \A l \in Lifecycles : pump[l] \in {"none", "ended"}
  /\ \A l \in Lifecycles : attPc[l] \in {"none", "ended"} \/ ByCall(l)

CloseTables ==
  /\ closing = "waiting" /\ PumpsDone
  /\ activeFeeds' = [f \in Feeds |-> None]
  /\ table' = [f \in Feeds |-> {}]
  /\ chan' = [c \in Calls |-> IF \E f \in Feeds : c \in table[f] THEN "closed" ELSE chan[c]]
  /\ closing' = "done"
  /\ UNCHANGED <<connVars, doneVars, reqVars, netVars, callVars, attVars, pump, faults>>

CallStep(c) ==
  \/ ConnectCheck(c) \/ ConnectWake(c) \/ ConnectNew(c)
  \/ WireAcquire(c) \/ SubscribeTable(c) \/ UnsubscribeTable(c)
  \/ SendUnsubscribe(c) \/ RequestReturned(c) \/ Rollback(c)

RequestStep(r) == Register(r) \/ Write(r) \/ Answered(r)

AttemptStep(L) ==
  \/ Install(L) \/ ConnectDialFails(L) \/ ReconnectDialFails(L)
  \/ BackoffElapsed(L) \/ BackoffClosed(L) \/ GiveUp(L) \/ GiveUpCleanup(L)
  \/ Snapshot(L) \/ ReplayNext(L) \/ ReplayReturned(L) \/ ReplayDone(L)
  \/ ReplayFailed(L) \/ ReplayCleanup(L)

PumpStep(L) == PumpError(L) \/ PumpFail(L) \/ PumpCleanup(L)

Next ==
  \/ \E c \in Calls : Start(c) \/ CallStep(c) \/ GiveUpWaiting(c)
  \/ \E r \in Reqs : RequestStep(r) \/ Abandon(r)
  \/ Respond
  \/ \E L \in Lifecycles : AttemptStep(L) \/ PumpStep(L) \/ PumpExit(L) \/ LivenessFails(L)
  \/ Close \/ CloseTables

Spec == Init /\ [][Next]_vars

(***************************************************************************)
(* Fairness.  Goroutines that can run do run, reads on a socket closed     *)
(* here return, a replay's five-second context ends, and the exchange      *)
(* answers what it was sent.  The context of a call need never end, a pump *)
(* need not be at the head of its loop, and no fault is ever forced.       *)
(***************************************************************************)
Fairness ==
  /\ \A c \in Calls : WF_vars(CallStep(c))
  /\ \A r \in Reqs : WF_vars(RequestStep(r))
  /\ \A L \in Lifecycles : WF_vars(AttemptStep(L)) /\ WF_vars(PumpStep(L)) /\ WF_vars(Abandon(L))
  /\ WF_vars(Respond)
  /\ WF_vars(CloseTables)

FairSpec == Spec /\ Fairness

-----------------------------------------------------------------------------
AttPcs == {"none", "backoff", "dialing", "giveUp", "failSubscriptions", "snapshot", "replay",
           "request", "replayed", "failed", "cleanup", "ended"}

OpKinds == {"none", "subscribe", "unsubscribe", "leave", "request"}

ConnType ==
  /\ state \in States
  /\ lifecycle \in Nat
  /\ conn \in 0 .. MaxLifecycle
  /\ sockets \subseteq Lifecycles

FlagType ==
  /\ replayInProgress \in BOOLEAN
  /\ gateFree \in BOOLEAN
  /\ doneClosed \in BOOLEAN
  /\ connectErr \in BOOLEAN

SubsType ==
  /\ activeFeeds \in [Feeds -> Calls \cup {None}]
  /\ table \in [Feeds -> SUBSET Calls]
  /\ chan \in [Calls -> {"none", "open", "closed"}]

ReqType ==
  /\ pending \in [Reqs -> 0 .. MaxLifecycle]
  /\ admitted \in [Reqs -> 0 .. MaxLifecycle]
  /\ reply \in [Reqs -> {"none", "ok", "err"}]
  /\ rq \in [Reqs -> {"idle", "send", "write", "await", "ok", "err"}]

Frames == [req : Reqs, admitted : Lifecycles, feed : Feeds \cup {None}, verb : OpKinds]

NetType == wire \in Seq(Frames) /\ server \subseteq Feeds \cup {None}

CallType ==
  /\ pc \in [Calls -> {"idle", "connect", "wait", "connectNew", "attempt", "wire", "table",
                       "unsubscribed", "request", "rollback", "ok", "err"}]
  /\ op \in [Calls -> [kind : OpKinds, feed : Feeds \cup {None}, target : Calls \cup {None}]]
  /\ waiters \subseteq Calls

AttType ==
  /\ attPc \in [Lifecycles -> AttPcs]
  /\ owner \in [Lifecycles -> Calls \cup {None}]
  /\ tries \in [Lifecycles -> Nat]
  /\ todo \in [Lifecycles -> SUBSET (Feeds \X Calls)]
  /\ feed \in [Lifecycles -> Feeds \cup {None}]
  /\ failed \in [Lifecycles -> BOOLEAN]

PumpType == pump \in [Lifecycles -> {"none", "reading", "failing", "slow", "cleanup", "ended"}]

CloseType == closing \in {"no", "waiting", "done"} /\ faults \in Nat

\* The state of the client, of its calls, attempts, pumps and requests.
TypeOK ==
  ConnType /\ FlagType /\ SubsType /\ ReqType /\ NetType /\ CallType
    /\ AttType /\ PumpType /\ CloseType

\* The lifecycle gate makes connection installation exclusive: whatever
\* connects, fails over and cleans up concurrently, a socket is open only
\* while it is c.conn of a connected client (none is leaked or overwritten),
\* and it belongs to the current lifecycle and has a read pump to report its
\* loss.
ConnectionOwned ==
  /\ sockets \subseteq {conn} \ {0}
  /\ conn # 0 <=> state = "connected"
  /\ conn # 0 => conn = lifecycle /\ pump[conn] \in {"reading", "failing", "slow"}

\* Who holds the lifecycle gate: a dial, or the cleanup of a lost connection.
HoldsGate(l) == attPc[l] \in {"dialing", "cleanup"} \/ pump[l] = "cleanup"

\* The state a process of lifecycle l left the client in and still relies on.
LifecycleState(l) ==
  /\ l > lifecycle => attPc[l] = "none" /\ pump[l] = "none"
  /\ attPc[l] = "dialing" =>
       /\ lifecycle = l
       /\ state \in {"connecting", "reconnecting", "closed"}
       /\ state = "connecting" => ByCall(l)
  /\ attPc[l] = "cleanup" => lifecycle = l + 1 /\ state \in {"disconnected", "closed"}
  /\ pump[l] = "cleanup" =>
       /\ lifecycle = l + 1
       /\ state \in {IF AutoReconnect THEN "reconnecting" ELSE "disconnected", "closed"}
       /\ lifecycle \in Lifecycles => attPc[lifecycle] = "none"
  /\ attPc[l] \in {"backoff", "giveUp"} /\ lifecycle = l => state \in {"reconnecting", "closed"}
  /\ attPc[l] = "failSubscriptions" /\ lifecycle = l => state \in {"disconnected", "closed"}

\* What the lifecycle gate is for: it has one holder at a time, the client
\* does not move to another lifecycle under a holder's feet, and its state
\* stays the one that the holder, or a reconnect loop between two dials, left
\* it in (unless Close intervenes).
LifecycleGate ==
  /\ \A l \in Lifecycles : HoldsGate(l) => ~gateFree
  /\ \A l, m \in Lifecycles : HoldsGate(l) /\ HoldsGate(m) => l = m
  /\ \A l \in Lifecycles : pump[l] = "cleanup" => attPc[l] \notin {"dialing", "cleanup"}
  /\ \A l \in Lifecycles : LifecycleState(l)

\* activeFeeds, which decides what is replayed, and the subscription tables,
\* which decide who is served, never disagree about which feeds are in use, and
\* at most one variant of a family (depth cadence or partial depth of a symbol,
\* orders, balances, positions) is in use at a time.
ActiveMatchesTable ==
  /\ \A f \in Feeds : activeFeeds[f] # None <=> table[f] # {}
  /\ \A f, g \in Feeds : f # g /\ Family[f] # None /\ Family[f] = Family[g]
                          => activeFeeds[f] = None \/ activeFeeds[g] = None

\* Once the replay is over, every active feed nobody is working on is really
\* streamed by the exchange on the current connection, however subscribing,
\* unsubscribing, drops and replays were interleaved, and whatever frames of
\* requests given up are still on their way.
ActiveFeedsStreamed ==
  state = "connected" /\ ~replayInProgress =>
    \A f \in Feeds : activeFeeds[f] # None /\ ~WireHeld(f) => f \in server

\* A replay never subscribes again to a feed that was unsubscribed after the
\* replay's snapshot.
ReplayHonoursUnsubscribe ==
  \A l \in Lifecycles :
    attPc[l] = "request" /\ lifecycle = l /\ ~Closed => activeFeeds[feed[l]] # None

\* A request reaches no connection but the one that admitted it, so a request
\* that was already reported as failed is never sent on a newer connection.
RequestsStayOnTheirConnection ==
  \A i \in DOMAIN wire : wire[i].admitted = conn

\* Every request awaiting a response waits on the current connection: no
\* connection is given up without failing the requests written to it.
PendingOnLiveConnection ==
  \A r \in Reqs : rq[r] = "await" /\ pending[r] # 0 => pending[r] = conn

\* Once Close and the calls it raced with have returned, no subscriber is
\* left with a channel that nobody will ever close.  This is not an invariant:
\* two subscribers of a feed that both passed their connection check before
\* Close can register after Close has emptied the tables (see the README).
ClosedMeansClosed ==
  closing = "done" /\ (\A c \in Calls : pc[c] \in {"idle", "ok", "err"})
    => \A c \in Calls : chan[c] # "open"

\* The subscriptions of a caller are only ever failed while no connection is
\* installed: cleanup on behalf of an old lifecycle never reaches
\* subscriptions served by a newer connection.
FailedOnlyWhileDown ==
  [][\A c \in Calls :
       chan[c] = "open" /\ chan'[c] = "closed" =>
         \/ conn = 0
         \/ \E d \in Calls : /\ pc[d] \in {"table", "rollback"} /\ pc'[d] # pc[d]
                             /\ op[d].feed = op[c].feed]_vars

\* Connect returns though its context never ends: whatever attempt it waits
\* for or makes itself succeeds, fails or is closed, and tells it so.  Close
\* returns: the pumps and the reconnect loop it waits for all stop.
CallsReturn ==
  /\ \A c \in Calls : pc[c] \in {"connect", "wait", "connectNew", "attempt"}
                       ~> pc[c] \notin {"connect", "wait", "connectNew", "attempt"}
  /\ closing = "waiting" ~> closing = "done"
=============================================================================
