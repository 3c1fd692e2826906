----------------------------- MODULE LocalBooks -----------------------------
(***************************************************************************)
(* The order books of the TypeScript SDK: PublicGeminiWebSocket.orderBook, *)
(* the entries of its books, which share one WebSocketSession, and the     *)
(* OrderBook engine behind each.  A book is built from the first depth     *)
(* frame after its subscription and kept up to date by the following ones; *)
(* whatever goes wrong with one book makes the session reconnect, and all  *)
(* books are built anew.                                                   *)
(*                                                                         *)
(* Everything runs on one event loop.  A handler that calls other handlers *)
(* is an operator from one client to another, and its action is one step.  *)
(* The session, which WsSession has in detail, appears by its connection,  *)
(* its subscriptions and the acknowledgements it awaits.  It gives up only *)
(* while it is down.                                                       *)
(*                                                                         *)
(* The exchange numbers the changes of each symbol.  A frame [first, last] *)
(* follows the one that ended at first; a book is whole if its levels are  *)
(* those of the exchange at its last ID.                                   *)
(***************************************************************************)
EXTENDS Integers, Sequences

CONSTANTS
  Symbols,
  Moving,      \* bound: symbols that change
  MaxBooks,    \* bound: calls of orderBook that make a book
  MaxUpdates,  \* bound: changes of each of them
  MaxPending,  \* MAX_PENDING_ORDER_BOOK_FRAMES
  MaxResyncs,  \* MAX_MALFORMED_BOOK_RESYNCS
  MaxFaults    \* bound: faults of the network or the exchange

Ids == 1 .. MaxBooks
NoBook == [symbol |-> "none", open |-> FALSE, phase |-> "none", pending |-> <<>>,
           live |-> FALSE, last |-> 0, whole |-> FALSE, signaled |-> FALSE]

VARIABLES
  client,    \* the books and their session:
             \*   book: the entry of each book, in the order of their calls, and its engine
             \*   restarting: restartingBooks; after: resyncAfterRecovery
             \*   resyncs: malformedBookResyncs
             \*   link: "idle", "dialing" the first time, "open", "down" (reconnecting)
             \*   sub: subscriptions of the session: "none", "unsent", "sent", "replay"
             \*   ack: this.pending of each: "none", "first", "again" (the first one,
             \*        asked for again), "replay"
             \*   out: frames on the way to the exchange
  made,      \* books made so far
  ready,     \* the promise of each subscription: "waiting", "resolved" or "rejected"
             \* with its continuation still to run, "done"
  updates,   \* the exchange: changes of each symbol
  stream,    \* ... ID up to which it has sent the symbol on the connection, or -1
  wire,      \* ... frames on the way to the client
  used,      \* history: symbols that were subscribed on this connection
  reopened,  \* history: books opened for such a symbol
  faults

exchangeVars == <<updates, stream, wire>>
history == <<used, reopened>>
vars == <<client, made, ready, exchangeVars, history, faults>>

Init ==
  /\ client = [book |-> [k \in Ids |-> NoBook], restarting |-> FALSE, after |-> FALSE,
               resyncs |-> 0, link |-> "idle", sub |-> [k \in Ids |-> "none"],
               ack |-> [k \in Ids |-> "none"], out |-> <<>>]
  /\ made = 0 /\ ready = [k \in Ids |-> "waiting"]
  /\ updates = [s \in Symbols |-> 0] /\ stream = [s \in Symbols |-> -1] /\ wire = <<>>
  /\ used = {} /\ reopened = {} /\ faults = 0

Fault == faults < MaxFaults /\ faults' = faults + 1

(***************************************************************************)
(* Recovery of all books.                                                  *)
(***************************************************************************)
Open(c) == {k \in Ids : c.book[k].open}
Awaiting(c, k) == c.book[k].phase \in {"awaitingAck", "awaitingSnapshot"}

\* Mutant: frames of the connection that is gone are kept.
PreparedKeepsPending(c) ==
  [c EXCEPT !.book = [k \in Ids |->
     IF k \in Open(c)
     THEN [@[k] EXCEPT !.phase = "awaitingAck", !.live = FALSE, !.signaled = TRUE]
     ELSE @[k]]]

\* prepareBooksForReconnect: every book is fenced and stale.
Prepared(c) ==
  [c EXCEPT !.book = [k \in Ids |->
     IF k \in Open(c)
     THEN [@[k] EXCEPT !.phase = "awaitingAck", !.pending = <<>>, !.live = FALSE, !.signaled = TRUE]
     ELSE @[k]]]

\* scheduleReconnect: subscriptions will be replayed, and "reconnecting" is emitted.
Reconnecting(c) ==
  [Prepared(c) EXCEPT
     !.restarting = TRUE, !.link = "down", !.out = <<>>,
     !.sub = [k \in Ids |-> IF @[k] = "none" THEN "none" ELSE "replay"],
     !.ack = [k \in Ids |->
       IF c.sub[k] = "none" THEN @[k]
       ELSE IF @[k] \in {"first", "again"} THEN "again" ELSE "replay"]]

\* What restartBooks does when it does it: session.reconnect ignores the call
\* unless the connection is open.
Restart(c) ==
  LET d == [Prepared(c) EXCEPT !.restarting = TRUE] IN
  IF Open(c) = {} THEN [c EXCEPT !.restarting = FALSE]
  ELSE IF c.link = "open" THEN Reconnecting(d) ELSE d

\* restartBooks, during a recovery and otherwise.
RestartBooks(c) == IF c.restarting THEN [c EXCEPT !.after = TRUE] ELSE Restart(c)

\* finishBookReconnectIfReady: the recovery is over, or followed by the one
\* that was asked for meanwhile.
FinishBookReconnect(c) ==
  LET d == [c EXCEPT !.restarting = FALSE, !.resyncs = 0, !.after = FALSE] IN
  IF ~c.restarting \/ \E k \in Open(c) : c.book[k].phase # "live" THEN c
  ELSE IF c.after THEN Restart(d) ELSE d

\* subscription.close.
CloseSubscription(c, k) ==
  [c EXCEPT !.sub[k] = "none", !.ack[k] = "none",
            !.out = IF c.sub[k] = "sent" /\ c.link = "open" THEN Append(@, <<"unsubscribe", k>>) ELSE @]

\* rejectBookEntry and releaseBook.
Dropped(c, k) ==
  IF k \notin Open(c) THEN c
  ELSE CloseSubscription(
         FinishBookReconnect([c EXCEPT !.book[k] = [NoBook EXCEPT !.symbol = c.book[k].symbol]]), k)

\* rejectAwaitingBooks, in the order of the books.
RejectAwaitingBooks(c) ==
  LET d[k \in 0 .. MaxBooks] ==
        IF k = 0 THEN c ELSE IF Awaiting(d[k - 1], k) THEN Dropped(d[k - 1], k) ELSE d[k - 1]
  IN [d[MaxBooks] EXCEPT !.restarting = FALSE]

\* restartBooks(true), for a malformed snapshot.
RestartBooksForced(c) ==
  IF c.resyncs >= MaxResyncs THEN RejectAwaitingBooks(c)
  ELSE Restart([c EXCEPT !.resyncs = @ + 1])

(***************************************************************************)
(* Frames of one book.                                                     *)
(***************************************************************************)

\* Mutant: whether the event was sent is looked up after it was noted.
MarkStaleSignalsFirst(c, k) ==
  LET d == [c EXCEPT !.book[k].live = FALSE, !.book[k].signaled = TRUE] IN
  IF d.book[k].signaled THEN d ELSE RestartBooks(d)

\* markStale, whose first event asks for a recovery.
MarkStale(c, k) ==
  LET d == [c EXCEPT !.book[k].live = FALSE, !.book[k].signaled = TRUE] IN
  IF c.book[k].signaled THEN d ELSE RestartBooks(d)

\* applyDiff: an update is missing between the book and the frame.
Gap(b, f) == f.first > b.last

\* assertLevelCount and assertLevelCapacity: the book would have too many levels.
TooLarge(f) == f.form = "large"

\* ingest.
Ingest(c, k, f) ==
  LET b == c.book[k] IN
  IF ~b.live \/ f.last <= b.last THEN c
  ELSE IF Gap(b, f) \/ TooLarge(f) THEN MarkStale(c, k)
  ELSE [c EXCEPT !.book[k].last = f.last, !.book[k].whole = @ /\ f.first <= b.last]

\* One frame after another.
IngestAll(c, k, queue) ==
  LET d[i \in 0 .. Len(queue)] == IF i = 0 THEN c ELSE Ingest(d[i - 1], k, queue[i])
  IN d[Len(queue)]

\* activateBook, when the book refuses its snapshot.  A book that turns stale asks
\* for a recovery; if that has not begun, it is forced.
Refuse(c, k) ==
  LET d == MarkStale([c EXCEPT !.book[k].phase = "live", !.book[k].pending = <<>>], k) IN
  IF d.book[k].phase = "live" THEN RestartBooksForced([d EXCEPT !.book[k].phase = "awaitingAck"]) ELSE d

\* activatePendingBook: the first frame is taken for the snapshot, the others
\* follow it.
ActivatePending(c, k) ==
  LET queue == c.book[k].pending
      d == [c EXCEPT !.book[k] =
              [@ EXCEPT !.phase = "live", !.pending = <<>>, !.live = TRUE, !.signaled = FALSE,
                        !.last = Head(queue).last, !.whole = Head(queue).base]]
      e == IngestAll(d, k, Tail(queue))
  IN IF queue = <<>> THEN c
     ELSE IF TooLarge(Head(queue)) THEN Refuse(c, k)
     ELSE IF e.book[k].phase = "live" THEN FinishBookReconnect(e) ELSE e

\* ackBookEntry.
AckBook(c, k) ==
  IF k \in Open(c) /\ c.book[k].phase = "awaitingAck"
  THEN FinishBookReconnect(ActivatePending([c EXCEPT !.book[k].phase = "awaitingSnapshot"], k))
  ELSE c

\* queuePendingBookFrame.
QueuePending(c, k, f) ==
  IF Len(c.book[k].pending) >= MaxPending THEN Dropped(c, k)
  ELSE [c EXCEPT !.book[k].pending = Append(@, f)]

\* routeDepth, for the book of the frame's symbol.
RouteDepth(c, k, f) ==
  CASE c.book[k].phase = "live" -> Ingest(c, k, f)
    [] c.book[k].phase = "awaitingAck" -> QueuePending(c, k, f)
    [] OTHER -> LET d == QueuePending(c, k, f) IN
                IF k \in Open(d) THEN ActivatePending(d, k) ELSE d

\* handleMalformedBookFrame: for a book that is live the frame may stand for an
\* unseen range, for one that is not it may have been the snapshot.
MalformedFrame(c, k) ==
  IF c.book[k].phase = "live" THEN MarkStale(c, k) ELSE RestartBooksForced(c)

\* ... of a frame that does not name its symbol.
NamelessFrame(c) ==
  IF \E k \in Open(c) : Awaiting(c, k) THEN RestartBooksForced(c) ELSE c

\* routeOrderBook.
Route(c, f) ==
  LET for == {k \in Open(c) : c.book[k].symbol = f.symbol}
      k == CHOOSE k \in for : TRUE
  IN IF f.form = "nameless" THEN NamelessFrame(c)
     ELSE IF for = {} THEN c
     ELSE IF f.form = "malformed" THEN MalformedFrame(c, k)
     ELSE RouteDepth(c, k, f)

-----------------------------------------------------------------------------
(***************************************************************************)
(* Steps.  A task runs when no continuation is queued; the application may *)
(* call at any time.                                                       *)
(***************************************************************************)
Quiet ==
  \A k \in Ids : ready[k] \notin {"resolved", "rejected"} /\ ~(client.link = "open" /\ client.sub[k] = "unsent")

\* A connection that is gone takes everything on its way along.
ConnectionGone == wire' = <<>> /\ stream' = [s \in Symbols |-> -1]

\* What is left on the wire, unless the client gives the connection up.
Connection(left) ==
  IF client'.link = "open" THEN wire' = left /\ UNCHANGED stream ELSE ConnectionGone

\* The exchange and its frames are left alone, unless the client reconnects.
ClientStep == Connection(wire) /\ UNCHANGED <<made, updates, history>>

\* orderBook, for a symbol without a book, with session.subscribe.
OrderBook(s) ==
  /\ made < MaxBooks /\ made' = made + 1
  /\ \A k \in Open(client) : client.book[k].symbol # s
  /\ client' = [client EXCEPT
       !.book[made'] = [NoBook EXCEPT !.symbol = s, !.open = TRUE, !.phase = "awaitingAck"],
       !.link = IF @ = "idle" THEN "dialing" ELSE @,
       !.sub[made'] = "unsent", !.ack[made'] = "first"]
  /\ reopened' = IF client.link = "open" /\ s \in used THEN reopened \cup {made'} ELSE reopened
  /\ UNCHANGED <<ready, exchangeVars, used, faults>>

\* close of a book.
CloseBook(k) ==
  /\ k \in Open(client)
  /\ client' = Dropped(client, k)
  /\ ready' = [ready EXCEPT ![k] = "done"]
  /\ ClientStep /\ UNCHANGED faults

\* The continuation of subscribe sends what no replay has sent.
SendSub(k) ==
  /\ client.link = "open" /\ client.sub[k] = "unsent"
  /\ client' = [client EXCEPT !.sub[k] = "sent", !.out = Append(@, <<"subscribe", k>>)]
  /\ used' = used \cup {client.book[k].symbol}
  /\ UNCHANGED <<made, ready, exchangeVars, reopened, faults>>

\* The continuation of subscription.ready, after the session's event.
ReadyContinues(k) ==
  /\ ready[k] \in {"resolved", "rejected"}
  /\ client' = IF ready[k] = "resolved" THEN AckBook(client, k) ELSE Dropped(client, k)
  /\ ready' = [ready EXCEPT ![k] = "done"]
  /\ ClientStep /\ UNCHANGED faults

\* The deadline of subscription.ready.
AckTimesOut(k) ==
  /\ Quiet /\ k \in Open(client) /\ ready[k] = "waiting" /\ Fault
  /\ client' = CloseSubscription(client, k)
  /\ ready' = [ready EXCEPT ![k] = "rejected"]
  /\ UNCHANGED <<made, exchangeVars, history>>

\* The session's socket opens, and what was subscribed is replayed in order.
Opens ==
  LET replayed == {k \in Ids : client.sub[k] = "replay"} IN
  /\ Quiet /\ client.link \in {"dialing", "down"}
  /\ \E n \in 0 .. MaxBooks : \E order \in [1 .. n -> replayed] :
       /\ {order[i] : i \in 1 .. n} = replayed /\ \A i, j \in 1 .. n : i < j => order[i] < order[j]
       /\ client' = [client EXCEPT
            !.link = "open",
            !.sub = [k \in Ids |-> IF k \in replayed THEN "sent" ELSE @[k]],
            !.out = [i \in 1 .. n |-> <<"subscribe", order[i]>>]]
  /\ used' = {client.book[k].symbol : k \in replayed}
  /\ reopened' = {}
  /\ UNCHANGED <<made, ready, exchangeVars, faults>>

\* The connection is lost, or an attempt to make it fails on the way.
Drop ==
  /\ Quiet /\ client.link # "idle" /\ Fault
  /\ client' = Reconnecting(client)
  /\ ConnectionGone /\ UNCHANGED <<made, updates, history, ready>>

\* The first connection cannot be made.
DialFails ==
  /\ Quiet /\ client.link = "dialing" /\ Fault
  /\ client' = [client EXCEPT !.link = "idle", !.sub = [k \in Ids |-> "none"], !.ack = [k \in Ids |-> "none"]]
  /\ ready' = [k \in Ids |-> IF client.sub[k] # "none" THEN "rejected" ELSE ready[k]]
  /\ ConnectionGone /\ UNCHANGED <<made, updates, history>>

\* failConnection: reconnecting has failed too often.
SessionFails ==
  LET c == [client EXCEPT !.link = "idle"]
      d[k \in 0 .. MaxBooks] ==
        IF k = 0 THEN c ELSE IF client.sub[k] = "replay" THEN Dropped(d[k - 1], k) ELSE d[k - 1] IN
  /\ Quiet /\ client.link = "down" /\ Fault
  /\ client' = [d[MaxBooks] EXCEPT !.sub = [k \in Ids |-> "none"], !.ack = [k \in Ids |-> "none"]]
  /\ ready' = [k \in Ids |-> IF client.ack[k] \in {"first", "again"} THEN "rejected" ELSE ready[k]]
  /\ ConnectionGone /\ UNCHANGED <<made, updates, history>>

\* The session routes what has arrived.
Receive ==
  LET f == Head(wire)
      k == f.id
      answered == [client EXCEPT !.ack[k] = "none"]
      settles(outcome) ==
        ready' = IF client.ack[k] \in {"first", "again"} THEN [ready EXCEPT ![k] = outcome] ELSE ready
  IN
  /\ Quiet /\ wire # <<>>
  /\ CASE f.form = "ack" /\ client.ack[k] # "none" ->
            client' = AckBook(answered, k) /\ settles("resolved")
       [] f.form = "nack" /\ client.ack[k] # "none" ->
            /\ client' = IF client.ack[k] = "first" THEN [answered EXCEPT !.sub[k] = "none"]
                         ELSE Dropped(answered, k)
            /\ settles("rejected")
       [] f.form \in {"ack", "nack"} /\ client.ack[k] = "none" -> UNCHANGED <<client, ready>>
       [] OTHER -> client' = Route(client, f) /\ UNCHANGED ready
  /\ Connection(Tail(wire))
  /\ UNCHANGED <<made, updates, history, faults>>

(***************************************************************************)
(* The exchange.                                                           *)
(***************************************************************************)
Response(form, k) == [form |-> form, id |-> k, symbol |-> "none", first |-> 0, last |-> 0, base |-> FALSE]
Depth(form, s, first, last, base) ==
  [form |-> form, id |-> 1, symbol |-> s, first |-> first, last |-> last, base |-> base]

\* A frame arrives well formed, or as a fault with too many levels or malformed.
Forms == {"depth", "large", "malformed", "nameless"}
Formed(form) == IF form = "depth" THEN UNCHANGED faults ELSE Fault

\* The snapshot may come before the acknowledgement.
Replies(k, form) ==
  LET s == client.book[k].symbol
      base == Depth(form, s, updates[s], updates[s], TRUE)
  IN {<<Response("ack", k), base>>, <<base, Response("ack", k)>>}

\* A request is handled.
Serve ==
  LET request == Head(client.out)[1]
      k == Head(client.out)[2]
      s == client.book[k].symbol
  IN
  /\ Quiet /\ client.link = "open" /\ client.out # <<>>
  /\ client' = [client EXCEPT !.out = Tail(@)]
  /\ \/ /\ request = "subscribe"
        /\ \E form \in Forms : Formed(form) /\ \E reply \in Replies(k, form) : wire' = wire \o reply
        /\ stream' = [stream EXCEPT ![s] = updates[s]]
     \/ /\ request = "subscribe" /\ Fault
        /\ wire' = Append(wire, Response("nack", k)) /\ UNCHANGED stream
     \/ /\ request = "unsubscribe"
        /\ stream' = [stream EXCEPT ![s] = -1] /\ UNCHANGED <<wire, faults>>
  /\ UNCHANGED <<made, ready, updates, history>>

\* A symbol that is subscribed changes.  The frame may never be sent.
Update(s) ==
  /\ Quiet /\ stream[s] >= 0 /\ s \in Moving /\ updates[s] < MaxUpdates
  /\ updates' = [updates EXCEPT ![s] = @ + 1]
  /\ stream' = [stream EXCEPT ![s] = updates'[s]]
  /\ \/ \E form \in Forms :
           Formed(form) /\ wire' = Append(wire, Depth(form, s, stream[s], updates'[s], FALSE))
     \/ Fault /\ UNCHANGED wire
  /\ UNCHANGED <<client, made, ready, history>>

Continuation == \E k \in Ids : SendSub(k) \/ ReadyContinues(k)

Next ==
  \/ \E s \in Symbols : OrderBook(s)
  \/ \E k \in Ids : CloseBook(k) \/ SendSub(k) \/ ReadyContinues(k) \/ AckTimesOut(k)
  \/ Opens \/ Drop \/ DialFails \/ SessionFails \/ Receive
  \/ Serve \/ \E s \in Symbols : Update(s)

Spec == Init /\ [][Next]_vars

\* Continuations run, a connection is made once faults have ended, and what is
\* sent over it is handled.
Fairness == WF_vars(Continuation) /\ WF_vars(Opens) /\ WF_vars(Receive) /\ WF_vars(Serve)

-----------------------------------------------------------------------------
\* What a book that is live shows are the exchange's levels at its
\* lastUpdateId, whatever frames were missing or malformed and connections lost,
\* and however the recoveries of several books met; except for a book that was
\* closed and opened again on one connection.
BookIsExact ==
  \A k \in Ids \ reopened : client.book[k].live => client.book[k].whole /\ client.book[k].last <= updates[client.book[k].symbol]

\* The same for every book: "Frames received before this acknowledgement belong
\* to the current subscription" (public.ts), so that the first of them is a
\* snapshot.
ShownBookIsWhole == \A k \in Ids : client.book[k].live => client.book[k].whole

\* A book that is stale is rebuilt, or closed with an error, although its gap may
\* show while others recover, and their snapshots may be malformed again: time
\* and again all books that are open are live.
BooksRecover == []<>(\A k \in Open(client) : client.book[k].live)
=============================================================================
