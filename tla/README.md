# Gemini developer platform: TLA+ models, checks and proofs

This directory holds a formal model of the concurrent core of the Gemini
developer platform: the Go SDK's WebSocket client with its lifecycle events,
its delivery of depth frames and its isolated snapshot clients, the live order
book, the quote reconciler, the signed REST transport, the iterators over
paginated endpoints and the OAuth token source; the stream commands and the
credentials of the Go CLI; the WebSocket session of the TypeScript SDK and the
order books that share one; and the alert daemon of the MCP server. The modules are checked with TLC on small
instances, and the central safety properties are proved with TLAPS for every
value of the constants. Every definition that models code is listed in
`PROJECT.json` under `map` with the lines it stands for.

Contents

1. The system: parts, state, operations, interactions
2. The modules and how they correspond to the code
3. The runs: what each checks, its bounds and why they suffice
4. Fairness
5. What is proved
6. What the checks found
7. What is not modelled, and the plan

## 1. The system

The repository is a set of client-side packages for one exchange. Nothing in it
is a server; the exchange, the authorization server and the network are the
environment of everything below.

| Package | Role |
|---|---|
| `packages/sdk-go` | Go SDK: REST transport, signing, OAuth, WebSocket client, order books, quote reconciler |
| `packages/gemini-markets-cli` | command line program on top of the Go SDK |
| `packages/sdk-typescript` | TypeScript SDK: transport, sessions, order book, OAuth |
| `packages/mcp-server` | tools for language models, an alert daemon, a WebSocket manager of its own |

### Parts that carry the logic

**WebSocket client** (`sdk-go/websocket/client*.go`).
State: connection state, the lifecycle number (bumped whenever a connection is
given up or an attempt starts), the connection, the lifecycle gate (a channel
with one token), `connectDone` on which callers of `Connect` sleep, the pending
requests, the active feeds (what to replay), the subscription tables (whom to
serve), the wire reservations per feed.
Operations: `Connect`, `Subscribe*`, `Unsubscribe*`, `Unsubscribe*Channel`,
requests, `Close`; goroutines `readPump`, `livenessPump`, `reconnectLoop`,
and the replay of active feeds after a new connection.
Hard: half a dozen kinds of goroutines share this state through two mutexes, a
gate, reservations and channels, and each of them reads, unlocks, waits for the
network and goes on. What it read may be stale by then.
Correct means: one connection at a time, owned by the current lifecycle; a
connection's death reported once and never charged to its successor; a request
sent on the connection that admitted it and never forgotten; replay and tables
agreeing about which feeds are in use; at most one variant of a feed family;
calls return.

**Lifecycle events** (`client.go`, `client_connection.go`).
State: the shared channel of `Events()`, the one coalescing slot and the
goroutine `drainEvents` that empties it, the private channels of
`SubscribeConnectionEvents`. Operations: every change of state publishes;
`Close` ends all channels.
Hard: publishers hold `c.mu`, the dispatcher and the failure of subscriptions do
not, and the channels must be closed after the last of them.
Correct means: events arrive in order and at most once, a private channel misses
none, the newest one is not stuck in the slot, nobody sends on a closed channel.

**Delivery of depth frames** (`client_dispatch.go`, `snapshot_routing.go`,
`client_subscriptions.go`).
State: the queue between the read pump and the dispatcher, the subscription
generations, the channels with their sends under way. Operations: reading,
dispatching, `SubscribeDepth` with and without snapshot, unsubscribing, replay.
Hard: a frame read before an unsubscribe and resubscribe is dispatched after it;
a consumer does not read while its channel is being closed.
Correct means: a frame marked `Snapshot` is the baseline of the subscription that
is served now; nothing is lost silently; a close neither blocks nor races a send.

**Isolated clients** (`snapshot_isolation.go`). Frames without a symbol get a
connection per symbol, shared and counted by the calls for that symbol.
Hard: a failed call gives its client back while others acquire, remove or lose it
and `Close` sweeps the table.
Correct means: no call's client is closed under it, and none is left open.

**Live order book** (`sdk-go/websocket/orderbook/live_book.go`).
State: a book and its last update ID, `live`, an error, the buffer of diffs,
listeners and the last top of book announced.
Operations: `IngestDiff` (buffer, apply, detect gaps, take a snapshot),
`ApplySnapshot`, `Reset`, `OnBBOChanged`; called from several goroutines.
Hard: delivery is unreliable in every way, the buffer is bounded, and readers see
the inner book in the middle of a replay.
Correct means: the book shown is one the exchange really had, at the ID claimed.

**Order book** (`orderbook/book.go`). Two sorted slices with binary search,
atomic application of frames, `VWAP` and `CumulativeDepth`. Sequential and pure;
correct means equal to the map it implements, and optimal sweeps.

**Quote reconciler** (`sdk-go/services/reconciler*.go`).
State: the ledger of resting orders under a mutex, the cycle mutex `syncMu`, and
the variables of the stream (hydrating, recovering, generation, pending events).
Operations: `Hydrate`, `Sync`, `CancelAll`, `StartStreaming` with its goroutine.
It uses the REST transport for orders and the WebSocket client for order events
and connection events.
Hard: a REST snapshot races with order events, two goroutines hydrate, and
connections drop in between; cancellations and placements fail one by one.
Correct means: the ledger equals the account's open orders once the stream is
quiet; replacing a quote never adds exposure; a hydration ends.

**REST transport and signing** (`sdk-go/transport/`, `sdk-go/auth/hmac.go`).
State: the last nonce (atomic), the request gate of the key.
Operations: `Execute` with its retries, `NextNonce`, `CalibrateServerTime`.
Hard: nonces are allocated by compare-and-swap and have to *arrive* in order;
answers get lost, requests arrive late.
Correct means: unique nonces, no awaited request refused for its nonce, a mutating
request executed at most once, the gate always given back.

**Pagination** (`transport/pagination.go`, `services/predictions_pagination.go`).
State: the page, the offset and whether there is more. Hard: two ways to decide
that there are no more pages, page sizes that are cut, and a collection that
changes between pages. Correct means: nothing missed and nothing repeated, as far
as the collection allows.

**OAuth token source** (`sdk-go/oauth/oauth.go`).
State: the token, the refresh under way. Operations: `Token`, the refresh
goroutine and the update callback that persists the token.
Hard: several callers find the token expired at once, and a refresh token is good
for one use when the server rotates it.

**CLI** (`gemini-markets-cli/internal/`). A stream command connects, subscribes,
waits for values, lifecycle events or a signal, and closes; its hard part is that
each of these may end first. Private commands share a keyring profile with `auth
login` and `auth logout` of other processes, each of which may die between any two
steps; correct means that a saved profile stays usable and credentials of different
owners are never paired.

**TypeScript WebSocket session** (`sdk-typescript/src/websocket/session.ts`, `stream.ts`).
State: the kind of the connection state with the promise callers share, the current
attempt and its number, the socket, the pending answers, the durable subscriptions, the
reconnect, stability and liveness timers; the state each stream shows.
Operations: `connect`, `subscribe`, `request`, `reconnect`, `close`; the events of the
socket; timers and deadlines.
Hard: there are no threads, but between an await and its continuation anything can
happen. An attempt that was given up still has a failure or a socket to deliver, and a
subscription can be sent by its own continuation or by the replay.
Correct means: nothing is left waiting on a connection that is gone, each subscription is
sent exactly once per connection, no socket is forgotten, close is final, and whoever
awaits the connection is answered.

**TypeScript order books** (`websocket/public.ts`, `services/market-data/orderbook.ts`).
State: the entry of each book with its phase and the frames kept for it, the book's
levels, last update ID and `live`; for all books together, whether they are restarting,
whether another recovery was asked for meanwhile, and how many malformed snapshots in a
row. Operations: `orderBook`, `close`, the session's acknowledgements and frames, and its
events `reconnecting` and `connected`; a gap or a malformed frame makes the session
reconnect, which rebuilds every book.
Hard: the books share one session. Recoveries asked for by several of them meet each
other, lost connections, refusals and closes; frames are routed by symbol alone and
may come before the acknowledgement of the subscription.
Correct means: a live book shows what the exchange had at the book's ID, and a stale
book is rebuilt or closed.

**Alert daemon** (`mcp-server/src/alerts/`). State: the rules file, what the scheduler
remembers of firings, its subscription and listener per symbol. Operations:
evaluation on a price, reload after a change, the tools' edits of the file, restart.
Hard: evaluations, reloads and edits await the store and overlap; both processes
rewrite the whole file. Correct means: no alert twice within its cooldown, and every
enabled rule is watched.

The remaining parts (services, models, generated clients, the other CLI commands, the rest
of the TypeScript SDK and of the MCP server) are listed with their sources in
`PROJECT.json`, with the reason why each is not modelled or the place it has in the plan
(section 7). The hazards of the code, each at its line with the properties that cover it,
are listed there too.

### How the parts interact

```
application ── Sync/CancelAll ──► QuoteReconciler ──► transport.Execute ──► HMAC gate, nonce ──► exchange
                                      ▲   ▲                  └──► oauth.Source.Token (bearer) ──► keyring
              order events (channel) ─┘   └─ connection events (channel)
                                      │   │
application ── Subscribe/Close ──► WsClient ◄──► socket ◄──► exchange
CLI stream command ───────────────┘   │
                     depth frames ──► LiveOrderBook ──► OrderBook ──► BBO callbacks
```

The seams are modelled where a property depends on them:

* `CliStream` EXTENDS `ConnectionEvents`: a command is one application of the client, and
  its steps are interleaved with those of the client's goroutines.
* `EventFeed` is the abstract specification of a channel of lifecycle events. It is what
  `QuoteReconciler` and `CliStream` rely on, and `ConnectionEvents` is shown to implement it.
* `DepthDelivery` promises what `LiveOrderBook` takes for granted (a frame marked as
  snapshot is a whole book, no silent loss on a connection); `LiveOrderBook` treats a book
  as the map that `OrderBook` is checked to implement; `IsolatedClients` decides which
  connection the frames of a symbol come from.
* `QuoteReconciler` contains the part of the WebSocket client it relies on (drop, redial,
  resubscription and the events published for them).
* `LocalBooks` has the TypeScript session in outline (connection, subscriptions,
  acknowledgements awaited), which is what its books can see of it; `WsSession` has it in
  detail.
* `CliSession` treats an OAuth source as one process among those that share a keyring
  profile; `OAuthSource` has the source's inside.

## 2. The modules

| Module | Models | Processes |
|---|---|---|
| `WsClient` | connection lifecycle, requests, subscriptions, replay, `Close` | calls, attempts, pumps, `Close`, exchange |
| `WsClientProofs` | types, the lifecycle gate, ownership of connections, subscription tables; frames and wire gates: replays, and what the exchange streams | |
| `EventFeed` | abstract specification of a channel of lifecycle events, lossless or lossy | publisher, reader |
| `ConnectionEvents` | publishing, coalescing and ending of lifecycle events | publishers, `drainEvents`, `Close`, readers |
| `ConnectionEventsProofs` | `ConnectionEvents` implements `EventFeed` | |
| `DepthDelivery` | from the socket to the channels of `SubscribeDepth`: fence, queue, dispatcher, closing | calls, read pump, dispatcher, closers, consumers, exchange |
| `IsolatedClients` | the counted connections per symbol | calls, `Close`, lost connections |
| `MarketDataProofs` | no send after a close, baselines, no lost frames; no isolated client closed under its users | |
| `LiveOrderBook` | synchronisation of the replica, BBO callbacks | ingesters, listeners, exchange |
| `OrderBook` | sorted sides, frames, sweeps | one caller |
| `OrderBookProofs` | the binary search, and that the sorted sides are the map of the frames | |
| `QuoteReconciler` | ledger, stream, cycles | starter, stream goroutine, one cycle, exchange, WebSocket client |
| `QuoteReconcilerProofs` | replacements, the ledger of the first connection, no order forgotten, the results of a cycle | |
| `SignedTransport` | `Execute`, retries, nonces, request gate | callers, exchange |
| `Pagination` | the iterators over offset and cursor pages | one iteration, the collection |
| `OAuthSource` | `Source.Token` and its refresh | callers, refresh goroutine, server |
| `CliSession` | the keyring profile and the processes that share it | private commands, logins, logout, server |
| `RestAuthProofs` | nonces and at-most-once, tokens, the keyring, pages | |
| `CliStream` | a stream command on top of `ConnectionEvents` | command, client, user |
| `WsSession` | the TypeScript session: attempts, reconnection, requests, subscriptions, streams | tasks and continuations of one event loop, application, exchange |
| `LocalBooks` | the TypeScript order books on a shared session: frames before the acknowledgement, gaps, recoveries | continuations of one event loop, application, exchange |
| `WsSessionProofs` | the session's socket, requests, streams and subscriptions; exactness of the books of `LocalBooks` | |
| `AlertScheduler` | evaluation of alert rules, reloads, the rules file | evaluations, reloads, editor, restarts |
| `PriceWatchersProofs` | exactness of the replica of `LiveOrderBook` and its callbacks; cooldowns and watched rules of `AlertScheduler` | |
| `MC*` | the instances that TLC runs | |

Five of the `MC` modules hold several components, or instances of one, that share no
state, and explore them one at a time: the variable `layer` is chosen initially and never changes, and the
other components rest in one initial state. Nothing is gained or lost by it against
separate runs. `MCMarketData` has `DepthDelivery`, `OrderBook` and
`IsolatedClients`; `MCPriceWatchers` has `LiveOrderBook` and `AlertScheduler`;
`MCRestAuth` has `SignedTransport`, `OAuthSource`, `CliSession` and `Pagination`;
`MCWsSession` has `WsSession` and `LocalBooks`; `MCQuoteReconciler` has two instances of
`QuoteReconciler`, one for the stream and one for the cycles.

### WsClient

One action is one critical section (of `c.mu`, of `subsMu`) or one channel operation, so
all interleavings that the locks allow are behaviours. A lifecycle installs at most
one connection, hence a connection is named by its lifecycle; a call is one operation
and names its subscription and its frame.

* *Calls* go `idle → connect → (wait | connectNew → attempt) → wire → table → (unsubscribed →)
  request → ok/err`, with `rollback` when the acknowledgement fails: `Start`, `ConnectCheck`,
  `ConnectWake`, `ConnectNew`, `WireAcquire`, `SubscribeTable`/`UnsubscribeTable`, `SendUnsubscribe`,
  `RequestReturned`, `Rollback`. `GiveUpWaiting` is a context that ends.
* *Requests* go `send → write → await → ok/err`: `Register`, `Write`, `Answered`,
  `Abandon`; the exchange's answer is `Respond`.
* *Attempts* (`connectNew` and `reconnectLoop`): `StartAttempt`, `Install`,
  `ConnectDialFails`, `ReconnectDialFails`, `BackoffElapsed`, `BackoffClosed`, `GiveUp`,
  `GiveUpCleanup`, and the replay `ReplayNext`, `ReplayReturned`, `ReplayDone`,
  `ReplayFailed`, `ReplayCleanup`.
* *Pumps*: `PumpError` (the read fails, or a consumer's channel is full), `PumpStale`
  (the pump belongs to an old lifecycle), `PumpFail`, `PumpCleanup`, `LivenessFails`.
* `Close`, `CloseTables`.

Abstractions: a frame is the request it carries and the feed it names; payloads are
left out. Failover between endpoints is part of "a dial succeeds or fails". Two depth
variants of a symbol are two feeds of one `Family`.

### ConnectionEvents and EventFeed

The lifecycle appears only by the events it publishes; what matters is who holds which
lock when. `SetState` publishes under `c.mu`, hence never after `Close` has taken over;
the dispatcher (`Report`) and `failSubscriptionsIfCurrentLocked` (`FailGate`,
`FailCheck`, `FailPublish`) publish without it. `PublishToAll` is one critical section of
`c.eventMu`: the private channels first (`ToSubscribers` closes one that is full), then
the shared one (`ToShared`), whose overflow goes to the single slot `pendingEvent`.
`drainEvents` is `DrainTake`, `DrainSend`, `DrainStop`; `Close` is `CloseBegin`,
`PumpsWaited`, `EventsWaited`, `TablesClosed`, `ChannelsClosed`, one step per wait and
per group of channels, in the code's order.

`EventFeed` says what a reader may count on. It has three variables: the newest event
published, the newest one read, and whether the feed is on. `ConnectionEvents!Shared` and
`Private(s)` instantiate it for each channel with expressions over the channel, the
slot and what the pump carries; `SharedFeed` and `PrivateFeed(s)` are its `Spec`.

### DepthDelivery

Frames of one symbol. Each subscription that the exchange serves is an `epoch` with a
baseline (frame 0, an ordinary depth frame or the envelope that `snapshot_routing.go`
recognises) and numbered frames after it.

* `Subscribe`/`Unsubscribe` are the critical section that changes the table and, for
  `WithSnapshot`, marks the generation (`MarkPending`); `Request` writes the frame under
  the wire gate; `Unsubscribed`, `Rollback`, `RequestFails`, `Abandon` are its ends.
* `Read` is the pump that stamps a frame with the current generation and queues it
  (`FrameDoesNotFit`: the connection is given up); `TakeFrame`, `SendBegin`, `SendDone`,
  `GivesUp`, `SendEnds` are the dispatcher; `Fenced` and `Flag` decide what is dropped
  and what is marked as a snapshot.
* `CloseMark`, `SendsDone`, `CloseChannel` are the close of a channel, which waits for
  sends under way; `Drop`, `FailSubscriptions`, `Redial`, `ReplayMark`,
  `ReplayRequest`, `ReplayFails` are the loss of a connection and the replay;
  `Consume` is the reader, which may never read.

The history `loose` records that a request was left without its answer, or reached a newer
connection before the replay marked the feed: the next diff can then be taken for a
baseline (section 6), and `FlaggedIsBaseline` is stated for the rest.

### IsolatedClients

One symbol of one of the two alike tables. `Acquire` takes the client of the table or
makes one and counts it, `Register` adds the channel in the isolated client, `Release`
gives a reference back after `SubscribeFails` and closes the client with the last one;
`Remove`, `Unsubscribed`, `CloseClient` are an unsubscription of the whole symbol;
`LosesConnection` is a client whose connection is lost for good; the parent's `Close` is
`CloseBegins`, `CloseSweeps`, `CloseSwept`, `CloseReturns`.

### LiveOrderBook

`hist[i]` is the exchange's book after change `i`; a diff `[first, last]` carries the
levels changed in that range with their amounts at `last`, a snapshot `S` carries
`hist[S]`. `Delivered` is the set of *all* diffs the exchange could have sent so far, and
ill-formed ones: arrival in any order, any number of times or never is part of every
run. `Buffer`, `IngestLive`, `Snapshot`, `BadSnapshot` and `Reset` are whole calls under
`l.mu`. The replay alone is one step per diff (`ReplayOne`, `ReplayFails`, `ReplayDone`),
since `Book()` takes only the inner lock. Callbacks (`Notify`) are made after the lock is
released.

### OrderBook

The sides are sequences as in the code: `ApplyLevelTo` is the binary search (`Search`, a
recursive function on the bounds that are left) with replacement, insertion or deletion;
`Sorted` is `slices.SortFunc`; `ApplySnapshot` and `ApplyDiff` parse everything
first and change nothing if a level does not parse. The variable `ref` is the
reference: the map from prices to amounts that the accepted frames describe. `VWAP` and
`CumulativeDepth` are compared with a definition over that map.

### QuoteReconciler

`HydrateBegin`, `HydrateQuery` (the REST call returns), `HydrateInstall`, `Handoff` (the
generation check and the taking of pending events) and `ApplyBatch` are
`hydrateAndReplay`, run by the starter and by the stream goroutine. The goroutine's
`select` is `OnReconnecting`, `OnConnected`, `OnOrderEvent`, `StreamEnds`, taken in any
order, as `select` does. A cycle under `syncMu` is `SyncStart`/`CancelAllStart`,
`CancelOne` per order (answered, lost, refused, unproved), `CancelDone`, `PlaceOne` per
target, `PlaceDone`, with `ContextEnds` wherever `runBounded` looks at the context. The history
`overtaken` holds the orders whose end the stream applied before `PlaceDone` noted their
placement, `early` that a hydration began before the feeds were restored (both in section 6).
Side and price of a quote are one number; amounts of new orders are `Full`.

### SignedTransport

`Execute` of a safe or a mutating method, or a direct `NextNonce`, which does not take
the gate. `ReadClock`, `Load`, `Swap` are `monotonicNonce.Next`, one step per atomic
operation; the clock may read any time, also an earlier one, after calibration.
`Send` puts a request on the wire, from which it is received (`Receive`) or lost (`Lose`)
at any later time, also after its sender has given up (`NoAnswer`). The exchange refuses
a nonce that is not above all it has seen. Retries follow `IsRetryable` and sign again.

### Pagination

One iteration over a collection whose items come and go between pages. The server cuts
a limit above its own maximum and may report whether there is more; the iterator decides by
that report where it has one, otherwise by whether the page was full. `came` and `went`
record the changes, so that the property can say what an iteration owes to the items
that were there all the time.

### OAuthSource

`TokenValid`, `TokenUnavailable`, `TokenExpired` are the critical section of `Token`;
the refresh goroutine is `Refresh` or `RefreshFails`, `TokenUpdate` (the callback) and
`RefreshEnds`; callers `Wake` or their `ContextEnds`. The server may rotate the refresh
token, may leave it alone, and its answer may be lost after it rotated.

### CliSession

A credential family is a refresh token and the OAuth client that it goes with. A command
loads one from environment and keyring (`Loaded`), refreshes (`RefreshStarts`, `Answer`,
`Refused`, `NoAnswer`) and writes what it got over the profile, whatever that holds by then
(`TokenUpdate`); `LoginStarts`, `Callback`, `Exchange`, `LoginSaves` are a login, and any
process may end anywhere. `owner` is the history of the client each token was issued to,
`lost` of the clients whose answer never reached the keyring.

### CliStream

A stream command as an application of the client: `CmdConnect`, `Subscribed`,
`RegisterForEvents`, then the `select` (`SeesCancel`, `TakesItem`, `SeesFeedClosed`,
`TakesEvent`, `SeesEventsClosed`), the deferred `StopsEvents` and `ClosesClient`, and
`Returns`. With `cmd = "absent"` the behaviours are those of any other application.

### WsSession

One event loop. `Quiet` says that no continuation is queued: only then does the next task
run (socket events `OnOpen`, `OnError`, `OnClose`, `OnBadFrame`, `OnMalformedFrame` and
the answers; the timers `TimerFires`, `StableFires`; deadlines; the results of the headers
and socket factories). Continuations (`SubscribeContinues`, `RequestContinues`,
`AttemptCaught`, `SendUnsubscribe`, `LivenessFails`) run in any order, and the calls of
the application (`Subscribe`, `Request`, `CloseStream`, `Reconnect`, `Close`) may come
between any two of them. `connect()` is the first half of `Request`.
`OnOpen` and `ReplayOnOpen` are one handler: the application's open listeners are called
between them, so its calls can come there, but no continuation can.

An attempt and its socket are named by the `socketAttempt` number. `phase` tells whether
it awaits its headers or its socket, or was aborted with the factory still to answer
(`late`). `pend` condenses the entry of a subscription in `pending`: nothing, the first
acknowledgement, the first one asked for again by a replay, or a replay's. Frames are
written to `wire` in order, and the exchange handles them in that order. The
history `disowned` records that a failure which `prepareSocket` caught late has met a newer
attempt (section 6).

### LocalBooks

One event loop again, with the same `Quiet`. The handlers of `public.ts` call each other
and the session synchronously (a frame shows a gap, the book reports it, the session
reconnects, all books are fenced), so each handler is an operator from one `client` to
the next, and an action is one task with everything it calls: `Receive` (an
acknowledgement, a refusal or a depth frame), `Opens`, `Drop`, `DialFails`,
`SessionFails`, the deadline `AckTimesOut`, the continuations `SendSub` and
`ReadyContinues`, and the calls `OrderBook` and `CloseBook`. `Reconnecting` is the session's
own reconnection, `Restart` and `RestartBooksForced` are the two ways in which books ask
for one, and `FinishBookReconnect` decides whether the recovery is over. A frame over the level limit
(`TooLarge`) makes a live book stale, and as a snapshot it is refused and all books restart
(`Refuse`).

The exchange numbers the changes of each symbol; a frame `[first, last]` follows the one
that ended at `first`. What a book shows is `last` and whether it is `whole`, that is,
whether its levels are those of the exchange at `last`. `Update` sends a change,
sends it malformed or not at all; `Serve` answers a subscription with its
acknowledgement and the snapshot in either order, or refuses it. The histories `used` and
`reopened` record which books were opened for a symbol that had been subscribed on the
same connection (section 6).

### AlertScheduler

Rules of one symbol. An evaluation is `OnPriceUpdate`, `RulesListed`, then per rule `Passes`
or `Fires`, and for a firing `Notified` and `Saved`: one action from each await to the
next, so other evaluations and reloads run between them. A reload is `Lists`, `Reconciles`
and `Subscribed`, `Unsubscribed` or `ReloadFails`. `file` is what is on disk, `memory` what
the scheduler remembers; the tools' process is `Edits` (it has read the file), `EditWritten`
and `Notifies`; `Restart` is a daemon that dies and is started again. The histories
`forgotten`, `before`, `unsaved` and `hazards` record the cases in which a second
firing, or an unwatched rule, is known to be possible (section 6).

## 3. The runs

All runs disable the deadlock check: the application makes a bounded number of calls and
the systems may then rest. What must not get stuck is stated as liveness instead.

| Run | Properties | Bounds |
|---|---|---|
| `ws_reconnect` | `ConnectionOwned`, `ActiveFeedsStreamed`, `ReplayHonoursUnsubscribe`, `RequestsStayOnTheirConnection`, `ActiveMatchesTable`, `FailedOnlyWhileDown` | 2 calls, 2 private feeds of one family, automatic reconnection, 4 lifecycles, 2 faults, `Close` |
| `ws_returns` | `CallsReturn` | fair; 2 calls, 1 public feed, 5 lifecycles, 1 fault, `Close` |
| `ws_orphaned_request` | `PendingOnLiveConnection` (violated) | 2 calls, 3 lifecycles, 2 faults |
| `ws_event_panic` | `NoSendOnClosedChannel` (violated) | shared channel of 1, 4 events |
| `cli_stream` | `SharedFeed`, `PrivateFeed`, `NewestArrives`, `CommandEnds` | fair; shared channel of 1, private channel of 2, feed of 1, 5 events |
| `market_data` | `FlaggedIsBaseline`, `NoSilentLoss`, `NoSendAfterClose`, `ClosesReturn`; `BookIsSorted`, `SweepsAreSound`; `IsolationHolds` | fair; 2 subscriptions, 2 frames after a baseline, queue and channels of 1, 1 fault; 3 prices, amounts to 2, batches of 2 levels; 3 calls, 2 variants, 1 lost connection |
| `price_watchers` | `BookIsHistoric`, `ReplaysAreSound`, `TopOfBookTracked`; `RulesWatched`, `CooldownHolds` | 3 levels, 3 changes, buffer of 2, 1 listener, `Reset`, 1 ingester, and 2 ingesters with 2 changes and a buffer of 1; 2 rules, one of them one-shot, cooldown 1, 2 evaluations and 2 reloads at a time, 2 evaluations, 2 events |
| `reconciler` | `LedgerExactAtFirst`, `NoOrderForgotten`, `ReplacedOrdersAreGone`, `StreamRecovers`; `CyclesReachTargets` | fair; the stream: 1 order, channel of 2, 1 pending event, 2 faults (drop, malformed frame, failed call, stop), and a `Sync` that cancels all beside it, or places if it runs first; the cycles: 4 orders, 2 prices within tolerance of each other, 1 failed call |
| `recon_ghost` | `LedgerExact` (violated) | 1 order, 1 drop |
| `rest_auth` | `RequestsAccepted`, `MutatesOnce`, `TokensSound`, `RequestsReturn`; `KeyringSound`; `PagesComplete` | fair; 2 callers, 2 calls, 1 retry, clock 0..2; 2 refreshes, time 0..3, 1 fault; 2 commands, 2 logins, 5 tokens, 1 lapse; 4 items, pages to 3, default 2, 1 change |
| `wss_session` | `ServedExactly`, `SocketsOwned`, `StreamsTruthful`, `ConnectSettles`; `BookIsExact`, `BooksRecover` | fair; 1 subscription, 1 request, the ping, 1 reconnect attempt, 2 faults; 2 books, 2 symbols of which one changes twice, 2 frames kept, 1 forced restart, 2 faults |
| `books_reopened` | `ShownBookIsWhole` (violated) | 2 books one after the other, 1 symbol, 2 changes, no fault |

A type invariant that is proved (section 5) is not repeated in a run.

What the properties say, where the name does not:

* `FailedOnlyWhileDown`: the channel of a caller is closed by its own feed's calls, or while
  no connection is installed; cleanup for an old lifecycle spares the newer one.
* `CallsReturn`: `Connect` returns even if its context never ends, and so does `Close`.
* `NewestArrives`: the newest event is delivered if the reader reads on, although a slot
  of one event is all there is for what does not fit. `CommandEnds`: a command whose
  connection is lost for good, or that is cancelled, ends, wherever it was.
* `FlaggedIsBaseline`: a frame delivered as the snapshot is the baseline of the subscription
  that is served now, whatever older frames are still queued. `NoSilentLoss`: after a
  baseline a channel receives every frame in order while the connection lasts. `ClosesReturn`: closing a channel
  ends although nobody reads it.
* `ReplaysAreSound`: a live book owes nothing (`LiveIsSynchronised`), and a replay gives up only on a
  real gap (`ReplayGapsAreReal`).
* `BookIsSorted`: the sorted slices equal the reference map. `SweepsAreSound`: a sweep takes the
  best levels and nothing else, a depth is what a sweep sees.
* `TopOfBookTracked`: the recorded top of the book is the book's. Every change is told to every
  listener, no callback is lost, and a listener that is informed stays so, unless callbacks of
  two ingesters overlap (`Overlaps`), which the code leaves unordered.
* `LedgerExactAtFirst`: on an unbroken connection the ledger is what is open, whatever `Sync` does
  beside the stream; the one excuse is an order whose end overtook the note of its placement
  (`overtaken`; *placed ghost*, section 6). `NoOrderForgotten` excuses hydrations that began too early
  (`early`, section 6).
* `TokensSound`: as long as nothing failed the refresh token used is the one the server
  honours, a token is persisted before a caller has it, and waiters get the new one.
* `ReplacedOrdersAreGone` (of both instances): while a cycle places orders, those it set out
  to cancel are gone. `CyclesReachTargets`: of equal orders the oldest is kept (`OldestKept`), and a
  cycle without an error leaves one order per target, as long as no stream was started (`SyncReachesTargets`).
* `KeyringSound`: (`KeyringUsable`) the refresh token of a saved profile is one the server honours, or a
  process is about to replace it by one, unless an answer was lost. (`KeyringIsOwn`) a token
  never stands beside an OAuth client that it was not issued to.
* `PagesComplete`: an iteration to the end misses no item unless one went away, and repeats
  none unless one came in.
* `CooldownHolds`, `RulesWatched`: no second alert within a cooldown; enabled rules are
  watched once reloads are over, but for the histories in `hazards` (section 6).
* `ServedExactly`: an open, quiet session is subscribed to what its application wants, each
  sent once. `SocketsOwned`: every socket but the session's is closed. Both hold until a failure caught late
  meets a newer attempt (`disowned`, section 6). `ConnectSettles`: whoever awaits the connection is answered.
* `BookIsExact`: a live book shows the exchange's levels at its ID. `BooksRecover`: time and again
  all books that are open are live, whatever recoveries were asked for during others.

Why the bounds are enough for the cases that matter:

* `ws_reconnect`: two calls are the least for a race between users (subscribe against
  unsubscribe of one feed, request against `Close`); four lifecycles allow a connection,
  its loss, a failed replay and another connection, so that goroutines of *two* older
  lifecycles can be alive beside the current one; two faults allow a failure inside the
  recovery from a failure. Calls are interchangeable model values, so the symmetry is
  sound, the action property included, which does not tell calls apart; the fair runs use
  none. Two variants of one family can be asked for at once; single channels leaving
  (`leave`) exercise reference counting; a loop that gives up leaves the client
  disconnected, to be connected again by hand.
* `cli_stream`: with a shared channel of one, the third event finds channel, slot and pump
  occupied. Private channels of two overflow within five events. The refinement is proved
  without bounds.
* `market_data`: two subscriptions are a resubscription with frames of its predecessor on
  the way, or two channels of one feed; queue and channels of one fill up with the second
  frame. Three prices give a binary search with a middle, both ends and a miss;
  partial fills need amounts of two. Three calls on an isolated client are one that
  fails, one that uses it and one that removes it.
* `price_watchers`: three changes are the least for a gap *inside* a replay followed by a
  usable diff; a buffer of two fills up. Two ingesters
  are enough for callbacks that overtake each other, and two changes for both to have some to
  make. Two evaluations race for one rule; two
  reloads overlap; two events are an edit and a restart, or an edit and a step of the clock.
* `reconciler`: for the stream, interleavings of one order's life with the snapshot are what matters,
  as events of different orders commute; one pending event is the smallest buffer that
  overflows; a second drop overtakes the hydration of the first. `Sync`
  beside it cancels the order or is the one that places it.
  For the cycles, four orders allow two resting orders per price; their invariants
  were also checked with two failed calls (2.4 million states).
* `rest_auth`: races are between two callers, or two processes; the signing properties
  are proved for any number. Four items in pages of at most three make a full page,
  a part of one and an empty one, with limits below, at and above the server's maximum.
* `wss_session`: the session handles subscriptions one by one and they share only the
  connection, so one subscription and one request, with the ping as the second, meet in
  every order; two faults are a lost connection and a failure of its recovery, which is
  also what exhausts one permitted attempt. `MaxAttempt` is larger than any number the
  run reaches. Its safety properties were also checked with three
  faults. For the books, two changes of one symbol are the least for a gap (the first is
  lost, the second shows it), and two books for a recovery asked for by one while the other
  recovers; two faults are a lost frame and a lost connection, or two malformed snapshots,
  which exceed the one restart that is permitted; a third kept frame overflows.

Three definitions are kept although they do not hold, because they document known limits:
`ClosedMeansClosed`, `ListenerUpToDate` and `ReloadsReconcile` (section 6).

## 4. Fairness

Only steps the program itself is bound to take are fair. What the application calls,
faults and contexts that end are never forced.

* `WsClient` (`ws_returns`): every goroutine that can run runs; a read on a closed socket
  returns; dials end (handshake timeout); the context of a replay ends after five
  seconds, so a replayed request ends even if the exchange stays silent; a channel's
  waiters are served in turn, so a caller waiting for the gate or a wire reservation
  gets it.
* `CliStream` (`cli_stream`): the goroutines of the client run, the command's `select` takes
  a ready case and its deferred calls follow; `NewestArrives` assumes besides that the
  reader of `Events()` reads what is there. No user has to cancel and no value to come.
* `DepthDelivery` (`market_data`): whoever closes a channel goes on, and a send that can
  end ends. No consumer has to read.
* `QuoteReconciler` (`reconciler`): goroutines run, REST calls return (the HTTP
  client has a timeout), the client redials, and `syncMu` does not starve whoever waits
  for it (`sync.Mutex` hands the lock over after a millisecond): strong fairness of
  `HydrateQuery`.
* `SignedTransport` (`rest_auth`): `http.Client` has a timeout, timers fire, and waiters
  of the gate channel are served first-in first-out: strong fairness of
  `AcquireRequest`.
* `OAuthSource` (`rest_auth`): the refresh goroutine runs, its request ends with an
  answer or its timeout, and callers whose channel is closed wake up.
* `WsSession` (`wss_session`): continuations run, timers fire, a socket that was closed
  delivers its close event, and headers, sockets and handshakes arrive once the faults of
  the run are used up (a deadline that passes is one of the faults).
* `LocalBooks` (`wss_session`): continuations run, the session opens once the faults are used
  up, and requests and frames on an open connection are handled. No symbol has to change.

## 5. What is proved

Proofs are in modules of their own. They assume only the named `ASSUME` of the module
that declares the constants (natural numbers as bounds, integer prices, "nobody" not among the
participants, calls that are not numbers), all of which TLC evaluates in the runs.
No theorem has a hypothesis of its own: where a property fails in a history that can happen, the property
names it (`overtaken`, `early`, `disowned`, `Overlaps`, `reopened`, `hazards`). Theorems about a component that shares its run
with others are stated of the composed specification (`MarketSpec`, `WatchSpec`,
`TypeScriptSpec`, `AuthSpec`) where that is the one its run checks. The
inductive invariants were checked by TLC on small instances before they were proved.

What the models compute by recursion is written as recursive functions. That such a function exists
is proved by induction over the set of the bounds up to which it does, with the
well-foundedness of `<` (`UpTo`), and what it computes by the same induction: the
binary search and the frames of `OrderBook`, the handlers of `LocalBooks` that go from book to
book, the cycles of `QuoteReconciler`.

**`WsClientProofs!TypeCorrect`**: `Spec => []TypeOK`. `TypeOK` is a conjunction of parts by
variable group, and is inductive. One lemma per family of actions (`CallStepType`,
`RequestStepType`, `AttemptStepType`, `PumpStepType`, `OtherStepType`). Every other
proof about the client uses it.

**`WsClientProofs!LifecycleCorrect`**: `Spec => [](LifecycleGate /\ ConnectionOwned)` for any
number of calls, feeds and lifecycles. `ConnectionOwned` alone is not inductive: that
`Install` does not overwrite a live connection follows from the state the gate's
holder left the client in, which nobody but `Close` may have changed. `LifecycleGate`
records exactly that, per lifecycle (`LifecycleState`): the gate has one holder, the
lifecycle number does not move while it is held, no process of a future lifecycle exists,
and a reconnect loop between two dials still finds `reconnecting`. The inductive
invariant is `LifeInv == TypeOK /\ LifecycleGate /\ ConnectionOwned`, with one lemma per
action that touches the connection and `OtherLife` for all that do not.

**`WsClientProofs!ActiveMatches`** and **`SubscriptionsFailedOnlyWhileDown`**:
`Spec => []ActiveMatchesTable` and `Spec => FailedOnlyWhileDown`. `SubsInv` adds to `LifeInv`
what a call is doing at each of its steps (`ControlInv`) and that only calls between
their registration and their end stand in a table (`TableInv`). The critical sections that
change `activeFeeds` and the tables together keep them in agreement; those that empty them
run only after `installed` is gone, or are stopped by the lifecycle check, which is where
`LifeInv` is needed. The second theorem is an action property from the same invariant.

**`WsClientProofs!RequestsStay`**: `Spec => []RequestsStayOnTheirConnection`. A socket is
open only as the installed connection (`LifeInv`), so whatever is written, however late, goes
to the connection that admitted it, and what is on the wire is lost with that (`WireStep`).

**`WsClientProofs!ReplayHonours`** and **`FeedsStreamed`**:
`Spec => []ReplayHonoursUnsubscribe` and `Spec => []ActiveFeedsStreamed`. The second holds of quiet
states, so its invariant has to say of every other state who will see to an active feed
(`Streamed`): either the exchange streams it and nothing on the wire says otherwise
(`Settled`), or the replay has it to do or will drop the connection (`Unfinished`), or a
request that holds the feed's wire gate subscribes to it and no unsubscription follows
its frame (`Working`). That nobody else can send an unsubscription meanwhile is the exclusion
of the wire gate (`Exclusive`) with what its holder knows of the feed (`HolderInv`);
`ReplayInv` and `TodoInv` describe the replay and its snapshot, `FrameInv` the frames.

**`ConnectionEventsProofs!FeedsImplemented`** and **`CommandFeeds`**: every channel of
lifecycle events implements `EventFeed`: the private ones without loss, the shared one
lossily, for any number of subscribers and any capacities, and also with the stream
command as the application. For a private channel the invariant `SubInv` says that what is
queued is a stretch of consecutive events that ends with the newest while the
subscriber is registered. For the shared one `SharedInv` orders the reader's last event,
the queue (`ChannelInOrder`) and what the pump carries and the slot holds
(`PumpInOrder`): each is older than the next, up to the newest event published. Each action maps
to a step of the abstract specification or a stutter.

**`MarketDataProofs!NeverSendsAfterClose`**: `Spec => []NoSendAfterClose` for any number of
subscriptions and any capacities. The invariant `CloseInv` adds that the table holds open
subscriptions only, so that none is closed twice, and that a channel whose close has begun
is closed only when no send to it is under way.

**`MarketDataProofs!BaselinesFlagged`**: `Spec => []FlaggedIsBaseline`. `FenceInv` has a part that always
holds (`Structure`: types, who holds the wire gate, ages of what is queued, nothing served while
the connection is down) and a part that holds until a frame escapes the fence (`FencedInv`,
while not `loose`). The latter follows one baseline from the exchange to the reader: a
request on its way finds nothing fresh behind the fence (`QuietInv`, `RequestInv`), the
acknowledgement comes before it (`AckInv`), the first frame past the fence is the baseline and no
other is (`WireInv`, `ServedInv`, `FramesInv`, `DispInv`), so what is flagged is one (`FlagInv`).

**`MarketDataProofs!NoFrameLost`**: `Spec => NoSilentLoss`, an action property. `GapInv` counts:
what is queued for a subscription in the table is numbered without a gap (`NumbersInv`), a
subscriber that has its baseline stands just before the first of it (`PlaceInv`, with
`Cursor`), and the frame being handed round is the next one for whoever is still to get it
(`DueInv`).

**`MarketDataProofs!IsolationCorrect`**: `MarketSpec => []IsolationHolds` for any number of calls
and variants. The inductive invariant adds the meaning of the counter (`Counted`): the
calls that use the client of the table are at most as many as its references, and calls
with another client work on one the table has given away (`Removed`). That `Release` closes
only what nobody uses follows from cardinalities.

**`PriceWatchersProofs!ReplicaExact`**: `Spec => [](SyncType /\ BookIsHistoric /\
ReplaysAreSound)`, for any books, buffer limits, numbers of ingesters and deliveries.
The arithmetic core is `DiffIsExact`: a diff `[first, last]` applied to the book at any ID
of `first - 1 .. last` gives the book at `last`. The invariant `SyncInv` adds the state
of a replay (what is left is sorted and free of diffs applied already, what was put back
lies beyond a gap) and that every buffered diff is one the exchange sent.

**`PriceWatchersProofs!ListenersAreTold`**: `Spec => TopOfBookTracked`, an action property, for
any number of ingesters and listeners. `CallsType` gives the types of listeners and calls under way;
each step is then compared with what the ingesters still have to call (`Pending`). Callbacks are made
after the lock is released and those of two ingesters may overtake each other, so what a listener
knows is followed while they do not overlap.

**`OrderBookProofs!SortedCorrect`**: `MarketSpec => []BookIsSorted` for any integer prices and
amounts, and frames of any length whose prices are distinct. `BookInv` says of each side that
it is in order and shows the map (`SideHolds`). `SearchFinds` is the correctness of the binary search: it
ends, between bounds that halve, at the first level that does not come before the price
(`LooksSettle`: in an ordered slice one look settles it for all levels on one side); `SearchMissesNone` follows. With them one
level replaced, inserted or removed keeps the side (`LevelApplied`), hence a whole frame
(`FrameApplied`), and sorting a snapshot has a result because inserting its levels one after another is
one (`SortingExists`).

**`QuoteReconcilerProofs!ReplacementsAddNoExposure`**: `Spec => []ReplacedOrdersAreGone`, for any
orders, prices, targets and faults, and whatever the stream does to the ledger meanwhile.
`ExposureInv` adds the types (`BookType`, `BatchInv`) and what a cycle knows of its orders
(`CancelInv`): what counts as cancelled is gone, and what was expected to be cancelled is to be,
was, or has left an error. An ID that is gone never comes back, because IDs are not reused.

**`QuoteReconcilerProofs!LedgerExactUntilLost`**: `Spec => []LedgerExactAtFirst`, with all cycles beside the
stream. The invariant `LedgerInv` is about the events between the exchange and the ledger, in
the order in which they will be applied (`Pipe`: batch, pending, channel, wire): the last event about
an order tells what became of it and none follows its end (`Tells`), and the snapshot or the
ledger is led by them to the exchange's book (`LeadsTo`): an order without events is in it as it is, and one
with fills only has its price, for a fill does not repeat it. An event already contained in the snapshot is thus harmless.
An order that `Sync` has placed and not noted is in the ledger already, or its announcement
is on its way (`Announced`), or its end came first (`Noted`); `Following` is all of this. `LockInv` and
`StartInv` say who is hydrating, and that on an unbroken connection it is the first hydration.

**`QuoteReconcilerProofs!NothingForgotten`**: `Spec => []NoOrderForgotten`, across any number of
reconnects, overtaken hydrations, overflows and failures, with all cycles. Here order does
not matter, but coverage does: `CoverInv` says that every open order is in the snapshot or ledger that
counts (`Current`: the stream's hydration if there is one) or has an event under way (`Underway`),
as long as no loss is waiting for its hydration (`Waiting`). `TruthInv` says that no event under
way reports a live order as gone, `HandInv` that the caller's hydration
and the stream's do not end each other's buffering (the generation check), `NewsInv` that
a client that has told of its return is up.

**`QuoteReconcilerProofs!OldestOrdersKept`** and **`TargetsReached`**: `Spec => OldestKept`, and
`Spec => CyclesReachTargets`, which adds `SyncReachesTargets`. A stream changes the ledger while the cycle reads it, so
of the ledger at its end nothing can be said once one was started; until then (`NeverStreamed`) the
invariant is `CycleInv` (`UnstreamedInv`). The matching of resting orders with targets goes from the oldest order to the
youngest; what it keeps is characterised by induction over the orders treated. `CycleInv` counts: while it cancels, the orders that survive and those to be placed are as
many as the targets and cover each of them (`PlanInv`); while it places and nothing failed, so do the
orders in the ledger, those placed already and those to be placed (`PlaceInv`).

**`RestAuthProofs!SigningCorrect`**: `Spec => [](TypeOK /\ RequestsAccepted /\
MutatesOnce)`, for any number of callers, calls and retries, any clock and any loss and
delay. `NonceInv` adds that whoever is past the gate holds it (`GateHeld`), that the last
nonce bounds every nonce there is (`NoncesBounded`), and that a signed nonce stays the
newest until it is sent (`SignedIsNewest`): without the gate spanning signing *and*
sending the last one fails. `CallInv` numbers the calls and says that a mutating call is
unsent, then on the wire once and unexecuted, then executed at most once (`SentOnce`).

**`RestAuthProofs!TokensCorrect`**, **`KeyringCorrect`**, **`IterationCorrect`**: `AuthSpec =>
[]TokensSound`, `[]KeyringSound` and `[]PagesComplete`, of the composed specification of
`MCRestAuth`, whose layers share no state, under `MCRestAuthAssumption`
(bounds are naturals, a default page is a possible page).
`SourceInv` follows a refresh: refreshes are numbered and one is under way (`OneRefresh`),
where the newest token is at each of its stages (`NewestToken`, `TokenHonoured`), and what a
caller waits for (`CallerServed`). `ProfileInv` says that everything held goes with the client it was issued to
(`Paired`), that a token on its way to the keyring is honoured and, where tokens rotate, in nobody
else's hands (`Fresh`), so that nobody can spend it. `PageInv` says that every original item
was delivered, is in the page or lies ahead in the collection (`Remaining`), and that
what was delivered comes before the page and the page before what lies ahead (`InOrder`).

**`WsSessionProofs!StreamsAreTruthful`**: `Spec => []StreamsTruthful`, whatever the application calls
when. `StreamInv` is the property for every state: a stream that shows `reconnecting` awaits a
replayed acknowledgement, and one that has neither failed nor been closed is in the map.

**`WsSessionProofs!SocketsAreOwned`** and **`ServedExactlyOnce`**: `Spec => []SocketsOwned` and
`Spec => []ServedExactly`, whatever the application calls when, until `disowned` (*an old failure meets a
new attempt*, section 6). `ConnInv` (theorem `OneConnection`) is what the shared promise is for: there is an active attempt
exactly while the session connects, it is the last one, and only its socket or the
session's is not closed. `PendInv` adds that requests wait on an open connection; `ServeInv` says of each
subscription where it is between the call and the exchange: it is streamed, on the wire once, about to be sent by
exactly one continuation or by the replay, or on its way out.

**`WsSessionProofs!BooksAreExact`**: `TypeScriptSpec => []BookIsExact`, for any symbols, books,
changes and limits. A book becomes live by a frame it kept, so the invariant has to speak
of what is on the wire. Leaving out the books that were opened
again (`reopened`), `Exact` says that a live book is whole and that the first frame kept by one that
awaits its snapshot is one; `SnapshotFirst`, that for a book that has no frame yet the snapshot is on the
wire before any change, or is still to be sent; `UnusedInv`, that a symbol not yet subscribed on the
connection has nothing under way; `Apart`, `AsksInv` and `NoConnection`, that open books do not share
a symbol, that who asks was made, and that nothing is on the wire without a connection. Handlers are
operators that call each other, so `Good` and `Exact` are proved of each of them in turn
(`Drop`, `Reject`, `Restart`, `Ingest`, ...), and of the handlers that go from book to book
by induction.

**`PriceWatchersProofs!CooldownsAreKept`** and **`RulesAreWatched`**: `WatchSpec =>
CooldownHolds` and `WatchSpec => []RulesWatched`, for any rules, reloads, evaluations, clock and
edits. `MemoryInv` says of each rule that the last firing is remembered or in the file, unless a history excuses it
(`Remembered`, `Filed`). `WatchInv` says that as long as no hazard has
come to pass reloads under way have listed the same rules (`Agree`), and that unless another reload is
due they have listed every enabled rule (`Covered`) and the symbol is watched or about to be
(`Followed`); a reload subscribes if it found rules and unsubscribes if it found none (`RequestOk`).

Only model-checked: liveness (all `~>` and `[]<>` properties and `NewestArrives`), which the
prover does not do; and `SweepsAreSound`, which is about sums over sets and folds, that is, induction
over data with an operator as a parameter.

## 6. What the checks found

Four runs show a disagreement between the code and what its comments or tests say:

* **Requests orphaned by a failed replay** (`ws_orphaned_request`).
  `handleResubscribeFailure` closes the connection and moves to a new lifecycle but does
  not fail the pending requests; the pump of that connection then finds its lifecycle
  stale and returns without failing them either. A request admitted during the replay
  waits for its own context.
* **A ghost in the ledger** (`recon_ghost`). The order event channel survives a reconnect.
  An event delivered before the drop can be read after the hydration of the new
  connection and is applied to the newer snapshot: an order that is gone comes back, and
  nothing removes it.
* **An event for a channel that is closed** (`ws_event_panic`; `client_connection.go:785`).
  `Connect` reports the failure of its replay in the goroutine of its caller, which no
  wait group counts. `Close` waits for the pumps and closes the channels, "after Close has
  stopped the read and reconnect pumps" (`client.go:515`), and the caller's event is
  then sent on a closed channel.
* **A fragment for a book** (`books_reopened`; `public.ts:667`). "Frames received before this
  acknowledgement belong to the current subscription", says the comment, and the first
  of them is taken for the snapshot. `routeDepth` goes by the symbol alone: when a book is
  closed and the symbol's book opened again on the open session, a change of the old
  subscription can still arrive. It becomes the book, the real snapshot is ignored as
  stale, and the book is live with levels missing.

Further behaviours, reproducible by changing the constants or the property of a run, or by
leaving out the history that excepts them:

* *Close and two subscribers* (`ClosedMeansClosed`; `client_connection.go:331`). `Close`
  sets the state and empties the tables in two steps; two `Subscribe` calls of one feed
  that passed their connection check before can register afterwards, and the channel of
  the one that needs no wire request is never closed.
* *Baselines* (`DepthDelivery`). After a `Subscribe` or `Unsubscribe` was abandoned, or when
  its frame escapes to a newer connection before the replay marks the feed, the next diff
  can be marked as a snapshot. The second subscriber of an active feed gets no baseline.
  A dispatcher that is told to stop may skip a frame and deliver a later one.
* *Isolated clients*. References held by channels that closed with a lost connection are never
  given back. The parent's `Close` may return while an `Unsubscribe` is still closing
  its client.
* *Unannounced change* (`ListenerUpToDate`; `live_book.go:168`). `checkBBOChangeLocked`
  returns before it records the top of book while nobody listens. A listener that
  registers later is not told of a change back to the value recorded before.
* *Early hydration* (`NoOrderForgotten` without `early`; `reconciler_stream.go:278`,
  `client_connection.go:400`). A frame that cannot be dispatched makes the client publish
  an event with the state connected while feeds are still being resubscribed, or the
  connection drops before the caller's own hydration; the hydration then reads the open
  orders while events are still lost.
* *Placed ghost* (`LedgerExact` with `Cycles = {"sync"}`, or `LedgerExactAtFirst` without `overtaken`;
  `reconciler.go:426`). `Sync` notes a placed order when its answer arrives, "without clobbering
  fresher WebSocket updates": if it is not in the ledger yet. But an order that was filled at once,
  and whose end the stream has applied, is not in it either; it is put in, and nothing removes it.
* *Overlapping reloads* (`ReloadsReconcile` of `AlertScheduler`; `scheduler.ts:133`). `reload`, which its
  comment calls idempotent, reads the rules and reconciles the subscriptions with them later. A
  reload that read no enabled rule can tear down what a later one, which read a rule enabled
  since, found in place: nobody watches the symbol of the enabled rule. A listener can be left
  behind too.
* *Refresh tokens* (`CliSession`). Two processes may spend the same refresh token, one of them
  in vain, and a lost answer to a rotation costs a new login. A refresh under way at a logout can create the
  profile again or overwrite that of a new login; a long-running command keeps its
  tokens after a logout.
* *Pages* (`Pagination`). Offsets count from the head of a collection that moves: an item
  removed before the offset makes the iteration skip one, an item inserted makes it repeat
  one.
* *Alerts* (`AlertScheduler`). A reload that lists a rule as disabled, be it a one-shot that
  its own firing disabled, drops what the scheduler remembers of it, and an evaluation that
  listed the rule earlier fires it again. An edit between the listing of the first reload and `writeDaemonMeta` is not
  loaded. The daemon's save of a firing and the tools' edits undo each other, so after a
  restart a rule may fire within its cooldown.
* *An old failure meets a new attempt* (`SocketsOwned` and `ServedExactly` of `WsSession` without
  `disowned`; for the first no subscriptions and three requests; `session.ts:301`). When a caller's deadline ends an
  attempt that awaits its headers or its socket, the shared promise is rejected at once, but
  `prepareSocket` catches the attempt's own failure a few continuations later and then
  rejects whatever promise the state `connecting` holds. A caller that asks again at once
  has its new attempt disowned: it is told of the old failure, the state is idle, and the
  attempt goes on. A third call then starts another attempt and replaces the socket of
  the second without closing it.
* *Shared deadlines* (`session.ts:274`). The deadline of the caller that starts an attempt
  fails everybody who waits for that attempt, and a request that waits for the attempt
  of another outlives its own deadline until the attempt ends.
* *A failed stream keeps its subscription* (`session.ts:508`). A malformed frame fails every
  active stream, but their subscriptions stay, and are replayed, until the streams are
  closed.
* *A limit that meets a sibling* (`public.ts:625`). When the permitted restarts are used up,
  `rejectAwaitingBooks` closes every book that awaits its snapshot, also one that was only
  rebuilding after another's gap.

## 7. What is not modelled, and the plan

Left out on purpose: wording and formatting (CLI output, error texts, logging, tracing,
diagnostics), stateless request builders (services, typed WebSocket requests, RFQ),
generated types, operating-system supervisors and notifiers, decimal arithmetic (prices
and amounts are naturals; no property depends on their digits), test doubles, examples.

About half of the Go code is generated types (`sdk-go/generated`), which hold no behaviour,
and most of the rest builds requests from parameters and formats answers, one function per
endpoint. The modules stand for the part that keeps state between two steps.

Inside modelled components: the multi-symbol contract status subscription, the choice of a
feed for frames that name no symbol, decoding of market data frames (`WsClient`,
`DepthDelivery`); deduplication of identical pending events (`QuoteReconciler`); bearer
authorization, second- and millisecond-valued nonces, body replay and hooks
(`SignedTransport`); the browser and the loopback server of a login, environments without
a refresh token (`CliSession`); the iterator buffer of a stream, a custom
`shouldReconnect` and calls made from inside listeners other than those of the open event
(`WsSession`); levels and views of a book, the limit on bytes, books on sessions of
their own (`snapshotStream`), the delay of a forced restart, the close of the client and
listeners that call back (`LocalBooks`); price windows, REST pollers, test firing and a graceful stop
(`AlertScheduler`).

Out of the prover's reach and left to TLC: liveness under fairness, and sums and folds over
data.

Plan, in order:

1. TypeScript SDK: the queue of the REST transport and the coalescing of refreshes.
2. MCP server: the WebSocket manager with its reconnects and its price store.
3. Go SDK: heartbeat of the orders, RFQ, decimals as `numeric_edge` over bounded inputs.
4. Abstract specifications: a replica that follows the exchange's history with
   `LiveOrderBook` shown to implement it, and a single-connection service for `WsClient`.
5. Theorems: sweeps of `OrderBook`, once sums over the levels are written as recursive functions
   too.
