--------------------------- MODULE LiveOrderBook ---------------------------
(***************************************************************************)
(* LiveOrderBook of the Go SDK: a local replica of the exchange's order    *)
(* book, kept from snapshots and differential updates that carry sequence  *)
(* IDs, and the top-of-book callbacks it makes.                            *)
(*                                                                         *)
(* The exchange is external: it changes one level per sequence ID, and     *)
(* hist[i] is its book after change i.  A diff [first, last] carries every *)
(* level that changed between first - 1 and last with its amount at last;  *)
(* a snapshot S carries hist[S].  Delivery is arbitrary: any message the   *)
(* exchange could have sent may arrive at any time, any number of times or *)
(* never, and so may malformed ones.                                       *)
(*                                                                         *)
(* A book maps levels to amounts, 0 meaning that the level is absent; that *)
(* the sorted slices of OrderBook implement such a map is the business of  *)
(* module OrderBook.  Replaying the buffered diffs takes one step per diff *)
(* with l.mu held, because readers of Book() take only the inner lock and  *)
(* see what lies between.                                                  *)
(***************************************************************************)
EXTENDS Integers, Sequences

CONSTANTS
  Bids, Asks,       \* prices of the two sides
  MaxAmount,        \* bound: largest amount of a level
  MaxUpdateID,      \* the largest sequence ID (MaxInt64)
  MaxBufferedDiffs, \* maxBufferedDiffs
  Ingesters,        \* goroutines calling IngestDiff or ApplySnapshot, each one call at a time
  Listeners,        \* top-of-book callbacks
  MayReset,         \* whether the application calls Reset
  NoOne             \* nobody holds l.mu

ASSUME LiveOrderBookAssumption ==
  /\ Bids \subseteq Nat \ {0}
  /\ Asks \subseteq Nat \ {0}
  /\ MaxAmount \in Nat
  /\ MaxUpdateID \in Nat
  /\ MaxBufferedDiffs \in Nat
  /\ MayReset \in BOOLEAN
  /\ NoOne \notin Ingesters

Levels == ({"bid"} \X Bids) \cup ({"ask"} \X Asks)
Books  == [Levels -> 0 .. MaxAmount]
Empty  == [lv \in Levels |-> 0]
IDs    == 0 .. MaxUpdateID

\* ok: the levels parse.
Diffs == [first : IDs, last : IDs, ok : BOOLEAN]

VARIABLES
  n, hist,       \* the exchange: number of changes so far, and its books
  book, lastID,  \* l.book: levels and lastUpdateID
  live, err,     \* l.live, l.err # nil
  queue,         \* l.diffQueue
  holder,        \* who holds l.mu in the middle of a replay
  todo,          \* replayQueuedDiffsLocked: what is left of the sorted queue
  remaining,     \* replayQueuedDiffsLocked: diffs beyond a gap
  listening,     \* l.bboListeners
  lastBBO,       \* l.lastBBO
  calls,         \* notifyListeners of an ingester: callbacks still to make, and with what
  known          \* the top of book each listener knows of

exchangeVars == <<n, hist>>
replayVars   == <<holder, todo, remaining>>
syncVars     == <<book, lastID, live, err, queue>>
bboVars      == <<listening, lastBBO, calls, known>>
vars == <<exchangeVars, syncVars, replayVars, bboVars>>

\* currentBBOLocked: best bid and best ask, 0 on an empty side.
BestBid(b) ==
  LET there == {p \in Bids : b[<<"bid", p>>] > 0} IN
  IF there = {} THEN 0 ELSE CHOOSE p \in there : \A q \in there : p >= q

BestAsk(b) ==
  LET there == {p \in Asks : b[<<"ask", p>>] > 0} IN
  IF there = {} THEN 0 ELSE CHOOSE p \in there : \A q \in there : p <= q

BBO(b) == <<BestBid(b), BestAsk(b)>>
NoBBO  == <<0, 0>>

Init ==
  /\ n = 0 /\ hist = [i \in {0} |-> Empty]
  /\ book = Empty /\ lastID = 0
  /\ live = FALSE /\ err = FALSE
  /\ queue = <<>>
  /\ holder = NoOne /\ todo = <<>> /\ remaining = <<>>
  /\ listening = {} /\ lastBBO = NoBBO
  /\ calls = [p \in Ingesters |-> [to |-> {}, bbo |-> NoBBO]]
  /\ known = [l \in Listeners |-> NoBBO]

\* The exchange changes one level.
Publish ==
  /\ n < MaxUpdateID
  /\ \E lv \in Levels, a \in 0 .. MaxAmount :
       /\ a # hist[n][lv]
       /\ hist' = [i \in 0 .. n + 1 |-> IF i <= n THEN hist[i] ELSE [hist[n] EXCEPT ![lv] = a]]
  /\ n' = n + 1
  /\ UNCHANGED <<syncVars, replayVars, bboVars>>

(***************************************************************************)
(* OrderBook.                                                              *)
(***************************************************************************)

\* The levels a diff carries.
Changed(d) ==
  {lv \in Levels : \E i, j \in 0 .. n :
     /\ d.first - 1 <= i /\ i <= d.last
     /\ d.first - 1 <= j /\ j <= d.last
     /\ hist[i][lv] # hist[j][lv]}

\* ApplyDiff: the carried levels are set, or removed by an amount of 0.
ApplyDiff(d) ==
  /\ book' = [lv \in Levels |-> IF lv \in Changed(d) THEN hist[d.last][lv] ELSE book[lv]]
  /\ lastID' = d.last

\* nextUpdateID saturates.
NextUpdateID(id) == IF id = MaxUpdateID THEN id ELSE id + 1

\* Mutant: a sequence gap of one update goes unnoticed.
GapOffByOne(d) == d.first > NextUpdateID(lastID) + 1

\* Updates between the book and d are missing.
Gap(d) == d.first > NextUpdateID(lastID)

\* The bounds of a diff make no sense.
BadBounds(d) == d.first <= 0 \/ d.last < d.first

(***************************************************************************)
(* The end of every update: checkBBOChangeLocked, unlock, notify.          *)
(***************************************************************************)

\* Mutant: a change found while callbacks are under way is left to them.
CheckBBOChangeCoalesced(p, b) ==
  /\ IF listening # {} /\ BBO(b) # lastBBO
     THEN /\ lastBBO' = BBO(b)
          /\ IF \A q \in Ingesters : calls[q].to = {}
             THEN calls' = [calls EXCEPT ![p] = [to |-> listening, bbo |-> BBO(b)]] ELSE UNCHANGED calls
     ELSE UNCHANGED <<lastBBO, calls>>
  /\ UNCHANGED <<listening, known>>

\* checkBBOChangeLocked for book b; the callbacks of ingester p follow after
\* the unlock.
CheckBBOChange(p, b) ==
  /\ IF listening # {} /\ BBO(b) # lastBBO
     THEN /\ lastBBO' = BBO(b)
          /\ calls' = [calls EXCEPT ![p] = [to |-> listening, bbo |-> BBO(b)]]
     ELSE UNCHANGED <<lastBBO, calls>>
  /\ UNCHANGED <<listening, known>>

\* Ingester p is free to take l.mu.
MayLock(p) == holder = NoOne /\ calls[p].to = {}

\* notifyListeners, one callback.
Notify(p) ==
  \E l \in calls[p].to :
    /\ known' = [known EXCEPT ![l] = calls[p].bbo]
    /\ calls' = [calls EXCEPT ![p].to = @ \ {l}]
    /\ UNCHANGED <<exchangeVars, syncVars, replayVars, listening, lastBBO>>

(***************************************************************************)
(* Snapshots: ApplySnapshot, ApplySnapshotFromDepthUpdate, and IngestDiff  *)
(* of a frame marked as snapshot.                                          *)
(***************************************************************************)

\* An unusable snapshot (sequence ID not positive, malformed levels) leaves
\* the book as it is.
BadSnapshot(p) ==
  /\ MayLock(p)
  /\ live' = FALSE /\ err' = TRUE
  /\ UNCHANGED <<exchangeVars, book, lastID, queue, replayVars, bboVars>>

\* The new baseline, and the start of replayQueuedDiffsLocked.
Snapshot(p, S) ==
  /\ MayLock(p)
  /\ S \in 1 .. n
  /\ book' = hist[S] /\ lastID' = S
  /\ live' = TRUE /\ err' = FALSE
  /\ holder' = p
  /\ todo' = queue /\ remaining' = <<>>
  /\ UNCHANGED <<exchangeVars, queue, bboVars>>

Without(s, k) == [i \in 1 .. Len(s) - 1 |-> IF i < k THEN s[i] ELSE s[i + 1]]

\* Mutant: the queue is not sorted.
NextQueuedUnsorted(k) == k = 1

\* SortStableFunc by FirstUpdateID: the diff with the least one is next, the
\* earliest of several.  (The unsorted rest is put back as it was when a
\* replay fails, which a later stable sort cannot tell from sorted.)
NextQueued(k) ==
  \A i \in 1 .. Len(todo) :
    /\ todo[k].first <= todo[i].first
    /\ i < k => todo[k].first < todo[i].first

\* One turn of the replay loop: a stale diff is dropped, one beyond a gap is
\* put aside, the next one is applied.
ReplayOne(p) ==
  /\ holder = p
  /\ \E k \in 1 .. Len(todo) :
       LET d == todo[k] IN
       /\ NextQueued(k)
       /\ \/ d.last <= lastID /\ UNCHANGED <<book, lastID, remaining>>
          \/ d.last > lastID /\ Gap(d) /\ remaining' = Append(remaining, d) /\ UNCHANGED <<book, lastID>>
          \/ d.last > lastID /\ ~Gap(d) /\ d.ok /\ ApplyDiff(d) /\ UNCHANGED remaining
       /\ todo' = Without(todo, k)
  /\ UNCHANGED <<exchangeVars, live, err, queue, holder, bboVars>>

\* A diff that cannot be applied ends the replay: it is dropped, what was put
\* aside and what follows is kept for the next snapshot.
ReplayFails(p) ==
  /\ holder = p
  /\ \E k \in 1 .. Len(todo) :
       /\ NextQueued(k)
       /\ todo[k].last > lastID /\ ~Gap(todo[k]) /\ ~todo[k].ok
       /\ queue' = remaining \o Without(todo, k)
  /\ live' = FALSE /\ err' = TRUE
  /\ holder' = NoOne /\ todo' = <<>> /\ remaining' = <<>>
  /\ CheckBBOChange(p, book)
  /\ UNCHANGED <<exchangeVars, book, lastID>>

\* Mutant: the book stays live beyond a gap in the buffered diffs.
ReplayDoneStaysLive(p) ==
  /\ holder = p /\ todo = <<>>
  /\ queue' = remaining
  /\ holder' = NoOne /\ remaining' = <<>>
  /\ CheckBBOChange(p, book)
  /\ UNCHANGED <<exchangeVars, book, lastID, live, err, todo>>

\* The whole queue has been seen; diffs beyond a gap demand another snapshot.
ReplayDone(p) ==
  /\ holder = p /\ todo = <<>>
  /\ queue' = remaining
  /\ live' = (remaining = <<>>) /\ err' = (remaining # <<>>)
  /\ holder' = NoOne /\ remaining' = <<>>
  /\ CheckBBOChange(p, book)
  /\ UNCHANGED <<exchangeVars, book, lastID, todo>>

(***************************************************************************)
(* IngestDiff of an ordinary diff.                                         *)
(***************************************************************************)

\* While the book is not live a diff is buffered, if there is room for it.
Buffer(p, d) ==
  /\ MayLock(p) /\ ~live
  /\ IF BadBounds(d) \/ Len(queue) >= MaxBufferedDiffs
     THEN err' = TRUE /\ UNCHANGED queue
     ELSE queue' = Append(queue, d) /\ UNCHANGED err
  /\ UNCHANGED <<exchangeVars, book, lastID, live, replayVars, bboVars>>

\* A live book applies the diff, drops it as stale, or asks for a resync.
IngestLive(p, d) ==
  /\ MayLock(p) /\ live
  /\ \/ /\ BadBounds(d) \/ (d.last > lastID /\ (Gap(d) \/ ~d.ok))
        /\ live' = FALSE /\ err' = TRUE
        /\ UNCHANGED <<book, lastID, bboVars>>
     \/ /\ ~BadBounds(d) /\ d.last <= lastID
        /\ UNCHANGED <<book, lastID, live, err, bboVars>>
     \/ /\ ~BadBounds(d) /\ d.last > lastID /\ ~Gap(d) /\ d.ok
        /\ ApplyDiff(d)
        /\ CheckBBOChange(p, book')
        /\ UNCHANGED <<live, err>>
  /\ UNCHANGED <<exchangeVars, queue, replayVars>>

\* Diffs the exchange could have sent by now, and malformed ones.
Delivered == {d \in Diffs : d.last <= n}

(***************************************************************************)
(* The application.                                                        *)
(***************************************************************************)
Reset ==
  /\ MayReset /\ holder = NoOne
  /\ live' = FALSE /\ err' = FALSE
  /\ queue' = <<>>
  /\ lastBBO' = NoBBO
  /\ book' = Empty /\ lastID' = 0
  /\ UNCHANGED <<exchangeVars, replayVars, listening, calls, known>>

\* OnBBOChanged; the application knows the top of book of that moment.
OnBBOChanged(l) ==
  /\ holder = NoOne /\ l \notin listening
  /\ \A p \in Ingesters : l \notin calls[p].to
  /\ listening' = listening \cup {l}
  /\ known' = [known EXCEPT ![l] = BBO(book)]
  /\ UNCHANGED <<exchangeVars, syncVars, replayVars, lastBBO, calls>>

\* The function OnBBOChanged returned.
Unregister(l) ==
  /\ holder = NoOne /\ l \in listening
  /\ listening' = listening \ {l}
  /\ UNCHANGED <<exchangeVars, syncVars, replayVars, lastBBO, calls, known>>

IngesterStep(p) ==
  \/ BadSnapshot(p) \/ \E S \in IDs : Snapshot(p, S)
  \/ ReplayOne(p) \/ ReplayFails(p) \/ ReplayDone(p)
  \/ \E d \in Delivered : Buffer(p, d) \/ IngestLive(p, d)
  \/ Notify(p)

Next ==
  \/ Publish
  \/ \E p \in Ingesters : IngesterStep(p)
  \/ Reset
  \/ \E l \in Listeners : OnBBOChanged(l) \/ Unregister(l)

Spec == Init /\ [][Next]_vars

-----------------------------------------------------------------------------
\* The exchange, the replica and the replay in progress; the buffer keeps its
\* limit whatever a failed replay puts back into it.
SyncType ==
  /\ n \in IDs /\ hist \in [0 .. n -> Books]
  /\ book \in Books /\ lastID \in 0 .. n
  /\ live \in BOOLEAN /\ err \in BOOLEAN
  /\ queue \in Seq(Diffs) /\ Len(queue) <= MaxBufferedDiffs
  /\ holder \in Ingesters \cup {NoOne}
  /\ todo \in Seq(Diffs) /\ remaining \in Seq(Diffs)
  /\ Len(remaining) + Len(todo) <= MaxBufferedDiffs

\* Whatever is lost, repeated, reordered or malformed on the way, what Book()
\* shows is the exchange's book at exactly the sequence ID it claims: not only
\* while the book is live, but also after a gap and between the diffs of a
\* replay, when readers can still look.
BookIsHistoric ==
  /\ book = IF lastID = 0 THEN Empty ELSE hist[lastID]
  /\ live => lastID # 0

\* A live book owes nothing: no diff is left in the buffer that it should
\* have applied, and no error is outstanding.
LiveIsSynchronised == live /\ holder = NoOne => queue = <<>> /\ ~err

\* The replay gives up on a buffered diff only if an update is really missing
\* before it, in whatever order the diffs were buffered; so a snapshot and the
\* diffs that follow it without a gap always make the book live.
ReplayGapsAreReal ==
  holder # NoOne =>
    \A i \in 1 .. Len(remaining) : Gap(remaining[i])

\* Both ends of a replay (replayQueuedDiffsLocked): the book is live and owes
\* nothing, or an update is missing.
ReplaysAreSound == LiveIsSynchronised /\ ReplayGapsAreReal

\* Ingesters with a callback to listener l under way.
Pending(l) == {p \in Ingesters : l \in calls[p].to}

\* Listener l knows the recorded top of the book, or will in whatever order
\* the callbacks under way reach it.
Informed(l) ==
  IF Pending(l) = {} THEN known[l] = lastBBO ELSE \A p \in Pending(l) : calls[p].bbo = lastBBO

\* A change is recorded while a callback about an older one is still under way
\* to listener l: the two may overtake each other.
Overlaps(l) == lastBBO' # lastBBO /\ Pending(l) # {}

\* Once the recorded top of book agrees with the book it keeps doing so as
\* long as somebody listens.  Every change but a Reset, which is not announced,
\* is told to every listener registered before and after it, no callback is
\* lost, and a listener stays informed unless callbacks of two ingesters
\* overlap.
TopOfBookTracked ==
  [][/\ /\ listening # {} /\ holder' = NoOne
        /\ holder # NoOne \/ lastBBO = BBO(book)
        => lastBBO' = BBO(book')
     /\ \A l \in listening \cap listening' :
          /\ lastBBO' # lastBBO /\ lastID' # 0 => \E p \in Pending(l)' : calls'[p].bbo = lastBBO'
          /\ \A p \in Pending(l) : IF p \in Pending(l)' THEN calls'[p].bbo = calls[p].bbo
                                   ELSE known'[l] = calls[p].bbo
          /\ Informed(l) /\ lastID' # 0 /\ ~Overlaps(l) => Informed(l)']_vars

\* A registered listener that has received all its callbacks knows the top of
\* the live book.  This is not an invariant: checkBBOChangeLocked does not record
\* the top of book while nobody listens (see the README).
ListenerUpToDate ==
  live /\ holder = NoOne =>
    \A l \in listening :
      Pending(l) = {} => known[l] = BBO(book)
=============================================================================
