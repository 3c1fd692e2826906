------------------------- MODULE PriceWatchersProofs -------------------------
(***************************************************************************)
(* Proofs about what watches prices.  The replica of LiveOrderBook is      *)
(* exact, and its listeners are told of the top of the book, for every set *)
(* of levels, every length of history and every size of the buffer.  The   *)
(* alerts of AlertScheduler keep their cooldowns, and enabled rules are    *)
(* watched, for any number of rules, evaluations, reloads and events.      *)
(*                                                                         *)
(* A cooldown is kept because what the daemon has not forgotten in memory  *)
(* it finds in the file, as every evaluation under way has listed it; the  *)
(* rules are watched because all reloads under way have listed the same    *)
(* rules, which cover those enabled unless another reload is due.          *)
(***************************************************************************)
EXTENDS MCPriceWatchers, WellFoundedInduction, TLAPS

\* Every diff of s has proper bounds and was sent by the exchange.
Sent(s) ==
  \A i \in 1 .. Len(s) : 0 < s[i].first /\ s[i].first <= s[i].last /\ s[i].last <= n

\* What a replay relies on between two of its steps: it works on a live book,
\* and what it has put aside precedes what it has not looked at yet.
ReplayState ==
  /\ holder # NoOne => live /\ ~err
  /\ holder = NoOne => todo = <<>> /\ remaining = <<>>
  /\ \A i \in 1 .. Len(remaining), j \in 1 .. Len(todo) : remaining[i].first <= todo[j].first

SyncInv ==
  /\ SyncType
  /\ BookIsHistoric
  /\ LiveIsSynchronised
  /\ ReplayGapsAreReal
  /\ ReplayState
  /\ Sent(queue) /\ Sent(todo) /\ Sent(remaining)

\* A diff without a gap takes the exact book of one ID to that of another.
LEMMA DiffIsExact ==
  ASSUME SyncInv, NEW d \in Diffs, lastID # 0,
         0 < d.first, d.first <= d.last, d.last <= n, d.last > lastID, ~Gap(d), ApplyDiff(d)
  PROVE  book' = hist[d.last] /\ lastID' = d.last /\ book' \in Books /\ lastID' \in 1 .. n
<1>1. /\ n \in Nat /\ lastID \in 0 .. n /\ d.first \in Nat /\ d.last \in 0 .. n
      /\ hist \in [0 .. n -> Books] /\ book = hist[lastID]
  BY LiveOrderBookAssumption DEF SyncInv, SyncType, BookIsHistoric, IDs, Diffs
<1>2. d.first - 1 <= lastID
  BY <1>1 DEF Gap, NextUpdateID
<1>3. ASSUME NEW lv \in Levels, lv \notin Changed(d) PROVE hist[lastID][lv] = hist[d.last][lv]
  BY <1>1, <1>2, <1>3 DEF Changed
<1>4. hist[d.last] \in Books /\ hist[lastID] \in Books
  BY <1>1
<1>5. book' = [lv \in Levels |-> hist[d.last][lv]]
  BY <1>1, <1>3 DEF ApplyDiff
<1>6. hist[d.last] = [lv \in Levels |-> hist[d.last][lv]]
  BY <1>4 DEF Books
<1> QED BY <1>1, <1>4, <1>5, <1>6 DEF ApplyDiff

LEMMA WithoutIsSeq ==
  ASSUME NEW s \in Seq(Diffs), NEW k \in 1 .. Len(s)
  PROVE  /\ Without(s, k) \in Seq(Diffs) /\ Len(Without(s, k)) = Len(s) - 1
         /\ \A i \in 1 .. Len(s) - 1 : \E j \in 1 .. Len(s) : j # k /\ Without(s, k)[i] = s[j]
<1>1. Len(s) \in Nat /\ s \in [1 .. Len(s) -> Diffs]
  OBVIOUS
<1>2. Without(s, k) \in [1 .. Len(s) - 1 -> Diffs]
  BY <1>1 DEF Without
<1>3. Len(s) - 1 \in Nat
  BY <1>1
<1>4. Without(s, k) \in Seq(Diffs) /\ Len(Without(s, k)) = Len(s) - 1
  BY <1>2, <1>3
<1>5. ASSUME NEW i \in 1 .. Len(s) - 1
      PROVE  \E j \in 1 .. Len(s) : j # k /\ Without(s, k)[i] = s[j]
  <2>1. CASE i < k
    BY <2>1, <1>1 DEF Without
  <2>2. CASE ~(i < k)
    <3>1. i + 1 \in 1 .. Len(s) /\ i + 1 # k /\ Without(s, k)[i] = s[i + 1]
      BY <2>2, <1>1 DEF Without
    <3> QED BY <3>1
  <2> QED BY <2>1, <2>2
<1> QED BY <1>4, <1>5

LEMMA Concat ==
  ASSUME NEW s \in Seq(Diffs), NEW t \in Seq(Diffs)
  PROVE  /\ s \o t \in Seq(Diffs) /\ Len(s \o t) = Len(s) + Len(t)
         /\ \A i \in 1 .. Len(s \o t) :
              \/ i \in 1 .. Len(s) /\ (s \o t)[i] = s[i]
              \/ i - Len(s) \in 1 .. Len(t) /\ (s \o t)[i] = t[i - Len(s)]
OBVIOUS

LEMMA InitSync == Init => SyncInv
<1> SUFFICES ASSUME Init PROVE SyncInv
  OBVIOUS
<1>1. Empty \in Books /\ hist \in [0 .. n -> Books]
  BY LiveOrderBookAssumption DEF Init, Empty, Books
<1>2. queue = <<>> /\ todo = <<>> /\ remaining = <<>> /\ Len(<<>>) = 0 /\ <<>> \in Seq(Diffs)
  BY DEF Init
<1>3. SyncType
  <2>1. n = 0 /\ lastID = 0 /\ 0 \in IDs /\ book \in Books /\ live = FALSE /\ err = FALSE /\ holder = NoOne
    BY <1>1, LiveOrderBookAssumption DEF Init, IDs
  <2>2. Len(queue) <= MaxBufferedDiffs /\ Len(remaining) + Len(todo) <= MaxBufferedDiffs
    BY <1>2, LiveOrderBookAssumption
  <2>3. lastID \in 0 .. n
    BY <2>1
  <2> QED BY <1>1, <1>2, <2>1, <2>2, <2>3 DEF SyncType
<1>4. BookIsHistoric /\ LiveIsSynchronised
  BY <1>1 DEF Init, BookIsHistoric, LiveIsSynchronised
<1>5. ReplayGapsAreReal /\ ReplayState /\ Sent(queue) /\ Sent(todo) /\ Sent(remaining)
  BY <1>2 DEF Init, ReplayGapsAreReal, ReplayState, Sent
<1> QED BY <1>3, <1>4, <1>5 DEF SyncInv

\* A step that touches neither the exchange nor the replica.
LEMMA Elsewhere ==
  ASSUME SyncInv, UNCHANGED <<exchangeVars, syncVars, replayVars>>
  PROVE  SyncInv'
BY DEF SyncInv, SyncType, BookIsHistoric, LiveIsSynchronised, ReplayGapsAreReal, Gap, NextUpdateID,
   ReplayState, Sent, exchangeVars, syncVars, replayVars

LEMMA PublishSync == SyncInv /\ Publish => SyncInv'
<1> SUFFICES ASSUME SyncInv, Publish PROVE SyncInv'
  OBVIOUS
<1>1. /\ n \in Nat /\ n' = n + 1 /\ n' \in IDs /\ lastID \in 0 .. n
      /\ hist \in [0 .. n -> Books]
  BY LiveOrderBookAssumption DEF SyncInv, SyncType, Publish, IDs
<1>2. PICK lv \in Levels, a \in 0 .. MaxAmount :
        hist' = [i \in 0 .. n + 1 |-> IF i <= n THEN hist[i] ELSE [hist[n] EXCEPT ![lv] = a]]
  BY DEF Publish
<1>3. [hist[n] EXCEPT ![lv] = a] \in Books
  <2>1. hist[n] \in Books
    BY <1>1
  <2> QED BY <2>1 DEF Books
<1>4. hist' \in [0 .. n' -> Books] /\ hist'[lastID] = hist[lastID]
  BY <1>1, <1>2, <1>3
<1>5. UNCHANGED <<syncVars, replayVars>>
  BY DEF Publish
<1>6. SyncType'
  BY <1>1, <1>4, <1>5 DEF SyncInv, SyncType, syncVars, replayVars
<1>7. BookIsHistoric' /\ LiveIsSynchronised' /\ ReplayGapsAreReal' /\ ReplayState'
  BY <1>1, <1>4, <1>5 DEF SyncInv, BookIsHistoric, LiveIsSynchronised, ReplayGapsAreReal, Gap,
     NextUpdateID, ReplayState, syncVars, replayVars
<1>8. Sent(queue)' /\ Sent(todo)' /\ Sent(remaining)'
  <2>1. ASSUME NEW s \in Seq(Diffs), Sent(s)
        PROVE  \A i \in 1 .. Len(s) : 0 < s[i].first /\ s[i].first <= s[i].last /\ s[i].last <= n'
    <3> SUFFICES ASSUME NEW i \in 1 .. Len(s)
                 PROVE  0 < s[i].first /\ s[i].first <= s[i].last /\ s[i].last <= n'
      OBVIOUS
    <3>1. s[i] \in Diffs
      BY <2>1
    <3>2. s[i].last \in Int
      BY <3>1 DEF Diffs, IDs
    <3>3. 0 < s[i].first /\ s[i].first <= s[i].last /\ s[i].last <= n
      BY <2>1 DEF Sent
    <3> QED BY <3>2, <3>3, <1>1
  <2> QED BY <2>1, <1>5 DEF SyncInv, SyncType, Sent, syncVars, replayVars
<1> QED BY <1>6, <1>7, <1>8 DEF SyncInv

LEMMA BadSnapshotSync ==
  ASSUME SyncInv, NEW p \in Ingesters, BadSnapshot(p) PROVE SyncInv'
BY DEF SyncInv, SyncType, BookIsHistoric, LiveIsSynchronised, ReplayGapsAreReal, Gap, NextUpdateID,
   ReplayState, Sent, BadSnapshot, MayLock, exchangeVars, replayVars

LEMMA SnapshotSync ==
  ASSUME SyncInv, NEW p \in Ingesters, NEW S \in IDs, Snapshot(p, S) PROVE SyncInv'
<1>1. /\ S \in 1 .. n /\ holder = NoOne /\ p # NoOne /\ n \in Nat
      /\ hist[S] \in Books /\ <<>> \in Seq(Diffs) /\ Len(<<>>) = 0
  BY LiveOrderBookAssumption DEF SyncInv, SyncType, Snapshot, MayLock, IDs
<1>2. SyncType'
  <2>1. 0 + Len(queue) <= MaxBufferedDiffs
    BY LiveOrderBookAssumption DEF SyncInv, SyncType
  <2> QED BY <1>1, <2>1 DEF SyncInv, SyncType, Snapshot, exchangeVars
<1>3. BookIsHistoric' /\ LiveIsSynchronised' /\ ReplayState' /\ ReplayGapsAreReal'
  BY <1>1 DEF SyncInv, BookIsHistoric, LiveIsSynchronised, ReplayState, ReplayGapsAreReal, Snapshot,
     exchangeVars
<1>4. Sent(queue)' /\ Sent(todo)' /\ Sent(remaining)'
  BY <1>1 DEF SyncInv, Sent, Snapshot, exchangeVars
<1> QED BY <1>2, <1>3, <1>4 DEF SyncInv

\* Taking the next diff out of what is left to replay.
LEMMA TakeNext ==
  ASSUME SyncInv, NEW k \in 1 .. Len(todo), NextQueued(k)
  PROVE  /\ todo[k] \in Diffs
         /\ 0 < todo[k].first /\ todo[k].first <= todo[k].last /\ todo[k].last <= n
         /\ Without(todo, k) \in Seq(Diffs)
         /\ Len(Without(todo, k)) = Len(todo) - 1
         /\ Sent(Without(todo, k))
         /\ \A j \in 1 .. Len(todo) - 1 : todo[k].first <= Without(todo, k)[j].first
         /\ \A i \in 1 .. Len(remaining), j \in 1 .. Len(todo) - 1 :
              remaining[i].first <= Without(todo, k)[j].first
<1>1. todo \in Seq(Diffs) /\ Len(todo) \in Nat
  BY DEF SyncInv, SyncType
<1>2. /\ Without(todo, k) \in Seq(Diffs) /\ Len(Without(todo, k)) = Len(todo) - 1
      /\ \A i \in 1 .. Len(todo) - 1 : \E j \in 1 .. Len(todo) : j # k /\ Without(todo, k)[i] = todo[j]
  BY <1>1, WithoutIsSeq
<1>3. Sent(todo)
  BY DEF SyncInv
<1>4. todo[k] \in Diffs /\ 0 < todo[k].first /\ todo[k].first <= todo[k].last /\ todo[k].last <= n
  BY <1>1, <1>3 DEF Sent
<1>5. Sent(Without(todo, k))
  BY <1>2, <1>3 DEF Sent
<1>6. \A j \in 1 .. Len(todo) - 1 : todo[k].first <= Without(todo, k)[j].first
  BY <1>2 DEF NextQueued
<1>7. \A i \in 1 .. Len(remaining), j \in 1 .. Len(todo) - 1 :
        remaining[i].first <= Without(todo, k)[j].first
  BY <1>2 DEF SyncInv, ReplayState
<1> QED BY <1>2, <1>4, <1>5, <1>6, <1>7

LEMMA ReplayOneSync ==
  ASSUME SyncInv, NEW p \in Ingesters, ReplayOne(p) PROVE SyncInv'
<1>1. PICK k \in 1 .. Len(todo) :
        /\ NextQueued(k)
        /\ \/ todo[k].last <= lastID /\ UNCHANGED <<book, lastID, remaining>>
           \/ /\ todo[k].last > lastID /\ Gap(todo[k]) /\ remaining' = Append(remaining, todo[k])
              /\ UNCHANGED <<book, lastID>>
           \/ /\ todo[k].last > lastID /\ ~Gap(todo[k]) /\ todo[k].ok /\ ApplyDiff(todo[k])
              /\ UNCHANGED remaining
        /\ todo' = Without(todo, k)
  BY DEF ReplayOne
<1> DEFINE d == todo[k]
<1>2. /\ d \in Diffs /\ 0 < d.first /\ d.first <= d.last /\ d.last <= n
      /\ todo' \in Seq(Diffs) /\ Len(todo') = Len(todo) - 1
      /\ \A i \in 1 .. Len(todo') : 0 < todo'[i].first /\ todo'[i].first <= todo'[i].last /\ todo'[i].last <= n
      /\ \A j \in 1 .. Len(todo') : d.first <= todo'[j].first
      /\ \A i \in 1 .. Len(remaining), j \in 1 .. Len(todo') : remaining[i].first <= todo'[j].first
  BY <1>1, TakeNext DEF Sent
<1>3. /\ holder = p /\ holder # NoOne /\ UNCHANGED <<n, hist, live, err, queue, holder>>
      /\ live /\ ~err /\ lastID # 0
  BY LiveOrderBookAssumption DEF ReplayOne, SyncInv, ReplayState, BookIsHistoric, exchangeVars
<1>4. /\ n \in IDs /\ hist \in [0 .. n -> Books] /\ book \in Books /\ lastID \in 0 .. n
      /\ queue \in Seq(Diffs) /\ Len(queue) <= MaxBufferedDiffs
      /\ holder \in Ingesters \cup {NoOne} /\ live \in BOOLEAN /\ err \in BOOLEAN
      /\ todo \in Seq(Diffs) /\ remaining \in Seq(Diffs)
      /\ Len(remaining) + Len(todo) <= MaxBufferedDiffs
      /\ Len(remaining) \in Nat /\ Len(todo) \in Nat
  BY DEF SyncInv, SyncType
<1>5. Sent(queue)' /\ Sent(todo)'
  BY <1>2, <1>3 DEF SyncInv, Sent
<1>6. LiveIsSynchronised'
  BY <1>3 DEF LiveIsSynchronised
<1>7. CASE todo[k].last <= lastID /\ UNCHANGED <<book, lastID, remaining>>
  <2>1. Len(remaining') + Len(todo') <= MaxBufferedDiffs
    BY <1>2, <1>4, <1>7, LiveOrderBookAssumption
  <2>2. SyncType'
    BY <1>2, <1>3, <1>4, <1>7, <2>1 DEF SyncType
  <2>3. BookIsHistoric' /\ ReplayGapsAreReal' /\ Sent(remaining)'
    BY <1>3, <1>7 DEF SyncInv, BookIsHistoric, ReplayGapsAreReal, Gap, NextUpdateID, Sent
  <2>4. ReplayState'
    BY <1>2, <1>3, <1>7 DEF ReplayState
  <2> QED BY <1>5, <1>6, <2>2, <2>3, <2>4 DEF SyncInv
<1>8. CASE /\ todo[k].last > lastID /\ Gap(todo[k]) /\ remaining' = Append(remaining, todo[k])
           /\ UNCHANGED <<book, lastID>>
  <2>1. /\ remaining' \in Seq(Diffs) /\ Len(remaining') = Len(remaining) + 1
        /\ \A i \in 1 .. Len(remaining') :
             \/ i \in 1 .. Len(remaining) /\ remaining'[i] = remaining[i]
             \/ remaining'[i] = d
    BY <1>2, <1>4, <1>8
  <2>2. Len(remaining') + Len(todo') <= MaxBufferedDiffs
    BY <1>2, <1>4, <2>1, LiveOrderBookAssumption
  <2>3. SyncType'
    BY <1>2, <1>3, <1>4, <1>8, <2>1, <2>2 DEF SyncType
  <2>4. BookIsHistoric'
    BY <1>3, <1>8 DEF SyncInv, BookIsHistoric
  <2>5. ReplayGapsAreReal' /\ Sent(remaining)'
    BY <1>2, <1>3, <1>8, <2>1 DEF SyncInv, ReplayGapsAreReal, Gap, NextUpdateID, Sent
  <2>6. ReplayState'
    BY <1>2, <1>3, <2>1 DEF ReplayState
  <2> QED BY <1>5, <1>6, <2>3, <2>4, <2>5, <2>6 DEF SyncInv
<1>9. CASE /\ todo[k].last > lastID /\ ~Gap(todo[k]) /\ todo[k].ok /\ ApplyDiff(todo[k])
           /\ UNCHANGED remaining
  <2>1. book' = hist[d.last] /\ lastID' = d.last /\ book' \in Books /\ lastID' \in 1 .. n
    BY <1>2, <1>3, <1>9, DiffIsExact
  <2>2. Len(remaining') + Len(todo') <= MaxBufferedDiffs
    BY <1>2, <1>4, <1>9, LiveOrderBookAssumption
  <2>3. SyncType'
    <3>1. lastID' \in 0 .. n'
      BY <2>1, <1>3, <1>4 DEF IDs
    <3> QED BY <1>2, <1>3, <1>4, <1>9, <2>1, <2>2, <3>1 DEF SyncType
  <2>4. BookIsHistoric' /\ Sent(remaining)'
    <3>1. lastID' # 0 /\ hist' = hist
      BY <2>1, <1>3, <1>4 DEF IDs
    <3>2. BookIsHistoric'
      BY <2>1, <3>1 DEF BookIsHistoric
    <3>3. Sent(remaining)'
      BY <1>3, <1>9 DEF SyncInv, Sent
    <3> QED BY <3>2, <3>3
  <2>5. remaining = <<>>
    <3>1. ASSUME NEW i \in 1 .. Len(remaining) PROVE FALSE
      <4>1. remaining[i].first <= d.first /\ Gap(remaining[i]) /\ remaining[i] \in Diffs
        BY <1>3, <1>4 DEF SyncInv, ReplayState, ReplayGapsAreReal
      <4>2. ~Gap(d)
        BY <1>9
      <4>3. d.first \in Int /\ remaining[i].first \in Int
        BY <1>2, <4>1, LiveOrderBookAssumption DEF Diffs, IDs
      <4>4. NextUpdateID(lastID) \in Int
        BY <1>4, LiveOrderBookAssumption DEF NextUpdateID, IDs
      <4> HIDE DEF d
      <4> QED BY <4>1, <4>2, <4>3, <4>4 DEF Gap
    <3> QED BY <3>1, <1>4
  <2>6. ReplayGapsAreReal' /\ ReplayState'
    BY <1>2, <1>3, <1>9, <2>5 DEF ReplayGapsAreReal, ReplayState
  <2> QED BY <1>5, <1>6, <2>3, <2>4, <2>6 DEF SyncInv
<1> QED BY <1>1, <1>7, <1>8, <1>9

LEMMA ReplayEndsSync ==
  ASSUME SyncInv, NEW p \in Ingesters, ReplayFails(p) \/ ReplayDone(p) PROVE SyncInv'
<1>1. /\ UNCHANGED <<n, hist, book, lastID>> /\ holder' = NoOne /\ todo' = <<>> /\ remaining' = <<>>
      /\ Len(<<>>) = 0 /\ <<>> \in Seq(Diffs)
      /\ todo \in Seq(Diffs) /\ remaining \in Seq(Diffs)
      /\ Len(remaining) \in Nat /\ Len(todo) \in Nat
      /\ Len(remaining) + Len(todo) <= MaxBufferedDiffs
  BY DEF SyncInv, SyncType, ReplayFails, ReplayDone, exchangeVars
<1>2. Sent(todo)' /\ Sent(remaining)' /\ ReplayState' /\ ReplayGapsAreReal'
  BY <1>1 DEF Sent, ReplayState, ReplayGapsAreReal
<1>3. /\ queue' \in Seq(Diffs) /\ Len(queue') <= MaxBufferedDiffs /\ Sent(queue)'
      /\ live' \in BOOLEAN /\ err' \in BOOLEAN
      /\ LiveIsSynchronised' /\ (live' => lastID # 0)
  <2>1. CASE ReplayFails(p)
    <3>1. PICK k \in 1 .. Len(todo) : NextQueued(k) /\ queue' = remaining \o Without(todo, k)
      BY <2>1 DEF ReplayFails
    <3>2. Without(todo, k) \in Seq(Diffs) /\ Len(Without(todo, k)) = Len(todo) - 1 /\ Sent(Without(todo, k))
      BY <3>1, TakeNext
    <3>3. queue' \in Seq(Diffs) /\ Len(queue') = Len(remaining) + Len(todo) - 1
      BY <1>1, <3>1, <3>2, Concat
    <3>4. Len(queue') <= MaxBufferedDiffs
      BY <1>1, <3>3, LiveOrderBookAssumption
    <3>5. \A i \in 1 .. Len(queue') :
            \/ i \in 1 .. Len(remaining) /\ queue'[i] = remaining[i]
            \/ i - Len(remaining) \in 1 .. Len(Without(todo, k)) /\ queue'[i] = Without(todo, k)[i - Len(remaining)]
      BY <1>1, <3>1, <3>2, Concat
    <3>6. Sent(queue)'
      BY <1>1, <3>2, <3>5 DEF Sent, SyncInv
    <3> QED BY <2>1, <3>3, <3>4, <3>6 DEF ReplayFails, LiveIsSynchronised
  <2>2. CASE ReplayDone(p)
    <3>1. queue' = remaining /\ todo = <<>> /\ live' = (remaining = <<>>) /\ err' = (remaining # <<>>)
      BY <2>2 DEF ReplayDone
    <3>2. lastID # 0
      BY <2>2, LiveOrderBookAssumption DEF ReplayDone, SyncInv, ReplayState, BookIsHistoric
    <3>3. Len(queue') <= MaxBufferedDiffs
      BY <1>1, <3>1
    <3>4. Sent(queue)'
      BY <1>1, <3>1 DEF Sent, SyncInv
    <3>5. LiveIsSynchronised' /\ live' \in BOOLEAN /\ err' \in BOOLEAN
      BY <3>1, Zenon DEF LiveIsSynchronised
    <3> QED BY <1>1, <3>1, <3>2, <3>3, <3>4, <3>5
  <2> QED BY <2>1, <2>2
<1>4. SyncType'
  BY <1>1, <1>3, LiveOrderBookAssumption DEF SyncInv, SyncType
<1>5. BookIsHistoric'
  BY <1>1, <1>3 DEF SyncInv, BookIsHistoric
<1> QED BY <1>2, <1>3, <1>4, <1>5 DEF SyncInv

LEMMA BufferSync ==
  ASSUME SyncInv, NEW p \in Ingesters, NEW d \in Delivered, Buffer(p, d) PROVE SyncInv'
<1>1. /\ UNCHANGED <<n, hist, book, lastID, live, holder, todo, remaining>> /\ ~live
      /\ d \in Diffs /\ d.last <= n /\ n \in Nat
      /\ queue \in Seq(Diffs) /\ Len(queue) \in Nat /\ Len(queue) <= MaxBufferedDiffs
  BY LiveOrderBookAssumption DEF SyncInv, SyncType, Buffer, Delivered, exchangeVars, replayVars, IDs
<1>2. /\ queue' \in Seq(Diffs) /\ Len(queue') <= MaxBufferedDiffs /\ Sent(queue)' /\ err' \in BOOLEAN
  <2>1. CASE queue' = queue /\ err' = TRUE
    BY <1>1, <2>1 DEF SyncInv, Sent
  <2>2. CASE ~BadBounds(d) /\ Len(queue) < MaxBufferedDiffs /\ queue' = Append(queue, d) /\ err' = err
    <3>1. 0 < d.first /\ d.first <= d.last
      BY <1>1, <2>2 DEF BadBounds, Diffs, IDs
    <3>2. /\ queue' \in Seq(Diffs) /\ Len(queue') = Len(queue) + 1
          /\ \A i \in 1 .. Len(queue') :
               \/ i \in 1 .. Len(queue) /\ queue'[i] = queue[i]
               \/ queue'[i] = d
      BY <1>1, <2>2
    <3>3. Len(queue') <= MaxBufferedDiffs
      BY <1>1, <2>2, <3>2, LiveOrderBookAssumption
    <3>4. Sent(queue)'
      BY <1>1, <3>1, <3>2 DEF Sent, SyncInv
    <3>5. err' \in BOOLEAN
      BY <2>2 DEF SyncInv, SyncType
    <3> QED BY <3>2, <3>3, <3>4, <3>5
  <2>3. Len(queue) >= MaxBufferedDiffs \/ Len(queue) < MaxBufferedDiffs
    BY <1>1, LiveOrderBookAssumption
  <2> QED BY <2>1, <2>2, <2>3 DEF Buffer
<1>3. SyncType'
  BY <1>1, <1>2 DEF SyncInv, SyncType
<1>4. BookIsHistoric' /\ LiveIsSynchronised' /\ ReplayGapsAreReal' /\ Sent(todo)' /\ Sent(remaining)'
  BY <1>1 DEF SyncInv, BookIsHistoric, LiveIsSynchronised, ReplayGapsAreReal, Gap, NextUpdateID, Sent
<1>5. ReplayState'
  BY <1>1 DEF SyncInv, ReplayState, Buffer, MayLock
<1> QED BY <1>2, <1>3, <1>4, <1>5 DEF SyncInv

LEMMA IngestLiveSync ==
  ASSUME SyncInv, NEW p \in Ingesters, NEW d \in Delivered, IngestLive(p, d) PROVE SyncInv'
<1>1. /\ UNCHANGED <<n, hist, queue, holder, todo, remaining>> /\ holder = NoOne /\ live /\ lastID # 0
      /\ d \in Diffs /\ d.last <= n /\ n \in Nat
      /\ todo = <<>> /\ remaining = <<>> /\ Len(<<>>) = 0
  BY LiveOrderBookAssumption DEF SyncInv, SyncType, BookIsHistoric, ReplayState, IngestLive, MayLock, Delivered,
     exchangeVars, replayVars, IDs
<1>2. Sent(queue)' /\ Sent(todo)' /\ Sent(remaining)' /\ ReplayGapsAreReal' /\ ReplayState'
  BY <1>1 DEF SyncInv, Sent, ReplayGapsAreReal, ReplayState
<1>3. CASE book' = book /\ lastID' = lastID /\ live' = FALSE /\ err' = TRUE
  BY <1>1, <1>2, <1>3 DEF SyncInv, SyncType, BookIsHistoric, LiveIsSynchronised
<1>4. CASE book' = book /\ lastID' = lastID /\ live' = live /\ err' = err
  BY <1>1, <1>2, <1>4 DEF SyncInv, SyncType, BookIsHistoric, LiveIsSynchronised
<1>5. CASE ~BadBounds(d) /\ d.last > lastID /\ ~Gap(d) /\ ApplyDiff(d) /\ live' = live /\ err' = err
  <2>1. 0 < d.first /\ d.first <= d.last
    BY <1>1, <1>5 DEF BadBounds, Diffs, IDs
  <2>2. book' = hist[d.last] /\ lastID' = d.last /\ book' \in Books /\ lastID' \in 1 .. n
    BY <1>1, <1>5, <2>1, DiffIsExact
  <2>3. BookIsHistoric' /\ lastID' \in 0 .. n'
    BY <1>1, <2>2 DEF BookIsHistoric
  <2> QED BY <1>1, <1>2, <1>5, <2>2, <2>3 DEF SyncInv, SyncType, LiveIsSynchronised
<1> QED BY <1>3, <1>4, <1>5 DEF IngestLive

LEMMA ResetSync == SyncInv /\ Reset => SyncInv'
<1> SUFFICES ASSUME SyncInv, Reset PROVE SyncInv'
  OBVIOUS
<1>1. Empty \in Books /\ <<>> \in Seq(Diffs) /\ Len(<<>>) = 0
  BY LiveOrderBookAssumption DEF Empty, Books
<1>2. 0 \in 0 .. n /\ 0 <= MaxBufferedDiffs
  BY LiveOrderBookAssumption DEF SyncInv, SyncType, IDs
<1>3. /\ UNCHANGED <<n, hist, holder, todo, remaining>> /\ book' = Empty /\ lastID' = 0
      /\ live' = FALSE /\ err' = FALSE /\ queue' = <<>> /\ holder = NoOne
  BY DEF Reset, exchangeVars, replayVars
<1>4. SyncType'
  BY <1>1, <1>2, <1>3 DEF SyncInv, SyncType
<1>5. BookIsHistoric' /\ LiveIsSynchronised' /\ ReplayGapsAreReal' /\ ReplayState'
  BY <1>3 DEF SyncInv, BookIsHistoric, LiveIsSynchronised, ReplayGapsAreReal, ReplayState
<1>6. Sent(queue)' /\ Sent(todo)' /\ Sent(remaining)'
  BY <1>1, <1>3 DEF SyncInv, Sent
<1> QED BY <1>4, <1>5, <1>6 DEF SyncInv

\* Whatever is lost, repeated, reordered or malformed, the book shown is the
\* exchange's book at the sequence ID claimed, a live book has applied all it
\* was given, the buffer keeps its limit, and a replay gives up only on diffs
\* beyond a real gap.
THEOREM ReplicaExact ==
  Spec => [](SyncType /\ BookIsHistoric /\ ReplaysAreSound)
<1>1. SyncInv /\ [Next]_vars => SyncInv'
  <2> SUFFICES ASSUME SyncInv, [Next]_vars PROVE SyncInv'
    OBVIOUS
  <2>1. CASE Publish
    BY <2>1, PublishSync
  <2>2. ASSUME NEW p \in Ingesters, IngesterStep(p) PROVE SyncInv'
    <3>1. CASE BadSnapshot(p)
      BY <3>1, BadSnapshotSync
    <3>2. CASE \E S \in IDs : Snapshot(p, S)
      BY <3>2, SnapshotSync
    <3>3. CASE ReplayOne(p)
      BY <3>3, ReplayOneSync
    <3>4. CASE ReplayFails(p) \/ ReplayDone(p)
      BY <3>4, ReplayEndsSync
    <3>5. CASE \E d \in Delivered : Buffer(p, d)
      BY <3>5, BufferSync
    <3>6. CASE \E d \in Delivered : IngestLive(p, d)
      BY <3>6, IngestLiveSync
    <3>7. CASE Notify(p)
      BY <3>7, Elsewhere DEF Notify, exchangeVars, syncVars, replayVars
    <3> QED BY <2>2, <3>1, <3>2, <3>3, <3>4, <3>5, <3>6, <3>7 DEF IngesterStep
  <2>3. CASE Reset
    BY <2>3, ResetSync
  <2>4. CASE \E l \in Listeners : OnBBOChanged(l) \/ Unregister(l)
    BY <2>4, Elsewhere DEF OnBBOChanged, Unregister, exchangeVars, syncVars, replayVars
  <2>5. CASE UNCHANGED vars
    BY <2>5, Elsewhere DEF vars
  <2> QED BY <2>1, <2>2, <2>3, <2>4, <2>5 DEF Next
<1>2. SyncInv => SyncType /\ BookIsHistoric /\ ReplaysAreSound
  BY DEF SyncInv, ReplaysAreSound
<1> QED BY <1>1, <1>2, InitSync, PTL DEF Spec
-----------------------------------------------------------------------------
(***************************************************************************)
(* The top of the book and its listeners.                                  *)
(***************************************************************************)
CallsType ==
  /\ listening \subseteq Listeners /\ DOMAIN known = Listeners /\ DOMAIN calls = Ingesters
  /\ \A p \in Ingesters : calls[p] = [to |-> calls[p].to, bbo |-> calls[p].bbo]
  /\ holder \in Ingesters \cup {NoOne}
  /\ \A p \in Ingesters : holder = p => calls[p].to = {}

LEMMA InitCalls == Init => CallsType
<1> SUFFICES ASSUME Init PROVE CallsType
  OBVIOUS
<1>1. listening \subseteq Listeners /\ DOMAIN known = Listeners /\ holder = NoOne
  BY DEF Init
<1>2. DOMAIN calls = Ingesters /\ \A p \in Ingesters : calls[p] = [to |-> {}, bbo |-> NoBBO]
  BY DEF Init
<1>3. \A p \in Ingesters : calls[p] = [to |-> calls[p].to, bbo |-> calls[p].bbo]
  BY <1>2
<1> QED BY <1>1, <1>2, <1>3 DEF CallsType

LEMMA CheckedCalls ==
  ASSUME CallsType, NEW p \in Ingesters, NEW b, CheckBBOChange(p, b), holder' = NoOne
  PROVE  CallsType'
<1> USE LiveOrderBookAssumption
<1>1. CASE UNCHANGED calls
  BY <1>1 DEF CheckBBOChange, CallsType
<1>2. CASE calls' = [calls EXCEPT ![p] = [to |-> listening, bbo |-> BBO(b)]]
  <2>1. DOMAIN calls' = Ingesters /\ calls'[p] = [to |-> listening, bbo |-> BBO(b)]
        /\ \A q \in Ingesters \ {p} : calls'[q] = calls[q]
    BY <1>2 DEF CallsType
  <2>2. \A q \in Ingesters : calls'[q] = [to |-> calls'[q].to, bbo |-> calls'[q].bbo]
    BY <2>1 DEF CallsType
  <2> QED BY <2>1, <2>2 DEF CheckBBOChange, CallsType
<1> QED BY <1>1, <1>2 DEF CheckBBOChange

\* One callback is made; nothing else changes.
LEMMA NotifiedCall ==
  ASSUME CallsType, NEW p \in Ingesters, Notify(p)
  PROVE  /\ CallsType'
         /\ \E l \in calls[p].to :
              /\ known' = [known EXCEPT ![l] = calls[p].bbo]
              /\ calls'[p].to = calls[p].to \ {l} /\ calls'[p].bbo = calls[p].bbo
<1>1. PICK l \in calls[p].to :
        known' = [known EXCEPT ![l] = calls[p].bbo] /\ calls' = [calls EXCEPT ![p].to = @ \ {l}]
  BY DEF Notify
<1>2. /\ DOMAIN calls' = Ingesters /\ calls'[p] = [calls[p] EXCEPT !.to = @ \ {l}]
      /\ \A q \in Ingesters \ {p} : calls'[q] = calls[q]
  BY <1>1 DEF CallsType
<1>3. calls'[p] = [to |-> calls[p].to \ {l}, bbo |-> calls[p].bbo]
  BY <1>2 DEF CallsType
<1>4. \A q \in Ingesters : calls'[q] = [to |-> calls'[q].to, bbo |-> calls'[q].bbo]
  BY <1>2, <1>3 DEF CallsType
<1>5. DOMAIN known' = Listeners /\ UNCHANGED <<listening, holder>> /\ holder # p
  BY <1>1 DEF CallsType, Notify, replayVars
<1>6. CallsType'
  BY <1>2, <1>4, <1>5 DEF CallsType
<1>7. calls'[p].to = calls[p].to \ {l} /\ calls'[p].bbo = calls[p].bbo
  BY <1>3
<1> QED BY <1>1, <1>6, <1>7

LEMMA CallsStep == CallsType /\ [Next]_vars => CallsType'
<1> SUFFICES ASSUME CallsType, [Next]_vars PROVE CallsType'
  OBVIOUS
<1>1. ASSUME NEW p \in Ingesters, IngesterStep(p) PROVE CallsType'
  <2>1. CASE BadSnapshot(p) \/ ReplayOne(p) \/ \E S \in IDs : Snapshot(p, S)
    BY <2>1 DEF BadSnapshot, ReplayOne, Snapshot, MayLock, CallsType, replayVars, bboVars
  <2>2. CASE ReplayFails(p) \/ ReplayDone(p)
    BY <2>2, CheckedCalls DEF ReplayFails, ReplayDone
  <2>3. ASSUME NEW d \in Delivered, Buffer(p, d) \/ IngestLive(p, d) PROVE CallsType'
    <3>1. holder = NoOne /\ holder' = holder /\ (UNCHANGED bboVars \/ CheckBBOChange(p, book'))
      BY <2>3 DEF Buffer, IngestLive, MayLock, replayVars
    <3>2. CASE UNCHANGED bboVars
      BY <3>1, <3>2 DEF CallsType, bboVars
    <3>3. CASE CheckBBOChange(p, book')
      BY <3>1, <3>3, CheckedCalls DEF CallsType
    <3> QED BY <3>1, <3>2, <3>3
  <2>4. CASE Notify(p)
    BY <2>4, NotifiedCall
  <2> QED BY <1>1, <2>1, <2>2, <2>3, <2>4 DEF IngesterStep
<1>2. CASE Publish \/ Reset \/ UNCHANGED vars
  BY <1>2 DEF Publish, Reset, vars, CallsType, replayVars, bboVars
<1>3. ASSUME NEW l \in Listeners, OnBBOChanged(l) \/ Unregister(l) PROVE CallsType'
  BY <1>3 DEF OnBBOChanged, Unregister, CallsType, replayVars
<1> QED BY <1>1, <1>2, <1>3 DEF Next

\* The parts of TopOfBookTracked, of a step.
Recorded ==
  listening # {} /\ holder' = NoOne /\ (holder # NoOne \/ lastBBO = BBO(book)) => lastBBO' = BBO(book')

ToldOf(l) ==
  /\ lastBBO' # lastBBO /\ lastID' # 0 => \E p \in Pending(l)' : calls'[p].bbo = lastBBO'
  /\ \A p \in Pending(l) : IF p \in Pending(l)' THEN calls'[p].bbo = calls[p].bbo
                           ELSE known'[l] = calls[p].bbo
  /\ Informed(l) /\ lastID' # 0 /\ ~Overlaps(l) => Informed(l)'

LEMMA Recording ==
  ASSUME CallsType, [Next]_vars
  PROVE  Recorded
<1>1. ASSUME NEW p \in Ingesters, IngesterStep(p) PROVE Recorded
  <2>0. p # NoOne
    BY LiveOrderBookAssumption
  <2>1. CASE BadSnapshot(p) \/ Notify(p)
    BY <2>1 DEF BadSnapshot, Notify, Recorded, MayLock, bboVars, syncVars, replayVars
  <2>2. CASE ReplayOne(p) \/ \E S \in IDs : Snapshot(p, S)
    BY <2>0, <2>2 DEF ReplayOne, Snapshot, Recorded
  <2>3. CASE ReplayFails(p) \/ ReplayDone(p)
    <3>1. book' = book /\ CheckBBOChange(p, book)
      BY <2>3 DEF ReplayFails, ReplayDone
    <3> QED BY <3>1 DEF CheckBBOChange, Recorded
  <2>4. ASSUME NEW d \in Delivered, Buffer(p, d) \/ IngestLive(p, d) PROVE Recorded
    <3>1. CASE CheckBBOChange(p, book')
      BY <3>1 DEF CheckBBOChange, Recorded
    <3>2. CASE UNCHANGED <<book, bboVars, holder>>
      BY <2>4, <3>2 DEF Buffer, IngestLive, MayLock, Recorded, bboVars
    <3> QED BY <2>4, <3>1, <3>2 DEF Buffer, IngestLive, replayVars
  <2> QED BY <1>1, <2>1, <2>2, <2>3, <2>4 DEF IngesterStep
<1>2. CASE Reset
  <2>1. BBO(Empty) = NoBBO
    <3>1. {p \in Bids : Empty[<<"bid", p>>] > 0} = {}
      BY DEF Empty, Levels
    <3>2. {p \in Asks : Empty[<<"ask", p>>] > 0} = {}
      BY DEF Empty, Levels
    <3> QED BY <3>1, <3>2 DEF BBO, NoBBO, BestBid, BestAsk
  <2> QED BY <1>2, <2>1 DEF Reset, Recorded
<1>3. CASE Publish \/ UNCHANGED vars
  BY <1>3 DEF Publish, vars, Recorded, bboVars, syncVars, replayVars
<1>4. ASSUME NEW l \in Listeners, OnBBOChanged(l) \/ Unregister(l) PROVE Recorded
  BY <1>4 DEF OnBBOChanged, Unregister, Recorded, syncVars, replayVars
<1> QED BY <1>1, <1>2, <1>3, <1>4 DEF Next

\* Nothing changes for the listener, whatever happens to the book.
LEMMA SameTold ==
  ASSUME NEW l, UNCHANGED calls, known'[l] = known[l], lastBBO' = lastBBO \/ lastID' = 0
  PROVE  ToldOf(l)
  BY DEF ToldOf, Pending, Informed

\* checkBBOChangeLocked: a change is told by an ingester that had told all before.
LEMMA CheckedTold ==
  ASSUME CallsType, NEW p \in Ingesters, calls[p].to = {}, NEW b, CheckBBOChange(p, b), NEW l \in listening
  PROVE  ToldOf(l)
<1>1. CASE UNCHANGED <<lastBBO, calls>>
  BY <1>1, SameTold DEF CheckBBOChange
<1>2. CASE /\ BBO(b) # lastBBO /\ lastBBO' = BBO(b)
           /\ calls' = [calls EXCEPT ![p] = [to |-> listening, bbo |-> BBO(b)]]
  <2>1. /\ calls'[p].to = listening /\ calls'[p].bbo = lastBBO'
        /\ \A q \in Ingesters \ {p} : calls'[q] = calls[q]
    BY <1>2 DEF CallsType
  <2>2. p \notin Pending(l) /\ Pending(l)' = Pending(l) \cup {p}
    BY <2>1 DEF Pending
  <2>3. \A q \in Pending(l) : q \in Pending(l)' /\ calls'[q] = calls[q]
    BY <2>1, <2>2 DEF Pending
  <2>4. \E q \in Pending(l)' : calls'[q].bbo = lastBBO'
    BY <2>1, <2>2
  <2>5. ~Overlaps(l) => Informed(l)'
    <3>1. SUFFICES ASSUME ~Overlaps(l) PROVE Informed(l)'
      OBVIOUS
    <3>2. Pending(l)' = {p}
      BY <1>2, <2>2, <3>1 DEF Overlaps
    <3> QED BY <2>1, <3>2 DEF Informed
  <2> QED BY <2>3, <2>4, <2>5 DEF ToldOf
<1> QED BY <1>1, <1>2 DEF CheckBBOChange

\* One callback of notifyListeners: the listener it is for hears of it.
LEMMA NotifiedTold ==
  ASSUME CallsType, NEW p \in Ingesters, Notify(p), NEW l \in Listeners
  PROVE  ToldOf(l)
<1>1. PICK k \in calls[p].to :
        /\ known' = [known EXCEPT ![k] = calls[p].bbo]
        /\ calls'[p].to = calls[p].to \ {k} /\ calls'[p].bbo = calls[p].bbo
  BY NotifiedCall
<1>2. (\A q \in Ingesters \ {p} : calls'[q] = calls[q]) /\ lastBBO' = lastBBO
  BY DEF Notify
<1>3. \A q \in Ingesters : calls'[q].bbo = calls[q].bbo
  BY <1>1, <1>2
<1>4. CASE k # l
  <2>1. known'[l] = known[l]
    BY <1>1, <1>4 DEF CallsType
  <2>2. Pending(l)' = Pending(l)
    BY <1>1, <1>2, <1>4 DEF Pending
  <2>3. Pending(l) \subseteq Ingesters
    BY DEF Pending
  <2>4. Informed(l) => Informed(l)'
    BY <1>2, <1>3, <2>1, <2>2, <2>3 DEF Informed
  <2> QED BY <1>2, <1>3, <2>2, <2>3, <2>4 DEF ToldOf
<1>5. CASE k = l
  <2>1. known'[l] = calls[p].bbo
    BY <1>1, <1>5 DEF CallsType
  <2>2. p \in Pending(l) /\ Pending(l)' = Pending(l) \ {p}
    BY <1>1, <1>2, <1>5 DEF Pending
  <2>3. Pending(l) \subseteq Ingesters
    BY DEF Pending
  <2>4. Informed(l) => Informed(l)'
    BY <1>2, <1>3, <2>1, <2>2, <2>3 DEF Informed
  <2>5. \A q \in Pending(l) : IF q \in Pending(l)' THEN calls'[q].bbo = calls[q].bbo ELSE known'[l] = calls[q].bbo
    BY <1>3, <2>1, <2>2, <2>3
  <2> QED BY <1>2, <2>4, <2>5 DEF ToldOf
<1> QED BY <1>4, <1>5

LEMMA Telling ==
  ASSUME CallsType, [Next]_vars, NEW l \in listening \cap listening'
  PROVE  ToldOf(l)
<1>0. l \in Listeners
  BY DEF CallsType
<1>1. ASSUME NEW p \in Ingesters, IngesterStep(p) PROVE ToldOf(l)
  <2>1. CASE BadSnapshot(p) \/ ReplayOne(p) \/ \E S \in IDs : Snapshot(p, S)
    <3>1. UNCHANGED bboVars
      BY <2>1 DEF BadSnapshot, ReplayOne, Snapshot
    <3> QED BY <3>1, SameTold DEF bboVars
  <2>2. CASE ReplayFails(p) \/ ReplayDone(p)
    <3>1. CheckBBOChange(p, book) /\ calls[p].to = {}
      BY <2>2 DEF ReplayFails, ReplayDone, CallsType
    <3> QED BY <3>1, CheckedTold
  <2>3. ASSUME NEW d \in Delivered, Buffer(p, d) \/ IngestLive(p, d) PROVE ToldOf(l)
    <3>1. CASE UNCHANGED bboVars
      BY <3>1, SameTold DEF bboVars
    <3>2. CASE CheckBBOChange(p, book')
      <4>1. calls[p].to = {}
        BY <2>3 DEF Buffer, IngestLive, MayLock
      <4> QED BY <3>2, <4>1, CheckedTold
    <3> QED BY <2>3, <3>1, <3>2 DEF Buffer, IngestLive
  <2>4. CASE Notify(p)
    BY <1>0, <2>4, NotifiedTold
  <2> QED BY <1>1, <2>1, <2>2, <2>3, <2>4 DEF IngesterStep
<1>2. CASE Reset
  BY <1>2, SameTold DEF Reset
<1>3. CASE Publish \/ UNCHANGED vars
  BY <1>3, SameTold DEF Publish, vars, bboVars
<1>4. ASSUME NEW k \in Listeners, OnBBOChanged(k) \/ Unregister(k) PROVE ToldOf(l)
  <2>1. known'[l] = known[l] /\ UNCHANGED <<calls, lastBBO>>
    BY <1>0, <1>4 DEF OnBBOChanged, Unregister, CallsType
  <2> QED BY <2>1, SameTold
<1> QED BY <1>1, <1>2, <1>3, <1>4 DEF Next

\* However many goroutines ingest: the recorded top of the book agrees with the
\* book once it does and somebody listens, also across a replay; every change
\* but a Reset is told to every listener and no callback is lost; and a listener
\* stays informed as long as no change is recorded before the callbacks of an
\* earlier one have been made (checkBBOChangeLocked and notifyListeners).
THEOREM ListenersAreTold == Spec => TopOfBookTracked
<1>1. CallsType /\ [Next]_vars => Recorded /\ \A l \in listening \cap listening' : ToldOf(l)
  BY Recording, Telling
<1>2. CallsType /\ [Next]_vars =>
        /\ listening # {} /\ holder' = NoOne
           /\ (holder # NoOne \/ lastBBO = BBO(book))
           => lastBBO' = BBO(book')
        /\ \A l \in listening \cap listening' :
             /\ lastBBO' # lastBBO /\ lastID' # 0 => \E p \in Pending(l)' : calls'[p].bbo = lastBBO'
             /\ \A p \in Pending(l) : IF p \in Pending(l)' THEN calls'[p].bbo = calls[p].bbo
                                      ELSE known'[l] = calls[p].bbo
             /\ Informed(l) /\ lastID' # 0 /\ ~Overlaps(l) => Informed(l)'
  BY <1>1 DEF Recorded, ToldOf
<1>3. CallsType /\ [Next]_vars => CallsType'
  BY CallsStep
<1> QED BY InitCalls, <1>2, <1>3, PTL DEF Spec, TopOfBookTracked
-----------------------------------------------------------------------------
(***************************************************************************)
(* Alerts: what the daemon remembers of their firings.                     *)
(***************************************************************************)
Busy == {"listed", "notifying", "saving"}

RulesShape ==
  /\ memory \in [Alerts!Rules -> Nat] /\ lastFire \in [Alerts!Rules -> Nat] /\ clock \in Nat
  /\ DOMAIN file = Alerts!Rules
  /\ editor.phase = "writing" => DOMAIN editor.contents = Alerts!Rules
TickShape(t) ==
  /\ tick[t].phase \in Busy => DOMAIN tick[t].stamps \in (SUBSET Alerts!Rules) \ {{}}
  /\ tick[t].phase = "saving" => DOMAIN tick[t].read = Alerts!Rules
ReloadShape(l) ==
  Alerts!Listed(l) => reload[l] \in [phase : {"listed", "subscribing", "unsubscribing"}, rules : SUBSET Alerts!Rules]
AlertShape ==
  /\ RulesShape
  /\ DOMAIN tick = Alerts!Ticks /\ \A t \in Alerts!Ticks : TickShape(t)
  /\ DOMAIN reload = Alerts!Reloads /\ \A l \in Alerts!Reloads : ReloadShape(l)

\* What memory has is the last firing; what it does not have any more was
\* forgotten, or is from before a restart.  Then the file shows it, and so do
\* the evaluations under way, unless it was lost.
Remembered(r) ==
  /\ memory[r] # 0 => memory[r] = lastFire[r]
  /\ lastFire[r] # 0 /\ memory[r] = 0 => r \in forgotten \cup before
Filed(r) ==
  r \in before \ unsaved =>
    /\ lastFire[r] # 0 /\ file[r].stamp = lastFire[r]
    /\ \A t \in Alerts!Ticks :
         tick[t].phase \in Busy /\ r \in DOMAIN tick[t].stamps => tick[t].stamps[r] = lastFire[r]

LEMMA FirstRule ==
  ASSUME NEW S \in SUBSET Alerts!Rules, S # {}
  PROVE  Alerts!Min(S) \in S
<1>1. S \subseteq Nat
  BY MCPriceWatchersAssumption DEF Alerts!Rules
<1>2. PICK x \in S : \A y \in S : ~(<<y, x>> \in OpToRel(<, Nat))
  BY <1>1, NatLessThanWellFounded, WFMin
<1>3. ASSUME NEW y \in S PROVE x <= y
  <2>1. x \in Nat /\ y \in Nat /\ <<y, x>> \in Nat \X Nat
    BY <1>1
  <2>2. <<y, x>> \in OpToRel(<, Nat) <=> y < x
    BY <2>1 DEF OpToRel
  <2>3. ~(<<y, x>> \in OpToRel(<, Nat))
    BY <1>2, Zenon
  <2>4. ~(y < x)
    BY <2>2, <2>3
  <2> QED BY <2>1, <2>4
<1> QED BY <1>3 DEF Alerts!Min

LEMMA NextRule ==
  ASSUME AlertShape, NEW t \in Alerts!Ticks, tick[t].phase \in Busy
  PROVE  Alerts!At(t) \in DOMAIN tick[t].stamps /\ DOMAIN tick[t].stamps \subseteq Alerts!Rules
<1> DEFINE S == DOMAIN tick[t].stamps
<1>1. S \in (SUBSET Alerts!Rules) \ {{}}
  BY DEF AlertShape, TickShape
<1>2. Alerts!At(t) = Alerts!Min(S)
  BY DEF Alerts!At
<1> HIDE DEF S
<1>3. S \in SUBSET Alerts!Rules /\ S # {}
  BY <1>1
<1>4. Alerts!Min(S) \in S
  BY <1>3, FirstRule
<1> QED BY <1>2, <1>3, <1>4 DEF S

\* An evaluation that goes on keeps what it has listed of other rules.
LEMMA Advanced ==
  ASSUME AlertShape, NEW t \in Alerts!Ticks, tick[t].phase \in Busy, Alerts!Advance(t)
  PROVE  /\ DOMAIN tick' = Alerts!Ticks /\ \A u \in Alerts!Ticks \ {t} : tick'[u] = tick[u]
         /\ TickShape(t)'
         /\ tick'[t].phase \in Busy =>
              /\ DOMAIN tick'[t].stamps \subseteq DOMAIN tick[t].stamps
              /\ \A r \in DOMAIN tick'[t].stamps : tick'[t].stamps[r] = tick[t].stamps[r]
<1> DEFINE left == DOMAIN tick[t].stamps \ {Alerts!At(t)}
<1>1. DOMAIN tick = Alerts!Ticks /\ left \subseteq Alerts!Rules
  BY DEF AlertShape, TickShape
<1> HIDE DEF left
<1>2. tick' = [tick EXCEPT ![t] = IF left = {} THEN Alerts!Idle
                                  ELSE [phase |-> "listed", stamps |-> Alerts!Restrict(tick[t].stamps, left)]]
  BY DEF Alerts!Advance, Alerts!Tick, left
<1>3. DOMAIN tick' = Alerts!Ticks /\ \A u \in Alerts!Ticks \ {t} : tick'[u] = tick[u]
  BY <1>1, <1>2
<1>4. CASE left = {}
  <2>1. tick'[t].phase = "idle"
    BY <1>1, <1>2, <1>4 DEF Alerts!Idle
  <2> QED BY <1>3, <2>1 DEF TickShape, Busy
<1>5. CASE left # {}
  <2>1. tick'[t] = [phase |-> "listed", stamps |-> [r \in left |-> tick[t].stamps[r]]]
    BY <1>1, <1>2, <1>5 DEF Alerts!Restrict
  <2>2. /\ tick'[t].phase = "listed" /\ DOMAIN tick'[t].stamps = left
        /\ \A r \in left : tick'[t].stamps[r] = tick[t].stamps[r]
    BY <2>1
  <2>3. left \subseteq DOMAIN tick[t].stamps
    BY DEF left
  <2>4. TickShape(t)'
    <3>1. tick'[t].phase # "saving"
      BY <2>2
    <3>2. left \in (SUBSET Alerts!Rules) \ {{}}
      BY <1>1, <1>5
    <3>3. DOMAIN tick'[t].stamps \in (SUBSET Alerts!Rules) \ {{}}
      BY <2>2, <3>2
    <3> QED BY <3>1, <3>3 DEF TickShape
  <2> QED BY <1>3, <2>2, <2>3, <2>4
<1> QED BY <1>4, <1>5
LEMMA SetTick ==
  ASSUME AlertShape, NEW t \in Alerts!Ticks, NEW v, Alerts!Tick(t, v)
  PROVE  DOMAIN tick' = Alerts!Ticks /\ tick'[t] = v /\ \A u \in Alerts!Ticks \ {t} : tick'[u] = tick[u]
  BY DEF Alerts!Tick, AlertShape

LEMMA SetReload ==
  ASSUME AlertShape, NEW l \in Alerts!Reloads, NEW v, Alerts!Reload(l, v)
  PROVE  /\ DOMAIN reload' = Alerts!Reloads /\ reload'[l] = v
         /\ \A k \in Alerts!Reloads \ {l} : reload'[k] = reload[k]
  BY DEF Alerts!Reload, AlertShape

LEMMA TickStepShape ==
  ASSUME AlertShape, NEW t \in Alerts!Ticks, Alerts!TickStep(t)
  PROVE  AlertShape'
<1>0. RulesShape /\ reload' = reload /\ TickShape(t)
  BY DEF AlertShape, Alerts!TickStep, Alerts!OnPriceUpdate, Alerts!RulesListed, Alerts!Passes, Alerts!Fires,
         Alerts!Notified, Alerts!Saved
<1>a. ASSUME RulesShape', DOMAIN tick' = Alerts!Ticks, \A u \in Alerts!Ticks \ {t} : tick'[u] = tick[u],
             TickShape(t)'
      PROVE  AlertShape'
  <2>1. ASSUME NEW u \in Alerts!Ticks PROVE TickShape(u)'
    BY <1>a, <2>1 DEF AlertShape, TickShape
  <2>2. DOMAIN reload' = Alerts!Reloads /\ \A l \in Alerts!Reloads : ReloadShape(l)'
    BY <1>0 DEF AlertShape, ReloadShape, Alerts!Listed
  <2> QED BY <1>a, <2>1, <2>2 DEF AlertShape
<1>1. CASE Alerts!OnPriceUpdate(t)
  <2>1. RulesShape' /\ Alerts!Tick(t, [phase |-> "listing"])
    BY <1>0, <1>1 DEF Alerts!OnPriceUpdate, RulesShape, Alerts!daemonVars, Alerts!history
  <2>2. TickShape(t)'
    BY <2>1, SetTick DEF TickShape, Busy
  <2> QED BY <1>a, <2>1, <2>2, SetTick
<1>2. CASE Alerts!RulesListed(t)
  <2> DEFINE on == Alerts!Enabled(file)
             stamps == [r \in on |-> file[r].stamp]
  <2>1. RulesShape'
    BY <1>0, <1>2 DEF Alerts!RulesListed, RulesShape, Alerts!daemonVars, Alerts!history
  <2>2. Alerts!Tick(t, IF on = {} THEN Alerts!Idle ELSE [phase |-> "listed", stamps |-> stamps])
    BY <1>2 DEF Alerts!RulesListed
  <2>3. on \subseteq Alerts!Rules /\ DOMAIN stamps = on
    BY DEF Alerts!Enabled
  <2> HIDE DEF on, stamps
  <2>4. tick'[t] = IF on = {} THEN Alerts!Idle ELSE [phase |-> "listed", stamps |-> stamps]
    BY <2>2, SetTick
  <2>5. TickShape(t)'
    BY <2>3, <2>4 DEF TickShape, Busy, Alerts!Idle
  <2> QED BY <1>a, <2>1, <2>2, <2>5, SetTick
<1>3. CASE Alerts!Passes(t)
  <2>1. RulesShape' /\ tick[t].phase \in Busy /\ Alerts!Advance(t)
    BY <1>0, <1>3 DEF Alerts!Passes, RulesShape, Alerts!daemonVars, Alerts!history, Busy
  <2> QED BY <1>a, <2>1, Advanced
<1>4. CASE Alerts!Fires(t)
  <2>1. RulesShape'
    BY <1>0, <1>4 DEF Alerts!Fires, Alerts!Stamped, RulesShape
  <2>2. Alerts!Tick(t, [phase |-> "notifying", stamps |-> tick[t].stamps, firedAt |-> clock]) /\ tick[t].phase \in Busy
    BY <1>4 DEF Alerts!Fires, Busy
  <2>3. TickShape(t)'
    BY <1>0, <2>2, SetTick DEF TickShape, Busy
  <2> QED BY <1>a, <2>1, <2>2, <2>3, SetTick
<1>5. CASE Alerts!Notified(t)
  <2> DEFINE v == IF file[Alerts!At(t)].status = "deleted" THEN Alerts!Idle
                  ELSE [phase |-> "saving", stamps |-> tick[t].stamps, firedAt |-> tick[t].firedAt, read |-> file]
  <2>1. RulesShape' /\ Alerts!Tick(t, v) /\ tick[t].phase \in Busy
    BY <1>0, <1>5 DEF Alerts!Notified, RulesShape, Alerts!daemonVars, Alerts!history, Busy
  <2>2. tick'[t] = v
    BY <2>1, SetTick
  <2>3. TickShape(t)'
    BY <1>0, <2>1, <2>2 DEF TickShape, Busy, Alerts!Idle, RulesShape
  <2> HIDE DEF v
  <2> QED BY <1>a, <2>1, <2>3, SetTick
<1>6. CASE Alerts!Saved(t)
  <2>1. tick[t].phase = "saving" /\ tick[t].phase \in Busy /\ Alerts!Advance(t)
    BY <1>6 DEF Alerts!Saved, Busy
  <2>2. DOMAIN file' = Alerts!Rules
    BY <1>0, <1>6, <2>1 DEF Alerts!Saved, Alerts!Write, TickShape
  <2>3. RulesShape'
    BY <1>0, <1>6, <2>2 DEF Alerts!Saved, RulesShape, Alerts!daemonVars
  <2> QED BY <1>a, <2>1, <2>3, Advanced
<1> QED BY <1>1, <1>2, <1>3, <1>4, <1>5, <1>6 DEF Alerts!TickStep

LEMMA ReloadStepShape ==
  ASSUME AlertShape, NEW l \in Alerts!Reloads, Alerts!ReloadStep(l)
  PROVE  AlertShape'
<1>0. RulesShape /\ ReloadShape(l) /\ UNCHANGED <<file, clock, tick, editor, lastFire>>
  BY DEF AlertShape, Alerts!ReloadStep, Alerts!Lists, Alerts!Reconciles, Alerts!Subscribed, Alerts!Unsubscribed,
         Alerts!ReloadFails
<1>a. ASSUME NEW v, Alerts!Reload(l, v), ReloadShape(l)',
             memory' = memory \/ memory' \in [Alerts!Rules -> Nat]
      PROVE  AlertShape'
  <2>1. RulesShape'
    BY <1>0, <1>a DEF RulesShape
  <2>2. DOMAIN tick' = Alerts!Ticks /\ \A t \in Alerts!Ticks : TickShape(t)'
    BY <1>0 DEF AlertShape, TickShape
  <2>3. DOMAIN reload' = Alerts!Reloads /\ \A k \in Alerts!Reloads \ {l} : reload'[k] = reload[k]
    BY <1>a, SetReload
  <2>4. ASSUME NEW k \in Alerts!Reloads PROVE ReloadShape(k)'
    BY <1>a, <2>3 DEF AlertShape, ReloadShape, Alerts!Listed
  <2> QED BY <2>1, <2>2, <2>3, <2>4 DEF AlertShape
<1>b. ASSUME Alerts!ReloadEnds(l) PROVE AlertShape'
  <2>1. Alerts!Reload(l, Alerts!Idle)
    BY <1>b DEF Alerts!ReloadEnds
  <2>2. memory' \in [Alerts!Rules -> Nat]
    BY <1>0, <1>b DEF Alerts!ReloadEnds, RulesShape
  <2>3. ReloadShape(l)'
    BY <2>1, SetReload DEF ReloadShape, Alerts!Listed, Alerts!Idle
  <2> QED BY <1>a, <2>1, <2>2, <2>3
<1>1. CASE Alerts!Lists(l)
  <2>1. Alerts!Reload(l, [phase |-> "listed", rules |-> Alerts!Enabled(file)]) /\ memory' = memory
    BY <1>1 DEF Alerts!Lists, Alerts!daemonVars
  <2>2. Alerts!Enabled(file) \subseteq Alerts!Rules
    BY DEF Alerts!Enabled
  <2>3. ReloadShape(l)'
    BY <2>1, <2>2, SetReload DEF ReloadShape
  <2> QED BY <1>a, <2>1, <2>3
<1>2. CASE Alerts!Reconciles(l)
  <2>1. CASE Alerts!ReloadEnds(l)
    BY <1>b, <2>1
  <2>2. ASSUME NEW ph \in {"subscribing", "unsubscribing"},
               Alerts!Reload(l, [reload[l] EXCEPT !.phase = ph]), memory' = memory
        PROVE  AlertShape'
    <3>1. reload[l] \in [phase : {"listed", "subscribing", "unsubscribing"}, rules : SUBSET Alerts!Rules]
      BY <1>0, <1>2 DEF ReloadShape, Alerts!Listed, Alerts!Reconciles
    <3>2. [reload[l] EXCEPT !.phase = ph] \in [phase : {"listed", "subscribing", "unsubscribing"}, rules : SUBSET Alerts!Rules]
      BY <3>1
    <3>3. ReloadShape(l)'
      BY <2>2, <3>2, SetReload DEF ReloadShape
    <3> QED BY <1>a, <2>2, <3>3
  <2> QED BY <1>2, <2>1, <2>2 DEF Alerts!Reconciles
<1>3. CASE Alerts!Subscribed(l) \/ Alerts!Unsubscribed(l)
  BY <1>b, <1>3 DEF Alerts!Subscribed, Alerts!Unsubscribed
<1>4. CASE Alerts!ReloadFails(l)
  <2>1. Alerts!Reload(l, Alerts!Idle) /\ memory' = memory
    BY <1>4 DEF Alerts!ReloadFails, Alerts!daemonVars
  <2>2. ReloadShape(l)'
    BY <2>1, SetReload DEF ReloadShape, Alerts!Listed, Alerts!Idle
  <2> QED BY <1>a, <2>1, <2>2
<1> QED BY <1>1, <1>2, <1>3, <1>4 DEF Alerts!ReloadStep
LEMMA RestartTasks ==
  ASSUME tick' = [t \in Alerts!Ticks |-> Alerts!Idle], reload' = Alerts!Starting
  PROVE  /\ DOMAIN tick' = Alerts!Ticks /\ \A t \in Alerts!Ticks : tick'[t].phase = "idle"
         /\ DOMAIN reload' = Alerts!Reloads /\ reload'[1].phase = "requested"
         /\ \A l \in Alerts!Reloads : reload'[l].phase \in {"idle", "requested"}
  BY MCPriceWatchersAssumption DEF Alerts!Starting, Alerts!Reloads, Alerts!Idle

LEMMA AlertShapeStep == AlertShape /\ [Alerts!Next]_Alerts!vars => AlertShape'
<1> SUFFICES ASSUME AlertShape, [Alerts!Next]_Alerts!vars PROVE AlertShape'
  OBVIOUS
<1>0. RulesShape
  BY DEF AlertShape
<1>a. ASSUME RulesShape', UNCHANGED <<tick, reload>> PROVE AlertShape'
  <2>1. \A t \in Alerts!Ticks : TickShape(t)'
    BY <1>a DEF AlertShape, TickShape
  <2>2. \A l \in Alerts!Reloads : ReloadShape(l)'
    BY <1>a DEF AlertShape, ReloadShape, Alerts!Listed
  <2> QED BY <1>a, <2>1, <2>2 DEF AlertShape
<1>1. CASE Alerts!TimePasses
  <2>1. RulesShape'
    BY <1>0, <1>1 DEF Alerts!TimePasses, RulesShape, Alerts!daemonVars, Alerts!history
  <2> QED BY <1>1, <1>a, <2>1 DEF Alerts!TimePasses
<1>2. CASE Alerts!Announces \/ UNCHANGED Alerts!vars
  BY <1>0, <1>2, <1>a DEF Alerts!Announces, Alerts!vars, RulesShape, Alerts!daemonVars, Alerts!history
<1>3. ASSUME NEW r \in Alerts!Rules, NEW status, Alerts!Edits(r, status) PROVE AlertShape'
  <2>1. /\ UNCHANGED <<file, clock, memory, lastFire, tick, reload>>
        /\ editor' = [phase |-> "writing", contents |-> [file EXCEPT ![r].status = status]]
    BY <1>3 DEF Alerts!Edits, Alerts!daemonVars, Alerts!history
  <2>2. DOMAIN editor'.contents = DOMAIN file
    BY <2>1
  <2> QED BY <1>0, <1>a, <2>1, <2>2 DEF RulesShape
<1>4. CASE Alerts!EditWritten
  <2>1. /\ UNCHANGED <<clock, memory, lastFire, tick, reload>> /\ DOMAIN file' = Alerts!Rules
        /\ editor'.phase = "notifying"
    BY <1>0, <1>4 DEF Alerts!EditWritten, Alerts!Write, Alerts!daemonVars, RulesShape
  <2> QED BY <1>0, <1>a, <2>1 DEF RulesShape
<1>5. CASE Alerts!Notifies
  <2>1. UNCHANGED <<file, clock, memory, lastFire, tick>> /\ editor'.phase = "idle"
    BY <1>5 DEF Alerts!Notifies, Alerts!daemonVars, Alerts!Idle
  <2>2. RulesShape'
    BY <1>0, <2>1 DEF RulesShape
  <2>3. ASSUME NEW l \in Alerts!Reloads, Alerts!Reload(l, [phase |-> "requested"]) PROVE AlertShape'
    <3>1. ReloadShape(l)'
      BY <2>3, SetReload DEF ReloadShape, Alerts!Listed
    <3>2. DOMAIN reload' = Alerts!Reloads /\ \A k \in Alerts!Reloads \ {l} : reload'[k] = reload[k]
      BY <2>3, SetReload
    <3>3. ASSUME NEW k \in Alerts!Reloads PROVE ReloadShape(k)'
      BY <3>1, <3>2 DEF AlertShape, ReloadShape, Alerts!Listed
    <3>4. \A t \in Alerts!Ticks : TickShape(t)'
      BY <2>1 DEF AlertShape, TickShape
    <3> QED BY <2>1, <2>2, <3>2, <3>3, <3>4 DEF AlertShape
  <2> QED BY <1>5, <1>a, <2>1, <2>2, <2>3 DEF Alerts!Notifies
<1>6. CASE Alerts!Restart
  <2>1. UNCHANGED <<file, clock, lastFire, editor>> /\ memory' = Alerts!None
    BY <1>6 DEF Alerts!Restart
  <2>2. RulesShape'
    BY <1>0, <2>1 DEF RulesShape, Alerts!None
  <2>3. /\ DOMAIN tick' = Alerts!Ticks /\ \A t \in Alerts!Ticks : tick'[t].phase = "idle"
        /\ DOMAIN reload' = Alerts!Reloads
        /\ \A l \in Alerts!Reloads : reload'[l].phase \in {"idle", "requested"}
    BY <1>6, RestartTasks DEF Alerts!Restart
  <2>4. \A t \in Alerts!Ticks : TickShape(t)'
    BY <2>3 DEF TickShape, Busy
  <2>5. \A l \in Alerts!Reloads : ReloadShape(l)'
    BY <2>3 DEF ReloadShape, Alerts!Listed
  <2> QED BY <2>2, <2>3, <2>4, <2>5 DEF AlertShape
<1> QED BY <1>1, <1>2, <1>3, <1>4, <1>5, <1>6, TickStepShape, ReloadStepShape DEF Alerts!Next

\* A write: a last firing that was in the file and is no more is unsaved.
LEMMA Written ==
  ASSUME NEW contents, Alerts!Write(contents), NEW r \in Alerts!Rules, Filed(r),
         r \notin unsaved', r \in before
  PROVE  r \notin unsaved /\ file'[r].stamp = lastFire[r] /\ lastFire[r] # 0
  BY DEF Alerts!Write, Filed

MemoryInv == \A r \in Alerts!Rules : Remembered(r) /\ Filed(r)

LEMMA MemoryTick ==
  ASSUME AlertShape, MemoryInv, NEW t \in Alerts!Ticks, Alerts!TickStep(t), NEW r \in Alerts!Rules
  PROVE  Remembered(r)' /\ Filed(r)'
<1>0. RulesShape /\ Remembered(r) /\ Filed(r)
  BY DEF AlertShape, MemoryInv
\* The evaluation lists no other stamp of r, and nothing else happens to r.
<1>a. ASSUME memory'[r] = memory[r], lastFire'[r] = lastFire[r], UNCHANGED <<forgotten, before>>,
             r \in before \ unsaved' => r \notin unsaved /\ file'[r].stamp = lastFire[r],
             \A u \in Alerts!Ticks \ {t} : tick'[u] = tick[u],
             r \in before \ unsaved /\ tick'[t].phase \in Busy /\ r \in DOMAIN tick'[t].stamps
               => tick'[t].stamps[r] = lastFire[r]
      PROVE  Remembered(r)' /\ Filed(r)'
  <2>1. Remembered(r)'
    BY <1>0, <1>a DEF Remembered
  <2>2. Filed(r)'
    BY <1>0, <1>a DEF Filed
  <2> QED BY <2>1, <2>2
<1>1. CASE Alerts!OnPriceUpdate(t)
  <2>1. Alerts!Tick(t, [phase |-> "listing"]) /\ UNCHANGED <<memory, lastFire, forgotten, before, unsaved, file>>
    BY <1>1 DEF Alerts!OnPriceUpdate, Alerts!daemonVars, Alerts!history
  <2>2. tick'[t].phase \notin Busy /\ \A u \in Alerts!Ticks \ {t} : tick'[u] = tick[u]
    BY <2>1, SetTick DEF Busy
  <2> QED BY <1>0, <1>a, <2>1, <2>2 DEF Filed
<1>2. CASE Alerts!RulesListed(t)
  <2> DEFINE on == Alerts!Enabled(file)
             stamps == [q \in on |-> file[q].stamp]
  <2>1. UNCHANGED <<memory, lastFire, forgotten, before, unsaved, file>>
    BY <1>2 DEF Alerts!RulesListed, Alerts!daemonVars, Alerts!history
  <2>2. Alerts!Tick(t, IF on = {} THEN Alerts!Idle ELSE [phase |-> "listed", stamps |-> stamps])
    BY <1>2 DEF Alerts!RulesListed
  <2>3. DOMAIN stamps = on /\ \A q \in on : stamps[q] = file[q].stamp
    OBVIOUS
  <2> HIDE DEF on, stamps
  <2>4. tick'[t] = (IF on = {} THEN Alerts!Idle ELSE [phase |-> "listed", stamps |-> stamps])
        /\ \A u \in Alerts!Ticks \ {t} : tick'[u] = tick[u]
    BY <2>2, SetTick
  <2>5. tick'[t].phase \in Busy => tick'[t].stamps = stamps
    BY <2>4 DEF Busy, Alerts!Idle
  <2> QED BY <1>0, <1>a, <2>1, <2>3, <2>4, <2>5 DEF Filed
<1>3. CASE Alerts!Passes(t)
  <2>1. /\ tick[t].phase \in Busy /\ Alerts!Advance(t)
        /\ UNCHANGED <<memory, lastFire, forgotten, before, unsaved, file>>
    BY <1>3 DEF Alerts!Passes, Alerts!daemonVars, Alerts!history, Busy
  <2> QED BY <1>0, <1>a, <2>1, Advanced DEF Filed
<1>4. CASE Alerts!Fires(t)
  <2> DEFINE q == Alerts!At(t)
  <2>1. /\ memory' = [memory EXCEPT ![q] = clock] /\ lastFire' = [lastFire EXCEPT ![q] = clock]
        /\ forgotten' = forgotten \ {q} /\ before' = before \ {q} /\ unsaved' = unsaved \ {q}
        /\ file' = file /\ tick[t].phase \in Busy
        /\ Alerts!Tick(t, [phase |-> "notifying", stamps |-> tick[t].stamps, firedAt |-> clock])
    BY <1>4 DEF Alerts!Fires, Alerts!Stamped, Busy
  <2> HIDE DEF q
  <2>2. tick'[t].stamps = tick[t].stamps /\ \A u \in Alerts!Ticks \ {t} : tick'[u] = tick[u]
    BY <2>1, SetTick
  <2>3. CASE r = q
    <3>1. memory'[r] = clock /\ lastFire'[r] = clock /\ r \notin before'
      BY <1>0, <2>1, <2>3 DEF RulesShape
    <3>2. Remembered(r)'
      BY <3>1 DEF Remembered
    <3>3. Filed(r)'
      BY <3>1 DEF Filed
    <3> QED BY <3>2, <3>3
  <2>4. CASE r # q
    <3>1. memory'[r] = memory[r] /\ lastFire'[r] = lastFire[r]
      BY <1>0, <2>1, <2>4 DEF RulesShape
    <3>2. /\ r \in forgotten' <=> r \in forgotten
          /\ r \in before' <=> r \in before
          /\ r \in unsaved' <=> r \in unsaved
      BY <2>1, <2>4
    <3>3. Remembered(r)'
      BY <1>0, <3>1, <3>2 DEF Remembered
    <3>4. Filed(r)'
      BY <1>0, <2>1, <2>2, <3>1, <3>2 DEF Filed
    <3> QED BY <3>3, <3>4
  <2> QED BY <2>3, <2>4
<1>5. CASE Alerts!Notified(t)
  <2> DEFINE v == IF file[Alerts!At(t)].status = "deleted" THEN Alerts!Idle
                  ELSE [phase |-> "saving", stamps |-> tick[t].stamps, firedAt |-> tick[t].firedAt, read |-> file]
  <2>1. /\ Alerts!Tick(t, v) /\ tick[t].phase \in Busy
        /\ UNCHANGED <<memory, lastFire, forgotten, before, unsaved, file>>
    BY <1>5 DEF Alerts!Notified, Alerts!daemonVars, Alerts!history, Busy
  <2>2. tick'[t] = v
    BY <2>1, SetTick
  <2>3. tick'[t].phase \in Busy => tick'[t].stamps = tick[t].stamps
    BY <2>2 DEF Busy, Alerts!Idle
  <2> HIDE DEF v
  <2>4. \A u \in Alerts!Ticks \ {t} : tick'[u] = tick[u]
    BY <2>1, SetTick
  <2> QED BY <1>0, <1>a, <2>1, <2>3, <2>4 DEF Filed
<1>6. CASE Alerts!Saved(t)
  <2>1. /\ tick[t].phase \in Busy /\ Alerts!Advance(t)
        /\ UNCHANGED <<memory, lastFire, forgotten, before>>
        /\ \E contents : Alerts!Write(contents)
    BY <1>6 DEF Alerts!Saved, Alerts!daemonVars, Busy
  <2>2. r \in before \ unsaved' => r \notin unsaved /\ file'[r].stamp = lastFire[r]
    BY <1>0, <2>1, Written
  <2>3. /\ \A u \in Alerts!Ticks \ {t} : tick'[u] = tick[u]
        /\ tick'[t].phase \in Busy /\ r \in DOMAIN tick'[t].stamps
             => r \in DOMAIN tick[t].stamps /\ tick'[t].stamps[r] = tick[t].stamps[r]
    BY <2>1, Advanced
  <2> QED BY <1>0, <1>a, <2>1, <2>2, <2>3 DEF Filed
<1> QED BY <1>1, <1>2, <1>3, <1>4, <1>5, <1>6 DEF Alerts!TickStep
LEMMA MemoryReload ==
  ASSUME AlertShape, MemoryInv, NEW l \in Alerts!Reloads, Alerts!ReloadStep(l), NEW r \in Alerts!Rules
  PROVE  Remembered(r)' /\ Filed(r)'
<1>0. RulesShape /\ Remembered(r) /\ Filed(r) /\ UNCHANGED <<file, lastFire, before, unsaved, tick>>
  BY DEF AlertShape, MemoryInv, Alerts!ReloadStep, Alerts!Lists, Alerts!Reconciles, Alerts!Subscribed,
         Alerts!Unsubscribed, Alerts!ReloadFails
<1>1. Filed(r)'
  BY <1>0 DEF Filed
<1>2. CASE UNCHANGED <<memory, forgotten>>
  BY <1>0, <1>1, <1>2 DEF Remembered
<1>3. CASE Alerts!ReloadEnds(l)
  <2>1. /\ memory'[r] = IF r \in reload[l].rules THEN memory[r] ELSE 0
        /\ forgotten \subseteq forgotten'
        /\ r \notin reload[l].rules /\ memory[r] # 0 => r \in forgotten'
    BY <1>3 DEF Alerts!ReloadEnds
  <2>2. Remembered(r)'
    BY <1>0, <2>1 DEF Remembered
  <2> QED BY <1>1, <2>2
<1> QED BY <1>2, <1>3 DEF Alerts!ReloadStep, Alerts!Lists, Alerts!Reconciles, Alerts!Subscribed, Alerts!Unsubscribed,
                          Alerts!ReloadFails, Alerts!daemonVars

LEMMA MemoryStep == AlertShape /\ MemoryInv /\ [Alerts!Next]_Alerts!vars => MemoryInv'
<1> SUFFICES ASSUME AlertShape, MemoryInv, [Alerts!Next]_Alerts!vars, NEW r \in Alerts!Rules
             PROVE  Remembered(r)' /\ Filed(r)'
  BY DEF MemoryInv
<1>0. RulesShape /\ Remembered(r) /\ Filed(r)
  BY DEF AlertShape, MemoryInv
<1>a. ASSUME UNCHANGED <<memory, lastFire, forgotten, before, tick>>,
             r \in before \ unsaved' => r \notin unsaved /\ file'[r].stamp = lastFire[r]
      PROVE  Remembered(r)' /\ Filed(r)'
  <2>1. Remembered(r)'
    BY <1>0, <1>a DEF Remembered
  <2>2. Filed(r)'
    BY <1>0, <1>a DEF Filed
  <2> QED BY <2>1, <2>2
<1>1. ASSUME UNCHANGED <<memory, lastFire, forgotten, before, tick, unsaved, file>>
      PROVE  Remembered(r)' /\ Filed(r)'
  BY <1>0, <1>1, <1>a DEF Filed
<1>2. CASE \/ Alerts!TimePasses \/ Alerts!Announces \/ Alerts!Notifies \/ UNCHANGED Alerts!vars
           \/ \E q \in Alerts!Rules, status \in {"on", "off", "deleted"} : Alerts!Edits(q, status)
  BY <1>1, <1>2 DEF Alerts!TimePasses, Alerts!Announces, Alerts!Notifies, Alerts!Edits, Alerts!vars,
                    Alerts!daemonVars, Alerts!history
<1>3. CASE Alerts!EditWritten
  <2>1. UNCHANGED <<memory, lastFire, forgotten, before, tick>> /\ \E contents : Alerts!Write(contents)
    BY <1>3 DEF Alerts!EditWritten, Alerts!daemonVars
  <2> QED BY <1>0, <1>a, <2>1, Written
<1>4. CASE Alerts!Restart
  <2>1. /\ UNCHANGED <<file, lastFire>> /\ before' = {q \in Alerts!Rules : lastFire[q] # 0}
        /\ unsaved' = unsaved \cup {q \in before' : file[q].stamp # lastFire[q]}
        /\ memory'[r] = 0
    BY <1>4 DEF Alerts!Restart, Alerts!None
  <2>2. \A t \in Alerts!Ticks : tick'[t].phase = "idle"
    BY <1>4, RestartTasks DEF Alerts!Restart
  <2>3. Remembered(r)'
    BY <2>1 DEF Remembered
  <2>4. Filed(r)'
    BY <2>1, <2>2 DEF Filed, Busy
  <2> QED BY <2>3, <2>4
<1> QED BY <1>2, <1>3, <1>4, MemoryTick, MemoryReload DEF Alerts!Next

LEMMA InitAlerts == Alerts!Init => AlertShape /\ MemoryInv
<1> SUFFICES ASSUME Alerts!Init PROVE AlertShape /\ MemoryInv
  OBVIOUS
<1>1. /\ memory = Alerts!None /\ lastFire = Alerts!None /\ clock = 1 /\ DOMAIN file = Alerts!Rules
      /\ editor.phase = "idle" /\ before = {}
      /\ DOMAIN tick = Alerts!Ticks /\ \A t \in Alerts!Ticks : tick[t].phase = "idle"
      /\ reload = Alerts!Starting
  BY DEF Alerts!Init, Alerts!Idle
<1>2. DOMAIN reload = Alerts!Reloads /\ \A l \in Alerts!Reloads : reload[l].phase \in {"idle", "requested"}
  BY <1>1 DEF Alerts!Starting, Alerts!Idle
<1>3. RulesShape
  BY <1>1 DEF RulesShape, Alerts!None
<1>4. \A t \in Alerts!Ticks : TickShape(t)
  BY <1>1 DEF TickShape, Busy
<1>5. \A l \in Alerts!Reloads : ReloadShape(l)
  BY <1>2 DEF ReloadShape, Alerts!Listed
<1>6. \A r \in Alerts!Rules : Remembered(r) /\ Filed(r)
  BY <1>1 DEF Remembered, Filed, Alerts!None
<1> QED BY <1>1, <1>2, <1>3, <1>4, <1>5, <1>6 DEF AlertShape, MemoryInv

\* Only Fires takes an evaluation from listing to notifying.
LEMMA FiringStep ==
  ASSUME AlertShape, [Alerts!Next]_Alerts!vars, NEW t \in Alerts!Ticks, Alerts!FiresNow(t)
  PROVE  Alerts!Fires(t)
<1>0. tick[t].phase = "listed" /\ tick'[t].phase = "notifying"
  BY DEF Alerts!FiresNow
<1>1. ASSUME NEW u \in Alerts!Ticks, Alerts!TickStep(u) PROVE Alerts!Fires(t)
  <2>1. CASE Alerts!Passes(u)
    <3>1. /\ tick[u].phase \in Busy /\ Alerts!Advance(u)
      BY <2>1 DEF Alerts!Passes, Busy
    <3>2. u = t
      BY <1>0, <3>1, Advanced
    <3>3. DOMAIN tick = Alerts!Ticks
      BY DEF AlertShape
    <3>4. tick'[t].phase \in {"idle", "listed"}
      BY <3>1, <3>2, <3>3 DEF Alerts!Advance, Alerts!Tick, Alerts!Idle
    <3> QED BY <1>0, <3>4
  <2>2. CASE Alerts!Fires(u)
    <3>1. u = t
      BY <1>0, <2>2, SetTick DEF Alerts!Fires
    <3> QED BY <2>2, <3>1
  <2>3. CASE Alerts!OnPriceUpdate(u)
    <3>1. u = t /\ tick[u] = Alerts!Idle
      BY <1>0, <2>3, SetTick DEF Alerts!OnPriceUpdate, Alerts!FirstIdle
    <3> QED BY <1>0, <3>1 DEF Alerts!Idle
  <2>4. CASE Alerts!RulesListed(u) \/ Alerts!Notified(u)
    <3>1. u = t
      BY <1>0, <2>4, SetTick DEF Alerts!RulesListed, Alerts!Notified
    <3> QED BY <1>0, <2>4, <3>1 DEF Alerts!RulesListed, Alerts!Notified
  <2>5. CASE Alerts!Saved(u)
    <3>1. tick[u].phase = "saving" /\ tick[u].phase \in Busy /\ Alerts!Advance(u)
      BY <2>5 DEF Alerts!Saved, Busy
    <3>2. u = t
      BY <1>0, <3>1, Advanced
    <3> QED BY <1>0, <3>1, <3>2
  <2> QED BY <1>1, <2>1, <2>2, <2>3, <2>4, <2>5 DEF Alerts!TickStep
<1>2. CASE Alerts!Restart
  <2>1. tick'[t].phase = "idle"
    BY <1>2, RestartTasks DEF Alerts!Restart
  <2> QED BY <1>0, <2>1
<1>3. CASE UNCHANGED tick
  BY <1>0, <1>3
<1> QED BY <1>1, <1>2, <1>3 DEF Alerts!Next, Alerts!vars, Alerts!TimePasses, Alerts!Announces, Alerts!Notifies,
        Alerts!Edits, Alerts!EditWritten, Alerts!ReloadStep, Alerts!Lists, Alerts!Reconciles, Alerts!Subscribed,
        Alerts!Unsubscribed, Alerts!ReloadFails

LEMMA FiringIsDue ==
  ASSUME AlertShape, MemoryInv, NEW t \in Alerts!Ticks, Alerts!Fires(t)
  PROVE  LET r == Alerts!At(t) IN
         Alerts!Due(r) \/ r \in forgotten \/ (r \in before /\ r \in unsaved)
<1> DEFINE r == Alerts!At(t)
           listed == tick[t].stamps[r]
<1>1. tick[t].phase \in Busy /\ ~Alerts!CoolingDown(r, listed)
  BY DEF Alerts!Fires, Busy
<1>2. r \in DOMAIN tick[t].stamps /\ r \in Alerts!Rules
  BY <1>1, NextRule
<1>3. r \in before \ unsaved => listed = lastFire[r] /\ lastFire[r] # 0
  BY <1>1, <1>2 DEF MemoryInv, Filed
<1>4. Remembered(r)
  BY <1>2 DEF MemoryInv
<1>5. memory[r] \in Nat /\ lastFire[r] \in Nat /\ clock \in Nat /\ Cooldown \in Nat
  BY <1>2, MCPriceWatchersAssumption DEF AlertShape, RulesShape
<1> HIDE DEF r, listed
<1>6. \/ lastFire[r] = 0 \/ r \in forgotten \/ (r \in before /\ r \in unsaved)
      \/ (IF memory[r] # 0 THEN memory[r] ELSE listed) = lastFire[r]
  BY <1>3, <1>4 DEF Remembered
<1>7. ASSUME (IF memory[r] # 0 THEN memory[r] ELSE listed) = lastFire[r], lastFire[r] # 0 PROVE Alerts!Due(r)
  BY <1>1, <1>5, <1>7 DEF Alerts!CoolingDown, Alerts!Due
<1> QED BY <1>6, <1>7 DEF Alerts!Due, r

\* However evaluations overlap with each other, with reloads, restarts and writes
\* of the file: an alert does not fire within its cooldown, nor a one-shot alert
\* again, unless the daemon was made to forget it and the file does not show it.
THEOREM CooldownsAreKept == WatchSpec => CooldownHolds
<1>1. WatchInit => AlertShape /\ MemoryInv
  BY InitAlerts DEF WatchInit
<1>2. UNCHANGED alertVars => UNCHANGED Alerts!vars
  BY DEF alertVars, Alerts!vars, Alerts!daemonVars, Alerts!history, Alerts!bounds
<1>3. [WatchNext]_<<vars, alertVars, layer>> => [Alerts!Next]_Alerts!vars
  BY <1>2 DEF WatchNext
<1>4. AlertShape /\ MemoryInv /\ [WatchNext]_<<vars, alertVars, layer>> => (AlertShape /\ MemoryInv)'
  BY <1>3, AlertShapeStep, MemoryStep
<1>5. AlertShape /\ MemoryInv /\ [WatchNext]_<<vars, alertVars, layer>>
        => [\A t \in Alerts!Ticks : Alerts!FiresNow(t) =>
              LET r == Alerts!At(t) IN
              Alerts!Due(r) \/ r \in forgotten \/ (r \in before /\ r \in unsaved)]_Alerts!vars
  BY <1>3, FiringStep, FiringIsDue
<1> QED BY <1>1, <1>4, <1>5, PTL DEF WatchSpec, CooldownHolds, Alerts!CooldownHolds
-----------------------------------------------------------------------------
(***************************************************************************)
(* Alerts: what the daemon watches.                                        *)
(***************************************************************************)
ListenerInv ==
  /\ subscribed \in BOOLEAN /\ handle \in BOOLEAN /\ listeners \in Nat
  /\ handle => listeners > 0
  /\ subscribed => handle

\* A reload subscribes if it found rules, and unsubscribes if it found none.
RequestOk(l) ==
  /\ reload[l].phase = "subscribing" => reload[l].rules # {}
  /\ reload[l].phase = "unsubscribing" => reload[l].rules = {}

\* Another reload is due.
ReloadPending == editor.phase = "notifying" \/ \E l \in Alerts!Reloads : reload[l].phase = "requested"

Agree == \A k, l \in Alerts!Reloads : Alerts!Listed(k) /\ Alerts!Listed(l) => reload[k].rules = reload[l].rules
Covered == \A l \in Alerts!Reloads : Alerts!Listed(l) => Alerts!Enabled(file) \subseteq reload[l].rules
Followed == Alerts!Enabled(file) # {} => subscribed \/ \E l \in Alerts!Reloads : Alerts!Listed(l)
WatchInv ==
  /\ ListenerInv /\ \A l \in Alerts!Reloads : RequestOk(l)
  /\ hazards = {} => Agree /\ (ReloadPending \/ (Covered /\ Followed))

\* A step that leaves the reloads alone and enables no rule, or leaves one due.
LEMMA ReloadsAlone ==
  ASSUME WatchInv, UNCHANGED <<subscribed, handle, listeners, reload>>, hazards' = {} => hazards = {},
         \/ hazards' # {} \/ ReloadPending'
         \/ (ReloadPending => ReloadPending') /\ Alerts!Enabled(file') \subseteq Alerts!Enabled(file)
  PROVE  WatchInv'
<1>1. ListenerInv' /\ \A l \in Alerts!Reloads : RequestOk(l)'
  BY DEF WatchInv, ListenerInv, RequestOk
<1>2. \A l \in Alerts!Reloads : Alerts!Listed(l)' <=> Alerts!Listed(l)
  BY DEF Alerts!Listed
<1>3. hazards' = {} => Agree'
  BY <1>2 DEF WatchInv, Agree
<1>4. Alerts!Enabled(file)' = Alerts!Enabled(file')
  BY DEF Alerts!Enabled
<1>5. ASSUME hazards' = {}, ~ReloadPending' PROVE Covered' /\ Followed'
  <2>1. Covered /\ Followed /\ Alerts!Enabled(file') \subseteq Alerts!Enabled(file)
    BY <1>5 DEF WatchInv
  <2>2. Covered'
    BY <1>2, <1>4, <2>1 DEF Covered
  <2>3. Followed'
    BY <1>2, <1>4, <2>1 DEF Followed
  <2> QED BY <2>2, <2>3
<1> QED BY <1>1, <1>3, <1>5 DEF WatchInv

LEMMA SavedEnables ==
  ASSUME AlertShape, NEW t \in Alerts!Ticks, Alerts!Saved(t), hazards' = {}
  PROVE  Alerts!Enabled(file') \subseteq Alerts!Enabled(file)
<1> DEFINE r == Alerts!At(t)
           read == tick[t].read
           changed == \E q \in Alerts!Rules : read[q].status # file[q].status
           status == IF r \in OneShots THEN "off" ELSE read[r].status
<1>1. /\ tick[t].phase = "saving"
      /\ file' = [read EXCEPT ![r] = [status |-> status, stamp |-> tick[t].firedAt]]
      /\ hazards' = hazards \cup (IF changed THEN {"undone"} ELSE {})
  BY DEF Alerts!Saved, Alerts!Write
<1>2. ~changed
  <2> HIDE DEF changed
  <2> QED BY <1>1
<1>3. DOMAIN read = Alerts!Rules
  BY <1>1 DEF AlertShape, TickShape
<1> HIDE DEF r, read
<1>4. ASSUME NEW q \in Alerts!Rules, file'[q].status = "on" PROVE file[q].status = "on"
  <2>1. file'[q].status = IF q = r THEN status ELSE read[q].status
    BY <1>1, <1>3
  <2>2. read[q].status = file[q].status
    BY <1>2
  <2> QED BY <1>4, <2>1, <2>2
<1> QED BY <1>4 DEF Alerts!Enabled

\* A reload that ends without having failed has left the subscription as the rules
\* it found demand.
LEMMA ReloadOver ==
  ASSUME AlertShape, WatchInv, NEW l \in Alerts!Reloads, Alerts!Listed(l), Alerts!Reload(l, Alerts!Idle),
         ListenerInv', UNCHANGED <<file, editor, hazards>>,
         reload[l].rules # {} => subscribed'
  PROVE  WatchInv'
<1>1. /\ reload'[l].phase = "idle" /\ \A k \in Alerts!Reloads \ {l} : reload'[k] = reload[k]
  BY SetReload DEF Alerts!Idle
<1>2. \A k \in Alerts!Reloads : RequestOk(k)'
  BY <1>1 DEF WatchInv, RequestOk
<1>3. /\ \A k \in Alerts!Reloads : Alerts!Listed(k)' <=> k # l /\ Alerts!Listed(k)
  BY <1>1 DEF Alerts!Listed
<1>4. Agree => Agree'
  BY <1>1, <1>3 DEF Agree
<1>5. ReloadPending => ReloadPending'
  <2>1. reload[l].phase # "requested"
    BY DEF Alerts!Listed
  <2> QED BY <1>1, <2>1 DEF ReloadPending
<1>6. Alerts!Enabled(file)' = Alerts!Enabled(file)
  BY DEF Alerts!Enabled
<1>7. Covered => Covered'
  BY <1>1, <1>3, <1>6 DEF Covered
<1>8. Covered => Followed'
  BY <1>6 DEF Covered, Followed
<1> QED BY <1>2, <1>4, <1>5, <1>7, <1>8 DEF WatchInv

LEMMA WatchReload ==
  ASSUME AlertShape, WatchInv, NEW l \in Alerts!Reloads, Alerts!ReloadStep(l)
  PROVE  WatchInv'
<1>0. ListenerInv /\ RequestOk(l) /\ UNCHANGED <<file, editor>>
  BY DEF WatchInv, Alerts!ReloadStep, Alerts!Lists, Alerts!Reconciles, Alerts!Subscribed,
         Alerts!Unsubscribed, Alerts!ReloadFails
<1>1. CASE Alerts!Lists(l)
  <2> DEFINE on == Alerts!Enabled(file)
             overlap == \E k \in Alerts!Reloads : Alerts!Listed(k) /\ reload[k].rules # on
  <2>1. /\ reload[l].phase = "requested" /\ UNCHANGED <<subscribed, handle, listeners, memory>>
        /\ Alerts!Reload(l, [phase |-> "listed", rules |-> on])
        /\ hazards' = hazards \cup (IF overlap THEN {"overlap"} ELSE {})
    BY <1>1 DEF Alerts!Lists, Alerts!daemonVars
  <2>2. reload'[l].phase = "listed" /\ reload'[l].rules = on /\ \A k \in Alerts!Reloads \ {l} : reload'[k] = reload[k]
    BY <2>1, SetReload
  <2>3. hazards' = {} => hazards = {} /\ ~overlap
    <3> HIDE DEF overlap
    <3> QED BY <2>1
  <2>4. Alerts!Enabled(file)' = on
    BY <1>0 DEF Alerts!Enabled
  <2>5. Alerts!Listed(l)' /\ \A k \in Alerts!Reloads \ {l} : Alerts!Listed(k)' <=> Alerts!Listed(k)
    BY <2>2 DEF Alerts!Listed
  <2>6. ~overlap => \A k \in Alerts!Reloads : Alerts!Listed(k)' => reload'[k].rules = on
    BY <2>2, <2>5
  <2>7. ~overlap => Agree' /\ Covered' /\ Followed'
    <3> HIDE DEF overlap, on
    <3> QED BY <2>4, <2>5, <2>6 DEF Agree, Covered, Followed
  <2>8. ListenerInv' /\ \A k \in Alerts!Reloads : RequestOk(k)'
    BY <2>1, <2>2 DEF WatchInv, ListenerInv, RequestOk
  <2> HIDE DEF overlap
  <2> QED BY <2>3, <2>7, <2>8 DEF WatchInv
<1>2. CASE Alerts!Reconciles(l)
  <2>1. Alerts!Listed(l) /\ UNCHANGED <<subscribed, handle, listeners, hazards>>
    BY <1>2 DEF Alerts!Reconciles, Alerts!Listed
  <2>2. ListenerInv'
    BY <1>0, <2>1 DEF ListenerInv
  <2>3. CASE subscribed = (reload[l].rules # {})
    <3>1. Alerts!Reload(l, Alerts!Idle)
      BY <1>2, <2>3 DEF Alerts!Reconciles, Alerts!ReloadEnds
    <3>2. reload[l].rules # {} => subscribed'
      BY <2>1, <2>3
    <3> QED BY <1>0, <2>1, <2>2, <3>1, <3>2, ReloadOver
  <2>4. CASE subscribed # (reload[l].rules # {})
    <3> DEFINE ph == IF subscribed THEN "unsubscribing" ELSE "subscribing"
    <3>1. Alerts!Reload(l, [reload[l] EXCEPT !.phase = ph])
      BY <1>2, <2>4 DEF Alerts!Reconciles
    <3>2. reload[l] \in [phase : {"listed", "subscribing", "unsubscribing"}, rules : SUBSET Alerts!Rules]
      BY <2>1 DEF AlertShape, ReloadShape
    <3>3. reload'[l] = [reload[l] EXCEPT !.phase = ph] /\ \A k \in Alerts!Reloads \ {l} : reload'[k] = reload[k]
      BY <3>1, SetReload
    <3>4. reload'[l].phase = ph /\ reload'[l].rules = reload[l].rules
      BY <3>2, <3>3
    <3>5. \A k \in Alerts!Reloads : /\ Alerts!Listed(k)' <=> Alerts!Listed(k)
                                    /\ Alerts!Listed(k) => reload'[k].rules = reload[k].rules
                                    /\ reload'[k].phase = "requested" <=> reload[k].phase = "requested"
      BY <2>1, <3>3, <3>4 DEF Alerts!Listed
    <3>6. subscribed <=> reload[l].rules = {}
      BY <1>0, <2>4 DEF ListenerInv
    <3>7. RequestOk(l)'
      BY <3>4, <3>6 DEF RequestOk
    <3>8. \A k \in Alerts!Reloads : RequestOk(k)'
      BY <3>3, <3>7 DEF WatchInv, RequestOk
    <3>9. Agree => Agree'
      BY <3>5 DEF Agree
    <3>10. ReloadPending => ReloadPending'
      BY <1>0, <3>5 DEF ReloadPending
    <3>11. Alerts!Enabled(file)' = Alerts!Enabled(file)
      BY <1>0 DEF Alerts!Enabled
    <3>12. Covered /\ Followed => Covered' /\ Followed'
      BY <2>1, <3>5, <3>11 DEF Covered, Followed
    <3> QED BY <2>1, <2>2, <3>8, <3>9, <3>10, <3>12 DEF WatchInv
  <2> QED BY <2>3, <2>4
<1>3. CASE Alerts!Subscribed(l)
  <2>1. /\ Alerts!Listed(l) /\ Alerts!Reload(l, Alerts!Idle) /\ hazards' = hazards
        /\ listeners' = listeners + 1 /\ handle' = TRUE /\ subscribed' = TRUE
    BY <1>3 DEF Alerts!Subscribed, Alerts!Listed, Alerts!ReloadEnds
  <2>2. ListenerInv'
    BY <1>0, <2>1 DEF ListenerInv
  <2> QED BY <1>0, <2>1, <2>2, ReloadOver
<1>4. CASE Alerts!Unsubscribed(l)
  <2>1. /\ Alerts!Listed(l) /\ Alerts!Reload(l, Alerts!Idle) /\ hazards' = hazards /\ reload[l].rules = {}
        /\ listeners' = (IF handle THEN listeners - 1 ELSE listeners) /\ handle' = FALSE /\ subscribed' = FALSE
    BY <1>0, <1>4 DEF Alerts!Unsubscribed, Alerts!Listed, Alerts!ReloadEnds, Alerts!Removed, RequestOk
  <2>2. listeners' \in Nat
    <3>1. listeners \in Nat /\ (handle => listeners > 0)
      BY <1>0 DEF ListenerInv
    <3>2. CASE handle
      BY <2>1, <3>1, <3>2
    <3>3. CASE ~handle
      BY <2>1, <3>1, <3>3
    <3> QED BY <3>2, <3>3
  <2>3. ListenerInv'
    BY <2>1, <2>2 DEF ListenerInv
  <2> QED BY <1>0, <2>1, <2>3, ReloadOver
<1>5. CASE Alerts!ReloadFails(l)
  <2>1. /\ Alerts!Reload(l, Alerts!Idle) /\ hazards' # {} /\ UNCHANGED <<subscribed, handle, listeners>>
    BY <1>5 DEF Alerts!ReloadFails, Alerts!daemonVars
  <2>2. reload'[l].phase = "idle" /\ \A k \in Alerts!Reloads \ {l} : reload'[k] = reload[k]
    BY <2>1, SetReload DEF Alerts!Idle
  <2>3. ListenerInv' /\ \A k \in Alerts!Reloads : RequestOk(k)'
    BY <2>1, <2>2 DEF WatchInv, ListenerInv, RequestOk
  <2> QED BY <2>1, <2>3 DEF WatchInv
<1> QED BY <1>1, <1>2, <1>3, <1>4, <1>5 DEF Alerts!ReloadStep
LEMMA WatchStep == AlertShape /\ WatchInv /\ [Alerts!Next]_Alerts!vars => WatchInv'
<1> SUFFICES ASSUME AlertShape, WatchInv, [Alerts!Next]_Alerts!vars PROVE WatchInv'
  OBVIOUS
<1>1. ASSUME UNCHANGED <<subscribed, handle, listeners, reload, hazards, file>>, ReloadPending => ReloadPending'
      PROVE  WatchInv'
  BY <1>1, ReloadsAlone
<1>2. CASE \/ Alerts!TimePasses \/ Alerts!Announces \/ UNCHANGED Alerts!vars
           \/ \E t \in Alerts!Ticks : \/ Alerts!OnPriceUpdate(t) \/ Alerts!RulesListed(t) \/ Alerts!Passes(t)
                                      \/ Alerts!Fires(t) \/ Alerts!Notified(t)
  <2>1. UNCHANGED <<subscribed, handle, listeners, reload, hazards, file, editor>>
    BY <1>2 DEF Alerts!TimePasses, Alerts!Announces, Alerts!OnPriceUpdate, Alerts!RulesListed, Alerts!Passes,
                Alerts!Fires, Alerts!Notified, Alerts!vars, Alerts!daemonVars, Alerts!history
  <2> QED BY <1>1, <2>1 DEF ReloadPending
<1>3. ASSUME NEW t \in Alerts!Ticks, Alerts!Saved(t) PROVE WatchInv'
  <2>1. UNCHANGED <<subscribed, handle, listeners, reload, editor>> /\ (hazards' = {} => hazards = {})
    BY <1>3 DEF Alerts!Saved, Alerts!daemonVars
  <2>2. ReloadPending => ReloadPending'
    BY <2>1 DEF ReloadPending
  <2> QED BY <1>3, <2>1, <2>2, SavedEnables, ReloadsAlone
<1>4. ASSUME NEW r \in Alerts!Rules, NEW status, Alerts!Edits(r, status) PROVE WatchInv'
  <2>1. UNCHANGED <<subscribed, handle, listeners, reload, hazards, file>> /\ editor.phase = "idle"
    BY <1>4 DEF Alerts!Edits, Alerts!daemonVars, Alerts!history, Alerts!Idle
  <2> QED BY <1>1, <2>1 DEF ReloadPending
<1>5. CASE Alerts!EditWritten
  <2>1. UNCHANGED <<subscribed, handle, listeners, reload, hazards>> /\ ReloadPending'
    BY <1>5 DEF Alerts!EditWritten, Alerts!daemonVars, ReloadPending
  <2> QED BY <2>1, ReloadsAlone
<1>6. CASE Alerts!Notifies
  <2>0. UNCHANGED <<subscribed, handle, listeners, file>>
    BY <1>6 DEF Alerts!Notifies, Alerts!daemonVars
  <2>1. ASSUME NEW l \in Alerts!Reloads, Alerts!FirstIdle(reload, l), Alerts!Reload(l, [phase |-> "requested"]),
               hazards' = hazards
        PROVE  WatchInv'
    <3>1. /\ reload'[l].phase = "requested" /\ \A k \in Alerts!Reloads \ {l} : reload'[k] = reload[k]
          /\ reload[l].phase = "idle"
      BY <2>1, SetReload DEF Alerts!FirstIdle, Alerts!Idle
    <3>2. ReloadPending' /\ \A k \in Alerts!Reloads : RequestOk(k)'
      BY <3>1 DEF ReloadPending, WatchInv, RequestOk
    <3>3. Agree => Agree'
      <4>1. \A k \in Alerts!Reloads : Alerts!Listed(k)' => k # l
        BY <3>1 DEF Alerts!Listed
      <4>2. \A k \in Alerts!Reloads : Alerts!Listed(k)' => Alerts!Listed(k) /\ reload'[k] = reload[k]
        BY <3>1, <4>1 DEF Alerts!Listed
      <4> QED BY <4>2 DEF Agree
    <3>4. ListenerInv'
      BY <2>0 DEF WatchInv, ListenerInv
    <3> QED BY <2>1, <3>2, <3>3, <3>4 DEF WatchInv
  <2>2. CASE /\ reload' = reload
             /\ hazards' = hazards \cup (IF reload[1].phase = "requested" THEN {} ELSE {"missed"})
    <3>1. hazards' = {} => hazards = {} /\ reload[1].phase = "requested"
      BY <2>2
    <3>2. reload[1].phase = "requested" => ReloadPending'
      BY <2>2, MCPriceWatchersAssumption DEF ReloadPending, Alerts!Reloads
    <3> QED BY <2>0, <2>2, <3>1, <3>2, ReloadsAlone
  <2> QED BY <1>6, <2>1, <2>2 DEF Alerts!Notifies
<1>7. CASE Alerts!Restart
  <2>1. /\ reload'[1].phase = "requested"
        /\ \A l \in Alerts!Reloads : reload'[l].phase \in {"idle", "requested"}
    BY <1>7, RestartTasks DEF Alerts!Restart
  <2>2. ReloadPending'
    BY <2>1, MCPriceWatchersAssumption DEF ReloadPending, Alerts!Reloads
  <2>3. Agree' /\ \A l \in Alerts!Reloads : RequestOk(l)'
    BY <2>1 DEF Agree, RequestOk, Alerts!Listed
  <2>4. ListenerInv'
    BY <1>7 DEF Alerts!Restart, ListenerInv
  <2> QED BY <2>2, <2>3, <2>4 DEF WatchInv
<1> QED BY <1>2, <1>3, <1>4, <1>5, <1>6, <1>7, WatchReload DEF Alerts!Next, Alerts!TickStep

LEMMA InitWatch == Alerts!Init => WatchInv
<1> SUFFICES ASSUME Alerts!Init PROVE WatchInv
  OBVIOUS
<1>1. reload = Alerts!Starting /\ subscribed = FALSE /\ handle = FALSE /\ listeners = 0
  BY DEF Alerts!Init
<1>2. /\ reload[1].phase = "requested"
      /\ \A l \in Alerts!Reloads : reload[l].phase \in {"idle", "requested"}
  BY <1>1, MCPriceWatchersAssumption DEF Alerts!Starting, Alerts!Reloads, Alerts!Idle
<1>3. ReloadPending
  BY <1>2, MCPriceWatchersAssumption DEF ReloadPending, Alerts!Reloads
<1>4. Agree /\ \A l \in Alerts!Reloads : RequestOk(l)
  BY <1>2 DEF Agree, RequestOk, Alerts!Listed
<1>5. ListenerInv
  BY <1>1 DEF ListenerInv
<1> QED BY <1>3, <1>4, <1>5 DEF WatchInv

\* However reloads overlap with each other, with evaluations that disable rules
\* and with the tools: once they are over the symbol of an enabled rule is watched,
\* unless one of the hazards that RulesWatched names has come to pass.
THEOREM RulesAreWatched == WatchSpec => []RulesWatched
<1>1. WatchInit => AlertShape /\ WatchInv
  BY InitAlerts, InitWatch DEF WatchInit
<1>2. UNCHANGED alertVars => UNCHANGED Alerts!vars
  BY DEF alertVars, Alerts!vars, Alerts!daemonVars, Alerts!history, Alerts!bounds
<1>3. [WatchNext]_<<vars, alertVars, layer>> => [Alerts!Next]_Alerts!vars
  BY <1>2 DEF WatchNext
<1>4. AlertShape /\ WatchInv /\ [WatchNext]_<<vars, alertVars, layer>> => (AlertShape /\ WatchInv)'
  BY <1>3, AlertShapeStep, WatchStep
<1>5. WatchInv => RulesWatched
  <2> SUFFICES ASSUME WatchInv, Alerts!Quiet, hazards = {}, Alerts!Enabled(file) # {}
               PROVE  subscribed /\ listeners > 0
    BY DEF RulesWatched, Alerts!RulesWatched
  <2>1. editor.phase = "idle" /\ \A l \in Alerts!Reloads : reload[l].phase = "idle"
    BY DEF Alerts!Quiet, Alerts!Idle
  <2>2. ~ReloadPending /\ \A l \in Alerts!Reloads : ~Alerts!Listed(l)
    BY <2>1 DEF ReloadPending, Alerts!Listed
  <2>3. subscribed
    BY <2>2 DEF WatchInv, Followed
  <2> QED BY <2>3 DEF WatchInv, ListenerInv
<1> QED BY <1>1, <1>4, <1>5, PTL DEF WatchSpec
=============================================================================
