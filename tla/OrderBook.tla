----------------------------- MODULE OrderBook -----------------------------
(***************************************************************************)
(* OrderBook of the Go SDK: two price-sorted slices of levels maintained   *)
(* by binary search, and the read-only computations made on them.          *)
(*                                                                         *)
(* Prices and amounts are small integers; ParseDecimal is exact, so equal  *)
(* decimals are equal integers whatever their spelling.  A raw level may   *)
(* fail to parse (amount Bad); prices within one frame are distinct, as an *)
(* exchange sends them.  ref is the book as a plain map, the reference the *)
(* slices are compared with.                                               *)
(***************************************************************************)
EXTENDS Integers, Sequences, SequencesExt, FiniteSetsExt

CONSTANTS
  Prices,       \* prices that occur
  MaxAmount,    \* bound: largest amount of a level
  MaxBatch,     \* bound: levels in a frame
  MaxUpdateID,  \* bound: sequence IDs
  Bad           \* an amount that does not parse, or is negative

Sides == {"bid", "ask"}
Level(p, a) == [price |-> p, amount |-> a]
RawLevels == {Level(p, a) : p \in Prices, a \in (0 .. MaxAmount) \cup {Bad}}

\* The levels of one side of a frame.
RawSides ==
  {s \in UNION {[1 .. k -> RawLevels] : k \in 0 .. MaxBatch} :
     \A i, j \in DOMAIN s : i # j => s[i].price # s[j].price}

VARIABLES
  levels,        \* b.bids and b.asks
  lastUpdateID,  \* b.lastUpdateID
  ref            \* the reference: amount of every level, 0 if absent

vars == <<levels, lastUpdateID, ref>>

Init ==
  /\ levels = [s \in Sides |-> <<>>]
  /\ lastUpdateID = 0
  /\ ref = [s \in Sides |-> [p \in Prices |-> 0]]

\* parseLevels succeeds.
Parses(raw, allowZeroAmount) ==
  \A i \in DOMAIN raw : raw[i].amount # Bad /\ (allowZeroAmount \/ raw[i].amount > 0)

\* Mutant: bids are searched as if they were ascending.
BeforeAscending(side, p, q) == p < q

\* Whether price p comes before price q on a side: bids descend, asks ascend.
Before(side, p, q) == IF side = "bid" THEN p > q ELSE p < q

\* slices.BinarySearchFunc: the index (from 1) where price p is or belongs,
\* between w[1] and w[2] (from 0) in each step.
Search(side, s, p) ==
  LET searchIn[w \in (0 .. Len(s)) \X (0 .. Len(s))] ==
        LET h == (w[1] + w[2]) \div 2 IN
        IF w[1] >= w[2] THEN w[1]
        ELSE IF Before(side, s[h + 1].price, p) THEN searchIn[<<h + 1, w[2]>>]
        ELSE searchIn[<<w[1], h>>]
  IN searchIn[<<0, Len(s)>>] + 1

\* applyLevelLocked.
ApplyLevelTo(side, s, l) ==
  LET i == Search(side, s, l.price)
      found == i <= Len(s) /\ s[i].price = l.price
  IN CASE found /\ l.amount = 0  -> RemoveAt(s, i)
       [] ~found /\ l.amount = 0 -> s
       [] found /\ l.amount # 0  -> ReplaceAt(s, i, l)
       [] ~found /\ l.amount # 0 -> InsertAt(s, i, l)

\* One level after another.
ApplyAll(side, s, raw) ==
  LET d[i \in 0 .. Len(raw)] == IF i = 0 THEN s ELSE ApplyLevelTo(side, d[i - 1], raw[i])
  IN d[Len(raw)]

\* slices.SortFunc.
Sorted(side, raw) ==
  CHOOSE t \in [DOMAIN raw -> Range(raw)] :
    /\ Range(t) = Range(raw)
    /\ \A i, j \in DOMAIN t : i < j => Before(side, t[i].price, t[j].price)

\* The reference: amounts of the frame replace those of the map.
Overwrite(map, raw) ==
  [p \in Prices |-> IF \E i \in DOMAIN raw : raw[i].price = p
                    THEN (CHOOSE l \in Range(raw) : l.price = p).amount ELSE map[p]]

\* ApplySnapshot: refused as a whole, or the new contents, sorted.
ApplySnapshot(id, bids, asks) ==
  LET raw == [s \in Sides |-> IF s = "bid" THEN bids ELSE asks] IN
  IF id > 0 /\ Parses(bids, FALSE) /\ Parses(asks, FALSE)
  THEN /\ lastUpdateID' = id
       /\ levels' = [s \in Sides |-> Sorted(s, raw[s])]
       /\ ref' = [s \in Sides |-> Overwrite([p \in Prices |-> 0], raw[s])]
  ELSE UNCHANGED vars

\* Mutant: the bids are applied before the asks are parsed.
ApplyDiffPiecemeal(id, bids, asks) ==
  IF id > 0 /\ Parses(bids, TRUE) /\ id >= lastUpdateID
  THEN /\ levels' = [levels EXCEPT !["bid"] = ApplyAll("bid", @, bids),
                                   !["ask"] = IF Parses(asks, TRUE) THEN ApplyAll("ask", @, asks) ELSE @]
       /\ lastUpdateID' = id
       /\ ref' = IF Parses(asks, TRUE)
                 THEN [ref EXCEPT !["bid"] = Overwrite(@, bids), !["ask"] = Overwrite(@, asks)] ELSE ref
  ELSE UNCHANGED vars

\* ApplyDiff: refused as a whole, or every level applied.
ApplyDiff(id, bids, asks) ==
  IF id > 0 /\ Parses(bids, TRUE) /\ Parses(asks, TRUE) /\ id >= lastUpdateID
  THEN /\ lastUpdateID' = id
       /\ levels' = [levels EXCEPT !["bid"] = ApplyAll("bid", @, bids),
                                   !["ask"] = ApplyAll("ask", @, asks)]
       /\ ref' = [ref EXCEPT !["bid"] = Overwrite(@, bids), !["ask"] = Overwrite(@, asks)]
  ELSE UNCHANGED vars

\* ApplyLevel, for one level outside any sequence.
ApplyLevel(side, l) ==
  /\ IF Parses(<<l>>, TRUE)
     THEN /\ levels' = [levels EXCEPT ![side] = ApplyLevelTo(side, @, l)]
          /\ ref' = [ref EXCEPT ![side] = Overwrite(@, <<l>>)]
     ELSE UNCHANGED <<levels, ref>>
  /\ UNCHANGED lastUpdateID

Clear ==
  /\ levels' = [s \in Sides |-> <<>>]
  /\ ref' = [s \in Sides |-> [p \in Prices |-> 0]]
  /\ lastUpdateID' = 0

Next ==
  \/ \E id \in 0 .. MaxUpdateID, bids, asks \in RawSides :
       /\ Len(bids) + Len(asks) <= MaxBatch
       /\ ApplySnapshot(id, bids, asks) \/ ApplyDiff(id, bids, asks)
  \/ \E side \in Sides, l \in RawLevels : ApplyLevel(side, l)
  \/ Clear

Spec == Init /\ [][Next]_vars

(***************************************************************************)
(* Computations on the book.                                               *)
(***************************************************************************)

\* Mutant: the last level is taken whole.
FillWhole(acc, l) ==
  IF acc.remaining = 0 THEN acc
  ELSE [remaining |-> Max({acc.remaining - l.amount, 0}), filled |-> acc.filled + l.amount,
        notional |-> acc.notional + l.price * l.amount, consumed |-> acc.consumed + 1]

\* One level of the sweep of VWAP.
Fill(acc, l) ==
  LET q == Min({acc.remaining, l.amount}) IN
  IF acc.remaining = 0 THEN acc
  ELSE [remaining |-> acc.remaining - q, filled |-> acc.filled + q,
        notional |-> acc.notional + l.price * q, consumed |-> acc.consumed + 1]

\* VWAP: buying sweeps the asks, selling the bids.
VWAP(isBuy, target) ==
  FoldLeft(Fill, [remaining |-> target, filled |-> 0, notional |-> 0, consumed |-> 0],
           levels[IF isBuy THEN "ask" ELSE "bid"])

\* CumulativeDepth: the first depth levels, or all of them for depth <= 0.
CumulativeDepth(side, depth) ==
  LET s == levels[side]
      limit == IF depth > 0 /\ depth < Len(s) THEN depth ELSE Len(s)
  IN FoldLeft(LAMBDA acc, l : <<acc[1] + l.amount, acc[2] + l.price * l.amount>>,
              <<0, 0>>, SubSeq(s, 1, limit))

-----------------------------------------------------------------------------
\* The slices hold exactly the map that the accepted frames describe, each
\* price once and best price first: what the binary search assumes and the
\* best bid, best ask and every sweep rely on.  A refused frame changes
\* neither side.
SortedMap ==
  \A s \in Sides :
    /\ \A i, j \in DOMAIN levels[s] : i < j => Before(s, levels[s][i].price, levels[s][j].price)
    /\ {<<l.price, l.amount>> : l \in Range(levels[s])}
         = {<<p, ref[s][p]>> : p \in {q \in Prices : ref[s][q] > 0}}

\* The sum of f over Prices.
Sum(f) == MapThenSumSet(LAMBDA p : f[p], Prices)

\* The simulated fill takes as much as the book has, up to the target, and no
\* other way of taking that much is cheaper to buy or dearer to sell.
SweepIsBest ==
  \A isBuy \in BOOLEAN, target \in 1 .. 2 * MaxAmount + 1 :
    LET side == IF isBuy THEN "ask" ELSE "bid"
        fill == VWAP(isBuy, target)
        Takes == {t \in [Prices -> 0 .. MaxAmount] :
                    Sum(t) = fill.filled /\ \A p \in Prices : t[p] <= ref[side][p]}
    IN /\ fill.filled = Min({target, Sum(ref[side])})
       /\ fill.filled + fill.remaining = target
       /\ \A t \in Takes :
            LET cost == Sum([p \in Prices |-> p * t[p]]) IN
            IF isBuy THEN fill.notional <= cost ELSE fill.notional >= cost

\* CumulativeDepth agrees with a sweep that consumes the same levels.
DepthMatchesSweep ==
  \A isBuy \in BOOLEAN, depth \in 0 .. MaxBatch + 1 :
    LET deep == CumulativeDepth(IF isBuy THEN "ask" ELSE "bid", depth)
        fill == VWAP(isBuy, deep[1])
    IN fill.notional = deep[2] /\ fill.remaining = 0
=============================================================================
