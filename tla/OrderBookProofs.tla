--------------------------- MODULE OrderBookProofs ----------------------------
(***************************************************************************)
(* The sorted book of the Go SDK, for any integer prices and amounts and   *)
(* frames of any length: the slices that the binary search maintains are   *)
(* the map that the accepted frames describe, best price first.            *)
(***************************************************************************)
EXTENDS MCMarketData, SequenceTheorems, WellFoundedInduction, TLAPS

Levels == [price : Prices, amount : 1 .. MaxAmount]

\* What the book holds for each price, 0 for nothing.
Amounts == [Prices -> 0 .. MaxAmount]

\* Levels that parse: a diff has 0 for a level to be removed.
Parsed == [price : Prices, amount : 0 .. MaxAmount]

InOrder(side, q) == \A i, j \in 1 .. Len(q) : i < j => Book!Before(side, q[i].price, q[j].price)

\* The levels of q are the entries of the map m.
Shows(q, m) ==
  /\ \A i \in 1 .. Len(q) : m[q[i].price] = q[i].amount
  /\ \A p \in Prices : m[p] > 0 => \E i \in 1 .. Len(q) : q[i].price = p

\* A side of the book, as a slice and as a map.
SideHolds(side, q, m) == q \in Seq(Levels) /\ m \in Amounts /\ InOrder(side, q) /\ Shows(q, m)

LEMMA UpTo ==
  ASSUME NEW n \in Nat, NEW S, 0 \in S, \A k \in 0 .. n - 1 : k \in S => k + 1 \in S
  PROVE  \A k \in 0 .. n : k \in S
<1> DEFINE T == {k \in 0 .. n : k \notin S}
<1>1. SUFFICES ASSUME T # {} PROVE FALSE
  OBVIOUS
<1>2. T \subseteq Nat
  OBVIOUS
<1> HIDE DEF T
<1>3. PICK x \in T : \A y \in T : ~(<<y, x>> \in OpToRel(<, Nat))
  BY <1>1, <1>2, NatLessThanWellFounded, WFMin
<1>4. x \in 1 .. n /\ x \notin S
  BY DEF T
<1>5. x - 1 \in T
  BY <1>4 DEF T
<1>6. x - 1 \in Nat /\ x \in Nat /\ x - 1 < x
  BY <1>4
<1>7. <<x - 1, x>> \in OpToRel(<, Nat)
  BY <1>6 DEF OpToRel
<1> QED BY <1>3, <1>5, <1>7

\* Prices are totally ordered on each side.
LEMMA PricesOrdered ==
  ASSUME NEW side, NEW p \in Prices, NEW q \in Prices, NEW r \in Prices
  PROVE  /\ ~Book!Before(side, p, p)
         /\ Book!Before(side, p, q) /\ Book!Before(side, q, r) => Book!Before(side, p, r)
         /\ p # q => Book!Before(side, p, q) \/ Book!Before(side, q, p)
         /\ Book!Before(side, p, q) => ~Book!Before(side, q, p)
<1>1. p \in Int /\ q \in Int /\ r \in Int
  BY MCMarketDataAssumption
<1> QED BY <1>1 DEF Book!Before

(***************************************************************************)
(* The binary search.                                                      *)
(***************************************************************************)

\* The stretches of q up to n long that the search may be left with, and
\* what it does with one of them.
Stretches(q, n) == {w \in (0 .. Len(q)) \X (0 .. Len(q)) : w[2] - w[1] <= n}
Middle(w) == (w[1] + w[2]) \div 2
SearchStep(side, q, p, f, w) ==
  IF w[1] >= w[2] THEN w[1]
  ELSE IF Book!Before(side, q[Middle(w) + 1].price, p) THEN f[<<Middle(w) + 1, w[2]>>]
  ELSE f[<<w[1], Middle(w)>>]
Searches(side, q, p, n) ==
  \E f : f = [w \in Stretches(q, n) |-> SearchStep(side, q, p, f, w)]

\* Both halves are shorter than the stretch.
LEMMA HalvesAreShorter ==
  ASSUME NEW q, Len(q) \in Nat, NEW n \in Nat, NEW w \in Stretches(q, n + 1), w[1] < w[2]
  PROVE  /\ Middle(w) \in w[1] .. w[2] - 1
         /\ <<Middle(w) + 1, w[2]>> \in Stretches(q, n)
         /\ <<w[1], Middle(w)>> \in Stretches(q, n)
<1>1. w[1] \in 0 .. Len(q) /\ w[2] \in 0 .. Len(q) /\ w[2] - w[1] <= n + 1
  BY DEF Stretches
<1>2. Middle(w) \in w[1] .. w[2] - 1
  BY <1>1 DEF Middle
<1>3. /\ w[2] - (Middle(w) + 1) <= n /\ Middle(w) - w[1] <= n
      /\ Middle(w) + 1 \in 0 .. Len(q) /\ Middle(w) \in 0 .. Len(q)
  BY <1>1, <1>2
<1>4. <<Middle(w) + 1, w[2]>> \in Stretches(q, n)
  BY <1>1, <1>3 DEF Stretches
<1>5. <<w[1], Middle(w)>> \in Stretches(q, n)
  BY <1>1, <1>3 DEF Stretches
<1> QED BY <1>2, <1>4, <1>5

LEMMA SearchExists ==
  ASSUME NEW side, NEW q, Len(q) \in Nat, NEW p
  PROVE  Searches(side, q, p, Len(q))
<1> DEFINE S == {n \in Nat : Searches(side, q, p, n)}
<1>1. 0 \in S
  <2> DEFINE f == [w \in Stretches(q, 0) |-> w[1]]
  <2>1. \A w \in Stretches(q, 0) : w[1] >= w[2]
    BY DEF Stretches
  <2>2. \A w \in Stretches(q, 0) : SearchStep(side, q, p, f, w) = w[1]
    BY <2>1 DEF SearchStep
  <2>3. f = [w \in Stretches(q, 0) |-> SearchStep(side, q, p, f, w)]
    BY <2>2
  <2> HIDE DEF f
  <2> QED BY <2>3 DEF Searches
<1>2. ASSUME NEW n \in 0 .. Len(q) - 1, n \in S PROVE n + 1 \in S
  <2>1. n \in Nat /\ n + 1 \in Nat
    BY <1>2
  <2>2. PICK f : f = [w \in Stretches(q, n) |-> SearchStep(side, q, p, f, w)]
    BY <1>2 DEF Searches
  <2> DEFINE g == [w \in Stretches(q, n + 1) |-> SearchStep(side, q, p, f, w)]
  <2>3. \A w \in Stretches(q, n) : g[w] = f[w]
    <3>1. Stretches(q, n) \subseteq Stretches(q, n + 1)
      BY <2>1 DEF Stretches
    <3> QED BY <2>2, <3>1
  <2>4. ASSUME NEW w \in Stretches(q, n + 1)
        PROVE  SearchStep(side, q, p, f, w) = SearchStep(side, q, p, g, w)
    <3> HIDE DEF g
    <3>0. w[1] \in Int /\ w[2] \in Int
      BY DEF Stretches
    <3>1. CASE w[1] >= w[2]
      BY <3>1 DEF SearchStep
    <3>2. CASE w[1] < w[2]
      <4>1. <<Middle(w) + 1, w[2]>> \in Stretches(q, n) /\ <<w[1], Middle(w)>> \in Stretches(q, n)
        BY <3>2, <2>1, HalvesAreShorter
      <4>2. /\ g[<<Middle(w) + 1, w[2]>>] = f[<<Middle(w) + 1, w[2]>>]
            /\ g[<<w[1], Middle(w)>>] = f[<<w[1], Middle(w)>>]
        BY <2>3, <4>1
      <4> QED BY <4>2 DEF SearchStep
    <3> QED BY <3>0, <3>1, <3>2
  <2>5. g = [w \in Stretches(q, n + 1) |-> SearchStep(side, q, p, g, w)]
    BY <2>4
  <2> HIDE DEF g
  <2> QED BY <2>1, <2>5 DEF Searches
<1> HIDE DEF S
<1>3. \A n \in 0 .. Len(q) : n \in S
  BY <1>1, <1>2, UpTo
<1>4. Len(q) \in S
  BY <1>3
<1> QED BY <1>4 DEF S

\* Where the search may still end: between lo and hi.
Brackets(side, q, p, lo, hi) ==
  /\ \A k \in 1 .. Len(q) : k <= lo => Book!Before(side, q[k].price, p)
  /\ \A k \in 1 .. Len(q) : k > hi => ~Book!Before(side, q[k].price, p)

\* In an ordered slice a look at one price settles it for all before or after.
LEMMA LooksSettle ==
  ASSUME NEW side, NEW q \in Seq(Levels), InOrder(side, q), NEW p \in Prices, NEW h \in 1 .. Len(q)
  PROVE  /\ Book!Before(side, q[h].price, p)
              => \A k \in 1 .. Len(q) : k <= h => Book!Before(side, q[k].price, p)
         /\ ~Book!Before(side, q[h].price, p)
              => \A k \in 1 .. Len(q) : k >= h => ~Book!Before(side, q[k].price, p)
<1>0. \A k \in 1 .. Len(q) : q[k] \in Levels
  OBVIOUS
<1>1. \A k \in 1 .. Len(q) : q[k].price \in Prices
  BY <1>0 DEF Levels
<1>2. \A k \in 1 .. Len(q) : /\ k < h => Book!Before(side, q[k].price, q[h].price)
                             /\ k > h => Book!Before(side, q[h].price, q[k].price)
  BY DEF InOrder
<1>3. ASSUME NEW k \in 1 .. Len(q), k <= h, Book!Before(side, q[h].price, p)
      PROVE  Book!Before(side, q[k].price, p)
  <2>1. CASE k = h BY <2>1, <1>3
  <2>2. CASE k < h BY <2>2, <1>1, <1>2, <1>3, PricesOrdered
  <2> QED BY <2>1, <2>2, <1>3
<1>4. ASSUME NEW k \in 1 .. Len(q), k >= h, Book!Before(side, q[k].price, p)
      PROVE  Book!Before(side, q[h].price, p)
  <2>1. CASE k = h BY <2>1, <1>4
  <2>2. CASE k > h BY <2>2, <1>1, <1>2, <1>4, PricesOrdered
  <2> QED BY <2>1, <2>2, <1>4
<1> QED BY <1>3, <1>4

\* The search of an ordered slice finds the first level that does not come
\* before the price.
LEMMA SearchFinds ==
  ASSUME NEW side, NEW q \in Seq(Levels), InOrder(side, q), NEW p \in Prices
  PROVE  /\ Book!Search(side, q, p) \in 1 .. Len(q) + 1
         /\ \A k \in 1 .. Len(q) : k < Book!Search(side, q, p) <=> Book!Before(side, q[k].price, p)
<1> DEFINE N == Len(q)
           W == (0 .. N) \X (0 .. N)
           Step(f, w) == IF w[1] >= w[2] THEN w[1]
                         ELSE IF Book!Before(side, q[((w[1] + w[2]) \div 2) + 1].price, p)
                              THEN f[<<((w[1] + w[2]) \div 2) + 1, w[2]>>]
                              ELSE f[<<w[1], (w[1] + w[2]) \div 2>>]
           d == CHOOSE f : f = [w \in W |-> Step(f, w)]
<1>0. N \in Nat
  OBVIOUS
<1>1. Book!Search(side, q, p) = d[<<0, N>>] + 1
  BY DEF Book!Search
<1>2. d = [w \in W |-> Step(d, w)]
  <2>1. W = Stretches(q, N)
    BY <1>0 DEF Stretches
  <2>2. \A f, w : Step(f, w) = SearchStep(side, q, p, f, w)
    BY DEF SearchStep, Middle
  <2> HIDE DEF W, Step
  <2>3. Searches(side, q, p, N)
    BY <1>0, SearchExists
  <2>4. PICK f : f = [w \in Stretches(q, N) |-> SearchStep(side, q, p, f, w)]
    BY <2>3 DEF Searches
  <2>5. f = [w \in W |-> Step(f, w)]
    BY <2>1, <2>2, <2>4
  <2> QED BY <2>5
<1> DEFINE Lands(w) == d[w] \in 0 .. N /\ Brackets(side, q, p, d[w], d[w])
           S == {n \in Nat : \A w \in Stretches(q, n) :
                               w[1] <= w[2] /\ Brackets(side, q, p, w[1], w[2]) => Lands(w)}
<1>3. ASSUME NEW w \in W PROVE d[w] = SearchStep(side, q, p, d, w)
  BY <1>2 DEF SearchStep, Middle
<1> HIDE DEF d, Step
<1>4. 0 \in S
  <2>1. ASSUME NEW w \in Stretches(q, 0), w[1] <= w[2], Brackets(side, q, p, w[1], w[2])
        PROVE  Lands(w)
    <3>1. w \in W /\ w[1] \in 0 .. N /\ w[2] \in 0 .. N /\ w[1] = w[2]
      BY <2>1, <1>0 DEF Stretches
    <3>2. d[w] = SearchStep(side, q, p, d, w)
      BY <3>1, <1>3
    <3>3. d[w] = w[1]
      BY <3>1, <3>2 DEF SearchStep
    <3> QED BY <2>1, <3>1, <3>3
  <2> QED BY <2>1
<1>5. ASSUME NEW n \in 0 .. N - 1, n \in S PROVE n + 1 \in S
  <2>0. n \in Nat /\ n + 1 \in Nat
    BY <1>5
  <2>1. ASSUME NEW w \in Stretches(q, n + 1), w[1] <= w[2], Brackets(side, q, p, w[1], w[2])
        PROVE  Lands(w)
    <3>1. w \in W /\ w[1] \in 0 .. N /\ w[2] \in 0 .. N
      BY <1>0 DEF Stretches
    <3>4. d[w] = SearchStep(side, q, p, d, w)
      BY <3>1, <1>3
    <3>2. CASE w[1] = w[2]
      <4>1. d[w] = w[1]
        BY <3>1, <3>2, <3>4 DEF SearchStep
      <4> QED BY <2>1, <3>1, <3>2, <4>1
    <3>3. CASE w[1] < w[2]
      <4> DEFINE h == Middle(w)
      <4>1. /\ h \in w[1] .. w[2] - 1
            /\ <<h + 1, w[2]>> \in Stretches(q, n) /\ <<w[1], h>> \in Stretches(q, n)
        BY <3>3, <2>0, <1>0, HalvesAreShorter
      <4> HIDE DEF h
      <4>2. h + 1 \in 1 .. N /\ h \in 0 .. N
        BY <4>1, <3>1, <1>0
      <4>3. CASE Book!Before(side, q[h + 1].price, p)
        <5>1. d[w] = d[<<h + 1, w[2]>>]
          BY <3>1, <3>3, <4>3, <3>4 DEF SearchStep, h
        <5>2. Brackets(side, q, p, h + 1, w[2])
          BY <4>2, <4>3, <2>1, LooksSettle DEF Brackets
        <5>3. h + 1 <= w[2]
          BY <4>1, <3>1
        <5>4. Lands(<<h + 1, w[2]>>)
          BY <5>2, <5>3, <4>1, <1>5
        <5> QED BY <5>1, <5>4
      <4>4. CASE ~Book!Before(side, q[h + 1].price, p)
        <5>1. d[w] = d[<<w[1], h>>]
          BY <3>1, <3>3, <4>4, <3>4 DEF SearchStep, h
        <5>2. \A k \in 1 .. Len(q) : k >= h + 1 => ~Book!Before(side, q[k].price, p)
          BY <4>2, <4>4, LooksSettle
        <5>3. Brackets(side, q, p, w[1], h)
          BY <4>2, <5>2, <2>1 DEF Brackets
        <5>4. w[1] <= h
          BY <4>1, <3>1
        <5>5. Lands(<<w[1], h>>)
          BY <5>3, <5>4, <4>1, <1>5
        <5> QED BY <5>1, <5>5
      <4> QED BY <4>3, <4>4
    <3> QED BY <2>1, <3>1, <3>2, <3>3
  <2> QED BY <2>0, <2>1
<1>6. N \in S
  <2> HIDE DEF S, N
  <2>1. \A n \in 0 .. N : n \in S
    BY <1>0, <1>4, <1>5, UpTo
  <2> QED BY <1>0, <2>1
<1>7. <<0, N>> \in Stretches(q, N) /\ Brackets(side, q, p, 0, N)
  BY <1>0 DEF Stretches, Brackets
<1>8. Lands(<<0, N>>)
  BY <1>0, <1>6, <1>7
<1>9. ASSUME NEW k \in 1 .. N PROVE k < d[<<0, N>>] + 1 <=> Book!Before(side, q[k].price, p)
  <2>1. k <= d[<<0, N>>] => Book!Before(side, q[k].price, p)
    BY <1>8 DEF Brackets
  <2>2. k > d[<<0, N>>] => ~Book!Before(side, q[k].price, p)
    BY <1>8 DEF Brackets
  <2> QED BY <1>0, <1>8, <2>1, <2>2
<1> QED BY <1>0, <1>1, <1>8, <1>9

\* Whether the search finds a level of that price.
Finds(side, q, p) ==
  Book!Search(side, q, p) <= Len(q) /\ q[Book!Search(side, q, p)].price = p

\* It finds one if there is one.
LEMMA SearchMissesNone ==
  ASSUME NEW side, NEW q \in Seq(Levels), InOrder(side, q), NEW p \in Prices,
         ~Finds(side, q, p), NEW k \in 1 .. Len(q)
  PROVE  q[k].price # p
<1> DEFINE i == Book!Search(side, q, p)
<1>1. i \in 1 .. Len(q) + 1 /\ \A j \in 1 .. Len(q) : j < i <=> Book!Before(side, q[j].price, p)
  BY SearchFinds
<1>2. i <= Len(q) => q[i].price # p
  BY DEF Finds
<1> HIDE DEF i
<1>3. \A j \in 1 .. Len(q) : q[j] \in Levels
  OBVIOUS
<1>4. \A j \in 1 .. Len(q) : q[j].price \in Prices
  BY <1>3 DEF Levels
<1> SUFFICES ASSUME q[k].price = p PROVE FALSE
  OBVIOUS
<1>5. ~Book!Before(side, q[k].price, p)
  BY <1>4, PricesOrdered
<1>6. k >= i
  BY <1>1, <1>5
<1>7. k > i /\ i \in 1 .. Len(q)
  BY <1>1, <1>2, <1>6
<1>8. Book!Before(side, q[i].price, q[k].price)
  BY <1>7 DEF InOrder
<1>9. ~Book!Before(side, q[i].price, p)
  BY <1>1, <1>7
<1> QED BY <1>8, <1>9

(***************************************************************************)
(* One level.                                                              *)
(***************************************************************************)
LEMMA LevelRemoved ==
  ASSUME NEW q \in Seq(Levels), NEW i \in 1 .. Len(q)
  PROVE  /\ Book!RemoveAt(q, i) \in Seq(Levels)
         /\ Len(Book!RemoveAt(q, i)) = Len(q) - 1
         /\ \A k \in 1 .. Len(q) - 1 : /\ k < i => Book!RemoveAt(q, i)[k] = q[k]
                                       /\ k >= i => Book!RemoveAt(q, i)[k] = q[k + 1]
<1> DEFINE a == SubSeq(q, 1, i - 1)  b == SubSeq(q, i + 1, Len(q))
<1>1. a \in Seq(Levels) /\ Len(a) = i - 1 /\ \A k \in 1 .. i - 1 : a[k] = q[k]
  BY SubSeqProperties
<1>2. /\ b \in Seq(Levels) /\ Len(b) = Len(q) - i
      /\ \A k \in 1 .. Len(q) - i : b[k] = q[k + i]
  BY SubSeqProperties
<1>3. Book!RemoveAt(q, i) = a \o b
  BY DEF Book!RemoveAt
<1> HIDE DEF a, b
<1>0. Len(q) \in Nat /\ i \in Nat
  OBVIOUS
<1>6. /\ a \o b \in Seq(Levels) /\ Len(a \o b) = Len(a) + Len(b)
      /\ \A k \in 1 .. Len(a) + Len(b) : (a \o b)[k] = IF k <= Len(a) THEN a[k] ELSE b[k - Len(a)]
  BY <1>1, <1>2, ConcatProperties
<1>7. Len(a) + Len(b) = Len(q) - 1
  BY <1>0, <1>1, <1>2
<1>4. /\ a \o b \in Seq(Levels) /\ Len(a \o b) = Len(q) - 1
      /\ \A k \in 1 .. Len(q) - 1 : (a \o b)[k] = IF k <= i - 1 THEN a[k] ELSE b[k - (i - 1)]
  BY <1>1, <1>6, <1>7
<1>5. ASSUME NEW k \in 1 .. Len(q) - 1 
      PROVE  (k < i => (a \o b)[k] = q[k]) /\ (k >= i => (a \o b)[k] = q[k + 1])
  <2>1. ASSUME k < i PROVE (a \o b)[k] = q[k]
    BY <2>1, <1>1, <1>4
  <2>2. ASSUME k >= i PROVE (a \o b)[k] = q[k + 1]
    <3>1. (a \o b)[k] = b[k - i + 1] /\ k - i + 1 \in 1 .. Len(q) - i
      BY <2>2, <1>4
    <3>2. b[k - i + 1] = q[k - i + 1 + i]
      BY <3>1, <1>2
    <3> QED BY <2>2, <3>1, <3>2, <1>0
  <2> QED BY <2>1, <2>2, <1>0
<1> QED BY <1>3, <1>4, <1>5

LEMMA LevelInserted ==
  ASSUME NEW q \in Seq(Levels), NEW i \in 1 .. Len(q) + 1, NEW l \in Levels
  PROVE  /\ Book!InsertAt(q, i, l) \in Seq(Levels)
         /\ Len(Book!InsertAt(q, i, l)) = Len(q) + 1
         /\ \A k \in 1 .. Len(q) + 1 : /\ k < i => Book!InsertAt(q, i, l)[k] = q[k]
                                       /\ k = i => Book!InsertAt(q, i, l)[k] = l
                                       /\ k > i => Book!InsertAt(q, i, l)[k] = q[k - 1]
<1> DEFINE a == SubSeq(q, 1, i - 1)  b == SubSeq(q, i, Len(q))  c == a \o <<l>>
<1>1. a \in Seq(Levels) /\ Len(a) = i - 1 /\ \A k \in 1 .. i - 1 : a[k] = q[k]
  BY SubSeqProperties
<1>2. /\ b \in Seq(Levels) /\ Len(b) = Len(q) + 1 - i
      /\ \A k \in 1 .. Len(q) + 1 - i : b[k] = q[i + k - 1]
  BY SubSeqProperties
<1>3. Book!InsertAt(q, i, l) = c \o b
  BY DEF Book!InsertAt
<1> HIDE DEF a, b
<1>4. <<l>> \in Seq(Levels) /\ Len(<<l>>) = 1 /\ <<l>>[1] = l
  OBVIOUS
<1>5. /\ c \in Seq(Levels) /\ Len(c) = i
      /\ \A k \in 1 .. i : c[k] = IF k <= i - 1 THEN a[k] ELSE <<l>>[k - (i - 1)]
  BY <1>1, <1>4, ConcatProperties
<1> HIDE DEF c
<1>0. Len(q) \in Nat /\ i \in Nat
  OBVIOUS
<1>8. /\ c \o b \in Seq(Levels) /\ Len(c \o b) = Len(c) + Len(b)
      /\ \A k \in 1 .. Len(c) + Len(b) : (c \o b)[k] = IF k <= Len(c) THEN c[k] ELSE b[k - Len(c)]
  BY <1>2, <1>5, ConcatProperties
<1>9. Len(c) + Len(b) = Len(q) + 1
  BY <1>0, <1>2, <1>5
<1>6. /\ c \o b \in Seq(Levels) /\ Len(c \o b) = Len(q) + 1
      /\ \A k \in 1 .. Len(q) + 1 : (c \o b)[k] = IF k <= i THEN c[k] ELSE b[k - i]
  BY <1>5, <1>8, <1>9
<1>7. ASSUME NEW k \in 1 .. Len(q) + 1
      PROVE  /\ k < i => (c \o b)[k] = q[k]
             /\ k = i => (c \o b)[k] = l
             /\ k > i => (c \o b)[k] = q[k - 1]
  <2>1. ASSUME k < i PROVE (c \o b)[k] = q[k]
    <3>1. (c \o b)[k] = c[k] /\ c[k] = a[k]
      BY <2>1, <1>5, <1>6
    <3> QED BY <2>1, <3>1, <1>1
  <2>2. ASSUME k = i PROVE (c \o b)[k] = l
    <3>1. (c \o b)[k] = c[k] /\ c[k] = <<l>>[1]
      BY <2>2, <1>5, <1>6
    <3> QED BY <2>2, <3>1, <1>4
  <2>3. ASSUME k > i PROVE (c \o b)[k] = q[k - 1]
    <3>1. (c \o b)[k] = b[k - i] /\ k - i \in 1 .. Len(q) + 1 - i
      BY <2>3, <1>6, <1>0
    <3>2. b[k - i] = q[i + (k - i) - 1]
      BY <3>1, <1>2
    <3>3. i + (k - i) - 1 = k - 1
      BY <1>0
    <3> QED BY <2>3, <3>1, <3>2, <3>3, <1>0
  <2> QED BY <2>1, <2>2, <2>3, <1>0
<1> QED BY <1>3, <1>6, <1>7

\* A side after a level has been set: the rest of the map is as before.
LEMMA LevelSet ==
  ASSUME NEW m \in Amounts, NEW p \in Prices, NEW a \in 0 .. MaxAmount
  PROVE  /\ [m EXCEPT ![p] = a] \in Amounts
         /\ [m EXCEPT ![p] = a][p] = a
         /\ \A r \in Prices : r # p => [m EXCEPT ![p] = a][r] = m[r]
BY DEF Amounts

LEMMA RemovalApplied ==
  ASSUME NEW side, NEW q, NEW m, SideHolds(side, q, m), NEW p \in Prices, NEW i \in 1 .. Len(q),
         q[i].price = p
  PROVE  SideHolds(side, Book!RemoveAt(q, i), [m EXCEPT ![p] = 0])
<1> DEFINE r == Book!RemoveAt(q, i)  n == [m EXCEPT ![p] = 0]
<1>1. q \in Seq(Levels) /\ m \in Amounts /\ InOrder(side, q) /\ Shows(q, m)
  BY DEF SideHolds
<1>2. /\ r \in Seq(Levels) /\ Len(r) = Len(q) - 1
      /\ \A k \in 1 .. Len(q) - 1 : (k < i => r[k] = q[k]) /\ (k >= i => r[k] = q[k + 1])
  BY <1>1, LevelRemoved
<1>3. 0 \in 0 .. MaxAmount
  BY MCMarketDataAssumption
<1>4. n \in Amounts /\ n[p] = 0 /\ \A x \in Prices : x # p => n[x] = m[x]
  BY <1>1, <1>3, LevelSet
<1> HIDE DEF r, n
<1>5. \A k \in 1 .. Len(q) : q[k] \in Levels
  BY <1>1
<1>6. \A k \in 1 .. Len(q) : q[k].price \in Prices
  BY <1>5 DEF Levels
<1>7. \A j, k \in 1 .. Len(q) : j < k => Book!Before(side, q[j].price, q[k].price)
  BY <1>1 DEF InOrder
<1>8. \A k \in 1 .. Len(q) : k # i => q[k].price # p
  <2> TAKE k \in 1 .. Len(q)
  <2>1. k < i => Book!Before(side, q[k].price, q[i].price)
    BY <1>7
  <2>2. k > i => Book!Before(side, q[i].price, q[k].price)
    BY <1>7
  <2>3. ~Book!Before(side, p, p)
    BY PricesOrdered
  <2> QED BY <2>1, <2>2, <2>3
<1>9. InOrder(side, r)
  <2>1. ASSUME NEW j \in 1 .. Len(r), NEW k \in 1 .. Len(r), j < k
        PROVE  Book!Before(side, r[j].price, r[k].price)
    <3>1. PICK x \in 1 .. Len(q), y \in 1 .. Len(q) : x < y /\ r[j] = q[x] /\ r[k] = q[y]
      <4>0. /\ j \in 1 .. Len(q) - 1 /\ k \in 1 .. Len(q) - 1 /\ Len(q) \in Nat /\ i \in Nat
            /\ j \in 1 .. Len(q) /\ k \in 1 .. Len(q) /\ j + 1 \in 1 .. Len(q) /\ k + 1 \in 1 .. Len(q)
        BY <1>1, <1>2
      <4>1. CASE k < i
        <5>1. r[j] = q[j] /\ r[k] = q[k]
          BY <4>0, <4>1, <2>1, <1>2
        <5> QED BY <5>1, <4>0, <2>1
      <4>2. CASE j < i /\ k >= i
        <5>1. r[j] = q[j] /\ r[k] = q[k + 1] /\ j < k + 1
          BY <4>0, <4>2, <2>1, <1>2
        <5> QED BY <5>1, <4>0
      <4>3. CASE j >= i
        <5>1. r[j] = q[j + 1] /\ r[k] = q[k + 1] /\ j + 1 < k + 1
          BY <4>0, <4>3, <2>1, <1>2
        <5> QED BY <5>1, <4>0
      <4> QED BY <4>1, <4>2, <4>3, <4>0, <2>1
    <3> QED BY <3>1, <1>7
  <2> QED BY <2>1 DEF InOrder
<1>10. ASSUME NEW k \in 1 .. Len(r) PROVE n[r[k].price] = r[k].amount
  <2>1. PICK x \in 1 .. Len(q) : x # i /\ r[k] = q[x]
    <3>1. CASE k < i BY <3>1, <1>1, <1>2
    <3>2. CASE k >= i BY <3>2, <1>1, <1>2
    <3> QED BY <3>1, <3>2, <1>1, <1>2
  <2>2. m[q[x].price] = q[x].amount
    BY <1>1 DEF Shows
  <2> QED BY <2>1, <2>2, <1>4, <1>6, <1>8
<1>11. ASSUME NEW x \in Prices, n[x] > 0 PROVE \E k \in 1 .. Len(r) : r[k].price = x
  <2>1. x # p /\ m[x] > 0
    BY <1>4, <1>11
  <2>2. PICK k \in 1 .. Len(q) : q[k].price = x
    BY <1>1, <2>1 DEF Shows
  <2>3. k # i
    BY <2>1, <2>2
  <2>4. CASE k < i
    BY <2>2, <2>4, <1>1, <1>2
  <2>5. CASE k > i
    <3>1. k - 1 \in 1 .. Len(q) - 1 /\ ~(k - 1 < i) /\ k - 1 + 1 = k
      BY <2>5, <1>1
    <3>2. r[k - 1] = q[k]
      BY <3>1, <1>2
    <3> QED BY <2>2, <3>1, <3>2, <1>2
  <2>6. k \in Nat /\ i \in Nat
    BY <1>1
  <2> QED BY <2>3, <2>4, <2>5, <2>6
<1>12. Shows(r, n)
  BY <1>10, <1>11 DEF Shows
<1>13. SideHolds(side, r, n)
  BY <1>2, <1>4, <1>9, <1>12 DEF SideHolds
<1> QED BY <1>13 DEF r, n

LEMMA ReplacementApplied ==
  ASSUME NEW side, NEW q, NEW m, SideHolds(side, q, m), NEW l \in Levels, NEW i \in 1 .. Len(q),
         q[i].price = l.price
  PROVE  SideHolds(side, Book!ReplaceAt(q, i, l), [m EXCEPT ![l.price] = l.amount])
<1> DEFINE r == Book!ReplaceAt(q, i, l)  n == [m EXCEPT ![l.price] = l.amount]
<1>1. q \in Seq(Levels) /\ m \in Amounts /\ InOrder(side, q) /\ Shows(q, m)
  BY DEF SideHolds
<1>2. /\ r \in Seq(Levels) /\ Len(r) = Len(q)
      /\ r[i] = l /\ \A k \in 1 .. Len(q) : k # i => r[k] = q[k]
  <2>1. r = [q EXCEPT ![i] = l]
    BY DEF Book!ReplaceAt
  <2> HIDE DEF r
  <2> QED BY <1>1, <2>1
<1>3. l.price \in Prices /\ l.amount \in 0 .. MaxAmount
  BY MCMarketDataAssumption DEF Levels
<1>4. n \in Amounts /\ n[l.price] = l.amount /\ \A x \in Prices : x # l.price => n[x] = m[x]
  BY <1>1, <1>3, LevelSet
<1> HIDE DEF r, n
<1>5. \A k \in 1 .. Len(q) : q[k] \in Levels
  BY <1>1
<1>6. \A k \in 1 .. Len(q) : q[k].price \in Prices
  BY <1>5 DEF Levels
<1>7. \A k \in 1 .. Len(q) : r[k].price = q[k].price
  BY <1>2
<1>8. InOrder(side, r)
  BY <1>1, <1>2, <1>7 DEF InOrder
<1>9. \A k \in 1 .. Len(q) : k # i => q[k].price # l.price
  <2> TAKE k \in 1 .. Len(q)
  <2>1. k < i => Book!Before(side, q[k].price, q[i].price)
    BY <1>1 DEF InOrder
  <2>2. k > i => Book!Before(side, q[i].price, q[k].price)
    BY <1>1 DEF InOrder
  <2>3. ~Book!Before(side, l.price, l.price)
    BY <1>3, PricesOrdered
  <2>4. k \in Nat /\ i \in Nat
    BY <1>1
  <2> QED BY <2>1, <2>2, <2>3, <2>4
<1>10. ASSUME NEW k \in 1 .. Len(r) PROVE n[r[k].price] = r[k].amount
  <2>1. CASE k = i
    BY <2>1, <1>2, <1>4
  <2>2. CASE k # i
    <3>1. r[k] = q[k] /\ q[k].price # l.price /\ q[k].price \in Prices
      BY <2>2, <1>2, <1>6, <1>9
    <3>2. m[q[k].price] = q[k].amount
      BY <1>1, <1>2 DEF Shows
    <3> QED BY <3>1, <3>2, <1>4
  <2> QED BY <2>1, <2>2
<1>11. ASSUME NEW x \in Prices, n[x] > 0 PROVE \E k \in 1 .. Len(r) : r[k].price = x
  <2>1. CASE x = l.price
    BY <2>1, <1>2
  <2>2. CASE x # l.price
    <3>1. m[x] > 0
      BY <2>2, <1>4, <1>11
    <3>2. PICK k \in 1 .. Len(q) : q[k].price = x
      BY <1>1, <3>1 DEF Shows
    <3> QED BY <3>2, <1>2, <1>7
  <2> QED BY <2>1, <2>2
<1>12. Shows(r, n)
  BY <1>10, <1>11 DEF Shows
<1>13. SideHolds(side, r, n)
  BY <1>2, <1>4, <1>8, <1>12 DEF SideHolds
<1> QED BY <1>13 DEF r, n

LEMMA InsertionApplied ==
  ASSUME NEW side, NEW q, NEW m, SideHolds(side, q, m), NEW l \in Levels, NEW i \in 1 .. Len(q) + 1,
         \A k \in 1 .. Len(q) : k < i => Book!Before(side, q[k].price, l.price),
         \A k \in 1 .. Len(q) : k >= i => ~Book!Before(side, q[k].price, l.price),
         \A k \in 1 .. Len(q) : q[k].price # l.price
  PROVE  SideHolds(side, Book!InsertAt(q, i, l), [m EXCEPT ![l.price] = l.amount])
<1> DEFINE r == Book!InsertAt(q, i, l)  n == [m EXCEPT ![l.price] = l.amount]
<1>1. q \in Seq(Levels) /\ m \in Amounts /\ InOrder(side, q) /\ Shows(q, m)
  BY DEF SideHolds
<1>2. /\ r \in Seq(Levels) /\ Len(r) = Len(q) + 1
      /\ \A k \in 1 .. Len(q) + 1 : /\ k < i => r[k] = q[k]
                                    /\ k = i => r[k] = l
                                    /\ k > i => r[k] = q[k - 1]
  BY <1>1, LevelInserted
<1>3. l.price \in Prices /\ l.amount \in 0 .. MaxAmount
  BY MCMarketDataAssumption DEF Levels
<1>4. n \in Amounts /\ n[l.price] = l.amount /\ \A x \in Prices : x # l.price => n[x] = m[x]
  BY <1>1, <1>3, LevelSet
<1> HIDE DEF r, n
<1>5. \A k \in 1 .. Len(q) : q[k] \in Levels
  BY <1>1
<1>6. \A k \in 1 .. Len(q) : q[k].price \in Prices
  BY <1>5 DEF Levels
<1>7. \A j, k \in 1 .. Len(q) : j < k => Book!Before(side, q[j].price, q[k].price)
  BY <1>1 DEF InOrder
<1>8. \A k \in 1 .. Len(q) : k >= i => Book!Before(side, l.price, q[k].price)
  BY <1>3, <1>6, PricesOrdered
<1>0. Len(q) \in Nat /\ i \in Nat
  BY <1>1
<1>9. InOrder(side, r)
  <2>1. ASSUME NEW j \in 1 .. Len(r), NEW k \in 1 .. Len(r), j < k
        PROVE  Book!Before(side, r[j].price, r[k].price)
    <3>0. j \in 1 .. Len(q) + 1 /\ k \in 1 .. Len(q) + 1
      BY <1>2
    <3>1. CASE k < i
      <4>1. r[j] = q[j] /\ r[k] = q[k] /\ j \in 1 .. Len(q) /\ k \in 1 .. Len(q)
        BY <3>0, <3>1, <2>1, <1>0, <1>2
      <4> QED BY <4>1, <2>1, <1>7
    <3>2. CASE k = i
      <4>1. r[j] = q[j] /\ r[k] = l /\ j \in 1 .. Len(q) /\ j < i
        BY <3>0, <3>2, <2>1, <1>0, <1>2
      <4> QED BY <4>1
    <3>3. CASE k > i /\ j < i
      <4>1. r[j] = q[j] /\ r[k] = q[k - 1] /\ j \in 1 .. Len(q) /\ k - 1 \in 1 .. Len(q) /\ j < k - 1
        BY <3>0, <3>3, <2>1, <1>0, <1>2
      <4> QED BY <4>1, <1>7
    <3>4. CASE k > i /\ j = i
      <4>1. r[j] = l /\ r[k] = q[k - 1] /\ k - 1 \in 1 .. Len(q) /\ k - 1 >= i
        BY <3>0, <3>4, <2>1, <1>0, <1>2
      <4> QED BY <4>1, <1>8
    <3>5. CASE j > i
      <4>1. /\ r[j] = q[j - 1] /\ r[k] = q[k - 1]
            /\ j - 1 \in 1 .. Len(q) /\ k - 1 \in 1 .. Len(q) /\ j - 1 < k - 1
        BY <3>0, <3>5, <2>1, <1>0, <1>2
      <4> QED BY <4>1, <1>7
    <3> QED BY <3>0, <3>1, <3>2, <3>3, <3>4, <3>5, <2>1, <1>0
  <2> QED BY <2>1 DEF InOrder
<1>10. ASSUME NEW k \in 1 .. Len(r) PROVE n[r[k].price] = r[k].amount
  <2>1. CASE k = i
    BY <2>1, <1>2, <1>4
  <2>2. CASE k # i
    <3>1. PICK x \in 1 .. Len(q) : r[k] = q[x]
      <4>1. CASE k < i BY <4>1, <1>0, <1>2
      <4>2. CASE k > i
        <5>1. r[k] = q[k - 1] /\ k - 1 \in 1 .. Len(q)
          BY <4>2, <1>0, <1>2
        <5> QED BY <5>1
      <4> QED BY <4>1, <4>2, <2>2, <1>0, <1>2
    <3>2. m[q[x].price] = q[x].amount
      BY <1>1 DEF Shows
    <3> QED BY <3>1, <3>2, <1>4, <1>6
  <2> QED BY <2>1, <2>2
<1>11. ASSUME NEW x \in Prices, n[x] > 0 PROVE \E k \in 1 .. Len(r) : r[k].price = x
  <2>1. CASE x = l.price
    BY <2>1, <1>0, <1>2
  <2>2. CASE x # l.price
    <3>1. m[x] > 0
      BY <2>2, <1>4, <1>11
    <3>2. PICK k \in 1 .. Len(q) : q[k].price = x
      BY <1>1, <3>1 DEF Shows
    <3>3. CASE k < i
      BY <3>2, <3>3, <1>0, <1>2
    <3>4. CASE k >= i
      <4>1. k + 1 \in 1 .. Len(q) + 1 /\ k + 1 > i /\ (k + 1) - 1 = k
        BY <3>4, <1>0
      <4>2. r[k + 1] = q[k]
        BY <4>1, <1>2
      <4> QED BY <3>2, <4>1, <4>2, <1>2
    <3> QED BY <3>3, <3>4, <1>0
  <2> QED BY <2>1, <2>2
<1>12. Shows(r, n)
  BY <1>10, <1>11 DEF Shows
<1>13. SideHolds(side, r, n)
  BY <1>2, <1>4, <1>9, <1>12 DEF SideHolds
<1> QED BY <1>13 DEF r, n

\* applyLevelLocked: the slice is still the map, with that level set.
LEMMA LevelApplied ==
  ASSUME NEW side, NEW q, NEW m, SideHolds(side, q, m), NEW l \in Parsed
  PROVE  /\ SideHolds(side, Book!ApplyLevelTo(side, q, l), [m EXCEPT ![l.price] = l.amount])
         /\ l.amount > 0 /\ m[l.price] = 0 => Len(Book!ApplyLevelTo(side, q, l)) = Len(q) + 1
<1> DEFINE i == Book!Search(side, q, l.price)
<1>1. q \in Seq(Levels) /\ m \in Amounts /\ InOrder(side, q) /\ Shows(q, m)
  BY DEF SideHolds
<1>2. l.price \in Prices /\ l.amount \in 0 .. MaxAmount
  BY DEF Parsed
<1>3. i \in 1 .. Len(q) + 1 /\ \A k \in 1 .. Len(q) : k < i <=> Book!Before(side, q[k].price, l.price)
  BY <1>1, <1>2, SearchFinds
<1>4. Finds(side, q, l.price) <=> (i <= Len(q) /\ q[i].price = l.price)
  BY DEF Finds
<1>0. Len(q) \in Nat
  BY <1>1
<1>5. ~Finds(side, q, l.price) => \A k \in 1 .. Len(q) : q[k].price # l.price
  BY <1>1, <1>2, SearchMissesNone
<1>6. /\ Finds(side, q, l.price) /\ l.amount = 0 => Book!ApplyLevelTo(side, q, l) = Book!RemoveAt(q, i)
      /\ ~Finds(side, q, l.price) /\ l.amount = 0 => Book!ApplyLevelTo(side, q, l) = q
      /\ Finds(side, q, l.price) /\ l.amount # 0 => Book!ApplyLevelTo(side, q, l) = Book!ReplaceAt(q, i, l)
      /\ ~Finds(side, q, l.price) /\ l.amount # 0 => Book!ApplyLevelTo(side, q, l) = Book!InsertAt(q, i, l)
  BY <1>4 DEF Book!ApplyLevelTo
<1> HIDE DEF i
<1>7. l.amount # 0 => l \in Levels
  BY MCMarketDataAssumption DEF Parsed, Levels
<1>8. CASE Finds(side, q, l.price)
  <2>1. i \in 1 .. Len(q) /\ q[i].price = l.price
    BY <1>0, <1>3, <1>4, <1>8
  <2>2. m[l.price] > 0
    <3>1. q[i] \in Levels /\ m[l.price] = q[i].amount
      BY <1>1, <2>1 DEF Shows
    <3> QED BY <3>1, MCMarketDataAssumption DEF Levels
  <2>3. CASE l.amount = 0
    BY <2>1, <2>2, <2>3, <1>2, <1>6, <1>8, RemovalApplied
  <2>4. CASE l.amount # 0
    BY <2>1, <2>2, <2>4, <1>6, <1>7, <1>8, ReplacementApplied
  <2> QED BY <2>3, <2>4
<1>9. CASE ~Finds(side, q, l.price)
  <2>1. CASE l.amount = 0
    <3>1. m[l.price] = 0
      <4>1. ~(m[l.price] > 0)
        BY <1>1, <1>2, <1>5, <1>9 DEF Shows
      <4>2. m[l.price] \in 0 .. MaxAmount
        BY <1>1, <1>2 DEF Amounts
      <4> QED BY <4>1, <4>2, MCMarketDataAssumption
    <3>2. [m EXCEPT ![l.price] = l.amount] = m
      BY <3>1, <2>1, <1>1, <1>2 DEF Amounts
    <3> QED BY <3>2, <2>1, <1>6, <1>9
  <2>2. CASE l.amount # 0
    <3>0. /\ \A k \in 1 .. Len(q) : k < i => Book!Before(side, q[k].price, l.price)
          /\ \A k \in 1 .. Len(q) : k >= i => ~Book!Before(side, q[k].price, l.price)
      BY <1>0, <1>3
    <3>3. l \in Levels /\ i \in 1 .. Len(q) + 1 /\ \A k \in 1 .. Len(q) : q[k].price # l.price
      BY <2>2, <1>3, <1>5, <1>7, <1>9
    <3>1. SideHolds(side, Book!InsertAt(q, i, l), [m EXCEPT ![l.price] = l.amount])
      BY <3>0, <3>3, InsertionApplied
    <3>2. Len(Book!InsertAt(q, i, l)) = Len(q) + 1
      BY <2>2, <1>1, <1>3, <1>7, LevelInserted
    <3> QED BY <3>1, <3>2, <2>2, <1>6, <1>9
  <2> QED BY <2>1, <2>2
<1> QED BY <1>8, <1>9

(***************************************************************************)
(* One level after another.                                                *)
(***************************************************************************)

\* The prices of a frame are distinct.
Distinct(raw) == \A i, j \in 1 .. Len(raw) : i # j => raw[i].price # raw[j].price

\* The map after the first n levels of a frame.
After(m, raw, n) ==
  [p \in Prices |-> IF \E i \in 1 .. n : raw[i].price = p
                    THEN raw[CHOOSE i \in 1 .. n : raw[i].price = p].amount ELSE m[p]]

LEMMA AfterNone ==
  ASSUME NEW m \in Amounts, NEW raw
  PROVE  After(m, raw, 0) = m
<1>1. \A p \in Prices : ~\E i \in 1 .. 0 : raw[i].price = p
  OBVIOUS
<1>2. m = [p \in Prices |-> m[p]]
  BY DEF Amounts
<1>3. After(m, raw, 0) = [p \in Prices |-> m[p]]
  BY <1>1 DEF After
<1> QED BY <1>2, <1>3

\* Where a level of the frame stands does not matter to the map.
LEMMA AfterShows ==
  ASSUME NEW m, NEW raw \in Seq(Parsed), Distinct(raw), NEW n \in 0 .. Len(raw)
  PROVE  /\ \A i \in 1 .. n : After(m, raw, n)[raw[i].price] = raw[i].amount
         /\ \A p \in Prices : (\A i \in 1 .. n : raw[i].price # p) => After(m, raw, n)[p] = m[p]
<1>1. ASSUME NEW i \in 1 .. n PROVE After(m, raw, n)[raw[i].price] = raw[i].amount
  <2>1. i \in 1 .. Len(raw) /\ raw[i] \in Parsed
    OBVIOUS
  <2>2. raw[i].price \in Prices
    BY <2>1 DEF Parsed
  <2> DEFINE j == CHOOSE x \in 1 .. n : raw[x].price = raw[i].price
  <2>3. j \in 1 .. n /\ raw[j].price = raw[i].price
    OBVIOUS
  <2>4. After(m, raw, n)[raw[i].price] = raw[j].amount
    BY <2>2 DEF After
  <2> HIDE DEF j
  <2>5. j \in 1 .. Len(raw)
    BY <2>3
  <2>6. j = i
    BY <2>1, <2>3, <2>5 DEF Distinct
  <2> QED BY <2>4, <2>6
<1>2. ASSUME NEW p \in Prices, \A i \in 1 .. n : raw[i].price # p
      PROVE  After(m, raw, n)[p] = m[p]
  BY <1>2 DEF After
<1> QED BY <1>1, <1>2

LEMMA AfterOneMore ==
  ASSUME NEW m \in Amounts, NEW raw \in Seq(Parsed), Distinct(raw), NEW n \in 0 .. Len(raw) - 1
  PROVE  After(m, raw, n + 1) = [After(m, raw, n) EXCEPT ![raw[n + 1].price] = raw[n + 1].amount]
<1> DEFINE a == After(m, raw, n)  b == After(m, raw, n + 1)  l == raw[n + 1]
<1>0. Len(raw) \in Nat
  OBVIOUS
<1>1. n + 1 \in 1 .. Len(raw) /\ n \in 0 .. Len(raw) /\ n + 1 \in 0 .. Len(raw)
  BY <1>0
<1>2. l \in Parsed
  BY <1>1
<1>3. l.price \in Prices
  BY <1>2 DEF Parsed
<1>4. a = [p \in Prices |-> a[p]] /\ b = [p \in Prices |-> b[p]]
  BY DEF After
<1>5. /\ \A i \in 1 .. n : a[raw[i].price] = raw[i].amount
      /\ \A p \in Prices : (\A i \in 1 .. n : raw[i].price # p) => a[p] = m[p]
  BY <1>1, AfterShows
<1>6. /\ \A i \in 1 .. n + 1 : b[raw[i].price] = raw[i].amount
      /\ \A p \in Prices : (\A i \in 1 .. n + 1 : raw[i].price # p) => b[p] = m[p]
  BY <1>1, AfterShows
<1> HIDE DEF a, b
<1>7. b[l.price] = l.amount
  BY <1>1, <1>6
<1>8. ASSUME NEW p \in Prices, p # l.price PROVE b[p] = a[p]
  <2>1. CASE \E i \in 1 .. n : raw[i].price = p
    <3>1. PICK i \in 1 .. n : raw[i].price = p
      BY <2>1
    <3>2. i \in 1 .. n + 1
      BY <1>1
    <3> QED BY <3>1, <3>2, <1>5, <1>6
  <2>2. CASE \A i \in 1 .. n : raw[i].price # p
    <3>1. \A i \in 1 .. n + 1 : i \in 1 .. n \/ i = n + 1
      BY <1>1
    <3>2. \A i \in 1 .. n + 1 : raw[i].price # p
      BY <3>1, <2>2, <1>8
    <3> QED BY <3>2, <2>2, <1>5, <1>6
  <2> QED BY <2>1, <2>2
<1>9. b = [a EXCEPT ![l.price] = l.amount]
  BY <1>3, <1>4, <1>7, <1>8
<1> QED BY <1>9 DEF a, b

\* The reference of the model is the map after the whole frame.
LEMMA OverwriteIsAfter ==
  ASSUME NEW m \in Amounts, NEW raw \in Seq(Parsed), Distinct(raw)
  PROVE  Book!Overwrite(m, raw) = After(m, raw, Len(raw))
<1> DEFINE o == Book!Overwrite(m, raw)  a == After(m, raw, Len(raw))
<1>0. Len(raw) \in Nat /\ DOMAIN raw = 1 .. Len(raw) /\ Len(raw) \in 0 .. Len(raw)
  OBVIOUS
<1>5. /\ \A i \in 1 .. Len(raw) : a[raw[i].price] = raw[i].amount
      /\ \A p \in Prices : (\A i \in 1 .. Len(raw) : raw[i].price # p) => a[p] = m[p]
  <2>1. ASSUME NEW n \in 0 .. Len(raw)
        PROVE  /\ \A i \in 1 .. n : After(m, raw, n)[raw[i].price] = raw[i].amount
               /\ \A p \in Prices : (\A i \in 1 .. n : raw[i].price # p) => After(m, raw, n)[p] = m[p]
    BY AfterShows
  <2> QED BY <2>1, <1>0
<1>1. ASSUME NEW p \in Prices PROVE o[p] = a[p]
  <2>1. CASE \E i \in 1 .. Len(raw) : raw[i].price = p
    <3>1. PICK i \in 1 .. Len(raw) : raw[i].price = p
      BY <2>1
    <3> DEFINE l == CHOOSE x \in Book!Range(raw) : x.price = p
    <3>2. raw[i] \in Book!Range(raw)
      BY <1>0 DEF Book!Range
    <3>3. l \in Book!Range(raw) /\ l.price = p
      BY <3>1, <3>2
    <3>4. o[p] = l.amount
      BY <2>1, <1>0 DEF Book!Overwrite
    <3> HIDE DEF l
    <3>5. PICK j \in 1 .. Len(raw) : raw[j] = l
      BY <3>3, <1>0 DEF Book!Range
    <3>6. i = j
      BY <3>1, <3>3, <3>5 DEF Distinct
    <3>7. a[p] = raw[i].amount
      BY <3>1, <1>5
    <3> QED BY <3>4, <3>5, <3>6, <3>7
  <2>2. CASE \A i \in 1 .. Len(raw) : raw[i].price # p
    <3>1. o[p] = m[p]
      BY <2>2, <1>0 DEF Book!Overwrite
    <3>2. a[p] = m[p]
      BY <2>2, <1>5
    <3> QED BY <3>1, <3>2
  <2> QED BY <2>1, <2>2
<1>2. o = [p \in Prices |-> o[p]]
  BY DEF Book!Overwrite
<1>3. a = [p \in Prices |-> a[p]]
  BY DEF After
<1> HIDE DEF o, a
<1>4. o = a
  BY <1>1, <1>2, <1>3
<1> QED BY <1>4 DEF o, a

\* The slices that ApplyAll goes through.
Applied(f, side, s, raw, n) ==
  f = [i \in 0 .. n |-> IF i = 0 THEN s ELSE Book!ApplyLevelTo(side, f[i - 1], raw[i])]

LEMMA ApplyingExists ==
  ASSUME NEW side, NEW s, NEW raw, Len(raw) \in Nat
  PROVE  \E f : Applied(f, side, s, raw, Len(raw))
<1> DEFINE S == {n \in Nat : \E f : Applied(f, side, s, raw, n)}
<1>1. 0 \in S
  <2>1. Applied([i \in 0 .. 0 |-> s], side, s, raw, 0)
    BY DEF Applied
  <2> QED BY <2>1
<1>2. ASSUME NEW n \in 0 .. Len(raw) - 1, n \in S PROVE n + 1 \in S
  <2>0. n \in Nat /\ n + 1 \in Nat
    BY <1>2
  <2>1. PICK f : Applied(f, side, s, raw, n)
    BY <1>2
  <2> DEFINE g == [i \in 0 .. n + 1 |-> IF i = 0 THEN s ELSE Book!ApplyLevelTo(side, f[i - 1], raw[i])]
  <2>2. \A i \in 0 .. n : g[i] = f[i]
    BY <2>0, <2>1 DEF Applied
  <2>3. \A i \in 0 .. n + 1 : i # 0 => g[i - 1] = f[i - 1]
    <3> HIDE DEF g
    <3>1. \A i \in 0 .. n + 1 : i # 0 => i - 1 \in 0 .. n
      BY <2>0
    <3> QED BY <3>1, <2>2
  <2>4. g = [i \in 0 .. n + 1 |-> IF i = 0 THEN s ELSE Book!ApplyLevelTo(side, g[i - 1], raw[i])]
    BY <2>3
  <2> HIDE DEF g
  <2>5. Applied(g, side, s, raw, n + 1)
    BY <2>4 DEF Applied
  <2> QED BY <2>0, <2>5
<1> HIDE DEF S
<1>3. \A n \in 0 .. Len(raw) : n \in S
  BY <1>1, <1>2, UpTo
<1>4. Len(raw) \in S
  BY <1>3
<1> QED BY <1>4 DEF S

\* The levels of a frame, each set in turn: the slice remains the map.
LEMMA FrameApplied ==
  ASSUME NEW side, NEW q, NEW m, SideHolds(side, q, m), NEW raw \in Seq(Parsed), Distinct(raw)
  PROVE  /\ SideHolds(side, Book!ApplyAll(side, q, raw), Book!Overwrite(m, raw))
         /\ (\A i \in 1 .. Len(raw) : raw[i].amount > 0 /\ m[raw[i].price] = 0)
              => Len(Book!ApplyAll(side, q, raw)) = Len(q) + Len(raw)
<1> DEFINE d == CHOOSE f : f = [i \in 0 .. Len(raw) |->
                     IF i = 0 THEN q ELSE Book!ApplyLevelTo(side, f[i - 1], raw[i])]
           New == \A i \in 1 .. Len(raw) : raw[i].amount > 0 /\ m[raw[i].price] = 0
           S == {n \in Nat : /\ SideHolds(side, d[n], After(m, raw, n))
                             /\ New => Len(d[n]) = Len(q) + n}
<1>0. Len(raw) \in Nat /\ Len(q) \in Nat /\ m \in Amounts
  BY DEF SideHolds
<1>1. Book!ApplyAll(side, q, raw) = d[Len(raw)]
  BY DEF Book!ApplyAll
<1>2. Applied(d, side, q, raw, Len(raw))
  <2>1. PICK f : Applied(f, side, q, raw, Len(raw))
    BY <1>0, ApplyingExists
  <2> QED BY <2>1 DEF Applied
<1> HIDE DEF d
<1>3. /\ d[0] = q
      /\ \A n \in 0 .. Len(raw) - 1 : d[n + 1] = Book!ApplyLevelTo(side, d[n], raw[n + 1])
  <2>1. d[0] = q
    BY <1>0, <1>2 DEF Applied
  <2>2. ASSUME NEW n \in 0 .. Len(raw) - 1
        PROVE  d[n + 1] = Book!ApplyLevelTo(side, d[n], raw[n + 1])
    <3>1. n + 1 \in 0 .. Len(raw) /\ n + 1 # 0 /\ n + 1 - 1 = n
      BY <1>0
    <3> QED BY <3>1, <1>2 DEF Applied
  <2> QED BY <2>1, <2>2
<1>4. 0 \in S
  BY <1>0, <1>3, AfterNone
<1>5. ASSUME NEW n \in 0 .. Len(raw) - 1, n \in S PROVE n + 1 \in S
  <2> DEFINE a == After(m, raw, n)  l == raw[n + 1]
  <2>1. n + 1 \in 1 .. Len(raw) /\ n \in 0 .. Len(raw) /\ n \in Nat /\ n + 1 \in Nat
    BY <1>0
  <2>2. l \in Parsed
    BY <2>1
  <2>3. SideHolds(side, d[n], a) /\ (New => Len(d[n]) = Len(q) + n)
    BY <1>5
  <2>4. After(m, raw, n + 1) = [a EXCEPT ![l.price] = l.amount]
    BY <1>0, AfterOneMore
  <2>5. New => l.amount > 0 /\ a[l.price] = 0
    <3> SUFFICES ASSUME New PROVE l.amount > 0 /\ a[l.price] = 0
      OBVIOUS
    <3>1. \A i \in 1 .. n : raw[i].price # l.price
      BY <2>1, <1>0 DEF Distinct
    <3>2. l.price \in Prices
      BY <2>2 DEF Parsed
    <3>3. a[l.price] = m[l.price]
      BY <3>1, <3>2, <2>1, AfterShows
    <3> QED BY <3>3, <2>1
  <2> HIDE DEF a, l, New
  <2>6. /\ SideHolds(side, Book!ApplyLevelTo(side, d[n], l), [a EXCEPT ![l.price] = l.amount])
        /\ l.amount > 0 /\ a[l.price] = 0 => Len(Book!ApplyLevelTo(side, d[n], l)) = Len(d[n]) + 1
    BY <2>2, <2>3, LevelApplied
  <2>7. d[n + 1] = Book!ApplyLevelTo(side, d[n], l)
    BY <1>3 DEF l
  <2>8. New => Len(d[n + 1]) = Len(q) + (n + 1)
    BY <2>3, <2>5, <2>6, <2>7, <2>1, <1>0
  <2> QED BY <2>1, <2>4, <2>6, <2>7, <2>8
<1> HIDE DEF S
<1>6. \A n \in 0 .. Len(raw) : n \in S
  BY <1>0, <1>4, <1>5, UpTo
<1>7. Len(raw) \in S
  BY <1>0, <1>6
<1>8. SideHolds(side, d[Len(raw)], After(m, raw, Len(raw))) /\ (New => Len(d[Len(raw)]) = Len(q) + Len(raw))
  BY <1>7 DEF S
<1> QED BY <1>0, <1>1, <1>8, OverwriteIsAfter

(***************************************************************************)
(* A snapshot: its levels, sorted.                                         *)
(***************************************************************************)
Nothing == [p \in Prices |-> 0]

\* What slices.SortFunc may make of a side.
IsSorted(side, raw, t) ==
  /\ t \in [DOMAIN raw -> Book!Range(raw)]
  /\ Book!Range(t) = Book!Range(raw)
  /\ \A i, j \in DOMAIN t : i < j => Book!Before(side, t[i].price, t[j].price)

LEMMA EmptyHolds ==
  ASSUME NEW side
  PROVE  SideHolds(side, << >>, Nothing)
<1>1. Nothing \in Amounts /\ \A p \in Prices : Nothing[p] = 0
  BY MCMarketDataAssumption DEF Nothing, Amounts
<1>2. << >> \in Seq(Levels) /\ Len(<< >>) = 0
  OBVIOUS
<1>3. InOrder(side, << >>)
  BY <1>2 DEF InOrder
<1>4. Shows(<< >>, Nothing)
  BY <1>1, <1>2 DEF Shows
<1> QED BY <1>1, <1>2, <1>3, <1>4 DEF SideHolds

\* The levels of a snapshot are those of its map.
LEMMA SnapshotMap ==
  ASSUME NEW raw \in Seq(Levels), Distinct(raw)
  PROVE  /\ Book!Overwrite(Nothing, raw) \in Amounts
         /\ \A i \in 1 .. Len(raw) : Book!Overwrite(Nothing, raw)[raw[i].price] = raw[i].amount
         /\ \A p \in Prices : Book!Overwrite(Nothing, raw)[p] > 0
                                => \E i \in 1 .. Len(raw) : raw[i].price = p
<1> DEFINE o == Book!Overwrite(Nothing, raw)
<1>1. Levels \subseteq Parsed
  BY MCMarketDataAssumption DEF Levels, Parsed
<1>2. raw \in Seq(Parsed)
  BY <1>1
<1>3. SideHolds("bid", << >>, Nothing)
  BY EmptyHolds
<1>4. o \in Amounts
  BY <1>2, <1>3, FrameApplied DEF SideHolds
<1>5. Nothing \in Amounts /\ \A p \in Prices : Nothing[p] = 0
  BY MCMarketDataAssumption DEF Nothing, Amounts
<1>6. o = After(Nothing, raw, Len(raw)) /\ Len(raw) \in 0 .. Len(raw)
  BY <1>2, <1>5, OverwriteIsAfter
<1> HIDE DEF o
<1>7. /\ \A i \in 1 .. Len(raw) : o[raw[i].price] = raw[i].amount
      /\ \A p \in Prices : (\A i \in 1 .. Len(raw) : raw[i].price # p) => o[p] = Nothing[p]
  <2>1. ASSUME NEW n \in 0 .. Len(raw)
        PROVE  /\ \A i \in 1 .. n : After(Nothing, raw, n)[raw[i].price] = raw[i].amount
               /\ \A p \in Prices : (\A i \in 1 .. n : raw[i].price # p)
                                      => After(Nothing, raw, n)[p] = Nothing[p]
    BY <1>2, AfterShows
  <2> QED BY <2>1, <1>6
<1>8. ASSUME NEW p \in Prices, o[p] > 0 PROVE \E i \in 1 .. Len(raw) : raw[i].price = p
  BY <1>5, <1>7, <1>8
<1> QED BY <1>4, <1>7, <1>8 DEF o

LEMMA SameLevel ==
  ASSUME NEW k \in Levels, NEW l \in Levels, k.price = l.price, k.amount = l.amount
  PROVE  k = l
BY DEF Levels

\* A sorted snapshot exists: the one that inserts its levels in turn.
LEMMA SortingExists ==
  ASSUME NEW side, NEW raw \in Seq(Levels), Distinct(raw)
  PROVE  \E t : IsSorted(side, raw, t)
<1> DEFINE t == Book!ApplyAll(side, << >>, raw)  o == Book!Overwrite(Nothing, raw)
<1>0. Len(raw) \in Nat /\ DOMAIN raw = 1 .. Len(raw) /\ \A i \in 1 .. Len(raw) : raw[i] \in Levels
  OBVIOUS
<1>1. Levels \subseteq Parsed
  BY MCMarketDataAssumption DEF Levels, Parsed
<1>2. raw \in Seq(Parsed)
  BY <1>1
<1>3. \A i \in 1 .. Len(raw) : raw[i].price \in Prices /\ raw[i].amount > 0
  BY <1>0, MCMarketDataAssumption DEF Levels
<1>4. \A i \in 1 .. Len(raw) : raw[i].amount > 0 /\ Nothing[raw[i].price] = 0
  BY <1>3 DEF Nothing
<1>15. SideHolds(side, << >>, Nothing)
  BY EmptyHolds
<1>16. /\ SideHolds(side, t, o)
       /\ (\A i \in 1 .. Len(raw) : raw[i].amount > 0 /\ Nothing[raw[i].price] = 0)
            => Len(t) = Len(<< >>) + Len(raw)
  BY <1>2, <1>15, FrameApplied
<1>5. SideHolds(side, t, o) /\ Len(t) = Len(raw)
  BY <1>0, <1>4, <1>16
<1>6. /\ \A i \in 1 .. Len(raw) : o[raw[i].price] = raw[i].amount
      /\ \A p \in Prices : o[p] > 0 => \E i \in 1 .. Len(raw) : raw[i].price = p
  BY SnapshotMap
<1> HIDE DEF t, o
<1>7. /\ t \in Seq(Levels) /\ Len(t) = Len(raw) /\ DOMAIN t = 1 .. Len(raw)
      /\ InOrder(side, t) /\ Shows(t, o)
  BY <1>0, <1>5 DEF SideHolds
<1>8. ASSUME NEW i \in 1 .. Len(raw) PROVE \E j \in 1 .. Len(raw) : t[i] = raw[j]
  <2>1. t[i] \in Levels /\ o[t[i].price] = t[i].amount
    BY <1>7 DEF Shows
  <2>2. t[i].price \in Prices /\ t[i].amount > 0
    BY <2>1, MCMarketDataAssumption DEF Levels
  <2>3. PICK j \in 1 .. Len(raw) : raw[j].price = t[i].price
    BY <2>1, <2>2, <1>6
  <2>4. raw[j].amount = t[i].amount
    BY <2>1, <2>3, <1>6
  <2>5. t[i] = raw[j]
    BY <2>1, <2>3, <2>4, <1>0, SameLevel
  <2> QED BY <2>5
<1>9. ASSUME NEW j \in 1 .. Len(raw) PROVE \E i \in 1 .. Len(raw) : t[i] = raw[j]
  <2>1. o[raw[j].price] > 0
    BY <1>3, <1>6
  <2>2. PICK i \in 1 .. Len(raw) : t[i].price = raw[j].price
    BY <2>1, <1>3, <1>7 DEF Shows
  <2>3. t[i] \in Levels /\ t[i].amount = raw[j].amount
    BY <2>2, <1>6, <1>7 DEF Shows
  <2>4. t[i] = raw[j]
    BY <2>2, <2>3, <1>0, SameLevel
  <2> QED BY <2>4
<1>10. \A x : x \in Book!Range(t) <=> \E i \in 1 .. Len(raw) : x = t[i]
  BY <1>7 DEF Book!Range
<1>11. \A x : x \in Book!Range(raw) <=> \E i \in 1 .. Len(raw) : x = raw[i]
  BY <1>0 DEF Book!Range
<1>12. Book!Range(t) = Book!Range(raw)
  BY <1>8, <1>9, <1>10, <1>11
<1>13. t \in [DOMAIN raw -> Book!Range(raw)]
  <2>1. t = [i \in 1 .. Len(raw) |-> t[i]]
    BY <1>7
  <2>2. \A i \in 1 .. Len(raw) : t[i] \in Book!Range(raw)
    BY <1>8, <1>11
  <2> QED BY <2>1, <2>2, <1>0
<1>14. \A i, j \in DOMAIN t : i < j => Book!Before(side, t[i].price, t[j].price)
  BY <1>7 DEF InOrder
<1> QED BY <1>12, <1>13, <1>14 DEF IsSorted

LEMMA SnapshotHolds ==
  ASSUME NEW side, NEW raw \in Seq(Levels), Distinct(raw)
  PROVE  SideHolds(side, Book!Sorted(side, raw), Book!Overwrite(Nothing, raw))
<1> DEFINE t == Book!Sorted(side, raw)  o == Book!Overwrite(Nothing, raw)
<1>0. Len(raw) \in Nat /\ DOMAIN raw = 1 .. Len(raw) /\ \A i \in 1 .. Len(raw) : raw[i] \in Levels
  OBVIOUS
<1>1. IsSorted(side, raw, t)
  <2>1. PICK x : IsSorted(side, raw, x)
    BY SortingExists
  <2> QED BY <2>1 DEF IsSorted, Book!Sorted
<1>2. /\ o \in Amounts
      /\ \A i \in 1 .. Len(raw) : o[raw[i].price] = raw[i].amount
      /\ \A p \in Prices : o[p] > 0 => \E i \in 1 .. Len(raw) : raw[i].price = p
  BY SnapshotMap
<1> HIDE DEF t, o
<1>3. \A x : x \in Book!Range(raw) <=> \E i \in 1 .. Len(raw) : x = raw[i]
  BY <1>0 DEF Book!Range
<1>4. t \in [1 .. Len(raw) -> Book!Range(raw)]
  BY <1>0, <1>1 DEF IsSorted
<1>5. Book!Range(raw) \subseteq Levels
  BY <1>0, <1>3
<1>6. t \in Seq(Levels) /\ Len(t) = Len(raw) /\ DOMAIN t = 1 .. Len(raw)
  BY <1>0, <1>4, <1>5
<1>7. \A x : x \in Book!Range(t) <=> \E i \in 1 .. Len(raw) : x = t[i]
  BY <1>6 DEF Book!Range
<1>8. InOrder(side, t)
  BY <1>1, <1>6 DEF IsSorted, InOrder
<1>9. ASSUME NEW i \in 1 .. Len(t) PROVE o[t[i].price] = t[i].amount
  <2>1. PICK j \in 1 .. Len(raw) : t[i] = raw[j]
    BY <1>3, <1>4, <1>6
  <2> QED BY <2>1, <1>2
<1>10. ASSUME NEW p \in Prices, o[p] > 0 PROVE \E i \in 1 .. Len(t) : t[i].price = p
  <2>1. PICK j \in 1 .. Len(raw) : raw[j].price = p
    BY <1>2, <1>10
  <2>2. raw[j] \in Book!Range(t)
    BY <1>1, <1>3 DEF IsSorted
  <2>3. PICK i \in 1 .. Len(raw) : raw[j] = t[i]
    BY <2>2, <1>7
  <2> QED BY <2>1, <2>3, <1>6
<1>11. Shows(t, o)
  BY <1>9, <1>10 DEF Shows
<1>12. SideHolds(side, t, o)
  BY <1>2, <1>6, <1>8, <1>11 DEF SideHolds
<1> QED BY <1>12 DEF t, o

(***************************************************************************)
(* The book.                                                               *)
(***************************************************************************)
BookInv ==
  /\ DOMAIN levels = Book!Sides /\ levels = [s \in Book!Sides |-> levels[s]]
  /\ DOMAIN ref = Book!Sides /\ ref = [s \in Book!Sides |-> ref[s]]
  /\ \A s \in Book!Sides : SideHolds(s, levels[s], ref[s])

\* A side that parses is a sequence of levels with distinct prices.
LEMMA ParsedSide ==
  ASSUME NEW raw \in Book!RawSides, NEW zero \in BOOLEAN, Book!Parses(raw, zero)
  PROVE  raw \in Seq(Parsed) /\ Distinct(raw) /\ (~zero => raw \in Seq(Levels))
<1>1. PICK k \in 0 .. MaxBatch : raw \in [1 .. k -> Book!RawLevels]
  BY DEF Book!RawSides
<1>2. k \in Nat
  BY <1>1, MCMarketDataAssumption
<1>3. raw \in Seq(Book!RawLevels) /\ Len(raw) = k /\ DOMAIN raw = 1 .. k
  BY <1>1, <1>2
<1>4. Distinct(raw)
  BY <1>3 DEF Book!RawSides, Distinct
<1>5. ASSUME NEW i \in 1 .. k PROVE raw[i] \in Parsed /\ (~zero => raw[i] \in Levels)
  <2>1. PICK p \in Prices, a \in (0 .. MaxAmount) \cup {Bad} : raw[i] = [price |-> p, amount |-> a]
    <3>1. raw[i] \in Book!RawLevels
      BY <1>1
    <3> QED BY <3>1 DEF Book!RawLevels, Book!Level
  <2>2. a # Bad /\ (zero \/ a > 0)
    BY <2>1, <1>3 DEF Book!Parses
  <2>3. a \in 0 .. MaxAmount
    BY <2>2
  <2>4. ~zero => a \in 1 .. MaxAmount
    BY <2>2, <2>3
  <2> QED BY <2>1, <2>3, <2>4 DEF Parsed, Levels
<1>6. raw \in [1 .. k -> Parsed] /\ (~zero => raw \in [1 .. k -> Levels])
  BY <1>1, <1>5
<1> QED BY <1>2, <1>4, <1>6

LEMMA SidesHold ==
  ASSUME BookInv,
         NEW x, NEW y, levels' = [s \in Book!Sides |-> x[s]], ref' = [s \in Book!Sides |-> y[s]],
         \A s \in Book!Sides : SideHolds(s, x[s], y[s])
  PROVE  BookInv'
BY DEF BookInv

LEMMA SnapshotKeeps ==
  ASSUME BookInv, NEW id, NEW bids \in Book!RawSides, NEW asks \in Book!RawSides,
         Book!ApplySnapshot(id, bids, asks)
  PROVE  BookInv'
<1>1. CASE id > 0 /\ Book!Parses(bids, FALSE) /\ Book!Parses(asks, FALSE)
  <2> DEFINE raw == [s \in Book!Sides |-> IF s = "bid" THEN bids ELSE asks]
             x == [s \in Book!Sides |-> Book!Sorted(s, raw[s])]
             y == [s \in Book!Sides |-> Book!Overwrite(Nothing, raw[s])]
  <2>1. levels' = x /\ ref' = y
    BY <1>1 DEF Book!ApplySnapshot, Nothing
  <2>2. ASSUME NEW s \in Book!Sides PROVE raw[s] \in Seq(Levels) /\ Distinct(raw[s])
    BY <1>1, ParsedSide
  <2> HIDE DEF raw
  <2>3. \A s \in Book!Sides : SideHolds(s, x[s], y[s])
    BY <2>2, SnapshotHolds
  <2> QED BY <2>1, <2>3, SidesHold
<1>2. CASE ~(id > 0 /\ Book!Parses(bids, FALSE) /\ Book!Parses(asks, FALSE))
  <2>1. UNCHANGED <<levels, ref>>
    BY <1>2 DEF Book!ApplySnapshot, Book!vars
  <2> QED BY <2>1 DEF BookInv
<1> QED BY <1>1, <1>2

LEMMA DiffKeeps ==
  ASSUME BookInv, NEW id, NEW bids \in Book!RawSides, NEW asks \in Book!RawSides,
         Book!ApplyDiff(id, bids, asks)
  PROVE  BookInv'
<1>1. CASE id > 0 /\ Book!Parses(bids, TRUE) /\ Book!Parses(asks, TRUE) /\ id >= lastUpdateID
  <2> DEFINE raw == [s \in Book!Sides |-> IF s = "bid" THEN bids ELSE asks]
             x == [s \in Book!Sides |-> Book!ApplyAll(s, levels[s], raw[s])]
             y == [s \in Book!Sides |-> Book!Overwrite(ref[s], raw[s])]
  <2>1. /\ levels' = [levels EXCEPT !["bid"] = Book!ApplyAll("bid", @, bids),
                                    !["ask"] = Book!ApplyAll("ask", @, asks)]
        /\ ref' = [ref EXCEPT !["bid"] = Book!Overwrite(@, bids), !["ask"] = Book!Overwrite(@, asks)]
    BY <1>1 DEF Book!ApplyDiff
  <2>2. ASSUME NEW s \in Book!Sides PROVE raw[s] \in Seq(Parsed) /\ Distinct(raw[s])
    BY <1>1, ParsedSide
  <2>3. levels' = x
    BY <2>1 DEF BookInv, Book!Sides
  <2>4. ref' = y
    BY <2>1 DEF BookInv, Book!Sides
  <2> HIDE DEF raw
  <2>5. \A s \in Book!Sides : SideHolds(s, x[s], y[s])
    BY <2>2, FrameApplied DEF BookInv
  <2> QED BY <2>3, <2>4, <2>5, SidesHold
<1>2. CASE ~(id > 0 /\ Book!Parses(bids, TRUE) /\ Book!Parses(asks, TRUE) /\ id >= lastUpdateID)
  <2>1. UNCHANGED <<levels, ref>>
    BY <1>2 DEF Book!ApplyDiff, Book!vars
  <2> QED BY <2>1 DEF BookInv
<1> QED BY <1>1, <1>2

LEMMA LevelKeeps ==
  ASSUME BookInv, NEW side \in Book!Sides, NEW l \in Book!RawLevels, Book!ApplyLevel(side, l)
  PROVE  BookInv'
<1>1. CASE Book!Parses(<<l>>, TRUE)
  <2>1. /\ levels' = [levels EXCEPT ![side] = Book!ApplyLevelTo(side, @, l)]
        /\ ref' = [ref EXCEPT ![side] = Book!Overwrite(@, <<l>>)]
    BY <1>1 DEF Book!ApplyLevel
  <2>2. l \in Parsed
    <3>1. PICK p \in Prices, a \in (0 .. MaxAmount) \cup {Bad} : l = [price |-> p, amount |-> a]
      BY DEF Book!RawLevels, Book!Level
    <3>2. a # Bad
      BY <3>1, <1>1 DEF Book!Parses
    <3> QED BY <3>1, <3>2 DEF Parsed
  <2> DEFINE raw == <<l>>
  <2>3. raw \in Seq(Parsed) /\ Len(raw) = 1 /\ raw[1] = l
    BY <2>2
  <2>4. Distinct(raw)
    BY <2>3 DEF Distinct
  <2>5. SideHolds(side, levels[side], ref[side]) /\ ref[side] \in Amounts
    BY DEF BookInv, SideHolds
  <2> HIDE DEF raw
  <2>6. Book!Overwrite(ref[side], raw) = [ref[side] EXCEPT ![l.price] = l.amount]
    <3>1. Book!Overwrite(ref[side], raw) = After(ref[side], raw, 1)
      BY <2>3, <2>4, <2>5, OverwriteIsAfter
    <3>2. After(ref[side], raw, 0 + 1) = [After(ref[side], raw, 0) EXCEPT ![raw[0 + 1].price] = raw[0 + 1].amount]
      <4>1. 0 \in 0 .. Len(raw) - 1
        BY <2>3
      <4> QED BY <4>1, <2>3, <2>4, <2>5, AfterOneMore
    <3>3. After(ref[side], raw, 0) = ref[side]
      BY <2>5, AfterNone
    <3> QED BY <3>1, <3>2, <3>3, <2>3
  <2>7. SideHolds(side, Book!ApplyLevelTo(side, levels[side], l), Book!Overwrite(ref[side], raw))
    BY <2>2, <2>5, <2>6, LevelApplied
  <2> DEFINE x == [s \in Book!Sides |-> IF s = side THEN Book!ApplyLevelTo(side, levels[side], l) ELSE levels[s]]
             y == [s \in Book!Sides |-> IF s = side THEN Book!Overwrite(ref[side], raw) ELSE ref[s]]
  <2>8. levels' = x
    BY <2>1 DEF BookInv
  <2>9. ref' = y
    BY <2>1 DEF BookInv, raw
  <2>10. \A s \in Book!Sides : SideHolds(s, x[s], y[s])
    BY <2>7 DEF BookInv
  <2> QED BY <2>8, <2>9, <2>10, SidesHold
<1>2. CASE ~Book!Parses(<<l>>, TRUE)
  <2>1. UNCHANGED <<levels, ref>>
    BY <1>2 DEF Book!ApplyLevel
  <2> QED BY <2>1 DEF BookInv
<1> QED BY <1>1, <1>2

LEMMA EmptyBook ==
  ASSUME levels = [s \in Book!Sides |-> << >>], ref = [s \in Book!Sides |-> [p \in Prices |-> 0]]
  PROVE  BookInv
<1>1. \A s \in Book!Sides : levels[s] = << >> /\ ref[s] = Nothing
  BY DEF Nothing
<1>2. \A s \in Book!Sides : SideHolds(s, levels[s], ref[s])
  BY <1>1, EmptyHolds
<1> QED BY <1>2 DEF BookInv

LEMMA BookStep ==
  ASSUME BookInv, Book!Next
  PROVE  BookInv'
<1>1. ASSUME NEW id \in 0 .. MaxUpdateID, NEW bids \in Book!RawSides, NEW asks \in Book!RawSides,
             Book!ApplySnapshot(id, bids, asks) \/ Book!ApplyDiff(id, bids, asks)
      PROVE  BookInv'
  BY <1>1, SnapshotKeeps, DiffKeeps
<1>2. ASSUME NEW side \in Book!Sides, NEW l \in Book!RawLevels, Book!ApplyLevel(side, l)
      PROVE  BookInv'
  BY <1>2, LevelKeeps
<1>3. CASE Book!Clear
  <2>1. /\ levels' = [s \in Book!Sides |-> << >>]
        /\ ref' = [s \in Book!Sides |-> Nothing]
    BY <1>3 DEF Book!Clear, Nothing
  <2>2. \A s \in Book!Sides : levels'[s] = << >> /\ ref'[s] = Nothing
    BY <2>1
  <2>3. \A s \in Book!Sides : SideHolds(s, levels'[s], ref'[s])
    BY <2>2, EmptyHolds
  <2> QED BY <2>1, <2>3 DEF BookInv
<1> QED BY <1>1, <1>2, <1>3 DEF Book!Next

LEMMA SortedIfHeld ==
  ASSUME BookInv
  PROVE  BookIsSorted
<1>1. ASSUME NEW s \in Book!Sides
      PROVE  /\ \A i, j \in DOMAIN levels[s] :
                  i < j => Book!Before(s, levels[s][i].price, levels[s][j].price)
             /\ {<<l.price, l.amount>> : l \in Book!Range(levels[s])}
                  = {<<p, ref[s][p]>> : p \in {q \in Prices : ref[s][q] > 0}}
  <2> DEFINE q == levels[s]  m == ref[s]
             A == {<<l.price, l.amount>> : l \in Book!Range(q)}
             B == {<<p, m[p]>> : p \in {r \in Prices : m[r] > 0}}
  <2>1. q \in Seq(Levels) /\ m \in Amounts /\ InOrder(s, q) /\ Shows(q, m)
    BY DEF BookInv, SideHolds
  <2> HIDE DEF q, m
  <2>2. DOMAIN q = 1 .. Len(q) /\ \A i \in 1 .. Len(q) : q[i] \in Levels
    BY <2>1
  <2>3. \A i, j \in DOMAIN q : i < j => Book!Before(s, q[i].price, q[j].price)
    BY <2>1, <2>2 DEF InOrder
  <2>4. \A l : l \in Book!Range(q) <=> \E i \in 1 .. Len(q) : l = q[i]
    BY <2>2 DEF Book!Range
  <2>5. ASSUME NEW i \in 1 .. Len(q)
        PROVE  q[i].price \in Prices /\ q[i].amount > 0 /\ m[q[i].price] = q[i].amount
    <3>1. m[q[i].price] = q[i].amount
      BY <2>1 DEF Shows
    <3> QED BY <3>1, <2>2, MCMarketDataAssumption DEF Levels
  <2>6. ASSUME NEW z \in A PROVE z \in B
    <3>1. PICK i \in 1 .. Len(q) : z = <<q[i].price, q[i].amount>>
      BY <2>4, <2>6
    <3>2. z = <<q[i].price, m[q[i].price]>> /\ q[i].price \in Prices /\ m[q[i].price] > 0
      BY <3>1, <2>5
    <3> QED BY <3>2
  <2>7. ASSUME NEW z \in B PROVE z \in A
    <3>1. PICK p \in Prices : m[p] > 0 /\ z = <<p, m[p]>>
      BY <2>7
    <3>2. PICK i \in 1 .. Len(q) : q[i].price = p
      BY <3>1, <2>1 DEF Shows
    <3>3. q[i] \in Book!Range(q) /\ z = <<q[i].price, q[i].amount>>
      BY <3>1, <3>2, <2>4, <2>5
    <3> QED BY <3>3
  <2>8. A = B
    <3> HIDE DEF A, B
    <3> QED BY <2>6, <2>7
  <2> QED BY <2>3, <2>8 DEF q, m
<1> QED BY <1>1 DEF BookIsSorted, Book!SortedMap

\* The slices of the book hold exactly the levels of the accepted frames, each
\* price once, best price first, whatever snapshots, diffs and single levels
\* come in, and frames that are refused change neither side (ApplySnapshot,
\* ApplyDiff and ApplyLevel of book.go).
THEOREM SortedCorrect == MarketSpec => []BookIsSorted
<1>1. MarketInit => BookInv
  BY EmptyBook DEF MarketInit, Book!Init
<1>2. BookInv /\ [MarketNext]_<<vars, bookVars, clientVars, layer>> => BookInv'
  <2> SUFFICES ASSUME BookInv, [MarketNext]_<<vars, bookVars, clientVars, layer>> PROVE BookInv'
    OBVIOUS
  <2>1. CASE Book!Next
    BY <2>1, BookStep
  <2>2. CASE UNCHANGED bookVars
    BY <2>2 DEF bookVars, BookInv
  <2> QED BY <2>1, <2>2 DEF MarketNext
<1> QED BY <1>1, <1>2, SortedIfHeld, PTL DEF MarketSpec
=============================================================================
