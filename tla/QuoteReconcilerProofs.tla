----------------------- MODULE QuoteReconcilerProofs -----------------------
(***************************************************************************)
(* Proofs about QuoteReconciler: replacements never add exposure, the      *)
(* ledger of an unbroken stream is exact, and no open order is forgotten,  *)
(* whatever is lost, fails or overtakes the hydrations; a Sync keeps the   *)
(* oldest of equal orders and, if nothing fails, reaches its targets.      *)
(***************************************************************************)
EXTENDS QuoteReconciler, SequenceTheorems, FiniteSetTheorems, WellFoundedInduction, TLAPS

-----------------------------------------------------------------------------
(***************************************************************************)
(* The book, the cycles and the queues.                                    *)
(***************************************************************************)
Orders == [price : Nat, amount : Nat]
Kinds == {"new", "partial", "done", "modified"}

\* Only orders that were placed are known of, and only about them there are events.
Ledgers == {r \in [Ids -> Orders] : \A id \in Ids : r[id] # NoOrder => id < nextId}
Sent == [kind : Kinds, id : 1 .. nextId - 1, price : Nat, amount : Nat]

BookType ==
  /\ nextId \in 1 .. MaxOrders + 1
  /\ open \in Ledgers /\ resting \in Ledgers /\ snapshot \in Ledgers /\ expected \in Ledgers
  /\ wire \in Seq(Sent) /\ ch \in Seq(Sent) /\ pending \in Seq(Sent)
  /\ batch \in [Hydrators -> Seq(Sent)]
  /\ toCancel \subseteq 1 .. nextId - 1 /\ cancelled \subseteq 1 .. nextId - 1
  /\ placed \subseteq (1 .. nextId - 1) \X Nat

\* Who applies a batch has one.
BatchInv ==
  /\ hp \in [Hydrators -> {"idle", "begin", "query", "install", "handoff", "apply"}]
  /\ \A h \in Hydrators : hp[h] = "apply" <=> batch[h] # <<>>

\* What a cycle knows of the orders it cancels.
CancelInv ==
  /\ \A id \in cancelled : open[id] = NoOrder
  /\ phase = "cancel" => \A id \in Ids : expected[id] # NoOrder => id \in toCancel \cup cancelled \/ errs
  /\ phase = "place" => \A id \in Ids : expected[id] # NoOrder => open[id] = NoOrder

ExposureInv == BookType /\ BatchInv /\ CancelInv

-----------------------------------------------------------------------------
\* The stream is on its first connection, and has no news of a loss.
Unbroken ==
  stream = "running" /\ generation = 0 /\ \A i \in 1 .. Len(connEvents) : connEvents[i] # "reconnecting"

ControlType ==
  /\ connEvents \in Seq({"reconnecting", "connected"}) /\ generation \in Nat
  /\ hgen \in [Hydrators -> Nat]
  /\ hydrating \in BOOLEAN /\ recovering \in BOOLEAN /\ pendingErr \in BOOLEAN
  /\ generation = 0 => ~recovering

\* Who holds syncMu.
LockInv ==
  /\ \A h \in Hydrators : hp[h] = "install" => cycle = h
  /\ phase # "none" => cycle \in {"sync", "cancelAll"}
  /\ phase = "place" => cycle = "sync"
  /\ phase # "place" => placed = {}

\* What the first hydration of an unbroken stream has come to.
StartInv ==
  Unbroken =>
    /\ link = "up" /\ hp["stream"] = "idle"
    /\ hydrating <=> hp["start"] # "idle"
    /\ hp["start"] \notin {"idle", "begin"} => hgen["start"] = 0
    /\ ~hydrating => pending = <<>> /\ ~pendingErr
    /\ cycle = "hydrate" => hp["start"] \in {"begin", "query"}

\* The events on their way, in the order in which they will be applied.
Pipe == batch["start"] \o (pending \o (ch \o wire))

After(e) == IF e.kind = "done" THEN NoOrder ELSE [price |-> e.price, amount |-> e.amount]

\* Nothing follows the k-th event about its order; only fills do.
LastWord(P, k) == \A j \in 1 .. Len(P) : j > k => P[j].id # P[k].id
OnlyFills(P, k) == \A j \in 1 .. Len(P) : j > k /\ P[j].id = P[k].id => P[j].kind = "partial"

\* The events P tell what became of their orders in the book b: the last one about
\* an order says how it is, none follows its end, and its price is that of the last
\* event that set one and of all fills since.
Tells(P, b) ==
  \A k \in 1 .. Len(P) :
    /\ LastWord(P, k) => b[P[k].id] = After(P[k])
    /\ P[k].kind = "done" => LastWord(P, k)
    /\ P[k].kind # "done" /\ OnlyFills(P, k) => P[k].price = b[P[k].id].price

\* Applying P to the ledger r leads to the book b for the orders D: who has no events
\* is in it as it is, who has fills only has its price.
LeadsTo(P, r, b, D) ==
  \A id \in D :
    /\ (\A k \in 1 .. Len(P) : P[k].id # id) => r[id] = b[id]
    /\ (\A k \in 1 .. Len(P) : P[k].id = id => P[k].kind = "partial") /\ r[id] # NoOrder =>
         r[id].price = b[id].price

\* What is on its way leads from what the hydration has to the exchange's book, but
\* for the orders whose end has overtaken their placement.
Told ==
  /\ Tells(Pipe, open)
  /\ hp["start"] = "install" => LeadsTo(Pipe, snapshot, open, Ids \ overtaken)
  /\ hp["start"] \in {"handoff", "apply", "idle"} => LeadsTo(Pipe, resting, open, Ids \ overtaken)

\* The event of an order's placement is on its way.
Announced(id) == \E k \in 1 .. Len(Pipe) : Pipe[k].id = id /\ Pipe[k].kind = "new"

\* An order that Sync has placed and not noted yet is in the ledger already, or will
\* enter it, or its end has overtaken its placement.
Noted ==
  hp["start"] \in {"handoff", "apply", "idle"} =>
    \A pl \in placed : pl[1] \in overtaken \/ resting[pl[1]] # NoOrder \/ Announced(pl[1])

\* The ledger follows the exchange.
Following == Told /\ Noted

LedgerInv == Unbroken /\ ~pendingErr => Following

\* The events that will still be applied, unless there is a loss.
Underway ==
  Range(wire) \cup Range(ch) \cup Range(pending) \cup Range(batch["start"]) \cup Range(batch["stream"])

\* No event says that a live order is gone, or of an order that it is nothing.
TruthInv ==
  /\ \A id \in Ids : open[id] # NoOrder => open[id].price # 0 /\ open[id].amount # 0
  /\ \A e \in Underway :
       IF e.kind = "done" THEN open[e.id] = NoOrder ELSE e.price # 0 /\ e.amount # 0

LEMMA Constants == MaxOrders \in Nat /\ Full \in Nat /\ Prices \subseteq Nat
BY QuoteReconcilerAssumption

LEMMA Below ==
  ASSUME NEW m \in Nat, NEW n \in Nat, m <= n PROVE 1 .. m - 1 \subseteq 1 .. n - 1
<1> SUFFICES ASSUME NEW i \in 1 .. m - 1 PROVE i \in 1 .. n - 1
  OBVIOUS
<1>1. i \in Nat /\ 1 <= i /\ i <= m - 1
  OBVIOUS
<1> QED BY <1>1

LEMMA Topmost ==
  ASSUME NEW n \in Nat \ {0}, NEW m, m = n + 1 PROVE n \in 1 .. m - 1
OBVIOUS

LEMMA KnownIds ==
  ASSUME BookType
  PROVE  nextId \in Nat \ {0} /\ MaxOrders \in Nat /\ 1 .. nextId - 1 \subseteq Ids
<1>1. nextId \in 1 .. MaxOrders + 1 /\ MaxOrders \in Nat
  BY Constants DEF BookType
<1>2. \A i \in 1 .. nextId - 1 : i \in 1 .. MaxOrders
  BY <1>1
<1> QED BY <1>1, <1>2 DEF Ids

\* Placing an order only makes more known.
LEMMA KnownGrows ==
  ASSUME BookType, nextId' = nextId \/ (nextId <= MaxOrders /\ nextId' = nextId + 1)
  PROVE  /\ nextId' \in 1 .. MaxOrders + 1
         /\ Ledgers \subseteq Ledgers' /\ Seq(Sent) \subseteq Seq(Sent)' /\ Sent \subseteq Sent'
         /\ 1 .. nextId - 1 \subseteq 1 .. nextId' - 1
<1>1. nextId \in Nat \ {0} /\ MaxOrders \in Nat /\ nextId \in 1 .. MaxOrders + 1
  BY KnownIds DEF BookType
<1>2. nextId' \in 1 .. MaxOrders + 1 /\ nextId' >= nextId /\ nextId' \in Nat
  BY <1>1
<1>3. 1 .. nextId - 1 \subseteq 1 .. nextId' - 1
  BY <1>1, <1>2, Below
<1>4. Ledgers \subseteq Ledgers'
  BY <1>1, <1>2 DEF Ledgers, Ids
<1>5. Sent \subseteq Sent'
  BY <1>3 DEF Sent
<1>6. \A s \in Seq(Sent) : s \in Seq(Sent')
  BY <1>5, SeqMonotonic
<1> QED BY <1>2, <1>3, <1>4, <1>5, <1>6

\* What became of a known order is known of it.
LEMMA LedgerSet ==
  ASSUME BookType, NEW r \in Ledgers, NEW id \in 1 .. nextId - 1, NEW o \in Orders
  PROVE  [r EXCEPT ![id] = o] \in Ledgers
BY KnownIds DEF Ledgers

LEMMA NoOrderTypes == NoOrder \in Orders /\ NoOrder.price = 0
BY DEF NoOrder, Orders

LEMMA AppliedType ==
  ASSUME BookType, NEW r \in Ledgers, NEW e \in Sent
  PROVE  Applied(r, e) \in Ledgers
<1>1. e.id \in 1 .. nextId - 1 /\ e.price \in Nat /\ e.amount \in Nat
  BY DEF Sent
<1>2. r[e.id] \in Orders
  BY <1>1, KnownIds DEF Ledgers
<1>3. [r[e.id] EXCEPT !.amount = e.amount] \in Orders /\ [price |-> e.price, amount |-> e.amount] \in Orders
  BY <1>1, <1>2 DEF Orders
<1>4. (CASE e.kind = "done" -> NoOrder
         [] e.kind = "partial" /\ r[e.id] # NoOrder -> [r[e.id] EXCEPT !.amount = e.amount]
         [] OTHER -> [price |-> e.price, amount |-> e.amount]) \in Orders
  BY <1>3, NoOrderTypes
<1> QED BY <1>1, <1>4, LedgerSet DEF Applied

LEMMA SeqTaken ==
  ASSUME NEW S, NEW s \in Seq(S), s # <<>> PROVE Head(s) \in S /\ Tail(s) \in Seq(S)
OBVIOUS

\* The exchange changes a known order, or makes one known.
LEMMA ExchangeType ==
  ASSUME BookType, NEW kind \in Kinds, NEW o \in Orders, NEW id \in Ids,
         (nextId' = nextId /\ id < nextId) \/ (nextId <= MaxOrders /\ id = nextId /\ nextId' = nextId + 1),
         ExchangeStep(kind, id, o)
  PROVE  open' \in Ledgers' /\ wire' \in Seq(Sent)'
<1>1. nextId' = nextId \/ (nextId <= MaxOrders /\ nextId' = nextId + 1)
  OBVIOUS
<1>2. open \in Ledgers' /\ wire \in Seq(Sent)' /\ id \in 1 .. nextId' - 1 /\ open[id] \in Orders
  <2>1. open \in Ledgers /\ wire \in Seq(Sent) /\ nextId \in Nat \ {0}
    BY KnownIds DEF BookType
  <2>2. id \in 1 .. nextId' - 1
    BY <2>1 DEF Ids
  <2> QED BY <1>1, <2>1, <2>2, KnownGrows DEF Ledgers
<1>3. open' \in Ledgers'
  BY <1>1, <1>2, KnownGrows DEF ExchangeStep, Ledgers
<1>4. \A p \in Orders : Event(kind, id, p) \in Sent'
  BY <1>2 DEF Event, Sent, Orders
<1>5. wire' \in Seq(Sent)'
  <2>1. \A p \in Orders : Append(wire, Event(kind, id, p)) \in Seq(Sent)'
    BY <1>2, <1>4
  <2> QED BY <1>2, <2>1 DEF ExchangeStep
<1> QED BY <1>3, <1>5

\* What the exchange knows stays, and what the client knows of it changes.
LEMMA BookStays ==
  ASSUME BookType, UNCHANGED <<open, nextId>>,
         resting' \in Ledgers, snapshot' \in Ledgers, expected' \in Ledgers,
         wire' \in Seq(Sent), ch' \in Seq(Sent), pending' \in Seq(Sent), batch' \in [Hydrators -> Seq(Sent)],
         toCancel' \subseteq 1 .. nextId - 1, cancelled' \subseteq 1 .. nextId - 1,
         placed' \subseteq (1 .. nextId - 1) \X Nat
  PROVE  BookType'
<1>1. Ledgers' = Ledgers /\ Sent' = Sent
  BY DEF Ledgers, Sent, Ids
<1> QED BY <1>1 DEF BookType

\* The exchange places or changes an order.
LEMMA BookExchange ==
  ASSUME BookType, UNCHANGED <<resting, snapshot, expected, ch, pending, batch>>,
         nextId' = nextId \/ (nextId <= MaxOrders /\ nextId' = nextId + 1),
         open' \in Ledgers', wire' \in Seq(Sent)',
         toCancel' \subseteq toCancel, cancelled' \subseteq cancelled \cup toCancel,
         \A pl \in placed' : pl \in placed \/ pl \in (1 .. nextId' - 1) \X Nat
  PROVE  BookType'
<1>1. batch' \in [Hydrators -> Seq(Sent)']
  BY KnownGrows DEF BookType
<1>2. placed' \subseteq (1 .. nextId' - 1) \X Nat
  BY KnownGrows DEF BookType
<1> QED BY <1>1, <1>2, KnownGrows DEF BookType

LEMMA NobodyType == ASSUME BookType PROVE Nobody \in Ledgers
BY NoOrderTypes DEF Nobody, Ledgers

\* An order that is placed gets the next ID.
LEMMA PlacedType ==
  ASSUME BookType, NEW p \in Prices, NewOrder(p)
  PROVE  /\ nextId <= MaxOrders /\ nextId' = nextId + 1 /\ nextId \in Ids
         /\ ExchangeStep("new", nextId, [price |-> p, amount |-> Full])
         /\ open' \in Ledgers' /\ wire' \in Seq(Sent)'
<1>1. /\ nextId <= MaxOrders /\ nextId' = nextId + 1
      /\ ExchangeStep("new", nextId, [price |-> p, amount |-> Full])
  BY DEF NewOrder
<1>2. nextId \in Ids
  BY <1>1, KnownIds DEF Ids
<1>3. [price |-> p, amount |-> Full] \in Orders /\ "new" \in Kinds
  BY Constants DEF Orders, Kinds
<1> QED BY <1>1, <1>2, <1>3, ExchangeType

\* An order on the exchange's book is known.
LEMMA OpenKnown ==
  ASSUME BookType, NEW id \in Ids, open[id] # NoOrder
  PROVE  id < nextId /\ open[id] \in Orders
BY DEF BookType, Ledgers

\* What may happen to an order on the exchange.
Changed(id) ==
  /\ id \in Ids /\ open[id] # NoOrder /\ nextId' = nextId
  /\ \/ \E a \in Nat \ {0} : ExchangeStep("partial", id, [price |-> open[id].price, amount |-> a])
     \/ ExchangeStep("done", id, NoOrder)
     \/ \E p \in Prices : ExchangeStep("modified", id, [price |-> p, amount |-> open[id].amount])

LEMMA OutsideChanges ==
  ASSUME BookType, OutsideStep
  PROVE  (\E p \in Prices : NewOrder(p)) \/ \E id \in Ids : Changed(id)
<1>1. CASE "place" \in Outside /\ \E p \in Prices : NewOrder(p)
  BY <1>1
<1>2. ASSUME NEW id \in Ids, open[id] # NoOrder, nextId' = nextId,
             open[id].amount > 1 /\ ExchangeStep("partial", id, [open[id] EXCEPT !.amount = open[id].amount - 1])
      PROVE  Changed(id)
  <2>1. open[id] \in Orders
    BY <1>2, OpenKnown
  <2>2. open[id].amount - 1 \in Nat \ {0}
    BY <1>2, <2>1 DEF Orders
  <2>3. [open[id] EXCEPT !.amount = open[id].amount - 1] = [price |-> open[id].price, amount |-> open[id].amount - 1]
    BY <2>1 DEF Orders
  <2> QED BY <1>2, <2>2, <2>3 DEF Changed
<1>3. ASSUME NEW id \in Ids, open[id] # NoOrder, nextId' = nextId, ExchangeStep("done", id, NoOrder) PROVE Changed(id)
  BY <1>3 DEF Changed
<1>4. ASSUME NEW id \in Ids, open[id] # NoOrder, nextId' = nextId, NEW p \in Prices,
             ExchangeStep("modified", id, [open[id] EXCEPT !.price = p])
      PROVE  Changed(id)
  <2>1. open[id] \in Orders
    BY <1>4, OpenKnown
  <2>2. [open[id] EXCEPT !.price = p] = [price |-> p, amount |-> open[id].amount]
    BY <2>1 DEF Orders
  <2> QED BY <1>4, <2>2 DEF Changed
<1> QED BY <1>1, <1>2, <1>3, <1>4 DEF OutsideStep

LEMMA ChangedType ==
  ASSUME BookType, NEW id \in Ids, Changed(id)
  PROVE  open' \in Ledgers' /\ wire' \in Seq(Sent)' /\ nextId' = nextId
<1>1. id < nextId /\ open[id] \in Orders /\ nextId' = nextId
  BY OpenKnown DEF Changed
<1>2. open[id].price \in Nat /\ open[id].amount \in Nat
  BY <1>1 DEF Orders
<1>3. \A k \in Kinds, o \in Orders : ExchangeStep(k, id, o) => open' \in Ledgers' /\ wire' \in Seq(Sent)'
  BY <1>1, ExchangeType
<1>4. ASSUME NEW a \in Nat \ {0}, ExchangeStep("partial", id, [price |-> open[id].price, amount |-> a])
      PROVE  open' \in Ledgers' /\ wire' \in Seq(Sent)'
  BY <1>2, <1>3, <1>4 DEF Orders, Kinds
<1>5. ASSUME ExchangeStep("done", id, NoOrder) PROVE open' \in Ledgers' /\ wire' \in Seq(Sent)'
  BY <1>3, <1>5, NoOrderTypes DEF Kinds
<1>6. ASSUME NEW p \in Prices, ExchangeStep("modified", id, [price |-> p, amount |-> open[id].amount])
      PROVE  open' \in Ledgers' /\ wire' \in Seq(Sent)'
  BY <1>2, <1>3, <1>6, Constants DEF Orders, Kinds
<1> QED BY <1>1, <1>4, <1>5, <1>6 DEF Changed

\* What a cancellation does on the exchange.
LEMMA CancelChanges ==
  ASSUME BookType, NEW id \in Ids, CancelOne(id)
  PROVE  /\ nextId' = nextId
         /\ Changed(id) \/ UNCHANGED <<open, wire>>
         /\ toCancel' = toCancel \ {id} /\ id \in toCancel /\ phase = "cancel"
         /\ \/ cancelled' = cancelled \cup {id} /\ open'[id] = NoOrder /\ errs' = errs
            \/ cancelled' = cancelled /\ errs'
<1>1. PICK gone \in BOOLEAN, answered \in BOOLEAN :
        /\ IF gone /\ open[id] # NoOrder THEN ExchangeStep("done", id, NoOrder) ELSE UNCHANGED <<open, wire>>
        /\ IF answered /\ CancelProved(open'[id] # NoOrder)
           THEN cancelled' = cancelled \cup {id} /\ UNCHANGED errs
           ELSE errs' = TRUE /\ UNCHANGED cancelled
  BY DEF CancelOne
<1>2. nextId' = nextId /\ toCancel' = toCancel \ {id} /\ id \in toCancel /\ phase = "cancel"
  BY DEF CancelOne
<1>3. Changed(id) \/ UNCHANGED <<open, wire>>
  BY <1>1, <1>2 DEF Changed
<1> QED BY <1>1, <1>2, <1>3 DEF CancelProved

LEMMA BookCycles ==
  ASSUME BookType, CycleStep \/ CancelAllStart \/ PlainHydrate \/ ContextEnds \/ \E targets \in Targets : SyncStart(targets)
  PROVE  BookType'
<1>1. /\ open \in Ledgers /\ resting \in Ledgers /\ snapshot \in Ledgers /\ expected \in Ledgers /\ Nobody \in Ledgers
      /\ wire \in Seq(Sent) /\ ch \in Seq(Sent) /\ pending \in Seq(Sent) /\ batch \in [Hydrators -> Seq(Sent)]
      /\ toCancel \subseteq 1 .. nextId - 1 /\ cancelled \subseteq 1 .. nextId - 1
      /\ placed \subseteq (1 .. nextId - 1) \X Nat
  BY NobodyType DEF BookType
<1>2. \A id \in Ids : resting[id] # NoOrder => id \in 1 .. nextId - 1
  BY <1>1, KnownIds DEF Ledgers, Ids
<1>3. ASSUME NEW id \in Ids, CancelOne(id) PROVE BookType'
  <2>1. /\ UNCHANGED <<resting, snapshot, expected, ch, pending, batch, placed>> /\ nextId' = nextId
        /\ toCancel' \subseteq toCancel /\ cancelled' \subseteq cancelled \cup toCancel
    BY <1>3, CancelChanges DEF CancelOne, streamVars, hydrateVars
  <2>2. open' \in Ledgers' /\ wire' \in Seq(Sent)'
    <3>1. CASE Changed(id)
      BY <3>1, ChangedType
    <3>2. CASE UNCHANGED <<open, wire>>
      BY <1>1, <2>1, <3>2, KnownGrows
    <3> QED BY <1>3, <3>1, <3>2, CancelChanges
  <2> QED BY <2>1, <2>2, BookExchange
<1>4. CASE CancelDone
  <2>1. resting' \in Ledgers
    BY <1>1, <1>4, NoOrderTypes DEF CancelDone, Ledgers
  <2>2. expected' \in Ledgers /\ toCancel' \subseteq 1 .. nextId - 1 /\ cancelled' \subseteq 1 .. nextId - 1
    BY <1>1, <1>4 DEF CancelDone, EndCycle
  <2>3. UNCHANGED <<open, nextId, snapshot, wire, ch, pending, batch>> /\ placed' \subseteq placed
    BY <1>4 DEF CancelDone, EndCycle, exchangeVars, wsVars, streamVars, hydrateVars
  <2> QED BY <1>1, <2>1, <2>2, <2>3, BookStays
<1>5. ASSUME NEW p \in Prices, PlaceOne(p) PROVE BookType'
  <2>1. UNCHANGED <<resting, snapshot, expected, ch, pending, batch, toCancel, cancelled>>
        /\ (NewOrder(p) \/ UNCHANGED <<open, nextId, wire>>)
    BY <1>5 DEF PlaceOne, exchangeVars, streamVars, hydrateVars
  <2>2. CASE NewOrder(p)
    <3>1. \A pl \in placed' : pl \in placed \/ pl = <<nextId, p>>
      BY <1>5 DEF PlaceOne
    <3>2. <<nextId, p>> \in (1 .. nextId' - 1) \X Nat
      <4>1. nextId \in 1 .. nextId' - 1
        BY <2>2, PlacedType, KnownIds, Topmost
      <4>2. p \in Nat
        BY Constants
      <4> QED BY <4>1, <4>2
    <3> QED BY <2>1, <2>2, <3>1, <3>2, PlacedType, BookExchange
  <2>3. CASE UNCHANGED <<open, nextId, wire>>
    <3>1. \A pl \in placed' : pl \in placed
      BY <1>5, <2>3, KnownIds DEF PlaceOne, NewOrder
    <3> QED BY <1>1, <2>1, <2>3, <3>1, BookStays
  <2> QED BY <2>1, <2>2, <2>3
<1>6. CASE PlaceDone
  <2>1. ASSUME NEW id \in Ids, \E pl \in placed : pl[1] = id
        PROVE  id < nextId /\ [price |-> (CHOOSE pl \in placed : pl[1] = id)[2], amount |-> Full] \in Orders
    <3> DEFINE q == CHOOSE pl \in placed : pl[1] = id
    <3>1. q \in placed /\ q[1] = id
      BY <2>1
    <3> HIDE DEF q
    <3>2. q \in (1 .. nextId - 1) \X Nat
      BY <1>1, <3>1
    <3>3. q[2] \in Nat /\ id \in 1 .. nextId - 1
      BY <3>1, <3>2
    <3>4. [price |-> q[2], amount |-> Full] \in Orders
      BY <3>3, Constants DEF Orders
    <3> QED BY <3>3, <3>4, KnownIds DEF q
  <2>2. resting' \in [Ids -> Orders] /\ \A id \in Ids : resting'[id] # NoOrder => id < nextId
    BY <1>1, <1>6, <2>1 DEF PlaceDone, Ledgers
  <2>3. resting' \in Ledgers
    BY <2>2 DEF Ledgers
  <2> QED BY <1>1, <1>6, <2>3, BookStays DEF PlaceDone, EndCycle, exchangeVars, wsVars, streamVars, hydrateVars
<1>7. CASE PlainInstall
  BY <1>1, <1>7, BookStays DEF PlainInstall, exchangeVars, wsVars, streamVars, hydrateVars
<1>8. CASE PlainHydrate
  BY <1>1, <1>8, BookStays DEF PlainHydrate, exchangeVars, wsVars, streamVars, hydrateVars
<1>9. CASE CancelAllStart
  <2>1. toCancel' \subseteq 1 .. nextId - 1
    BY <1>2, <1>9 DEF CancelAllStart
  <2> QED BY <1>1, <1>9, <2>1, BookStays DEF CancelAllStart, exchangeVars, wsVars, streamVars, hydrateVars
<1>10. CASE ContextEnds
  BY <1>1, <1>10, BookStays DEF ContextEnds, exchangeVars, wsVars, streamVars, hydrateVars
<1>11. ASSUME NEW targets \in Targets, SyncStart(targets) PROVE BookType'
  <2>1. toCancel' \subseteq {id \in Ids : resting[id] # NoOrder}
    BY <1>11 DEF SyncStart
  <2>2. expected' = [id \in Ids |-> IF id \in toCancel' THEN resting[id] ELSE NoOrder]
        /\ UNCHANGED <<open, nextId, resting, snapshot, wire, ch, pending, batch, cancelled, placed>>
    BY <1>11 DEF SyncStart, exchangeVars, wsVars, streamVars, hydrateVars
  <2>3. expected' \in Ledgers
    BY <1>1, <2>2, NoOrderTypes DEF Ledgers
  <2> QED BY <1>1, <1>2, <2>1, <2>2, <2>3, BookStays
<1> QED BY <1>3, <1>4, <1>5, <1>6, <1>7, <1>8, <1>9, <1>10, <1>11 DEF CycleStep

LEMMA BookStream ==
  ASSUME BookType, BatchInv,
         ClientStep \/ Drop \/ MalformedFrame \/ StartStreaming \/ StreamEnds \/ SelectStep
           \/ \E h \in Hydrators : HydrateStep(h)
  PROVE  BookType'
<1>1. /\ open \in Ledgers /\ resting \in Ledgers /\ snapshot \in Ledgers /\ expected \in Ledgers /\ Nobody \in Ledgers
      /\ wire \in Seq(Sent) /\ ch \in Seq(Sent) /\ pending \in Seq(Sent) /\ batch \in [Hydrators -> Seq(Sent)]
      /\ toCancel \subseteq 1 .. nextId - 1 /\ cancelled \subseteq 1 .. nextId - 1 /\ <<>> \in Seq(Sent)
      /\ placed \subseteq (1 .. nextId - 1) \X Nat
  BY NobodyType DEF BookType
<1>2. CASE Deliver
  <2>1. ch' \in Seq(Sent) /\ wire' \in Seq(Sent)
    BY <1>1, <1>2, SeqTaken DEF Deliver
  <2> QED BY <1>1, <1>2, <2>1, BookStays DEF Deliver, exchangeVars, streamVars, hydrateVars, cycleVars
<1>3. CASE Redial \/ Resubscribed
  BY <1>1, <1>3, BookStays DEF Redial, Resubscribed, exchangeVars, streamVars, hydrateVars, cycleVars
<1>4. CASE Drop \/ MalformedFrame
  BY <1>1, <1>4, BookStays DEF Drop, MalformedFrame, exchangeVars, hydrateVars, cycleVars
<1>5. CASE StartStreaming \/ StreamEnds
  BY <1>1, <1>5, BookStays DEF StartStreaming, StreamEnds, exchangeVars, wsVars, hydrateVars, cycleVars
<1>6. CASE OnReconnecting
  BY <1>1, <1>6, BookStays DEF OnReconnecting, exchangeVars, streamVars, hydrateVars, cycleVars
<1>7. CASE OnConnected
  BY <1>1, <1>7, BookStays DEF OnConnected, exchangeVars, streamVars, cycleVars
<1>8. CASE OnOrderEvent
  <2>1. ch # <<>> /\ ch' = Tail(ch) /\ Head(ch) \in Sent /\ Tail(ch) \in Seq(Sent)
    BY <1>1, <1>8, SeqTaken DEF OnOrderEvent
  <2>2. pending' \in Seq(Sent) /\ resting' \in Ledgers
    <3>1. Applied(resting, Head(ch)) \in Ledgers /\ Append(pending, Head(ch)) \in Seq(Sent)
      BY <1>1, <2>1, AppliedType
    <3> QED BY <1>1, <1>8, <3>1 DEF OnOrderEvent, ApplyOrderEvent, EnqueuePending
  <2> QED BY <1>1, <1>8, <2>1, <2>2, BookStays DEF OnOrderEvent, exchangeVars, hydrateVars, cycleVars
<1>9. ASSUME NEW h \in Hydrators, HydrateStep(h) PROVE BookType'
  <2>1. CASE HydrateBegin(h)
    BY <1>1, <2>1, BookStays DEF HydrateBegin, exchangeVars, wsVars, streamVars, cycleVars
  <2>2. CASE HydrateQuery(h)
    BY <1>1, <2>2, BookStays DEF HydrateQuery, exchangeVars, wsVars
  <2>3. CASE HydrateInstall(h)
    BY <1>1, <2>3, BookStays DEF HydrateInstall, exchangeVars, wsVars, streamVars
  <2>4. CASE Handoff(h)
    <3>1. pending' \in Seq(Sent) /\ batch' \in [Hydrators -> Seq(Sent)]
      BY <1>1, <2>4 DEF Handoff
    <3> QED BY <1>1, <2>4, <3>1, BookStays DEF Handoff, exchangeVars, wsVars, cycleVars
  <2>5. CASE ApplyBatch(h)
    <3>1. batch[h] \in Seq(Sent)
      BY <1>1
    <3>2. Head(batch[h]) \in Sent /\ Tail(batch[h]) \in Seq(Sent)
      BY <2>5, <3>1, SeqTaken DEF ApplyBatch, BatchInv
    <3>3. Applied(resting, Head(batch[h])) \in Ledgers
      BY <1>1, <3>2, AppliedType
    <3>4. batch' \in [Hydrators -> Seq(Sent)] /\ resting' \in Ledgers
      BY <1>1, <2>5, <3>2, <3>3 DEF ApplyBatch, ApplyOrderEvent
    <3> QED BY <1>1, <2>5, <3>4, BookStays DEF ApplyBatch, exchangeVars, wsVars, streamVars, cycleVars
  <2> QED BY <1>9, <2>1, <2>2, <2>3, <2>4, <2>5 DEF HydrateStep
<1> QED BY <1>2, <1>3, <1>4, <1>5, <1>6, <1>7, <1>8, <1>9 DEF ClientStep, SelectStep

LEMMA HydratorsAre == Hydrators = {"start", "stream"}
BY DEF Hydrators

LEMMA LastTaken ==
  ASSUME NEW S, NEW s \in Seq(S), s # <<>> PROVE Tail(s) = <<>> <=> Len(s) = 1
<1>1. Tail(s) \in Seq(S) /\ Len(Tail(s)) = Len(s) - 1 /\ Len(s) \in Nat
  BY HeadTailProperties, LenProperties
<1>2. Tail(s) # <<>> => Len(Tail(s)) \in Nat \ {0}
  BY <1>1, EmptySeq
<1>3. Tail(s) = <<>> => Len(Tail(s)) = 0
  BY EmptySeq
<1> QED BY <1>1, <1>2, <1>3

\* A batch that is applied is the one the handoff took.
LEMMA BatchKept ==
  ASSUME BookType, BatchInv, [Next]_vars PROVE BatchInv'
<1>1. ASSUME UNCHANGED <<hp, batch>> PROVE BatchInv'
  BY <1>1 DEF BatchInv
<1>2. ASSUME NEW h \in Hydrators, NEW to, to \in {"idle", "begin", "query", "install", "handoff"},
             hp[h] # "apply", hp' = [hp EXCEPT ![h] = to], UNCHANGED batch
      PROVE  BatchInv'
  BY <1>2 DEF BatchInv
<1>3. CASE OutsideStep \/ ClientStep \/ Drop \/ MalformedFrame \/ StreamEnds \/ OnReconnecting \/ OnOrderEvent
  BY <1>1, <1>3 DEF OutsideStep, ClientStep, Deliver, Redial, Resubscribed, Drop, MalformedFrame, StreamEnds,
                    OnReconnecting, OnOrderEvent, hydrateVars
<1>4. CASE CancelAllStart \/ PlainHydrate \/ ContextEnds \/ UNCHANGED vars
  BY <1>1, <1>4 DEF CancelAllStart, PlainHydrate, ContextEnds, vars, hydrateVars
<1>5. CASE CycleStep
  BY <1>1, <1>5 DEF CycleStep, CancelOne, CancelDone, PlaceOne, PlaceDone, PlainInstall, hydrateVars
<1>6. ASSUME NEW targets \in Targets, SyncStart(targets) PROVE BatchInv'
  BY <1>1, <1>6 DEF SyncStart, hydrateVars
<1>7. CASE StartStreaming
  BY <1>2, <1>7, HydratorsAre DEF StartStreaming
<1>8. CASE OnConnected
  <2>1. hp' = IF recovering THEN [hp EXCEPT !["stream"] = "begin"] ELSE hp
    BY <1>8, HydratorsAre DEF OnConnected, BatchInv
  <2>2. UNCHANGED batch /\ hp["stream"] # "apply"
    BY <1>8 DEF OnConnected, Selecting
  <2> QED BY <1>1, <1>2, <2>1, <2>2, HydratorsAre
<1>9. ASSUME NEW h \in Hydrators, HydrateStep(h) PROVE BatchInv'
  <2>1. CASE HydrateBegin(h)
    BY <1>2, <2>1 DEF HydrateBegin
  <2>2. CASE HydrateQuery(h)
    BY <1>2, <2>2 DEF HydrateQuery, Return
  <2>3. CASE HydrateInstall(h)
    BY <1>2, <2>3 DEF HydrateInstall
  <2>4. CASE Handoff(h)
    <3>1. CASE pending # <<>> /\ batch' = [batch EXCEPT ![h] = pending] /\ hp' = [hp EXCEPT ![h] = "apply"]
      BY <3>1 DEF BatchInv, BookType
    <3>2. CASE batch' = batch /\ hp' = [hp EXCEPT ![h] = "idle"]
      BY <1>2, <2>4, <3>2 DEF Handoff
    <3>3. (batch' = batch /\ hp' = [hp EXCEPT ![h] = "idle"])
            \/ (pending # <<>> /\ batch' = [batch EXCEPT ![h] = pending] /\ hp' = [hp EXCEPT ![h] = "apply"])
      BY <2>4 DEF Handoff, Return
    <3> QED BY <3>1, <3>2, <3>3
  <2>5. CASE ApplyBatch(h)
    <3>1. hp[h] = "apply" /\ batch[h] # <<>> /\ batch[h] \in Seq(Sent)
      BY <2>5 DEF ApplyBatch, BatchInv, BookType
    <3>2. Tail(batch[h]) = <<>> <=> Len(batch[h]) = 1
      BY <3>1, LastTaken
    <3>3. /\ batch' = [batch EXCEPT ![h] = Tail(batch[h])]
          /\ hp' = [hp EXCEPT ![h] = IF Len(batch[h]) = 1 THEN "handoff" ELSE "apply"]
      BY <2>5 DEF ApplyBatch
    <3>4. batch' [h] = Tail(batch[h]) /\ \A g \in Hydrators : g # h => batch'[g] = batch[g]
      BY <3>3 DEF BookType
    <3> QED BY <3>1, <3>2, <3>3, <3>4 DEF BatchInv
  <2> QED BY <1>9, <2>1, <2>2, <2>3, <2>4, <2>5 DEF HydrateStep
<1> QED BY <1>3, <1>4, <1>5, <1>6, <1>7, <1>8, <1>9 DEF Next, SelectStep

\* An order that is gone stays gone.
LEMMA NeverReopened ==
  ASSUME BookType, NEW id \in Ids, open[id] = NoOrder, id < nextId,
         (\E p \in Prices : NewOrder(p)) \/ (\E i \in Ids : Changed(i)) \/ open' = open
  PROVE  open'[id] = NoOrder
<1>1. open \in [Ids -> Orders] /\ nextId \in Nat
  BY KnownIds DEF BookType, Ledgers
<1>2. ASSUME NEW p \in Prices, NewOrder(p) PROVE open'[id] = NoOrder
  BY <1>1, <1>2 DEF NewOrder, ExchangeStep, Ids
<1>3. ASSUME NEW i \in Ids, Changed(i) PROVE open'[id] = NoOrder
  BY <1>1, <1>3 DEF Changed, ExchangeStep
<1> QED BY <1>2, <1>3

\* Cancelled orders are gone, and placements wait until all are.
LEMMA CancelKept ==
  ASSUME BookType, CancelInv, [Next]_vars PROVE CancelInv'
<1>1. \A id \in cancelled : id \in Ids /\ id < nextId
  BY KnownIds DEF BookType
<1>2. \A id \in Ids : expected[id] # NoOrder => id < nextId
  BY DEF BookType, Ledgers
<1>3. ASSUME UNCHANGED <<expected, phase, toCancel, cancelled, errs>>,
             (\E p \in Prices : NewOrder(p)) \/ (\E i \in Ids : Changed(i)) \/ open' = open
      PROVE  CancelInv'
  <2>1. \A id \in Ids : id < nextId /\ open[id] = NoOrder => open'[id] = NoOrder
    BY <1>3, NeverReopened
  <2> QED BY <1>1, <1>2, <1>3, <2>1 DEF CancelInv
<1>4. CASE OutsideStep
  <2>1. UNCHANGED <<expected, phase, toCancel, cancelled, errs>>
    BY <1>4 DEF OutsideStep, cycleVars
  <2> QED BY <1>3, <1>4, <2>1, OutsideChanges
<1>5. CASE ClientStep \/ Drop \/ MalformedFrame \/ StartStreaming \/ StreamEnds \/ SelectStep \/ UNCHANGED vars
  BY <1>3, <1>5 DEF ClientStep, Deliver, Redial, Resubscribed, Drop, MalformedFrame, StartStreaming, StreamEnds,
                    SelectStep, OnReconnecting, OnConnected, OnOrderEvent, exchangeVars, cycleVars, vars
<1>6. ASSUME NEW h \in Hydrators, HydrateStep(h) PROVE CancelInv'
  BY <1>3, <1>6 DEF HydrateStep, HydrateBegin, HydrateQuery, HydrateInstall, Handoff, ApplyBatch,
                    exchangeVars, cycleVars
<1>7. CASE PlainHydrate \/ PlainInstall
  BY <1>3, <1>7 DEF PlainHydrate, PlainInstall, exchangeVars
<1>8. CASE CancelAllStart
  <2>1. /\ phase' = "cancel" /\ open' = open /\ cancelled' = cancelled
        /\ expected' = resting /\ toCancel' = {id \in Ids : resting[id] # NoOrder}
    BY <1>8 DEF CancelAllStart, exchangeVars
  <2> QED BY <2>1 DEF CancelInv
<1>9. ASSUME NEW targets \in Targets, SyncStart(targets) PROVE CancelInv'
  <2>1. /\ phase' = "cancel" /\ open' = open /\ cancelled' = cancelled
        /\ expected' = [id \in Ids |-> IF id \in toCancel' THEN resting[id] ELSE NoOrder]
    BY <1>9 DEF SyncStart, exchangeVars
  <2> QED BY <2>1 DEF CancelInv
<1>10. CASE ContextEnds
  BY <1>10 DEF ContextEnds, CancelInv, exchangeVars
<1>11. ASSUME NEW id \in Ids, CancelOne(id) PROVE CancelInv'
  <2>1. /\ phase = "cancel" /\ phase' = phase /\ expected' = expected /\ toCancel' = toCancel \ {id}
        /\ \/ cancelled' = cancelled \cup {id} /\ open'[id] = NoOrder /\ errs' = errs
           \/ cancelled' = cancelled /\ errs'
    BY <1>11, CancelChanges DEF CancelOne
  <2>2. \A i \in cancelled : open'[i] = NoOrder
    BY <1>1, <1>11, CancelChanges, NeverReopened DEF CancelInv
  <2> QED BY <2>1, <2>2 DEF CancelInv
<1>12. CASE CancelDone
  <2>1. CASE Placing
    BY <1>12, <2>1 DEF CancelDone, Placing, CancelInv, exchangeVars
  <2>2. CASE ~Placing
    BY <1>12, <2>2 DEF CancelDone, EndCycle, CancelInv, exchangeVars
  <2> QED BY <2>1, <2>2
<1>13. ASSUME NEW p \in Prices, PlaceOne(p) PROVE CancelInv'
  <2>1. UNCHANGED <<expected, phase, toCancel, cancelled>> /\ phase = "place"
        /\ (NewOrder(p) \/ open' = open)
    BY <1>13 DEF PlaceOne, exchangeVars
  <2>2. \A id \in Ids : id < nextId /\ open[id] = NoOrder => open'[id] = NoOrder
    BY <2>1, NeverReopened
  <2> QED BY <1>1, <1>2, <2>1, <2>2 DEF CancelInv
<1>14. CASE PlaceDone
  BY <1>14 DEF PlaceDone, EndCycle, CancelInv, exchangeVars
<1> QED BY <1>4, <1>5, <1>6, <1>7, <1>8, <1>9, <1>10, <1>11, <1>12, <1>13, <1>14 DEF Next, CycleStep

LEMMA BookKept ==
  ASSUME BookType, BatchInv, [Next]_vars PROVE BookType'
<1>1. CASE OutsideStep
  <2>1. UNCHANGED <<resting, snapshot, expected, ch, pending, batch, toCancel, cancelled, placed>>
    BY <1>1 DEF OutsideStep, streamVars, hydrateVars, cycleVars
  <2>2. ASSUME NEW p \in Prices, NewOrder(p) PROVE BookType'
    BY <2>1, <2>2, PlacedType, BookExchange
  <2>3. ASSUME NEW id \in Ids, Changed(id) PROVE BookType'
    BY <2>1, <2>3, ChangedType, BookExchange
  <2> QED BY <1>1, <2>2, <2>3, OutsideChanges
<1>2. CASE UNCHANGED vars
  <2>1. UNCHANGED <<open, nextId, resting, snapshot, expected, wire, ch, pending, batch, toCancel, cancelled, placed>>
    BY <1>2 DEF vars, exchangeVars, wsVars, streamVars, hydrateVars, cycleVars
  <2> QED BY <2>1, BookStays DEF BookType
<1> QED BY <1>1, <1>2, BookCycles, BookStream DEF Next

LEMMA ExposureInit ==
  ASSUME Init PROVE ExposureInv
<1>1. MaxOrders \in Nat /\ nextId = 1
  BY Constants DEF Init
<1>2. Nobody \in [Ids -> Orders] /\ \A id \in Ids : Nobody[id] = NoOrder
  BY NoOrderTypes DEF Nobody
<1>3. Nobody \in Ledgers
  BY <1>2 DEF Ledgers
<1>4. BookType
  BY <1>1, <1>3 DEF Init, BookType
<1>5. BatchInv
  BY DEF Init, BatchInv
<1>6. CancelInv
  BY DEF Init, CancelInv
<1> QED BY <1>4, <1>5, <1>6 DEF ExposureInv

LEMMA ExposureKept ==
  ASSUME ExposureInv, [Next]_vars PROVE ExposureInv'
BY BookKept, BatchKept, CancelKept DEF ExposureInv

\* Sync never adds to the exposure (reconciler.go: cancel first, place only after): while it places
\* new orders, none of those it set out to cancel is live, whatever the stream, the
\* exchange and other users do and whichever calls fail or are answered late.
THEOREM ReplacementsAddNoExposure == Spec => []ReplacedOrdersAreGone
<1>1. Init => ExposureInv
  BY ExposureInit
<1>2. ExposureInv /\ [Next]_vars => ExposureInv'
  BY ExposureKept
<1>3. ExposureInv => ReplacedOrdersAreGone
  <2>1. ExposureInv => DOMAIN expected = Ids
    BY DEF ExposureInv, BookType, Ledgers
  <2> QED BY <2>1 DEF ExposureInv, CancelInv, ReplacedOrdersAreGone
<1> QED BY <1>1, <1>2, <1>3, PTL DEF Spec

\* Sequences of events: moved from one queue to the next they stay in order.
LEMMA Moved ==
  ASSUME NEW S, NEW s \in Seq(S), NEW t \in Seq(S), t # <<>>
  PROVE  Append(s, Head(t)) \o Tail(t) = s \o t
<1>1. Head(t) \in S /\ Tail(t) \in Seq(S) /\ t = <<Head(t)>> \o Tail(t)
  <2>1. Head(t) \in S /\ Tail(t) \in Seq(S) /\ Len(Tail(t)) = Len(t) - 1
        /\ \A i \in 1 .. Len(Tail(t)) : Tail(t)[i] = t[i + 1]
    BY HeadTailProperties
  <2> DEFINE u == <<Head(t)>> \o Tail(t)
  <2>2. u \in Seq(S) /\ Len(u) = 1 + Len(Tail(t))
        /\ \A i \in 1 .. 1 + Len(Tail(t)) : u[i] = IF i <= 1 THEN Head(t) ELSE Tail(t)[i - 1]
    <3>1. <<Head(t)>> \in Seq(S) /\ Len(<<Head(t)>>) = 1 /\ <<Head(t)>>[1] = Head(t)
      BY <2>1
    <3> QED BY <2>1, <3>1, ConcatProperties
  <2>3. Len(t) \in Nat /\ Len(t) # 0 /\ t[1] = Head(t)
    BY EmptySeq
  <2> HIDE DEF u
  <2>4. Len(u) = Len(t)
    BY <2>1, <2>2, <2>3
  <2>5. \A i \in 1 .. Len(t) : u[i] = t[i]
    <3>1. ASSUME NEW i \in 1 .. Len(t), i > 1 PROVE u[i] = t[i]
      <4>1. i - 1 \in 1 .. Len(Tail(t)) /\ i \in 1 .. 1 + Len(Tail(t)) /\ (i - 1) + 1 = i
        BY <2>1, <2>3, <3>1
      <4>2. u[i] = Tail(t)[i - 1]
        BY <2>2, <3>1, <4>1
      <4>3. Tail(t)[i - 1] = t[(i - 1) + 1]
        BY <2>1, <4>1
      <4> QED BY <4>1, <4>2, <4>3
    <3>2. ASSUME NEW i \in 1 .. Len(t), i = 1 PROVE u[i] = t[i]
      BY <2>1, <2>2, <2>3, <3>2
    <3> QED BY <2>3, <3>1, <3>2
  <2>6. u = t
    BY <2>2, <2>4, <2>5, SeqEqual
  <2> QED BY <2>1, <2>6 DEF u
<1>2. Append(s, Head(t)) = s \o <<Head(t)>> /\ <<Head(t)>> \in Seq(S)
  BY <1>1, AppendIsConcat
<1>3. (s \o <<Head(t)>>) \o Tail(t) = s \o (<<Head(t)>> \o Tail(t))
  BY <1>1, <1>2, ConcatAssociative
<1> QED BY <1>1, <1>2, <1>3

LEMMA MovedBefore ==
  ASSUME NEW S, NEW s \in Seq(S), NEW t \in Seq(S), NEW u \in Seq(S), t # <<>>
  PROVE  Append(s, Head(t)) \o (Tail(t) \o u) = s \o (t \o u)
<1>1. Append(s, Head(t)) \in Seq(S) /\ Tail(t) \in Seq(S)
  BY HeadTailProperties, AppendProperties
<1>2. Append(s, Head(t)) \o (Tail(t) \o u) = (Append(s, Head(t)) \o Tail(t)) \o u
  BY <1>1, ConcatAssociative, SMTT(30)
<1>3. (s \o t) \o u = s \o (t \o u)
  BY ConcatAssociative
<1> QED BY <1>2, <1>3, Moved

LEMMA AddedLast ==
  ASSUME NEW S, NEW s \in Seq(S), NEW t \in Seq(S), NEW e \in S
  PROVE  s \o Append(t, e) = Append(s \o t, e)
<1>1. Append(t, e) = t \o <<e>> /\ <<e>> \in Seq(S)
  BY AppendIsConcat
<1>2. s \o t \in Seq(S) /\ Append(s \o t, e) = (s \o t) \o <<e>>
  BY ConcatProperties, AppendIsConcat
<1> QED BY <1>1, <1>2, ConcatAssociative

LEMMA TakenFirst ==
  ASSUME NEW S, NEW s \in Seq(S), NEW t \in Seq(S), s # <<>>
  PROVE  s \o t # <<>> /\ Head(s \o t) = Head(s) /\ Tail(s \o t) = Tail(s) \o t
<1> DEFINE u == s \o t
<1>1. u \in Seq(S) /\ Len(u) = Len(s) + Len(t)
      /\ \A i \in 1 .. Len(s) + Len(t) : u[i] = IF i <= Len(s) THEN s[i] ELSE t[i - Len(s)]
  BY ConcatProperties
<1>2. Len(s) \in Nat \ {0} /\ Len(t) \in Nat
  BY EmptySeq, LenProperties
<1>3. Tail(s) \in Seq(S) /\ Len(Tail(s)) = Len(s) - 1 /\ \A i \in 1 .. Len(Tail(s)) : Tail(s)[i] = s[i + 1]
  BY HeadTailProperties
<1> DEFINE v == Tail(s) \o t
<1>4. v \in Seq(S) /\ Len(v) = Len(Tail(s)) + Len(t)
      /\ \A i \in 1 .. Len(Tail(s)) + Len(t) : v[i] = IF i <= Len(Tail(s)) THEN Tail(s)[i] ELSE t[i - Len(Tail(s))]
  BY <1>3, ConcatProperties
<1> HIDE DEF u, v
<1>5. u # <<>>
  BY <1>1, <1>2, EmptySeq
<1>6. Tail(u) \in Seq(S) /\ Len(Tail(u)) = Len(u) - 1 /\ \A i \in 1 .. Len(Tail(u)) : Tail(u)[i] = u[i + 1]
  BY <1>1, <1>5, HeadTailProperties
<1>7. Len(v) = Len(Tail(u))
  BY <1>1, <1>2, <1>3, <1>4, <1>6
<1>8. ASSUME NEW i \in 1 .. Len(v) PROVE v[i] = Tail(u)[i]
  <2>1. i \in 1 .. Len(Tail(u)) /\ i + 1 \in 1 .. Len(s) + Len(t) /\ i \in 1 .. Len(Tail(s)) + Len(t)
    BY <1>1, <1>2, <1>3, <1>4, <1>6, <1>7
  <2>2. Tail(u)[i] = IF i + 1 <= Len(s) THEN s[i + 1] ELSE t[(i + 1) - Len(s)]
    BY <1>1, <1>6, <2>1
  <2>3. v[i] = IF i <= Len(Tail(s)) THEN Tail(s)[i] ELSE t[i - Len(Tail(s))]
    BY <1>4, <2>1
  <2>4. CASE i <= Len(Tail(s))
    <3>1. i \in 1 .. Len(Tail(s)) /\ i + 1 <= Len(s)
      BY <1>2, <1>3, <2>1, <2>4
    <3>2. Tail(s)[i] = s[i + 1]
      BY <1>3, <3>1
    <3> QED BY <2>2, <2>3, <2>4, <3>1, <3>2
  <2>5. CASE ~(i <= Len(Tail(s)))
    <3>1. ~(i + 1 <= Len(s)) /\ (i + 1) - Len(s) = i - Len(Tail(s))
      BY <1>2, <1>3, <2>1, <2>5
    <3> QED BY <2>2, <2>3, <2>5, <3>1
  <2> QED BY <2>4, <2>5
<1>9. v = Tail(u)
  BY <1>4, <1>6, <1>7, <1>8, SeqEqual
<1>10. Head(u) = Head(s)
  <2>1. u[1] = s[1]
    BY <1>1, <1>2
  <2> QED BY <1>1, <1>2, <1>5, <2>1
<1> QED BY <1>5, <1>9, <1>10 DEF u, v

-----------------------------------------------------------------------------
\* Events and what they say.
LEMMA SentFields ==
  ASSUME BookType, NEW P \in Seq(Sent), NEW k \in 1 .. Len(P)
  PROVE  /\ P[k].kind \in Kinds /\ P[k].id \in Ids /\ P[k].id < nextId
         /\ P[k].price \in Nat /\ P[k].amount \in Nat
<1>1. P[k] \in Sent
  OBVIOUS
<1> QED BY <1>1, KnownIds DEF Sent, Ids

LEMMA AfterFields == ASSUME NEW e, e.kind # "done" PROVE After(e).price = e.price
BY DEF After

\* What the exchange says about a change that it makes: the order's new state; a
\* fill keeps the price, and only new orders are new.
Says(e, b) ==
  /\ e.kind \in Kinds /\ e.id \in Ids
  /\ e.kind = "partial" => e.price = b[e.id].price
  /\ e.kind # "new" => b[e.id] # NoOrder
  /\ e.kind = "new" => e.id = nextId

\* What the exchange says is true: it fits what it said before ...
LEMMA TellsAppend ==
  ASSUME BookType, NEW P \in Seq(Sent), NEW b \in Ledgers, Tells(P, b), NEW S, P \in Seq(S), NEW e \in S, Says(e, b)
  PROVE  Tells(Append(P, e), [b EXCEPT ![e.id] = After(e)])
<1> DEFINE Q == Append(P, e)
<1> DEFINE c == [b EXCEPT ![e.id] = After(e)]
<1>1. Len(P) \in Nat /\ Len(Q) = Len(P) + 1 /\ Q[Len(P) + 1] = e /\ \A i \in 1 .. Len(P) : Q[i] = P[i]
  BY AppendProperties, LenProperties
<1>2. c[e.id] = After(e) /\ \A i \in Ids : i # e.id => c[i] = b[i]
  BY DEF Says, Ledgers
<1> HIDE DEF Q, c
<1>3. ASSUME NEW k \in 1 .. Len(P), LastWord(Q, k) PROVE LastWord(P, k) /\ Q[k].id # e.id
  BY <1>1, <1>3 DEF LastWord
<1>4. ASSUME NEW k \in 1 .. Len(P), LastWord(P, k), P[k].id # e.id PROVE LastWord(Q, k)
  <2>1. ASSUME NEW j \in 1 .. Len(Q), j > k PROVE Q[j].id # Q[k].id
    <3>1. CASE j = Len(P) + 1
      BY <1>1, <1>4, <3>1
    <3>2. CASE j \in 1 .. Len(P)
      BY <1>1, <1>4, <2>1, <3>2 DEF LastWord
    <3> QED BY <1>1, <3>1, <3>2
  <2> QED BY <2>1 DEF LastWord
<1>5. ASSUME NEW k \in 1 .. Len(P), OnlyFills(Q, k)
      PROVE  OnlyFills(P, k) /\ (P[k].id = e.id => e.kind = "partial")
  BY <1>1, <1>5 DEF OnlyFills
<1>6. \A k \in 1 .. Len(P) : P[k].id \in Ids /\ P[k].id # nextId
  BY SentFields, KnownIds DEF Ids
<1>7. ASSUME NEW k \in 1 .. Len(P), P[k].id = e.id PROVE P[k].kind # "done"
  BY <1>6, <1>7 DEF Tells, Says, After
<1>8. ASSUME NEW k \in 1 .. Len(P)
      PROVE  /\ LastWord(Q, k) => c[Q[k].id] = After(Q[k])
             /\ Q[k].kind = "done" => LastWord(Q, k)
             /\ Q[k].kind # "done" /\ OnlyFills(Q, k) => Q[k].price = c[Q[k].id].price
  <2>1. Q[k] = P[k]
    BY <1>1
  <2>2. LastWord(Q, k) => c[Q[k].id] = After(Q[k])
    BY <1>2, <1>3, <1>6, <2>1 DEF Tells
  <2>3. Q[k].kind = "done" => LastWord(Q, k)
    BY <1>4, <1>7, <2>1 DEF Tells
  <2>4. ASSUME Q[k].kind # "done", OnlyFills(Q, k), P[k].id # e.id PROVE Q[k].price = c[Q[k].id].price
    BY <1>2, <1>5, <1>6, <2>1, <2>4 DEF Tells
  <2>5. ASSUME Q[k].kind # "done", OnlyFills(Q, k), P[k].id = e.id PROVE Q[k].price = c[Q[k].id].price
    <3>1. e.kind = "partial" /\ OnlyFills(P, k)
      BY <1>5, <2>5
    <3>2. P[k].price = b[e.id].price /\ e.price = b[e.id].price
      BY <2>1, <2>5, <3>1 DEF Tells, Says
    <3>3. c[e.id].price = e.price
      BY <1>2, <3>1, AfterFields
    <3> QED BY <2>1, <2>5, <3>2, <3>3
  <2> QED BY <2>2, <2>3, <2>4, <2>5
<1>9. ASSUME NEW k, k = Len(P) + 1
      PROVE  /\ LastWord(Q, k) => c[Q[k].id] = After(Q[k])
             /\ Q[k].kind = "done" => LastWord(Q, k)
             /\ Q[k].kind # "done" /\ OnlyFills(Q, k) => Q[k].price = c[Q[k].id].price
  <2>1. Q[k] = e /\ LastWord(Q, k)
    BY <1>1, <1>9 DEF LastWord
  <2> QED BY <1>2, <2>1, AfterFields
<1>10. \A k \in 1 .. Len(Q) : k \in 1 .. Len(P) \/ k = Len(P) + 1
  BY <1>1
<1>11. Tells(Q, c)
  BY <1>8, <1>9, <1>10 DEF Tells
<1> QED BY <1>11 DEF Q, c

\* ... and who applies it in its turn gets to the same.
LEMMA LeadsToAppend ==
  ASSUME BookType, NEW P \in Seq(Sent), NEW b \in Ledgers, NEW r, NEW D \in SUBSET Ids, LeadsTo(P, r, b, D),
         NEW S, P \in Seq(S), NEW e \in S, Says(e, b)
  PROVE  LeadsTo(Append(P, e), r, [b EXCEPT ![e.id] = After(e)], D)
<1> DEFINE Q == Append(P, e)
<1> DEFINE c == [b EXCEPT ![e.id] = After(e)]
<1>1. Len(P) \in Nat /\ Len(Q) = Len(P) + 1 /\ Q[Len(P) + 1] = e /\ \A i \in 1 .. Len(P) : Q[i] = P[i]
  BY AppendProperties, LenProperties
<1>2. c[e.id] = After(e) /\ \A i \in Ids : i # e.id => c[i] = b[i]
  BY DEF Says, Ledgers
<1> HIDE DEF Q, c
<1>3. \A k \in 1 .. Len(P) : k \in 1 .. Len(Q) /\ Q[k] = P[k]
  BY <1>1
<1>4. Len(P) + 1 \in 1 .. Len(Q)
  BY <1>1
<1>5. ASSUME NEW id \in D, \A k \in 1 .. Len(Q) : Q[k].id # id PROVE r[id] = c[id]
  BY <1>1, <1>2, <1>3, <1>4, <1>5 DEF LeadsTo
<1>6. ASSUME NEW id \in D, \A k \in 1 .. Len(Q) : Q[k].id = id => Q[k].kind = "partial", r[id] # NoOrder
      PROVE  r[id].price = c[id].price
  <2>1. r[id].price = b[id].price
    BY <1>3, <1>6 DEF LeadsTo
  <2>2. CASE e.id = id
    <3>1. e.kind = "partial"
      BY <1>1, <1>4, <1>6, <2>2
    <3>2. After(e).price = e.price
      BY <3>1, AfterFields
    <3> QED BY <1>2, <2>1, <2>2, <3>1, <3>2 DEF Says
  <2> QED BY <1>2, <2>1, <2>2
<1>7. LeadsTo(Q, r, c, D)
  BY <1>5, <1>6 DEF LeadsTo
<1> QED BY <1>7 DEF Q, c

\* Applying the next event: the rest still tells the truth ...
LEMMA TellsTail ==
  ASSUME BookType, NEW P \in Seq(Sent), P # <<>>, NEW b, Tells(P, b)
  PROVE  Tells(Tail(P), b)
<1> DEFINE T == Tail(P)
<1>1. Len(T) = Len(P) - 1 /\ Len(P) \in Nat /\ \A i \in 1 .. Len(T) : T[i] = P[i + 1]
  BY HeadTailProperties, LenProperties
<1> HIDE DEF T
<1>2. \A i \in 1 .. Len(T) : i + 1 \in 1 .. Len(P) /\ T[i] = P[i + 1]
  BY <1>1
<1>3. \A j \in 1 .. Len(P) : j > 1 => j - 1 \in 1 .. Len(T) /\ T[j - 1] = P[j]
  <2>1. ASSUME NEW j \in 1 .. Len(P), j > 1 PROVE j - 1 \in 1 .. Len(T) /\ T[j - 1] = P[j]
    <3>1. j - 1 \in 1 .. Len(T) /\ (j - 1) + 1 = j
      BY <1>1, <2>1
    <3>2. T[j - 1] = P[(j - 1) + 1]
      BY <1>1, <3>1
    <3> QED BY <3>1, <3>2
  <2> QED BY <2>1
<1>4. ASSUME NEW k \in 1 .. Len(T), LastWord(T, k) PROVE LastWord(P, k + 1)
  <2>1. ASSUME NEW j \in 1 .. Len(P), j > k + 1 PROVE P[j].id # P[k + 1].id
    <3>1. j - 1 \in 1 .. Len(T) /\ T[j - 1] = P[j] /\ j - 1 > k
      BY <1>1, <1>3, <2>1
    <3> QED BY <1>2, <1>4, <3>1 DEF LastWord
  <2> QED BY <2>1 DEF LastWord
<1>5. ASSUME NEW k \in 1 .. Len(T), LastWord(P, k + 1) PROVE LastWord(T, k)
  <2>1. ASSUME NEW j \in 1 .. Len(T), j > k PROVE T[j].id # T[k].id
    <3>1. j + 1 \in 1 .. Len(P) /\ j + 1 > k + 1 /\ T[j] = P[j + 1] /\ T[k] = P[k + 1]
      BY <1>2, <2>1
    <3> QED BY <1>5, <3>1 DEF LastWord
  <2> QED BY <2>1 DEF LastWord
<1>6. ASSUME NEW k \in 1 .. Len(T), OnlyFills(T, k) PROVE OnlyFills(P, k + 1)
  <2>1. ASSUME NEW j \in 1 .. Len(P), j > k + 1, P[j].id = P[k + 1].id PROVE P[j].kind = "partial"
    <3>1. j - 1 \in 1 .. Len(T) /\ T[j - 1] = P[j] /\ j - 1 > k
      BY <1>1, <1>3, <2>1
    <3> QED BY <1>2, <1>6, <2>1, <3>1 DEF OnlyFills
  <2> QED BY <2>1 DEF OnlyFills
<1>7. ASSUME NEW k \in 1 .. Len(T)
      PROVE  /\ LastWord(T, k) => b[T[k].id] = After(T[k])
             /\ T[k].kind = "done" => LastWord(T, k)
             /\ T[k].kind # "done" /\ OnlyFills(T, k) => T[k].price = b[T[k].id].price
  <2>1. k + 1 \in 1 .. Len(P) /\ T[k] = P[k + 1]
    BY <1>2
  <2>2. /\ LastWord(P, k + 1) => b[P[k + 1].id] = After(P[k + 1])
        /\ P[k + 1].kind = "done" => LastWord(P, k + 1)
        /\ P[k + 1].kind # "done" /\ OnlyFills(P, k + 1) => P[k + 1].price = b[P[k + 1].id].price
    BY <2>1 DEF Tells
  <2> QED BY <1>4, <1>5, <1>6, <2>1, <2>2
<1>8. Tells(T, b)
  BY <1>7 DEF Tells
<1> QED BY <1>8 DEF T

\* What ApplyOrderEvent makes of an order.
LEMMA AppliedFields ==
  ASSUME BookType, NEW r \in Ledgers, NEW e \in Sent
  PROVE  /\ \A id \in Ids : id # e.id => Applied(r, e)[id] = r[id]
         /\ e.kind = "done" => Applied(r, e)[e.id] = NoOrder
         /\ e.kind = "partial" /\ r[e.id] # NoOrder =>
              Applied(r, e)[e.id] = [price |-> r[e.id].price, amount |-> e.amount]
         /\ e.kind # "done" /\ ~(e.kind = "partial" /\ r[e.id] # NoOrder) =>
              Applied(r, e)[e.id] = [price |-> e.price, amount |-> e.amount]
<1>1. e.id \in Ids /\ r \in [Ids -> Orders]
  BY KnownIds DEF Sent, Ledgers
<1>2. r[e.id] \in Orders
  BY <1>1
<1>3. [r[e.id] EXCEPT !.amount = e.amount] = [price |-> r[e.id].price, amount |-> e.amount]
  BY <1>2 DEF Orders
<1>4. \A id \in Ids : id # e.id => Applied(r, e)[id] = r[id]
  BY <1>1 DEF Applied
<1>5. Applied(r, e)[e.id] =
        (CASE e.kind = "done" -> NoOrder
           [] e.kind = "partial" /\ r[e.id] # NoOrder -> [r[e.id] EXCEPT !.amount = e.amount]
           [] OTHER -> [price |-> e.price, amount |-> e.amount])
  BY <1>1 DEF Applied
<1> HIDE DEF Applied
<1> QED BY <1>3, <1>4, <1>5

\* ... and the ledger after it still leads to the book.
LEMMA LeadsToTail ==
  ASSUME BookType, NEW P \in Seq(Sent), P # <<>>, NEW r \in Ledgers, NEW b,
         NEW D \in SUBSET Ids, Tells(P, b), LeadsTo(P, r, b, D)
  PROVE  LeadsTo(Tail(P), Applied(r, Head(P)), b, D)
<1> DEFINE T == Tail(P)
<1> DEFINE e == Head(P)
<1> DEFINE s == Applied(r, e)
<1>1. Len(T) = Len(P) - 1 /\ Len(P) \in Nat \ {0} /\ \A i \in 1 .. Len(T) : T[i] = P[i + 1]
  BY HeadTailProperties, EmptySeq
<1>2. e \in Sent /\ P[1] = e /\ e.id \in Ids
  <2>1. e \in Sent /\ P[1] = e
    BY HeadTailProperties
  <2> QED BY <2>1, KnownIds DEF Sent
<1>3. /\ \A id \in Ids : id # e.id => s[id] = r[id]
      /\ e.kind = "done" => s[e.id] = NoOrder
      /\ e.kind = "partial" /\ r[e.id] # NoOrder => s[e.id] = [price |-> r[e.id].price, amount |-> e.amount]
      /\ e.kind # "done" /\ ~(e.kind = "partial" /\ r[e.id] # NoOrder) =>
           s[e.id] = [price |-> e.price, amount |-> e.amount]
  BY <1>2, AppliedFields
<1> HIDE DEF T, e, s
<1>4. ASSUME NEW k \in 1 .. Len(P) PROVE k = 1 \/ (k - 1 \in 1 .. Len(T) /\ P[k] = T[k - 1])
  <2>1. CASE k > 1
    <3>1. k - 1 \in 1 .. Len(T) /\ (k - 1) + 1 = k
      BY <1>1, <2>1
    <3>2. T[k - 1] = P[(k - 1) + 1]
      BY <1>1, <3>1
    <3> QED BY <3>1, <3>2
  <2> QED BY <1>1, <2>1
<1>5. 1 \in 1 .. Len(P)
  BY <1>1
<1>6. ASSUME NEW id \in D, \A k \in 1 .. Len(T) : T[k].id # id, id # e.id PROVE s[id] = b[id]
  <2>1. \A k \in 1 .. Len(P) : P[k].id # id
    BY <1>2, <1>4, <1>6
  <2> QED BY <1>3, <1>6, <2>1 DEF LeadsTo
<1>7. ASSUME e.id \in D, \A k \in 1 .. Len(T) : T[k].id # e.id PROVE s[e.id] = b[e.id]
  <2>1. LastWord(P, 1)
    BY <1>1, <1>2, <1>4, <1>7 DEF LastWord
  <2>2. b[e.id] = After(e)
    BY <1>2, <1>5, <2>1 DEF Tells
  <2>3. CASE e.kind = "done"
    BY <1>3, <2>2, <2>3 DEF After
  <2>4. CASE e.kind = "partial" /\ r[e.id] # NoOrder
    <3>1. \A k \in 1 .. Len(P) : P[k].id = e.id => P[k].kind = "partial"
      BY <1>2, <1>4, <1>7, <2>4
    <3>2. r[e.id].price = b[e.id].price
      BY <1>7, <2>4, <3>1 DEF LeadsTo
    <3>3. b[e.id] = [price |-> e.price, amount |-> e.amount]
      BY <2>2, <2>4 DEF After
    <3> QED BY <1>3, <2>4, <3>2, <3>3
  <2>5. CASE e.kind # "done" /\ ~(e.kind = "partial" /\ r[e.id] # NoOrder)
    BY <1>3, <2>2, <2>5 DEF After
  <2> QED BY <2>3, <2>4, <2>5
<1>8. ASSUME NEW id \in D, \A k \in 1 .. Len(T) : T[k].id = id => T[k].kind = "partial", s[id] # NoOrder, id # e.id
      PROVE  s[id].price = b[id].price
  <2>1. \A k \in 1 .. Len(P) : P[k].id = id => P[k].kind = "partial"
    BY <1>2, <1>4, <1>8
  <2> QED BY <1>3, <1>8, <2>1 DEF LeadsTo
<1>9. ASSUME e.id \in D, \A k \in 1 .. Len(T) : T[k].id = e.id => T[k].kind = "partial", s[e.id] # NoOrder
      PROVE  s[e.id].price = b[e.id].price
  <2>1. e.kind # "done"
    BY <1>3, <1>9
  <2>2. OnlyFills(P, 1)
    BY <1>1, <1>2, <1>4, <1>9 DEF OnlyFills
  <2>3. e.price = b[e.id].price
    BY <1>2, <1>5, <2>1, <2>2 DEF Tells
  <2>4. CASE e.kind = "partial" /\ r[e.id] # NoOrder
    <3>1. \A k \in 1 .. Len(P) : P[k].id = e.id => P[k].kind = "partial"
      BY <1>2, <1>4, <1>9, <2>4
    <3>2. r[e.id].price = b[e.id].price
      BY <1>9, <2>4, <3>1 DEF LeadsTo
    <3> QED BY <1>3, <2>4, <3>2
  <2>5. CASE ~(e.kind = "partial" /\ r[e.id] # NoOrder)
    BY <1>3, <2>1, <2>3, <2>5
  <2> QED BY <2>4, <2>5
<1>10. LeadsTo(T, s, b, D)
  BY <1>6, <1>7, <1>8, <1>9 DEF LeadsTo
<1> QED BY <1>10 DEF T, e, s

\* A cancelled order that is gone may leave the ledger before its event comes.
LEMMA LeadsToRemoved ==
  ASSUME NEW P, NEW r, NEW s, NEW b, NEW D, LeadsTo(P, r, b, D),
         \A id \in D : s[id] = r[id] \/ (s[id] = NoOrder /\ b[id] = NoOrder)
  PROVE  LeadsTo(P, s, b, D)
BY DEF LeadsTo

LEMMA LeadsToItself == ASSUME NEW P, NEW b, NEW D PROVE LeadsTo(P, b, b, D)
BY DEF LeadsTo

LEMMA LeadsToFewer ==
  ASSUME NEW P, NEW r, NEW b, NEW D, NEW E, E \subseteq D, LeadsTo(P, r, b, D) PROVE LeadsTo(P, r, b, E)
BY DEF LeadsTo

\* An order whose placement is on its way may enter the ledger before its event.
LEMMA LeadsToNoted ==
  ASSUME NEW P, NEW r, NEW s, NEW b, NEW D, LeadsTo(P, r, b, D),
         \A id \in D : s[id] = r[id] \/ \E k \in 1 .. Len(P) : P[k].id = id /\ P[k].kind = "new"
  PROVE  LeadsTo(P, s, b, D)
BY DEF LeadsTo

\* When all has been said the ledger is the book.
LEMMA LeadsToNothing ==
  ASSUME NEW r, NEW b, NEW D, LeadsTo(<<>>, r, b, D) PROVE \A id \in D : r[id] = b[id]
<1>1. Len(<<>>) = 0
  OBVIOUS
<1> QED BY <1>1 DEF LeadsTo

-----------------------------------------------------------------------------
\* The stream's control.
LEMMA ControlKept ==
  ASSUME ControlType, [Next]_vars PROVE ControlType'
<1>1. ASSUME UNCHANGED <<connEvents, generation, hydrating, recovering, pendingErr, hgen>> PROVE ControlType'
  BY <1>1 DEF ControlType
<1>2. CASE OutsideStep
  BY <1>1, <1>2 DEF OutsideStep, streamVars, hydrateVars
<1>3. CASE Deliver \/ Redial \/ StreamEnds \/ UNCHANGED vars
  BY <1>1, <1>3 DEF Deliver, Redial, StreamEnds, vars, wsVars, streamVars, hydrateVars
<1>4. CASE CancelAllStart \/ PlainHydrate \/ ContextEnds
  BY <1>1, <1>4 DEF CancelAllStart, PlainHydrate, ContextEnds, wsVars, streamVars, hydrateVars
<1>5. CASE CycleStep
  <2>1. ASSUME NEW id \in Ids, CancelOne(id) PROVE ControlType'
    BY <1>1, <2>1 DEF CancelOne, streamVars, hydrateVars
  <2>2. ASSUME NEW p \in Prices, PlaceOne(p) PROVE ControlType'
    BY <1>1, <2>2 DEF PlaceOne, streamVars, hydrateVars
  <2>3. CASE CancelDone \/ PlaceDone \/ PlainInstall
    BY <1>1, <2>3 DEF CancelDone, PlaceDone, PlainInstall, wsVars, streamVars, hydrateVars
  <2> QED BY <1>5, <2>1, <2>2, <2>3 DEF CycleStep
<1>6. ASSUME NEW targets \in Targets, SyncStart(targets) PROVE ControlType'
  BY <1>1, <1>6 DEF SyncStart, wsVars, streamVars, hydrateVars
<1>7. CASE StartStreaming
  <2>1. /\ connEvents' = <<>> /\ generation' = 0 /\ hydrating' = TRUE /\ recovering' = FALSE /\ pendingErr' = FALSE
        /\ hgen' = hgen
    BY <1>7 DEF StartStreaming
  <2>2. connEvents' \in Seq({"reconnecting", "connected"})
    BY <2>1
  <2> QED BY <2>1, <2>2 DEF ControlType
<1>8. ASSUME NEW e \in {"reconnecting", "connected"}, connEvents' = Append(connEvents, e),
             UNCHANGED <<generation, hydrating, recovering, pendingErr, hgen>>
      PROVE  ControlType'
  <2>1. connEvents' \in Seq({"reconnecting", "connected"})
    BY <1>8, AppendProperties DEF ControlType
  <2> QED BY <1>8, <2>1 DEF ControlType
<1>9. CASE Drop \/ MalformedFrame
  BY <1>8, <1>9 DEF Drop, MalformedFrame, hydrateVars
<1>10. CASE Resubscribed
  BY <1>8, <1>10 DEF Resubscribed, streamVars, hydrateVars
<1>11. CASE OnReconnecting \/ OnConnected
  <2>1. connEvents' \in Seq({"reconnecting", "connected"})
    <3>1. connEvents # <<>> /\ connEvents' = Tail(connEvents)
      BY <1>11 DEF OnReconnecting, OnConnected
    <3> QED BY <3>1, SeqTaken DEF ControlType
  <2>2. CASE OnConnected
    BY <2>1, <2>2 DEF OnConnected, ControlType, streamVars
  <2>3. CASE OnReconnecting /\ recovering
    BY <2>1, <2>3 DEF OnReconnecting, ControlType, streamVars, hydrateVars
  <2>4. CASE OnReconnecting /\ ~recovering
    <3>1. /\ generation' = generation + 1 /\ hydrating' = TRUE /\ recovering' = TRUE /\ pendingErr' = FALSE
          /\ hgen' = hgen /\ generation \in Nat
      BY <2>4 DEF OnReconnecting, ControlType, hydrateVars
    <3>2. generation' \in Nat /\ generation' # 0
      BY <3>1
    <3> QED BY <2>1, <3>1, <3>2 DEF ControlType
  <2> QED BY <1>11, <2>2, <2>3, <2>4
<1>12. CASE OnOrderEvent
  <2>1. pendingErr' \in BOOLEAN
    BY <1>12 DEF OnOrderEvent, EnqueuePending, ControlType
  <2> QED BY <1>12, <2>1 DEF OnOrderEvent, ControlType, hydrateVars
<1>13. ASSUME NEW h \in Hydrators, HydrateStep(h) PROVE ControlType'
  <2>1. CASE HydrateBegin(h)
    BY <2>1 DEF HydrateBegin, ControlType, wsVars, streamVars
  <2>2. CASE HydrateQuery(h)
    BY <2>2 DEF HydrateQuery, Return, ControlType, wsVars
  <2>3. CASE HydrateInstall(h) \/ ApplyBatch(h)
    BY <1>1, <2>3 DEF HydrateInstall, ApplyBatch, wsVars, streamVars
  <2>4. CASE Handoff(h)
    <3>1. UNCHANGED <<connEvents, generation, pendingErr, hgen>>
          /\ (hydrating' = FALSE \/ hydrating' = hydrating) /\ (recovering' = FALSE \/ recovering' = recovering)
      BY <2>4 DEF Handoff, Return, wsVars
    <3>2. hydrating' \in BOOLEAN
      BY <3>1 DEF ControlType
    <3>3. recovering' \in BOOLEAN
      BY <3>1 DEF ControlType
    <3>4. generation = 0 => ~recovering'
      BY <3>1, Zenon DEF ControlType
    <3>5. /\ connEvents \in Seq({"reconnecting", "connected"}) /\ generation \in Nat
          /\ hgen \in [Hydrators -> Nat] /\ pendingErr \in BOOLEAN
      BY DEF ControlType
    <3>6. /\ connEvents' \in Seq({"reconnecting", "connected"}) /\ generation' \in Nat
          /\ hgen' \in [Hydrators -> Nat] /\ pendingErr' \in BOOLEAN
      BY <3>1, <3>5
    <3> QED BY <3>1, <3>2, <3>3, <3>4, <3>6 DEF ControlType
  <2> QED BY <1>13, <2>1, <2>2, <2>3, <2>4 DEF HydrateStep
<1> QED BY <1>2, <1>3, <1>4, <1>5, <1>6, <1>7, <1>9, <1>10, <1>11, <1>12, <1>13
        DEF Next, ClientStep, SelectStep

\* A connection once lost, or a stream once ended, is unbroken again only with a
\* new stream.
LEMMA UnbrokenBefore ==
  ASSUME ControlType, [Next]_vars, Unbroken' PROVE Unbroken \/ StartStreaming
<1>1. ASSUME UNCHANGED <<stream, connEvents, generation>> PROVE Unbroken
  BY <1>1 DEF Unbroken
<1>2. CASE OutsideStep
  BY <1>1, <1>2 DEF OutsideStep, streamVars
<1>3. CASE Deliver \/ Redial \/ UNCHANGED vars
  BY <1>1, <1>3 DEF Deliver, Redial, vars, wsVars, streamVars
<1>4. CASE CancelAllStart \/ PlainHydrate \/ ContextEnds
  BY <1>1, <1>4 DEF CancelAllStart, PlainHydrate, ContextEnds, wsVars, streamVars
<1>5. CASE CycleStep
  <2>1. ASSUME NEW id \in Ids, CancelOne(id) PROVE Unbroken
    BY <1>1, <2>1 DEF CancelOne, streamVars
  <2>2. ASSUME NEW p \in Prices, PlaceOne(p) PROVE Unbroken
    BY <1>1, <2>2 DEF PlaceOne, streamVars
  <2>3. CASE CancelDone \/ PlaceDone \/ PlainInstall
    BY <1>1, <2>3 DEF CancelDone, PlaceDone, PlainInstall, wsVars, streamVars
  <2> QED BY <1>5, <2>1, <2>2, <2>3 DEF CycleStep
<1>6. ASSUME NEW targets \in Targets, SyncStart(targets) PROVE Unbroken
  BY <1>1, <1>6 DEF SyncStart, wsVars, streamVars
<1>7. CASE StreamEnds
  BY <1>7 DEF StreamEnds, Unbroken
<1>8. ASSUME NEW e, connEvents' = Append(connEvents, e), UNCHANGED <<stream, generation>> PROVE Unbroken
  <2>1. Len(connEvents) \in Nat /\ Len(connEvents') = Len(connEvents) + 1
        /\ \A i \in 1 .. Len(connEvents) : connEvents'[i] = connEvents[i]
    BY <1>8 DEF ControlType
  <2>2. \A i \in 1 .. Len(connEvents) : i \in 1 .. Len(connEvents')
    BY <2>1
  <2> QED BY <1>8, <2>1, <2>2 DEF Unbroken
<1>9. CASE Drop \/ MalformedFrame
  BY <1>8, <1>9 DEF Drop, MalformedFrame
<1>10. CASE Resubscribed
  BY <1>8, <1>10 DEF Resubscribed, streamVars
<1>11. CASE OnReconnecting
  <2>1. recovering => generation' = generation /\ generation # 0
    BY <1>11 DEF OnReconnecting, streamVars, ControlType
  <2>2. ~recovering => generation' = generation + 1 /\ generation \in Nat
    BY <1>11 DEF OnReconnecting, ControlType
  <2>3. generation' # 0
    BY <2>1, <2>2 DEF ControlType
  <2> QED BY <2>3 DEF Unbroken
<1>12. CASE OnConnected
  <2>1. connEvents # <<>> /\ connEvents[1] = "connected" /\ connEvents' = Tail(connEvents)
        /\ stream' = stream /\ generation' = generation
    BY <1>12 DEF OnConnected, streamVars
  <2>2. Len(connEvents) \in Nat /\ Len(connEvents') = Len(connEvents) - 1
        /\ \A i \in 1 .. Len(connEvents') : connEvents'[i] = connEvents[i + 1]
    BY <2>1, HeadTailProperties, LenProperties DEF ControlType
  <2>3. ASSUME NEW i \in 1 .. Len(connEvents) PROVE connEvents[i] # "reconnecting"
    <3>1. CASE i > 1
      <4>1. i - 1 \in 1 .. Len(connEvents') /\ (i - 1) + 1 = i
        BY <2>2, <3>1
      <4>2. connEvents'[i - 1] = connEvents[(i - 1) + 1]
        BY <2>2, <4>1
      <4> QED BY <4>1, <4>2 DEF Unbroken
    <3> QED BY <2>1, <2>2, <3>1
  <2> QED BY <2>1, <2>3 DEF Unbroken
<1>13. CASE OnOrderEvent
  BY <1>1, <1>13 DEF OnOrderEvent
<1>14. ASSUME NEW h \in Hydrators, HydrateStep(h) PROVE Unbroken
  <2>1. UNCHANGED <<connEvents, generation>> /\ (stream' = stream \/ stream' = "ended")
    BY <1>14 DEF HydrateStep, HydrateBegin, HydrateQuery, HydrateInstall, Handoff, ApplyBatch, Return, wsVars, streamVars
  <2> QED BY <2>1 DEF Unbroken
<1> QED BY <1>2, <1>3, <1>4, <1>5, <1>6, <1>7, <1>9, <1>10, <1>11, <1>12, <1>13, <1>14
        DEF Next, ClientStep, SelectStep

\* Of the cycles and the hydrations one at a time holds syncMu.
LEMMA LockKept ==
  ASSUME BatchInv, LockInv, [Next]_vars PROVE LockInv'
<1>1. ASSUME UNCHANGED <<hp, cycle, phase, placed>> PROVE LockInv'
  BY <1>1 DEF LockInv
<1>2. CASE OutsideStep \/ ClientStep \/ Drop \/ MalformedFrame \/ StreamEnds \/ OnReconnecting \/ OnOrderEvent
  BY <1>1, <1>2 DEF OutsideStep, ClientStep, Deliver, Redial, Resubscribed, Drop, MalformedFrame, StreamEnds,
                    OnReconnecting, OnOrderEvent, hydrateVars, cycleVars
<1>3. CASE UNCHANGED vars \/ ContextEnds
  BY <1>1, <1>3 DEF ContextEnds, vars, hydrateVars, cycleVars
<1>4. ASSUME NEW h \in Hydrators, NEW to, to # "install", hp' = [hp EXCEPT ![h] = to] \/ hp' = hp,
             UNCHANGED <<cycle, phase, placed>>
      PROVE  LockInv'
  BY <1>4 DEF LockInv, BatchInv
<1>5. CASE StartStreaming \/ OnConnected
  <2>1. (hp' = hp \/ \E h \in Hydrators : hp' = [hp EXCEPT ![h] = "begin"]) /\ UNCHANGED <<cycle, phase, placed>>
    <3>1. CASE StartStreaming
      BY <3>1, HydratorsAre DEF StartStreaming, cycleVars
    <3>2. CASE OnConnected
      <4>1. hp' = IF recovering THEN [hp EXCEPT !["stream"] = "begin"] ELSE hp
        BY <3>2, HydratorsAre DEF OnConnected, BatchInv
      <4> QED BY <3>2, <4>1, HydratorsAre DEF OnConnected, cycleVars
    <3> QED BY <1>5, <3>1, <3>2
  <2>2. CASE hp' = hp
    BY <1>1, <2>1, <2>2
  <2>3. ASSUME NEW h \in Hydrators, hp' = [hp EXCEPT ![h] = "begin"] PROVE LockInv'
    BY <1>4, <2>1, <2>3
  <2> QED BY <2>1, <2>2, <2>3
<1>6. ASSUME NEW h \in Hydrators, HydrateStep(h) PROVE LockInv'
  <2>1. CASE HydrateBegin(h)
    BY <1>4, <2>1 DEF HydrateBegin, cycleVars
  <2>2. CASE HydrateQuery(h)
    <3>1. cycle = "none" /\ UNCHANGED <<phase, placed>>
      BY <2>2 DEF HydrateQuery
    <3>2. \A g \in Hydrators : hp[g] # "install"
      BY <3>1, HydratorsAre DEF LockInv
    <3>3. phase = "none"
      BY <3>1 DEF LockInv
    <3>4. CASE cycle' = h /\ hp' = [hp EXCEPT ![h] = "install"]
      BY <3>1, <3>2, <3>3, <3>4, HydratorsAre DEF LockInv, BatchInv
    <3>5. CASE cycle' = cycle /\ hp' = [hp EXCEPT ![h] = "idle"]
      BY <1>4, <3>1, <3>5
    <3> QED BY <2>2, <3>4, <3>5 DEF HydrateQuery, Return
  <2>3. CASE HydrateInstall(h)
    <3>1. cycle = h /\ cycle' = "none" /\ UNCHANGED <<phase, placed>> /\ hp' = [hp EXCEPT ![h] = "handoff"]
      BY <2>3 DEF HydrateInstall, LockInv
    <3>2. phase = "none"
      BY <3>1, HydratorsAre DEF LockInv
    <3>3. \A g \in Hydrators : hp'[g] # "install"
      BY <3>1 DEF LockInv, BatchInv
    <3> QED BY <3>1, <3>2, <3>3 DEF LockInv
  <2>4. CASE Handoff(h)
    <3>1. (hp' = [hp EXCEPT ![h] = "idle"] \/ hp' = [hp EXCEPT ![h] = "apply"]) /\ UNCHANGED <<cycle, phase, placed>>
      BY <2>4 DEF Handoff, Return, cycleVars
    <3> QED BY <1>4, <3>1
  <2>5. CASE ApplyBatch(h)
    <3>1. (hp' = [hp EXCEPT ![h] = "handoff"] \/ hp' = [hp EXCEPT ![h] = "apply"]) /\ UNCHANGED <<cycle, phase, placed>>
      BY <2>5 DEF ApplyBatch, cycleVars
    <3> QED BY <1>4, <3>1
  <2> QED BY <1>6, <2>1, <2>2, <2>3, <2>4, <2>5 DEF HydrateStep
<1>7. ASSUME cycle \notin Hydrators, UNCHANGED hp,
             phase' # "none" => cycle' \in {"sync", "cancelAll"},
             phase' = "place" => cycle' = "sync", phase' # "place" => placed' = {}
      PROVE  LockInv'
  BY <1>7 DEF LockInv
<1>8. ASSUME NEW targets \in Targets, SyncStart(targets) PROVE LockInv'
  BY <1>7, <1>8, HydratorsAre DEF SyncStart, hydrateVars, LockInv
<1>9. CASE CancelAllStart
  BY <1>7, <1>9, HydratorsAre DEF CancelAllStart, hydrateVars, LockInv
<1>10. CASE PlainHydrate
  BY <1>7, <1>10, HydratorsAre DEF PlainHydrate, hydrateVars, LockInv
<1>11. CASE PlainInstall
  BY <1>7, <1>11, HydratorsAre DEF PlainInstall, hydrateVars, LockInv
<1>12. CASE PlaceDone
  BY <1>7, <1>12, HydratorsAre DEF PlaceDone, EndCycle, hydrateVars, LockInv
<1>13. CASE CancelDone
  <2>1. cycle \notin Hydrators /\ hp' = hp
    BY <1>13, HydratorsAre DEF CancelDone, hydrateVars, LockInv
  <2>2. CASE Placing
    BY <1>7, <1>13, <2>1, <2>2 DEF CancelDone, Placing, LockInv
  <2>3. CASE ~Placing
    BY <1>7, <1>13, <2>1, <2>3 DEF CancelDone, EndCycle
  <2> QED BY <2>2, <2>3
<1>14. ASSUME NEW id \in Ids, CancelOne(id) PROVE LockInv'
  BY <1>1, <1>14 DEF CancelOne, hydrateVars
<1>15. ASSUME NEW p \in Prices, PlaceOne(p) PROVE LockInv'
  BY <1>15 DEF PlaceOne, hydrateVars, LockInv
<1> QED BY <1>2, <1>3, <1>5, <1>6, <1>8, <1>9, <1>10, <1>11, <1>12, <1>13, <1>14, <1>15
        DEF Next, SelectStep, CycleStep

\* While the stream is on its first connection, its only hydration is the first.
LEMMA StartKept ==
  ASSUME ControlType, BatchInv, LockInv, StartInv, [Next]_vars PROVE StartInv'
<1> SUFFICES ASSUME Unbroken'
             PROVE  /\ link' = "up" /\ hp'["stream"] = "idle"
                    /\ hydrating' <=> hp'["start"] # "idle"
                    /\ hp'["start"] \notin {"idle", "begin"} => hgen'["start"] = 0
                    /\ ~hydrating' => pending' = <<>> /\ ~pendingErr'
                    /\ cycle' = "hydrate" => hp'["start"] \in {"begin", "query"}
  BY DEF StartInv
<1> DEFINE Goal ==
             /\ link' = "up" /\ hp'["stream"] = "idle"
             /\ hydrating' <=> hp'["start"] # "idle"
             /\ hp'["start"] \notin {"idle", "begin"} => hgen'["start"] = 0
             /\ ~hydrating' => pending' = <<>> /\ ~pendingErr'
             /\ cycle' = "hydrate" => hp'["start"] \in {"begin", "query"}
<1>1. CASE StartStreaming
  <2>1. /\ link' = link /\ link = "up" /\ hydrating' = TRUE
        /\ hp' = [hp EXCEPT !["start"] = "begin"] /\ \A h \in Hydrators : hp[h] = "idle"
    BY <1>1 DEF StartStreaming
  <2>2. hp'["start"] = "begin" /\ hp'["stream"] = "idle"
    BY <2>1, HydratorsAre DEF BatchInv
  <2> QED BY <2>1, <2>2
<1>2. ASSUME ~StartStreaming PROVE Goal
  <2>1. /\ Unbroken
        /\ link = "up" /\ hp["stream"] = "idle"
        /\ hydrating <=> hp["start"] # "idle"
        /\ hp["start"] \notin {"idle", "begin"} => hgen["start"] = 0
        /\ ~hydrating => pending = <<>> /\ ~pendingErr
        /\ cycle = "hydrate" => hp["start"] \in {"begin", "query"}
    BY <1>2, UnbrokenBefore DEF StartInv
  <2> DEFINE Rest == UNCHANGED <<link, hp, hgen, hydrating, pending, pendingErr>>
  <2>2. ASSUME Rest, cycle' # "hydrate" \/ cycle' = cycle PROVE Goal
    BY <2>1, <2>2
  <2>3. CASE OutsideStep \/ Deliver \/ UNCHANGED vars \/ ContextEnds
    BY <2>2, <2>3 DEF OutsideStep, Deliver, ContextEnds, vars, wsVars, streamVars, hydrateVars, cycleVars
  <2>4. CASE MalformedFrame \/ StreamEnds
    BY <2>2, <2>4 DEF MalformedFrame, StreamEnds, wsVars, hydrateVars, cycleVars
  <2>5. CASE CancelAllStart \/ PlainInstall \/ PlaceDone
    BY <2>2, <2>5 DEF CancelAllStart, PlainInstall, PlaceDone, EndCycle, wsVars, streamVars, hydrateVars
  <2>6. ASSUME NEW targets \in Targets, SyncStart(targets) PROVE Goal
    BY <2>2, <2>6 DEF SyncStart, wsVars, streamVars, hydrateVars
  <2>7. CASE PlainHydrate
    BY <2>1, <2>7 DEF PlainHydrate, Unbroken
  <2>8. CASE CancelDone
    <3>1. cycle' = cycle \/ cycle' = "none"
      BY <2>8 DEF CancelDone, EndCycle
    <3> QED BY <2>2, <2>8, <3>1 DEF CancelDone, wsVars, streamVars, hydrateVars
  <2>9. ASSUME NEW id \in Ids, CancelOne(id) PROVE Goal
    BY <2>2, <2>9 DEF CancelOne, streamVars, hydrateVars
  <2>10. ASSUME NEW p \in Prices, PlaceOne(p) PROVE Goal
    BY <2>2, <2>10 DEF PlaceOne, streamVars, hydrateVars
  <2>11. CASE Drop
    <3>1. connEvents' = Append(connEvents, "reconnecting") /\ Len(connEvents) \in Nat
      BY <2>11 DEF Drop, ControlType
    <3>2. Len(connEvents) + 1 \in 1 .. Len(connEvents') /\ connEvents'[Len(connEvents) + 1] = "reconnecting"
      BY <3>1
    <3> QED BY <3>2 DEF Unbroken
  <2>12. CASE Redial \/ Resubscribed
    BY <2>1, <2>12 DEF Redial, Resubscribed
  <2>13. CASE OnReconnecting
    BY <2>1, <2>13 DEF OnReconnecting, Unbroken, ControlType
  <2>14. CASE OnConnected
    <3>1. ~recovering
      BY <2>1 DEF Unbroken, ControlType
    <3>2. hp' = hp
      BY <2>14, <3>1, HydratorsAre DEF OnConnected, BatchInv
    <3> QED BY <2>2, <2>14, <3>2 DEF OnConnected, streamVars, cycleVars
  <2>15. CASE OnOrderEvent
    <3>1. UNCHANGED <<link, hp, hgen, hydrating, cycle>>
      BY <2>15 DEF OnOrderEvent, hydrateVars, cycleVars
    <3>2. ~hydrating => pending' = pending /\ pendingErr' = pendingErr
      BY <2>15 DEF OnOrderEvent
    <3> QED BY <2>1, <3>1, <3>2
  <2>16. ASSUME NEW h \in Hydrators, HydrateStep(h) PROVE Goal
    <3>1. h = "start" /\ hp[h] # "idle"
      BY <2>1, <2>16, HydratorsAre DEF HydrateStep, HydrateBegin, HydrateQuery, HydrateInstall, Handoff, ApplyBatch
    <3>2. ASSUME NEW to, hp' = [hp EXCEPT !["start"] = to] PROVE hp'["start"] = to /\ hp'["stream"] = "idle"
      BY <2>1, <3>2, HydratorsAre DEF BatchInv
    <3>3. CASE HydrateBegin(h)
      <4>1. hp' = [hp EXCEPT !["start"] = "query"] /\ hgen' = [hgen EXCEPT !["start"] = generation] /\ generation = 0
            /\ UNCHANGED <<link, hydrating, pending, pendingErr>>
        BY <2>1, <3>1, <3>3 DEF HydrateBegin, Unbroken, wsVars, streamVars
      <4>2. hgen'["start"] = 0
        BY <4>1, HydratorsAre DEF ControlType
      <4> QED BY <2>1, <3>1, <3>2, <4>1, <4>2
    <3>4. CASE HydrateQuery(h)
      <4>1. hp["start"] = "query" /\ UNCHANGED <<link, hydrating, pending, pendingErr, hgen>>
        BY <3>1, <3>4 DEF HydrateQuery, wsVars
      <4>2. hgen["start"] = 0 /\ generation = 0 /\ stream' # "ended"
        BY <2>1, <4>1 DEF Unbroken
      <4>3. hp' = [hp EXCEPT !["start"] = "install"] /\ cycle' = "start"
        BY <3>1, <3>4, <4>2 DEF HydrateQuery, Return
      <4> QED BY <2>1, <3>1, <3>2, <4>1, <4>2, <4>3
    <3>5. CASE HydrateInstall(h)
      <4>1. /\ hp["start"] = "install" /\ hp' = [hp EXCEPT !["start"] = "handoff"] /\ cycle' = "none"
            /\ UNCHANGED <<link, hydrating, pending, pendingErr, hgen>>
        BY <3>1, <3>5 DEF HydrateInstall, wsVars, streamVars
      <4> QED BY <2>1, <3>1, <3>2, <4>1
    <3>6. CASE Handoff(h)
      <4>1. hp["start"] = "handoff" /\ UNCHANGED <<link, hgen, pendingErr, cycle>>
        BY <3>1, <3>6 DEF Handoff, wsVars, cycleVars
      <4>2. ~StaleGeneration("start") /\ stream' # "ended"
        BY <2>1, <4>1 DEF Unbroken, StaleGeneration
      <4>3. \/ pending' = <<>> /\ ~pendingErr' /\ hydrating' = FALSE /\ hp' = [hp EXCEPT !["start"] = "idle"]
            \/ hydrating' = hydrating /\ hp' = [hp EXCEPT !["start"] = "apply"]
        BY <3>1, <3>6, <4>1, <4>2 DEF Handoff, Return
      <4> QED BY <2>1, <3>1, <3>2, <4>1, <4>3
    <3>7. CASE ApplyBatch(h)
      <4>1. /\ hp["start"] = "apply" /\ UNCHANGED <<link, hydrating, pending, pendingErr, hgen, cycle>>
            /\ \/ hp' = [hp EXCEPT !["start"] = "handoff"]
               \/ hp' = [hp EXCEPT !["start"] = "apply"]
        BY <3>1, <3>7 DEF ApplyBatch, wsVars, streamVars, cycleVars
      <4> QED BY <2>1, <3>1, <3>2, <4>1
    <3> QED BY <2>16, <3>3, <3>4, <3>5, <3>6, <3>7 DEF HydrateStep
  <2> HIDE DEF Goal
  <2> QED BY <1>2, <2>3, <2>4, <2>5, <2>6, <2>7, <2>8, <2>9, <2>10, <2>11, <2>12, <2>13, <2>14, <2>15, <2>16
          DEF Next, ClientStep, SelectStep, CycleStep
<1> QED BY <1>1, <1>2

-----------------------------------------------------------------------------
\* The events on their way.
LEMMA PipeParts ==
  ASSUME BookType
  PROVE  /\ batch["start"] \in Seq(Sent) /\ pending \in Seq(Sent) /\ ch \in Seq(Sent) /\ wire \in Seq(Sent)
         /\ ch \o wire \in Seq(Sent) /\ pending \o (ch \o wire) \in Seq(Sent) /\ Pipe \in Seq(Sent)
<1>1. batch["start"] \in Seq(Sent) /\ pending \in Seq(Sent) /\ ch \in Seq(Sent) /\ wire \in Seq(Sent)
  BY HydratorsAre DEF BookType
<1>2. ch \o wire \in Seq(Sent)
  BY <1>1, ConcatProperties
<1>3. pending \o (ch \o wire) \in Seq(Sent)
  BY <1>1, <1>2, ConcatProperties
<1>4. Pipe \in Seq(Sent)
  BY <1>1, <1>3, ConcatProperties DEF Pipe
<1> QED BY <1>1, <1>2, <1>3, <1>4

\* An event sent goes to the end of them.
LEMMA PipeSent ==
  ASSUME BookType, nextId' = nextId \/ (nextId <= MaxOrders /\ nextId' = nextId + 1),
         UNCHANGED <<ch, pending, batch>>, NEW e \in Sent', wire' = Append(wire, e)
  PROVE  Pipe' = Append(Pipe, e) /\ Pipe \in Seq(Sent')
<1>1. \A s \in Seq(Sent) : s \in Seq(Sent')
  BY KnownGrows, SeqMonotonic
<1>2. /\ batch["start"] \in Seq(Sent') /\ pending \in Seq(Sent') /\ ch \in Seq(Sent') /\ wire \in Seq(Sent')
      /\ ch \o wire \in Seq(Sent') /\ pending \o (ch \o wire) \in Seq(Sent') /\ Pipe \in Seq(Sent')
  BY <1>1, PipeParts
<1> DEFINE s == batch["start"]
<1> DEFINE t == ch \o wire
<1> DEFINE u == pending \o t
<1>3. s \in Seq(Sent') /\ t \in Seq(Sent') /\ u \in Seq(Sent')
  BY <1>2
<1>4. ch \o Append(wire, e) = Append(t, e)
  BY <1>2, AddedLast
<1> HIDE DEF t
<1>5. pending \o Append(t, e) = Append(u, e)
  BY <1>2, <1>3, AddedLast
<1> HIDE DEF s, u
<1>6. s \o Append(u, e) = Append(s \o u, e)
  BY <1>3, AddedLast
<1>7. Pipe' = batch["start"] \o (pending \o (ch \o Append(wire, e)))
  BY DEF Pipe
<1> QED BY <1>2, <1>4, <1>5, <1>6, <1>7 DEF Pipe, s, t, u

\* What a change on the exchange is: one order becomes another one, or nothing.
IsChange(kind, id, o) ==
  /\ ExchangeStep(kind, id, o)
  /\ nextId' = nextId \/ (nextId <= MaxOrders /\ nextId' = nextId + 1)
  /\ nextId' # nextId => kind = "new"
  /\ id < nextId' /\ open[id] \in Orders
  /\ kind = "done" <=> o = NoOrder
  /\ kind = "partial" => o.price = open[id].price
  /\ kind # "new" => open[id] # NoOrder
  /\ kind = "new" => id = nextId
  /\ o # NoOrder => /\ o.price # 0 \/ (kind # "new" /\ o.price = open[id].price)
                    /\ o.amount # 0 \/ (kind # "new" /\ o.amount = open[id].amount)

LEMMA ChangeIs ==
  ASSUME BookType, (\E p \in Prices : NewOrder(p)) \/ (\E id \in Ids : Changed(id))
  PROVE  \E kind \in Kinds, id \in Ids, o \in Orders : IsChange(kind, id, o)
<1>1. open \in [Ids -> Orders] /\ nextId \in Nat \ {0}
  BY KnownIds DEF BookType, Ledgers
<1>2. ASSUME NEW p \in Prices, NewOrder(p)
      PROVE  \E kind \in Kinds, id \in Ids, o \in Orders : IsChange(kind, id, o)
  <2> DEFINE o == [price |-> p, amount |-> Full]
  <2>1. o \in Orders /\ o # NoOrder /\ o.price # 0 /\ o.amount # 0
    BY QuoteReconcilerAssumption DEF Orders, NoOrder
  <2>2. "new" \in Kinds /\ nextId < nextId' /\ nextId \in Ids /\ open[nextId] \in Orders
    <3>1. nextId' = nextId + 1 /\ nextId \in Ids
      BY <1>2, PlacedType
    <3> QED BY <1>1, <3>1 DEF Kinds
  <2>3. ExchangeStep("new", nextId, o) /\ nextId <= MaxOrders /\ nextId' = nextId + 1
    BY <1>2, PlacedType
  <2> HIDE DEF o
  <2>4. IsChange("new", nextId, o)
    BY <2>1, <2>2, <2>3 DEF IsChange
  <2> QED BY <2>1, <2>2, <2>4
<1>3. ASSUME NEW id \in Ids, Changed(id)
      PROVE  \E kind \in Kinds, i \in Ids, o \in Orders : IsChange(kind, i, o)
  <2>1. open[id] # NoOrder /\ nextId' = nextId /\ id < nextId' /\ open[id] \in Orders
    BY <1>3, OpenKnown DEF Changed
  <2>2. open[id].price \in Nat /\ open[id].amount \in Nat
    BY <2>1 DEF Orders
  <2>3. ASSUME NEW a \in Nat \ {0}, ExchangeStep("partial", id, [price |-> open[id].price, amount |-> a])
        PROVE  \E kind \in Kinds, i \in Ids, o \in Orders : IsChange(kind, i, o)
    <3> DEFINE o == [price |-> open[id].price, amount |-> a]
    <3>1. o \in Orders /\ o # NoOrder /\ o.price = open[id].price /\ o.amount # 0 /\ "partial" \in Kinds
      BY <2>2, <2>3 DEF Orders, NoOrder, Kinds
    <3>2. ExchangeStep("partial", id, o)
      BY <2>3
    <3> HIDE DEF o
    <3>3. IsChange("partial", id, o)
      BY <2>1, <3>1, <3>2 DEF IsChange
    <3> QED BY <3>1, <3>3
  <2>4. ASSUME ExchangeStep("done", id, NoOrder)
        PROVE  \E kind \in Kinds, i \in Ids, o \in Orders : IsChange(kind, i, o)
    <3>1. "done" \in Kinds /\ IsChange("done", id, NoOrder)
      BY <2>1, <2>4 DEF Kinds, IsChange
    <3> QED BY <3>1, NoOrderTypes
  <2>5. ASSUME NEW p \in Prices, ExchangeStep("modified", id, [price |-> p, amount |-> open[id].amount])
        PROVE  \E kind \in Kinds, i \in Ids, o \in Orders : IsChange(kind, i, o)
    <3> DEFINE o == [price |-> p, amount |-> open[id].amount]
    <3>1. o \in Orders /\ o # NoOrder /\ o.price # 0 /\ o.amount = open[id].amount /\ "modified" \in Kinds
      BY <2>2, QuoteReconcilerAssumption DEF Orders, NoOrder, Kinds
    <3>2. ExchangeStep("modified", id, o)
      BY <2>5
    <3> HIDE DEF o
    <3>3. IsChange("modified", id, o)
      BY <2>1, <3>1, <3>2 DEF IsChange
    <3> QED BY <3>1, <3>3
  <2> QED BY <1>3, <2>3, <2>4, <2>5 DEF Changed
<1> QED BY <1>2, <1>3

\* The event about it says what it does.
EventOf(kind, id, o) == Event(kind, id, IF o = NoOrder THEN open[id] ELSE o)

LEMMA EventSays ==
  ASSUME BookType, NEW kind \in Kinds, NEW id \in Ids, NEW o \in Orders, IsChange(kind, id, o)
  PROVE  /\ EventOf(kind, id, o) \in Sent' /\ EventOf(kind, id, o).id = id
         /\ EventOf(kind, id, o).kind = kind
         /\ o # NoOrder => EventOf(kind, id, o).price = o.price /\ EventOf(kind, id, o).amount = o.amount
         /\ After(EventOf(kind, id, o)) = o /\ Says(EventOf(kind, id, o), open)
         /\ open' = [open EXCEPT ![id] = o]
         /\ wire' = IF link = "up" /\ stream = "running" THEN Append(wire, EventOf(kind, id, o)) ELSE wire
<1> DEFINE q == IF o = NoOrder THEN open[id] ELSE o
<1> DEFINE e == EventOf(kind, id, o)
<1>1. q \in Orders /\ q.price \in Nat /\ q.amount \in Nat
  BY DEF Orders, IsChange
<1>2. id \in 1 .. nextId' - 1
  BY KnownIds DEF Ids, IsChange
<1>3. e = [kind |-> kind, id |-> id, price |-> q.price, amount |-> q.amount]
  BY DEF EventOf, Event
<1>4. e \in Sent' /\ e.id = id /\ e.kind = kind /\ e.price = q.price /\ e.amount = q.amount
  BY <1>1, <1>2, <1>3 DEF Sent
<1> HIDE DEF e
<1>5. After(e) = o
  <2>1. CASE kind = "done"
    BY <1>4, <2>1 DEF After, IsChange
  <2>2. CASE kind # "done"
    <3>1. q = o /\ o = [price |-> o.price, amount |-> o.amount]
      BY <2>2 DEF Orders, IsChange
    <3> QED BY <1>4, <2>2, <3>1 DEF After
  <2> QED BY <2>1, <2>2
<1>6. Says(e, open)
  <2>1. kind = "partial" => q.price = open[id].price
    BY DEF IsChange
  <2> QED BY <1>4, <2>1 DEF Says, IsChange
<1>7. /\ open' = [open EXCEPT ![id] = o]
      /\ wire' = IF link = "up" /\ stream = "running" THEN Append(wire, e) ELSE wire
  BY DEF IsChange, ExchangeStep, EventOf, e
<1> QED BY <1>4, <1>5, <1>6, <1>7 DEF e

LEMMA ExchangeSays ==
  ASSUME BookType, stream = "running", link = "up", UNCHANGED <<ch, pending, batch>>,
         (\E p \in Prices : NewOrder(p)) \/ (\E id \in Ids : Changed(id))
  PROVE  \E e \in Sent' : /\ Says(e, open) /\ open' = [open EXCEPT ![e.id] = After(e)]
                          /\ Pipe' = Append(Pipe, e) /\ Pipe \in Seq(Sent')
                          /\ nextId' # nextId => e.kind = "new" /\ e.id = nextId
<1>1. PICK kind \in Kinds, id \in Ids, o \in Orders : IsChange(kind, id, o)
  BY ChangeIs
<1> DEFINE e == EventOf(kind, id, o)
<1>2. /\ e \in Sent' /\ e.id = id /\ e.kind = kind /\ After(e) = o /\ Says(e, open)
      /\ open' = [open EXCEPT ![id] = o] /\ wire' = Append(wire, e)
  BY <1>1, EventSays
<1> HIDE DEF e
<1>3. Pipe' = Append(Pipe, e) /\ Pipe \in Seq(Sent')
  BY <1>1, <1>2, PipeSent DEF IsChange
<1>4. nextId' # nextId => kind = "new" /\ id = nextId
  BY <1>1 DEF IsChange
<1> QED BY <1>2, <1>3, <1>4

LEMMA ToldAppend ==
  ASSUME BookType, Told, UNCHANGED <<snapshot, resting, overtaken, hp>>, NEW e \in Sent', Says(e, open),
         open' = [open EXCEPT ![e.id] = After(e)], Pipe' = Append(Pipe, e), Pipe \in Seq(Sent')
  PROVE  Told'
<1>1. Pipe \in Seq(Sent) /\ open \in Ledgers
  BY PipeParts DEF BookType
<1>2. Tells(Append(Pipe, e), [open EXCEPT ![e.id] = After(e)])
  BY <1>1, TellsAppend DEF Told
<1> DEFINE D == Ids \ overtaken
<1>3. \A r : LeadsTo(Pipe, r, open, D) => LeadsTo(Append(Pipe, e), r, [open EXCEPT ![e.id] = After(e)], D)
  <2>1. D \in SUBSET Ids
    OBVIOUS
  <2> HIDE DEF D
  <2> QED BY <1>1, <2>1, LeadsToAppend
<1>4. hp'["start"] = hp["start"] /\ overtaken' = overtaken /\ snapshot' = snapshot /\ resting' = resting
  OBVIOUS
<1> QED BY <1>2, <1>3, <1>4 DEF Told

\* What is on its way moves on in order.
LEMMA PipeMoves ==
  ASSUME BookType
  PROVE  /\ wire # <<>> /\ UNCHANGED <<batch, pending>> /\ ch' = Append(ch, Head(wire)) /\ wire' = Tail(wire)
              => Pipe' = Pipe
         /\ ch # <<>> /\ UNCHANGED <<batch, wire>> /\ pending' = Append(pending, Head(ch)) /\ ch' = Tail(ch)
              => Pipe' = Pipe
         /\ batch["start"] = <<>> /\ UNCHANGED <<ch, wire>> /\ batch'["start"] = pending /\ pending' = <<>>
              => Pipe' = Pipe
<1>1. /\ batch["start"] \in Seq(Sent) /\ pending \in Seq(Sent) /\ ch \in Seq(Sent) /\ wire \in Seq(Sent)
      /\ ch \o wire \in Seq(Sent) /\ pending \o (ch \o wire) \in Seq(Sent)
  BY PipeParts
<1>2. ASSUME wire # <<>>, UNCHANGED <<batch, pending>>, ch' = Append(ch, Head(wire)), wire' = Tail(wire)
      PROVE  Pipe' = Pipe
  <2>1. ch' \o wire' = ch \o wire
    BY <1>1, <1>2, Moved
  <2> QED BY <1>2, <2>1 DEF Pipe
<1>3. ASSUME ch # <<>>, UNCHANGED <<batch, wire>>, pending' = Append(pending, Head(ch)), ch' = Tail(ch)
      PROVE  Pipe' = Pipe
  <2>1. Append(pending, Head(ch)) \o (Tail(ch) \o wire) = pending \o (ch \o wire)
    <3>1. pending \in Seq(Sent) /\ ch \in Seq(Sent) /\ wire \in Seq(Sent) /\ ch # <<>>
      BY <1>1, <1>3
    <3> QED BY <3>1, MovedBefore
  <2>2. Pipe' = batch["start"] \o (Append(pending, Head(ch)) \o (Tail(ch) \o wire))
    BY <1>3 DEF Pipe
  <2> QED BY <2>1, <2>2 DEF Pipe
<1>4. ASSUME batch["start"] = <<>>, UNCHANGED <<ch, wire>>, batch'["start"] = pending, pending' = <<>>
      PROVE  Pipe' = Pipe
  <2> DEFINE t == ch \o wire
  <2> DEFINE u == pending \o t
  <2>1. Pipe' = pending \o (<<>> \o t) /\ Pipe = <<>> \o u
    BY <1>4 DEF Pipe
  <2>2. t \in Seq(Sent) /\ u \in Seq(Sent)
    BY <1>1
  <2> HIDE DEF t
  <2>3. <<>> \o t = t
    BY <2>2, ConcatEmptySeq
  <2>4. Pipe' = u
    BY <2>1, <2>3
  <2> HIDE DEF u
  <2>5. <<>> \o u = u
    BY <2>2, ConcatEmptySeq
  <2> QED BY <2>1, <2>4, <2>5
<1> QED BY <1>2, <1>3, <1>4

\* Whoever applies an event takes the first.
LEMMA PipeTaken ==
  ASSUME BookType
  PROVE  /\ batch["start"] # <<>> /\ UNCHANGED <<pending, ch, wire>> /\ batch'["start"] = Tail(batch["start"])
              => Pipe # <<>> /\ Pipe' = Tail(Pipe) /\ Head(Pipe) = Head(batch["start"])
         /\ batch["start"] = <<>> /\ pending = <<>> /\ ch # <<>> /\ UNCHANGED <<batch, pending, wire>> /\ ch' = Tail(ch)
              => Pipe # <<>> /\ Pipe' = Tail(Pipe) /\ Head(Pipe) = Head(ch)
<1>1. /\ batch["start"] \in Seq(Sent) /\ pending \in Seq(Sent) /\ ch \in Seq(Sent) /\ wire \in Seq(Sent)
      /\ ch \o wire \in Seq(Sent) /\ pending \o (ch \o wire) \in Seq(Sent)
  BY PipeParts
<1>2. ASSUME batch["start"] # <<>>, UNCHANGED <<pending, ch, wire>>, batch'["start"] = Tail(batch["start"])
      PROVE  Pipe # <<>> /\ Pipe' = Tail(Pipe) /\ Head(Pipe) = Head(batch["start"])
  <2> DEFINE s == batch["start"]
  <2> DEFINE u == pending \o (ch \o wire)
  <2>1. Pipe = s \o u /\ Pipe' = Tail(s) \o u /\ s \in Seq(Sent) /\ u \in Seq(Sent) /\ s # <<>>
    BY <1>1, <1>2 DEF Pipe
  <2> HIDE DEF s, u
  <2>2. s \o u # <<>> /\ Head(s \o u) = Head(s) /\ Tail(s \o u) = Tail(s) \o u
    BY <2>1, TakenFirst
  <2> QED BY <2>1, <2>2 DEF s
<1>3. ASSUME batch["start"] = <<>>, pending = <<>>, ch # <<>>, UNCHANGED <<batch, pending, wire>>, ch' = Tail(ch)
      PROVE  Pipe # <<>> /\ Pipe' = Tail(Pipe) /\ Head(Pipe) = Head(ch)
  <2> DEFINE t == ch \o wire
  <2> DEFINE u == Tail(ch) \o wire
  <2>1. t # <<>> /\ Head(t) = Head(ch) /\ Tail(t) = u
    BY <1>1, <1>3, TakenFirst
  <2>2. Pipe = <<>> \o (<<>> \o t) /\ Pipe' = <<>> \o (<<>> \o u)
    BY <1>3 DEF Pipe
  <2>3. t \in Seq(Sent)
    BY <1>1
  <2> HIDE DEF t, u
  <2>4. u \in Seq(Sent)
    BY <2>1, <2>3, SeqTaken
  <2>5. \A s \in Seq(Sent) : <<>> \o s = s
    BY ConcatEmptySeq
  <2>6. Pipe = t /\ Pipe' = u
    BY <2>2, <2>3, <2>4, <2>5
  <2> QED BY <2>1, <2>6
<1> QED BY <1>2, <1>3

\* What moves on says the same.
LEMMA ToldMoves ==
  ASSUME BookType, Told, UNCHANGED <<open, resting, overtaken, snapshot>>, Pipe' = Pipe,
         hp'["start"] = hp["start"]
         \/ (hp["start"] = "install" /\ hp'["start"] \notin {"install", "handoff", "apply", "idle"})
         \/ (hp["start"] \in {"handoff", "apply", "idle"} /\ hp'["start"] # "install")
  PROVE  Told'
BY DEF Told

LEMMA ToldApplied ==
  ASSUME BookType, Told, UNCHANGED open, Pipe # <<>>, Pipe' = Tail(Pipe), ApplyOrderEvent(Head(Pipe)),
         hp["start"] \in {"handoff", "apply", "idle"}, hp'["start"] \in {"handoff", "apply", "idle"}
  PROVE  Told'
<1>1. Pipe \in Seq(Sent) /\ resting \in Ledgers
  BY PipeParts DEF BookType
<1> DEFINE D == Ids \ overtaken
<1> DEFINE E == Ids \ overtaken'
<1>2. Tells(Pipe, open) /\ LeadsTo(Pipe, resting, open, D) /\ D \in SUBSET Ids
  BY DEF Told
<1>3. Tells(Tail(Pipe), open)
  BY <1>1, <1>2, TellsTail
<1>4. E \subseteq D /\ resting' = Applied(resting, Head(Pipe))
  BY DEF ApplyOrderEvent
<1> HIDE DEF D, E
<1>5. LeadsTo(Tail(Pipe), resting', open, D)
  BY <1>1, <1>2, <1>4, LeadsToTail
<1>6. LeadsTo(Tail(Pipe), resting', open, E)
  BY <1>4, <1>5, LeadsToFewer
<1> QED BY <1>3, <1>6 DEF Told, E

-----------------------------------------------------------------------------
\* The client is back after its last loss, and will say so.
Lost == \E i \in 1 .. Len(connEvents) : connEvents[i] = "reconnecting"
BackNews ==
  \E j \in 1 .. Len(connEvents) :
    connEvents[j] = "connected" /\ \A i \in 1 .. Len(connEvents) : i > j => connEvents[i] # "reconnecting"

\* A loss that no hydration has made up for yet.
Waiting == Lost \/ (recovering /\ hp["stream"] = "idle")

NewsInv ==
  /\ link \in {"up", "replaying", "down"}
  /\ stream = "running" /\ ~early /\ (~Waiting \/ BackNews) => link = "up"

\* The two hydrations.
HandInv ==
  /\ \A h \in Hydrators : hp[h] \notin {"idle", "begin"} => hgen[h] <= generation
  /\ hp["stream"] \notin {"idle", "begin"} => hgen["stream"] = generation /\ hp["start"] \in {"idle", "begin"}
  /\ hp["stream"] # "idle" => recovering
  /\ ~early =>
       /\ recovering => hydrating
       /\ hp["start"] \notin {"idle", "begin"} => (recovering <=> hgen["start"] # generation)
       /\ hp["start"] = "begin" => ~Lost /\ ~recovering
       /\ hp["start"] # "idle" => hydrating
  /\ ~hydrating => pending = <<>> /\ ~pendingErr
  /\ cycle = "hydrate" => stream = "none" \/ hp["start"] \in {"begin", "query"}
  /\ stream = "none" => \A h \in Hydrators : hp[h] = "idle"

\* Every open order is in r or will enter the ledger.
Covers(r) == \A id \in Ids : open[id] # NoOrder => r[id] # NoOrder \/ \E e \in Underway : e.id = id

\* Whose hydration counts.
Current == IF hp["stream"] = "idle" THEN "start" ELSE "stream"

CoverInv ==
  stream = "running" /\ ~early /\ ~Waiting /\ ~pendingErr =>
    /\ hp[Current] = "install" => Covers(snapshot)
    /\ hp[Current] \in {"handoff", "apply", "idle"} => Covers(resting)

-----------------------------------------------------------------------------
\* What is in a queue.
LEMMA RangeAppend ==
  ASSUME NEW S, NEW s \in Seq(S), NEW e \in S PROVE Range(Append(s, e)) = Range(s) \cup {e}
<1> DEFINE t == Append(s, e)
<1>1. /\ DOMAIN s = 1 .. Len(s) /\ DOMAIN t = 1 .. Len(t) /\ Len(t) = Len(s) + 1 /\ Len(s) \in Nat
      /\ t[Len(s) + 1] = e /\ \A i \in 1 .. Len(s) : t[i] = s[i]
  <2>1. t \in Seq(S)
    BY AppendProperties
  <2> QED BY <2>1, AppendProperties, LenProperties
<1> HIDE DEF t
<1>2. Len(s) + 1 \in DOMAIN t /\ \A i \in DOMAIN s : i \in DOMAIN t /\ t[i] = s[i]
  BY <1>1
<1>3. \A i \in DOMAIN t : i \in DOMAIN s \/ i = Len(s) + 1
  BY <1>1
<1>4. Range(t) = Range(s) \cup {e}
  BY <1>1, <1>2, <1>3 DEF Range
<1> QED BY <1>4 DEF t

LEMMA RangeTaken ==
  ASSUME NEW S, NEW s \in Seq(S), s # <<>> PROVE Range(s) = {Head(s)} \cup Range(Tail(s)) /\ Head(s) \in Range(s)
<1> DEFINE t == Tail(s)
<1>1. /\ DOMAIN s = 1 .. Len(s) /\ DOMAIN t = 1 .. Len(t) /\ Len(t) = Len(s) - 1 /\ Len(s) \in Nat \ {0}
      /\ s[1] = Head(s) /\ \A i \in 1 .. Len(t) : t[i] = s[i + 1]
  <2>1. t \in Seq(S)
    BY HeadTailProperties
  <2>2. s[1] = Head(s)
    OBVIOUS
  <2> QED BY <2>1, <2>2, HeadTailProperties, LenProperties, EmptySeq
<1> HIDE DEF t
<1>2. 1 \in DOMAIN s /\ \A i \in DOMAIN t : i + 1 \in DOMAIN s /\ t[i] = s[i + 1]
  BY <1>1
<1>3. ASSUME NEW i \in DOMAIN s, i # 1 PROVE i - 1 \in DOMAIN t /\ s[i] = t[i - 1]
  <2>1. i - 1 \in 1 .. Len(t) /\ (i - 1) + 1 = i
    BY <1>1, <1>3
  <2>2. t[i - 1] = s[(i - 1) + 1]
    BY <1>1, <2>1
  <2> QED BY <1>1, <2>1, <2>2
<1>4. ASSUME NEW x PROVE x \in Range(s) <=> x = Head(s) \/ x \in Range(t)
  <2>1. ASSUME x \in Range(s) PROVE x = Head(s) \/ x \in Range(t)
    <3>1. PICK i \in DOMAIN s : x = s[i]
      BY <2>1 DEF Range
    <3> QED BY <1>1, <1>3, <3>1 DEF Range
  <2>2. ASSUME x = Head(s) PROVE x \in Range(s)
    BY <1>1, <1>2, <2>2 DEF Range
  <2>3. ASSUME x \in Range(t) PROVE x \in Range(s)
    <3>1. PICK i \in DOMAIN t : x = t[i]
      BY <2>3 DEF Range
    <3>2. i + 1 \in DOMAIN s /\ x = s[i + 1]
      BY <1>2, <3>1
    <3> QED BY <3>2 DEF Range
  <2> QED BY <2>1, <2>2, <2>3
<1> QED BY <1>4 DEF t

LEMMA RangeEmpty == Range(<<>>) = {}
BY DEF Range

LEMMA RangeSent ==
  ASSUME BookType
  PROVE  /\ wire \in Seq(Sent) /\ ch \in Seq(Sent) /\ pending \in Seq(Sent)
         /\ batch["start"] \in Seq(Sent) /\ batch["stream"] \in Seq(Sent)
         /\ \A e \in Underway : e \in Sent
<1>1. /\ wire \in Seq(Sent) /\ ch \in Seq(Sent) /\ pending \in Seq(Sent)
      /\ batch["start"] \in Seq(Sent) /\ batch["stream"] \in Seq(Sent)
  BY HydratorsAre DEF BookType
<1>2. \A s \in Seq(Sent) : \A e \in Range(s) : e \in Sent
  BY LenProperties DEF Range
<1> QED BY <1>1, <1>2 DEF Underway

\* Nothing new is underway but what the exchange sends, and nothing is lost between
\* the queues.
LEMMA UnderwayMoves ==
  ASSUME BookType
  PROVE  /\ UNCHANGED <<wire, ch, pending, batch>> => Underway' = Underway
         /\ wire # <<>> /\ UNCHANGED <<batch, pending>> /\ ch' = Append(ch, Head(wire)) /\ wire' = Tail(wire)
              => Underway' = Underway
         /\ ch # <<>> /\ UNCHANGED <<batch, wire>> /\ pending' = Append(pending, Head(ch)) /\ ch' = Tail(ch)
              => Underway' = Underway
         /\ ch # <<>> /\ UNCHANGED <<batch, wire, pending>> /\ ch' = Tail(ch)
              => Underway = {Head(ch)} \cup Underway'
<1>1. /\ wire \in Seq(Sent) /\ ch \in Seq(Sent) /\ pending \in Seq(Sent)
  BY RangeSent
<1>2. UNCHANGED <<wire, ch, pending, batch>> => Underway' = Underway
  BY DEF Underway
<1>3. ASSUME wire # <<>>, UNCHANGED <<batch, pending>>, ch' = Append(ch, Head(wire)), wire' = Tail(wire)
      PROVE  Underway' = Underway
  <2>1. Range(wire) = {Head(wire)} \cup Range(Tail(wire)) /\ Head(wire) \in Sent
    BY <1>1, <1>3, RangeTaken, SeqTaken
  <2>2. Range(Append(ch, Head(wire))) = Range(ch) \cup {Head(wire)}
    BY <1>1, <2>1, RangeAppend
  <2> QED BY <1>3, <2>1, <2>2 DEF Underway
<1>4. ASSUME ch # <<>>, UNCHANGED <<batch, wire>>, pending' = Append(pending, Head(ch)), ch' = Tail(ch)
      PROVE  Underway' = Underway
  <2>1. Range(ch) = {Head(ch)} \cup Range(Tail(ch)) /\ Head(ch) \in Sent
    BY <1>1, <1>4, RangeTaken, SeqTaken
  <2>2. Range(Append(pending, Head(ch))) = Range(pending) \cup {Head(ch)}
    BY <1>1, <2>1, RangeAppend
  <2> QED BY <1>4, <2>1, <2>2 DEF Underway
<1>5. ASSUME ch # <<>>, UNCHANGED <<batch, wire, pending>>, ch' = Tail(ch)
      PROVE  Underway = {Head(ch)} \cup Underway'
  <2>1. Range(ch) = {Head(ch)} \cup Range(Tail(ch))
    BY <1>1, <1>5, RangeTaken
  <2> QED BY <1>5, <2>1 DEF Underway
<1> QED BY <1>2, <1>3, <1>4, <1>5

LEMMA UnderwayTaken ==
  ASSUME BookType, NEW h \in Hydrators
  PROVE  /\ batch[h] = <<>> /\ UNCHANGED <<ch, wire>> /\ batch' = [batch EXCEPT ![h] = pending] /\ pending' = <<>>
              => Underway' = Underway
         /\ batch[h] # <<>> /\ UNCHANGED <<pending, ch, wire>> /\ batch' = [batch EXCEPT ![h] = Tail(batch[h])]
              => Underway = {Head(batch[h])} \cup Underway'
<1>1. batch \in [Hydrators -> Seq(Sent)] /\ h \in {"start", "stream"}
  BY HydratorsAre DEF BookType
<1>2. ASSUME batch[h] = <<>>, UNCHANGED <<ch, wire>>, batch' = [batch EXCEPT ![h] = pending], pending' = <<>>
      PROVE  Underway' = Underway
  <2>1. Range(batch'["start"]) \cup Range(batch'["stream"]) = Range(batch["start"]) \cup Range(batch["stream"]) \cup Range(pending)
    <3>1. CASE h = "start"
      <4>1. batch'["start"] = pending /\ batch'["stream"] = batch["stream"]
        BY <1>1, <1>2, <3>1, HydratorsAre
      <4> QED BY <1>2, <3>1, <4>1, RangeEmpty
    <3>2. CASE h = "stream"
      <4>1. batch'["stream"] = pending /\ batch'["start"] = batch["start"]
        BY <1>1, <1>2, <3>2, HydratorsAre
      <4> QED BY <1>2, <3>2, <4>1, RangeEmpty
    <3> QED BY <1>1, <3>1, <3>2
  <2>2. Range(pending') = {}
    BY <1>2, RangeEmpty
  <2> QED BY <1>2, <2>1, <2>2 DEF Underway
<1>3. ASSUME batch[h] # <<>>, UNCHANGED <<pending, ch, wire>>, batch' = [batch EXCEPT ![h] = Tail(batch[h])]
      PROVE  Underway = {Head(batch[h])} \cup Underway'
  <2>1. Range(batch[h]) = {Head(batch[h])} \cup Range(Tail(batch[h]))
    <3>1. batch[h] \in Seq(Sent)
      BY <1>1
    <3> QED BY <1>3, <3>1, RangeTaken
  <2>2. Range(batch["start"]) \cup Range(batch["stream"])
          = {Head(batch[h])} \cup Range(batch'["start"]) \cup Range(batch'["stream"])
    <3>1. CASE h = "start"
      <4>1. batch'["start"] = Tail(batch["start"]) /\ batch'["stream"] = batch["stream"]
        BY <1>1, <1>3, <3>1, HydratorsAre
      <4> QED BY <2>1, <3>1, <4>1
    <3>2. CASE h = "stream"
      <4>1. batch'["stream"] = Tail(batch["stream"]) /\ batch'["start"] = batch["start"]
        BY <1>1, <1>3, <3>2, HydratorsAre
      <4> QED BY <2>1, <3>2, <4>1
    <3> QED BY <1>1, <3>1, <3>2
  <2> QED BY <1>3, <2>2 DEF Underway
<1> QED BY <1>2, <1>3

-----------------------------------------------------------------------------
\* Events never say of a live order that it is gone.
LEMMA TruthStays ==
  ASSUME TruthInv, open' = open, \A e \in Underway' : e \in Underway PROVE TruthInv'
BY DEF TruthInv

\* A change on the exchange becomes known if the feed is subscribed.
LEMMA ExchangeUnderway ==
  ASSUME BookType, TruthInv, UNCHANGED <<ch, pending, batch>>,
         (\E p \in Prices : NewOrder(p)) \/ (\E id \in Ids : Changed(id))
  PROVE  /\ TruthInv'
         /\ stream = "running" /\ link = "up" =>
              \A r : Covers(r) =>
                \A id \in Ids : open'[id] # NoOrder => r[id] # NoOrder \/ \E e \in Underway' : e.id = id
<1>1. PICK kind \in Kinds, id \in Ids, o \in Orders : IsChange(kind, id, o)
  BY ChangeIs
<1> DEFINE e == EventOf(kind, id, o)
<1>2. /\ e \in Sent' /\ e.id = id /\ e.kind = kind /\ open' = [open EXCEPT ![id] = o]
      /\ o # NoOrder => e.price = o.price /\ e.amount = o.amount
      /\ wire' = IF link = "up" /\ stream = "running" THEN Append(wire, e) ELSE wire
  BY <1>1, EventSays
<1> HIDE DEF e
<1>3. open \in [Ids -> Orders]
  BY DEF BookType, Ledgers
<1>4. open'[id] = o /\ \A i \in Ids : i # id => open'[i] = open[i]
  BY <1>2, <1>3
<1>5. Underway' = Underway \cup {e} \/ (Underway' = Underway /\ ~(link = "up" /\ stream = "running"))
  <2>1. CASE link = "up" /\ stream = "running"
    <3>1. wire \in Seq(Sent')
      <4>1. \A s \in Seq(Sent) : s \in Seq(Sent')
        BY <1>1, KnownGrows, SeqMonotonic DEF IsChange
      <4> QED BY <4>1, RangeSent
    <3>2. Range(wire') = Range(wire) \cup {e}
      BY <1>2, <2>1, <3>1, RangeAppend
    <3> QED BY <3>2 DEF Underway
  <2>2. CASE ~(link = "up" /\ stream = "running")
    BY <1>2, <2>2 DEF Underway
  <2> QED BY <2>1, <2>2
<1>6. o # NoOrder => o.price # 0 /\ o.amount # 0
  BY <1>1 DEF IsChange, TruthInv
<1>7. \A f \in Underway : f.id \in Ids /\ f.id < nextId
  BY RangeSent, KnownIds DEF Sent, Ids
<1>8. \A f \in Underway : open[f.id] = NoOrder => open'[f.id] = NoOrder
  BY <1>7, NeverReopened
<1>9. TruthInv'
  <2>1. \A i \in Ids : open'[i] # NoOrder => open'[i].price # 0 /\ open'[i].amount # 0
    BY <1>4, <1>6 DEF TruthInv
  <2>2. ASSUME NEW f \in Underway
        PROVE  IF f.kind = "done" THEN open'[f.id] = NoOrder ELSE f.price # 0 /\ f.amount # 0
    BY <1>8, <2>2 DEF TruthInv
  <2>3. IF e.kind = "done" THEN open'[e.id] = NoOrder ELSE e.price # 0 /\ e.amount # 0
    BY <1>1, <1>2, <1>4, <1>6 DEF IsChange
  <2> QED BY <1>5, <2>1, <2>2, <2>3 DEF TruthInv
<1>10. ASSUME stream = "running", link = "up", NEW r, Covers(r), NEW i \in Ids, open'[i] # NoOrder
       PROVE  r[i] # NoOrder \/ \E f \in Underway' : f.id = i
  <2>1. Underway' = Underway \cup {e}
    BY <1>5, <1>10
  <2>2. CASE i = id
    BY <1>2, <2>1, <2>2
  <2>3. CASE i # id
    BY <1>4, <1>10, <2>1, <2>3 DEF Covers
  <2> QED BY <2>2, <2>3
<1> QED BY <1>9, <1>10

\* An event applied keeps the ledger covering the book.
LEMMA CoversApplied ==
  ASSUME BookType, TruthInv, NEW r \in Ledgers, NEW e \in Underway, Covers(r), open' = open,
         Underway = {e} \cup Underway'
  PROVE  \A id \in Ids : open'[id] # NoOrder => Applied(r, e)[id] # NoOrder \/ \E f \in Underway' : f.id = id
<1>1. e \in Sent /\ e.id \in Ids
  BY RangeSent, KnownIds DEF Sent
<1>2. ASSUME NEW id \in Ids, open[id] # NoOrder, id # e.id
      PROVE  Applied(r, e)[id] # NoOrder \/ \E f \in Underway' : f.id = id
  <2>1. Applied(r, e)[id] = r[id]
    BY <1>1, <1>2, AppliedFields
  <2>2. r[id] # NoOrder \/ \E f \in Underway : f.id = id
    BY <1>2 DEF Covers
  <2>3. ASSUME NEW f \in Underway, f.id = id PROVE f \in Underway'
    BY <1>2, <2>3
  <2> QED BY <2>1, <2>2, <2>3
<1>3. ASSUME open[e.id] # NoOrder PROVE Applied(r, e)[e.id] # NoOrder
  <2>1. e.kind # "done" /\ e.price # 0 /\ e.amount # 0
    BY <1>3 DEF TruthInv
  <2>2. \/ Applied(r, e)[e.id] = [price |-> r[e.id].price, amount |-> e.amount]
        \/ Applied(r, e)[e.id] = [price |-> e.price, amount |-> e.amount]
    BY <1>1, <2>1, AppliedFields
  <2>3. Applied(r, e)[e.id].amount = e.amount
    BY <2>2
  <2>4. NoOrder.amount = 0
    BY DEF NoOrder
  <2> QED BY <2>1, <2>3, <2>4
<1> QED BY <1>2, <1>3

LEMMA TruthKept ==
  ASSUME BookType, BatchInv, TruthInv, [Next]_vars PROVE TruthInv'
<1>1. ASSUME UNCHANGED <<open, wire, ch, pending, batch>> PROVE TruthInv'
  BY <1>1, TruthStays, UnderwayMoves
<1>2. CASE OutsideStep
  BY <1>2, OutsideChanges, ExchangeUnderway DEF OutsideStep, streamVars, hydrateVars
<1>3. CASE Redial \/ Resubscribed \/ MalformedFrame \/ StreamEnds \/ OnConnected
  BY <1>1, <1>3 DEF Redial, Resubscribed, MalformedFrame, StreamEnds, OnConnected,
                    exchangeVars, wsVars, streamVars, hydrateVars
<1>4. CASE CancelAllStart \/ PlainHydrate \/ PlainInstall \/ ContextEnds \/ UNCHANGED vars
  BY <1>1, <1>4 DEF CancelAllStart, PlainHydrate, PlainInstall, ContextEnds, vars, exchangeVars, wsVars, streamVars, hydrateVars
<1>5. CASE CancelDone \/ PlaceDone
  BY <1>1, <1>5 DEF CancelDone, PlaceDone, exchangeVars, wsVars, streamVars, hydrateVars
<1>6. ASSUME NEW targets \in Targets, SyncStart(targets) PROVE TruthInv'
  BY <1>1, <1>6 DEF SyncStart, exchangeVars, wsVars, streamVars, hydrateVars
<1>7. ASSUME NEW id \in Ids, CancelOne(id) PROVE TruthInv'
  <2>1. UNCHANGED <<ch, pending, batch>> /\ (Changed(id) \/ UNCHANGED <<open, wire>>)
    BY <1>7, CancelChanges DEF CancelOne, streamVars, hydrateVars
  <2> QED BY <1>1, <2>1, ExchangeUnderway
<1>8. ASSUME NEW p \in Prices, PlaceOne(p) PROVE TruthInv'
  <2>1. UNCHANGED <<ch, pending, batch>> /\ (NewOrder(p) \/ UNCHANGED <<open, wire>>)
    BY <1>8 DEF PlaceOne, exchangeVars, streamVars, hydrateVars
  <2> QED BY <1>1, <2>1, ExchangeUnderway
<1>9. ASSUME open' = open, wire' = wire \/ wire' = <<>>, ch' = ch \/ ch' = <<>>, pending' = pending \/ pending' = <<>>,
             batch' = batch
      PROVE  TruthInv'
  <2>1. \A e \in Underway' : e \in Underway
    BY <1>9, RangeEmpty DEF Underway
  <2> QED BY <1>9, <2>1, TruthStays
<1>10. CASE Drop \/ StartStreaming
  BY <1>9, <1>10 DEF Drop, StartStreaming, exchangeVars, hydrateVars
<1>11. CASE OnReconnecting
  BY <1>9, <1>11 DEF OnReconnecting, exchangeVars, streamVars, hydrateVars
<1>12. CASE Deliver
  <2>1. open' = open /\ Underway' = Underway
    BY <1>12, UnderwayMoves DEF Deliver, exchangeVars, streamVars, hydrateVars
  <2> QED BY <2>1, TruthStays
<1>13. CASE OnOrderEvent
  <2>1. open' = open /\ ch # <<>> /\ ch' = Tail(ch) /\ UNCHANGED <<batch, wire>>
        /\ (pending' = pending \/ pending' = Append(pending, Head(ch)))
    BY <1>13 DEF OnOrderEvent, EnqueuePending, exchangeVars, hydrateVars
  <2>2. \A e \in Underway' : e \in Underway
    BY <2>1, UnderwayMoves
  <2> QED BY <2>1, <2>2, TruthStays
<1>14. ASSUME NEW h \in Hydrators, HydrateStep(h) PROVE TruthInv'
  <2>1. CASE HydrateBegin(h) \/ HydrateQuery(h) \/ HydrateInstall(h)
    BY <1>1, <2>1 DEF HydrateBegin, HydrateQuery, HydrateInstall, exchangeVars, wsVars, streamVars
  <2>2. CASE Handoff(h)
    <3>1. /\ open' = open /\ UNCHANGED <<ch, wire>> /\ batch[h] = <<>>
          /\ \/ UNCHANGED <<pending, batch>>
             \/ batch' = [batch EXCEPT ![h] = pending] /\ pending' = <<>>
      BY <2>2 DEF Handoff, BatchInv, exchangeVars, wsVars
    <3>2. Underway' = Underway
      BY <3>1, UnderwayMoves, UnderwayTaken
    <3> QED BY <3>1, <3>2, TruthStays
  <2>3. CASE ApplyBatch(h)
    <3>1. open' = open /\ batch[h] # <<>> /\ UNCHANGED <<pending, ch, wire>>
          /\ batch' = [batch EXCEPT ![h] = Tail(batch[h])]
      BY <2>3 DEF ApplyBatch, BatchInv, exchangeVars, wsVars, streamVars
    <3>2. Underway = {Head(batch[h])} \cup Underway'
      BY <3>1, UnderwayTaken
    <3> QED BY <3>1, <3>2, TruthStays
  <2> QED BY <1>14, <2>1, <2>2, <2>3 DEF HydrateStep
<1> QED BY <1>2, <1>3, <1>4, <1>5, <1>6, <1>7, <1>8, <1>10, <1>11, <1>12, <1>13, <1>14
        DEF Next, ClientStep, SelectStep, CycleStep

-----------------------------------------------------------------------------
(***************************************************************************)
(* The ledger of a stream on its first connection.                         *)
(***************************************************************************)
LEMMA AnnouncedLater ==
  ASSUME NEW S, Pipe \in Seq(S), NEW e \in S, Pipe' = Append(Pipe, e), NEW id
  PROVE  /\ Announced(id) => Announced(id)'
         /\ e.kind = "new" /\ e.id = id => Announced(id)'
<1>1. /\ Len(Pipe) \in Nat /\ Len(Pipe') = Len(Pipe) + 1 /\ Pipe'[Len(Pipe) + 1] = e
      /\ \A i \in 1 .. Len(Pipe) : Pipe'[i] = Pipe[i]
  BY AppendProperties, LenProperties
<1>2. Len(Pipe) + 1 \in 1 .. Len(Pipe') /\ \A i \in 1 .. Len(Pipe) : i \in 1 .. Len(Pipe')
  BY <1>1
<1> QED BY <1>1, <1>2 DEF Announced

LEMMA AnnouncedTaken ==
  ASSUME NEW S, Pipe \in Seq(S), Pipe # <<>>, Pipe' = Tail(Pipe), NEW id, Announced(id)
  PROVE  Announced(id)' \/ (Head(Pipe).id = id /\ Head(Pipe).kind = "new")
<1>1. /\ Len(Pipe) \in Nat /\ Len(Pipe') = Len(Pipe) - 1 /\ Pipe[1] = Head(Pipe)
      /\ \A i \in 1 .. Len(Pipe') : Pipe'[i] = Pipe[i + 1]
  BY HeadTailProperties, EmptySeq
<1>2. PICK k \in 1 .. Len(Pipe) : Pipe[k].id = id /\ Pipe[k].kind = "new"
  BY DEF Announced
<1>3. CASE k = 1
  BY <1>1, <1>2, <1>3
<1>4. CASE k # 1
  <2>1. k - 1 \in 1 .. Len(Pipe') /\ (k - 1) + 1 = k
    BY <1>1, <1>4
  <2>2. Pipe'[k - 1] = Pipe[(k - 1) + 1]
    BY <1>1, <2>1
  <2>3. Pipe'[k - 1] = Pipe[k]
    BY <2>1, <2>2
  <2> QED BY <1>2, <2>1, <2>3 DEF Announced
<1> QED BY <1>3, <1>4

LEMMA FollowingMoves ==
  ASSUME BookType, Following, UNCHANGED <<open, resting, overtaken, snapshot>>, Pipe' = Pipe,
         placed' = placed \/ placed' = {},
         hp'["start"] = hp["start"]
         \/ (hp["start"] = "install" /\ hp'["start"] \notin {"install", "handoff", "apply", "idle"})
         \/ (hp["start"] \in {"handoff", "apply", "idle"} /\ hp'["start"] # "install")
  PROVE  Following'
<1>1. Told'
  BY ToldMoves DEF Following
<1>2. \A id : Announced(id) => Announced(id)'
  BY DEF Announced
<1>3. Noted'
  BY <1>2 DEF Following, Noted
<1> QED BY <1>1, <1>3 DEF Following

LEMMA FollowingAppend ==
  ASSUME BookType, Following, UNCHANGED <<snapshot, resting, overtaken, hp>>, NEW e \in Sent', Says(e, open),
         open' = [open EXCEPT ![e.id] = After(e)], Pipe' = Append(Pipe, e), Pipe \in Seq(Sent'),
         \A pl \in placed' : pl \in placed \/ (e.kind = "new" /\ pl[1] = e.id)
  PROVE  Following'
<1>1. Told'
  BY ToldAppend DEF Following
<1>2. \A id : (Announced(id) => Announced(id)') /\ (e.kind = "new" /\ e.id = id => Announced(id)')
  BY AnnouncedLater
<1>3. Noted'
  BY <1>2 DEF Following, Noted
<1> QED BY <1>1, <1>3 DEF Following

\* The event of a placement puts the order into the ledger, where it stays until its
\* end, which overtakes the placement.
LEMMA FollowingApplied ==
  ASSUME BookType, TruthInv, Following, UNCHANGED <<open, placed>>, Pipe # <<>>, Pipe' = Tail(Pipe),
         Head(Pipe) \in Underway, ApplyOrderEvent(Head(Pipe)),
         hp["start"] \in {"handoff", "apply", "idle"}, hp'["start"] \in {"handoff", "apply", "idle"}
  PROVE  Following'
<1> DEFINE e == Head(Pipe)
<1>1. Told'
  BY ToldApplied DEF Following
<1>2. Pipe \in Seq(Sent) /\ resting \in Ledgers /\ e \in Sent
  <2>1. Pipe \in Seq(Sent) /\ resting \in Ledgers
    BY PipeParts DEF BookType
  <2> QED BY <2>1, HeadTailProperties
<1>3. resting' = Applied(resting, e) /\ overtaken \subseteq overtaken'
      /\ (e.kind = "done" /\ (\E pl \in placed : pl[1] = e.id) => e.id \in overtaken')
  BY DEF ApplyOrderEvent
<1>4. e.kind # "done" => e.price # 0 /\ e.amount # 0
  BY DEF TruthInv
<1> HIDE DEF e
<1>5. ASSUME NEW pl \in placed, pl[1] \notin overtaken'
      PROVE  resting'[pl[1]] # NoOrder \/ Announced(pl[1])'
  <2>1. pl[1] \in Ids /\ (resting[pl[1]] # NoOrder \/ Announced(pl[1]))
    <3>1. pl \in (1 .. nextId - 1) \X Nat
      BY <1>5 DEF BookType
    <3> QED BY <1>3, <1>5, <3>1, KnownIds DEF Following, Noted
  <2>2. CASE e.id # pl[1]
    <3>1. resting'[pl[1]] = resting[pl[1]]
      BY <1>2, <1>3, <2>1, <2>2, AppliedFields
    <3>2. Announced(pl[1]) => Announced(pl[1])'
      BY <1>2, <2>2, AnnouncedTaken DEF e
    <3> QED BY <2>1, <3>1, <3>2
  <2>3. CASE e.id = pl[1]
    <3>1. e.kind # "done"
      BY <1>3, <1>5, <2>3
    <3>2. \/ Applied(resting, e)[e.id] = [price |-> resting[e.id].price, amount |-> e.amount]
          \/ Applied(resting, e)[e.id] = [price |-> e.price, amount |-> e.amount]
      BY <1>2, <3>1, AppliedFields
    <3>3. Applied(resting, e)[e.id].amount = e.amount
      BY <3>2
    <3> QED BY <1>3, <1>4, <2>3, <3>1, <3>3 DEF NoOrder
  <2> QED BY <2>2, <2>3
<1>6. Noted'
  BY <1>5 DEF Noted
<1> QED BY <1>1, <1>6 DEF Following

\* The ledger of an unbroken stream is the exchange's book but for the events on their
\* way.
LEMMA LedgerKept ==
  ASSUME BookType, BatchInv, CancelInv, ControlType, LockInv, StartInv, TruthInv, LedgerInv, [Next]_vars
  PROVE  LedgerInv'
<1> SUFFICES ASSUME Unbroken', ~pendingErr' PROVE Following'
  BY DEF LedgerInv
<1>1. CASE StartStreaming
  <2>1. wire' = <<>> /\ ch' = <<>> /\ pending' = <<>> /\ UNCHANGED batch
        /\ hp' = [hp EXCEPT !["start"] = "begin"] /\ \A h \in Hydrators : hp[h] = "idle"
    BY <1>1 DEF StartStreaming
  <2>2. batch["start"] = <<>> /\ hp'["start"] = "begin"
    BY <2>1, HydratorsAre DEF BatchInv
  <2>3. Pipe' = <<>>
    <3>1. <<>> \in Seq(Sent)
      OBVIOUS
    <3>2. <<>> \o <<>> = <<>>
      BY <3>1, ConcatEmptySeq
    <3> QED BY <2>1, <2>2, <3>2 DEF Pipe
  <2>4. Tells(Pipe', open')
    BY <2>3 DEF Tells
  <2> QED BY <2>2, <2>4 DEF Following, Told, Noted
<1>2. ASSUME ~StartStreaming PROVE Following'
  <2>1. /\ Unbroken
        /\ link = "up" /\ hp["stream"] = "idle"
        /\ hydrating <=> hp["start"] # "idle"
        /\ hp["start"] \notin {"idle", "begin"} => hgen["start"] = 0
        /\ ~hydrating => pending = <<>> /\ ~pendingErr
        /\ cycle = "hydrate" => hp["start"] \in {"begin", "query"}
    BY <1>2, UnbrokenBefore DEF StartInv
  <2>2. stream = "running" /\ stream' = "running" /\ generation = 0 /\ generation' = 0 /\ ~recovering
    BY <2>1 DEF Unbroken, ControlType
  <2>4. ~OnReconnecting /\ ~Redial /\ ~Resubscribed /\ ~StreamEnds /\ ~PlainHydrate
    BY <2>1, <2>2 DEF OnReconnecting, Redial, Resubscribed, StreamEnds, PlainHydrate, ControlType
  <2>5. ~Drop
    <3> SUFFICES ASSUME Drop PROVE FALSE
      OBVIOUS
    <3>1. connEvents' = Append(connEvents, "reconnecting") /\ Len(connEvents) \in Nat
      BY DEF Drop, ControlType
    <3>2. Len(connEvents) + 1 \in 1 .. Len(connEvents') /\ connEvents'[Len(connEvents) + 1] = "reconnecting"
      BY <3>1
    <3> QED BY <3>2 DEF Unbroken
  <2>8. ASSUME UNCHANGED <<open, resting, overtaken, placed, snapshot, hp, wire, ch, pending, batch, pendingErr>>
        PROVE  Following'
    <3>1. Pipe' = Pipe /\ Following
      BY <2>1, <2>8 DEF Pipe, LedgerInv
    <3> QED BY <2>8, <3>1, FollowingMoves
  <2>3. ASSUME NEW targets \in Targets, SyncStart(targets) PROVE Following'
    BY <2>3, <2>8 DEF SyncStart, exchangeVars, wsVars, streamVars, hydrateVars
  <2>9. CASE MalformedFrame \/ CancelAllStart \/ ContextEnds \/ UNCHANGED vars
    BY <2>8, <2>9 DEF MalformedFrame, CancelAllStart, ContextEnds, vars, exchangeVars, wsVars, streamVars, hydrateVars,
                      cycleVars
  <2>10. CASE OnConnected
    <3>1. hp' = hp
      BY <2>2, <2>10, HydratorsAre DEF OnConnected, BatchInv
    <3> QED BY <2>8, <2>10, <3>1 DEF OnConnected, exchangeVars, streamVars, cycleVars
  <2>11. ASSUME UNCHANGED <<snapshot, resting, overtaken, hp, ch, pending, batch, pendingErr>>,
                (\E p \in Prices : NewOrder(p)) \/ (\E id \in Ids : Changed(id)),
                \A pl \in placed' : pl \in placed \/ (pl[1] = nextId /\ nextId' # nextId)
         PROVE  Following'
    <3>1. Following
      BY <2>1, <2>11 DEF LedgerInv
    <3>2. PICK e \in Sent' : /\ Says(e, open) /\ open' = [open EXCEPT ![e.id] = After(e)]
                             /\ Pipe' = Append(Pipe, e) /\ Pipe \in Seq(Sent')
                             /\ nextId' # nextId => e.kind = "new" /\ e.id = nextId
      BY <2>1, <2>2, <2>11, ExchangeSays
    <3>3. \A pl \in placed' : pl \in placed \/ (e.kind = "new" /\ pl[1] = e.id)
      BY <2>11, <3>2
    <3> QED BY <2>11, <3>1, <3>2, <3>3, FollowingAppend
  <2>12. CASE OutsideStep
    BY <2>11, <2>12, OutsideChanges DEF OutsideStep, streamVars, hydrateVars, cycleVars
  <2>13. ASSUME NEW id \in Ids, CancelOne(id) PROVE Following'
    <3>1. UNCHANGED <<snapshot, resting, overtaken, placed, hp, ch, pending, batch, pendingErr>>
      BY <2>13 DEF CancelOne, streamVars, hydrateVars
    <3>2. Changed(id) \/ UNCHANGED <<open, wire>>
      BY <2>13, CancelChanges
    <3> QED BY <2>8, <2>11, <3>1, <3>2
  <2>14. CASE CancelDone
    <3>1. UNCHANGED <<open, overtaken, snapshot, hp, wire, ch, pending, batch, pendingErr>> /\ Following
      BY <2>1, <2>14 DEF CancelDone, exchangeVars, wsVars, streamVars, hydrateVars, LedgerInv
    <3>2. \A id \in Ids : resting'[id] = resting[id] \/ (resting'[id] = NoOrder /\ open[id] = NoOrder)
      BY <2>14 DEF CancelDone, CancelInv
    <3>3. Pipe' = Pipe
      BY <3>1 DEF Pipe
    <3>4. LeadsTo(Pipe, resting, open, Ids \ overtaken) => LeadsTo(Pipe, resting', open, Ids \ overtaken)
      BY <3>2, LeadsToRemoved
    <3>5. Told'
      BY <3>1, <3>3, <3>4 DEF Following, Told
    <3>6. placed' = {}
      <4>1. phase = "cancel" /\ (placed' = placed \/ placed' = {})
        BY <2>14 DEF CancelDone, EndCycle
      <4> QED BY <4>1 DEF LockInv
    <3> QED BY <3>5, <3>6 DEF Following, Noted
  <2>6. CASE PlaceDone
    <3>1. UNCHANGED <<open, overtaken, snapshot, hp, wire, ch, pending, batch, pendingErr>> /\ Following
          /\ phase = "place" /\ placed' = {}
      BY <2>1, <2>6 DEF PlaceDone, EndCycle, exchangeVars, wsVars, streamVars, hydrateVars, LedgerInv
    <3>2. Pipe' = Pipe /\ hp["start"] # "install"
      BY <3>1, HydratorsAre DEF Pipe, LockInv
    <3>3. ASSUME hp["start"] \in {"handoff", "apply", "idle"}
          PROVE  LeadsTo(Pipe, resting', open, Ids \ overtaken)
      <4>1. ASSUME NEW id \in Ids \ overtaken
            PROVE  resting'[id] = resting[id] \/ \E k \in 1 .. Len(Pipe) : Pipe[k].id = id /\ Pipe[k].kind = "new"
        <5>1. resting'[id] = resting[id] \/ (resting[id] = NoOrder /\ \E pl \in placed : pl[1] = id)
          BY <2>6, <4>1 DEF PlaceDone
        <5> QED BY <3>1, <3>3, <4>1, <5>1 DEF Following, Noted, Announced
      <4>2. LeadsTo(Pipe, resting, open, Ids \ overtaken)
        BY <3>1, <3>3 DEF Following, Told
      <4> QED BY <4>1, <4>2, LeadsToNoted
    <3>4. Told'
      BY <3>1, <3>2, <3>3 DEF Following, Told
    <3> QED BY <3>1, <3>4 DEF Following, Noted
  <2>7. ASSUME NEW p \in Prices, PlaceOne(p) PROVE Following'
    <3>1. UNCHANGED <<snapshot, resting, overtaken, hp, ch, pending, batch, pendingErr>>
      BY <2>7 DEF PlaceOne, streamVars, hydrateVars
    <3>2. CASE UNCHANGED <<open, wire, placed>>
      BY <2>8, <3>1, <3>2
    <3>3. CASE NewOrder(p) /\ (placed' = placed \cup {<<nextId, p>>} \/ placed' = placed)
      <4>1. nextId' # nextId
        BY <3>3, KnownIds DEF NewOrder
      <4>2. \A pl \in placed' : pl \in placed \/ (pl[1] = nextId /\ nextId' # nextId)
        BY <3>3, <4>1
      <4> QED BY <2>11, <3>1, <3>3, <4>2
    <3> QED BY <2>7, <3>2, <3>3 DEF PlaceOne, exchangeVars
  <2>15. CASE PlainInstall
    <3>1. UNCHANGED <<open, hp, wire, ch, pending, batch, pendingErr>> /\ cycle = "hydrate" /\ Following
      BY <2>1, <2>15 DEF PlainInstall, exchangeVars, wsVars, streamVars, hydrateVars, LedgerInv
    <3>2. hp'["start"] \in {"begin", "query"} /\ Pipe' = Pipe
      BY <2>1, <3>1 DEF Pipe
    <3> QED BY <3>1, <3>2 DEF Following, Told, Noted
  <2>16. CASE Deliver
    <3>1. UNCHANGED <<open, resting, overtaken, placed, snapshot, hp, pending, batch, pendingErr>> /\ Following
      BY <2>1, <2>16 DEF Deliver, exchangeVars, streamVars, hydrateVars, cycleVars, LedgerInv
    <3>2. Pipe' = Pipe
      BY <2>16, <3>1, PipeMoves DEF Deliver
    <3> QED BY <3>1, <3>2, FollowingMoves
  <2>17. CASE OnOrderEvent
    <3>1. ch # <<>> /\ ch' = Tail(ch) /\ UNCHANGED <<open, placed, snapshot, hp, wire, batch>>
      BY <2>17 DEF OnOrderEvent, exchangeVars, hydrateVars, cycleVars
    <3>2. CASE hydrating
      <4>1. UNCHANGED <<resting, overtaken>> /\ pending' = Append(pending, Head(ch)) /\ ~pendingErr
        <5>1. UNCHANGED <<resting, overtaken>> /\ EnqueuePending(Head(ch))
          BY <2>17, <3>2 DEF OnOrderEvent
        <5>2. ~pendingErr /\ ~(Len(pending) >= MaxPending)
          BY <5>1 DEF EnqueuePending
        <5>3. Len(pending) \in Nat /\ MaxPending \in Nat
          BY QuoteReconcilerAssumption DEF BookType
        <5>4. Len(pending) < MaxPending
          BY <5>2, <5>3
        <5> QED BY <5>1, <5>2, <5>4 DEF EnqueuePending
      <4>2. Following /\ Pipe' = Pipe
        BY <2>1, <3>1, <4>1, PipeMoves DEF LedgerInv
      <4> QED BY <3>1, <4>1, <4>2, FollowingMoves
    <3>3. CASE ~hydrating
      <4>1. ApplyOrderEvent(Head(ch)) /\ pending' = pending /\ ~pendingErr
            /\ pending = <<>> /\ hp["start"] = "idle"
        BY <2>1, <2>17, <3>3 DEF OnOrderEvent
      <4>2. batch["start"] = <<>>
        BY <4>1, HydratorsAre DEF BatchInv
      <4>3. Following /\ Pipe # <<>> /\ Pipe' = Tail(Pipe) /\ Head(Pipe) = Head(ch)
        BY <2>1, <3>1, <4>1, <4>2, PipeTaken DEF LedgerInv
      <4>4. Head(ch) \in Underway
        <5>1. ch \in Seq(Sent)
          BY DEF BookType
        <5> QED BY <3>1, <5>1, RangeTaken DEF Underway
      <4> QED BY <3>1, <4>1, <4>3, <4>4, FollowingApplied
    <3> QED BY <3>2, <3>3
  <2>18. ASSUME NEW h \in Hydrators, HydrateStep(h) PROVE Following'
    <3>1. h = "start"
      BY <2>1, <2>18, HydratorsAre DEF HydrateStep, HydrateBegin, HydrateQuery, HydrateInstall, Handoff, ApplyBatch
    <3>2. ASSUME NEW to, hp' = [hp EXCEPT !["start"] = to] PROVE hp'["start"] = to
      BY <3>2, HydratorsAre DEF BatchInv
    <3>3. UNCHANGED <<pendingErr, open, placed>> /\ Following
      <4>1. UNCHANGED <<pendingErr, open, placed>>
        BY <2>18 DEF HydrateStep, HydrateBegin, HydrateQuery, HydrateInstall, Handoff, ApplyBatch, streamVars, exchangeVars, cycleVars
      <4> QED BY <2>1, <4>1 DEF LedgerInv
    <3>4. CASE HydrateBegin(h)
      <4>1. /\ hp["start"] = "begin" /\ hp' = [hp EXCEPT !["start"] = "query"]
            /\ UNCHANGED <<resting, snapshot, wire, ch, pending, batch>>
        BY <3>1, <3>4 DEF HydrateBegin, wsVars, streamVars, cycleVars
      <4>2. hp'["start"] = "query" /\ Pipe' = Pipe
        BY <3>2, <4>1 DEF Pipe
      <4> QED BY <3>3, <4>2 DEF Following, Told, Noted
    <3>5. CASE HydrateQuery(h)
      <4>1. hp["start"] = "query" /\ UNCHANGED <<resting, wire, ch, pending, batch>>
        BY <3>1, <3>5 DEF HydrateQuery, wsVars
      <4>2. hp' = [hp EXCEPT !["start"] = "install"] /\ snapshot' = open
        BY <2>1, <2>2, <3>1, <3>5, <4>1 DEF HydrateQuery, Return
      <4>3. hp'["start"] = "install" /\ Pipe' = Pipe
        BY <3>2, <4>1, <4>2 DEF Pipe
      <4> QED BY <3>3, <4>2, <4>3, LeadsToItself DEF Following, Told, Noted
    <3>6. CASE HydrateInstall(h)
      <4>1. /\ hp["start"] = "install" /\ hp' = [hp EXCEPT !["start"] = "handoff"] /\ resting' = snapshot
            /\ UNCHANGED <<overtaken, wire, ch, pending, batch>>
        BY <3>1, <3>6 DEF HydrateInstall, wsVars, streamVars
      <4>2. hp'["start"] = "handoff" /\ Pipe' = Pipe
        BY <3>2, <4>1 DEF Pipe
      <4>3. Told'
        BY <3>3, <4>1, <4>2 DEF Following, Told
      <4>4. placed' = {}
        BY <3>3, <4>1, HydratorsAre DEF LockInv
      <4> QED BY <4>3, <4>4 DEF Following, Noted
    <3>7. CASE Handoff(h)
      <4>1. hp["start"] = "handoff" /\ UNCHANGED <<resting, overtaken, snapshot, wire, ch>>
        BY <3>1, <3>7 DEF Handoff, wsVars, cycleVars
      <4>2. ~StaleGeneration("start")
        BY <2>1, <2>2, <4>1 DEF StaleGeneration
      <4>3. \/ UNCHANGED <<pending, batch>> /\ hp' = [hp EXCEPT !["start"] = "idle"]
            \/ batch' = [batch EXCEPT !["start"] = pending] /\ pending' = <<>> /\ hp' = [hp EXCEPT !["start"] = "apply"]
        BY <3>1, <3>7, <4>2 DEF Handoff, Return
      <4>4. batch["start"] = <<>>
        BY <4>1, HydratorsAre DEF BatchInv
      <4>5. CASE UNCHANGED <<pending, batch>> /\ hp' = [hp EXCEPT !["start"] = "idle"]
        <5>1. Pipe' = Pipe /\ hp'["start"] = "idle"
          BY <3>2, <4>1, <4>5 DEF Pipe
        <5> QED BY <3>3, <4>1, <5>1, FollowingMoves
      <4>6. CASE batch' = [batch EXCEPT !["start"] = pending] /\ pending' = <<>> /\ hp' = [hp EXCEPT !["start"] = "apply"]
        <5>1. batch'["start"] = pending /\ hp'["start"] = "apply"
          BY <3>2, <4>6, HydratorsAre DEF BookType
        <5>2. Pipe' = Pipe
          BY <4>1, <4>4, <4>6, <5>1, PipeMoves
        <5> QED BY <3>3, <4>1, <5>1, <5>2, FollowingMoves
      <4> QED BY <4>3, <4>5, <4>6
    <3>8. CASE ApplyBatch(h)
      <4>1. /\ hp["start"] = "apply" /\ UNCHANGED <<pending, ch, wire>>
            /\ ApplyOrderEvent(Head(batch["start"]))
            /\ batch' = [batch EXCEPT !["start"] = Tail(batch["start"])]
            /\ (hp' = [hp EXCEPT !["start"] = "handoff"] \/ hp' = [hp EXCEPT !["start"] = "apply"])
        BY <3>1, <3>8 DEF ApplyBatch, wsVars, streamVars
      <4>2. batch["start"] # <<>> /\ batch'["start"] = Tail(batch["start"]) /\ hp'["start"] \in {"handoff", "apply"}
        BY <3>2, <4>1, HydratorsAre DEF BatchInv, BookType
      <4>3. Pipe # <<>> /\ Pipe' = Tail(Pipe) /\ Head(Pipe) = Head(batch["start"])
        BY <4>1, <4>2, PipeTaken
      <4>4. Head(batch["start"]) \in Underway
        BY <4>1, <4>2, HydratorsAre, UnderwayTaken
      <4> QED BY <3>3, <4>1, <4>2, <4>3, <4>4, FollowingApplied
    <3> QED BY <2>18, <3>4, <3>5, <3>6, <3>7, <3>8 DEF HydrateStep
  <2> QED BY <1>2, <2>3, <2>4, <2>5, <2>6, <2>7, <2>9, <2>10, <2>12, <2>13, <2>14, <2>15, <2>16, <2>17, <2>18
          DEF Next, ClientStep, SelectStep, CycleStep
<1> QED BY <1>1, <1>2

StreamingInv == ExposureInv /\ ControlType /\ LockInv /\ StartInv /\ TruthInv /\ LedgerInv

LEMMA StreamingInit == ASSUME Init PROVE StreamingInv
<1>1. ExposureInv
  BY ExposureInit
<1>2. ControlType
  <2>1. connEvents = <<>> /\ generation = 0 /\ hydrating = FALSE /\ recovering = FALSE /\ pendingErr = FALSE
        /\ hgen = [h \in Hydrators |-> 0]
    BY DEF Init
  <2>2. <<>> \in Seq({"reconnecting", "connected"})
    OBVIOUS
  <2> QED BY <2>1, <2>2 DEF ControlType
<1>3. LockInv
  BY DEF Init, LockInv
<1>4. ~Unbroken
  BY DEF Init, Unbroken
<1>5. TruthInv
  <2>1. \A id \in Ids : open[id] = NoOrder
    BY DEF Init, Nobody
  <2>2. Underway = {}
    BY RangeEmpty, HydratorsAre DEF Init, Underway
  <2> QED BY <2>1, <2>2 DEF TruthInv
<1> QED BY <1>1, <1>2, <1>3, <1>4, <1>5 DEF StreamingInv, StartInv, LedgerInv

\* The startup race between the REST snapshot and the order feed is closed
\* (reconciler.go's hydrateAndReplay): as long as the first connection lasts, a stream
\* that has caught up has exactly the exchange's book, whatever happens to the orders,
\* however the events queue up, whichever calls fail and whatever is cancelled and
\* placed meanwhile; but an order whose end came before Sync noted its placement may
\* be in the ledger as well.
THEOREM LedgerExactUntilLost == Spec => []LedgerExactAtFirst
<1>1. Init => StreamingInv
  BY StreamingInit
<1>2. StreamingInv /\ [Next]_vars => StreamingInv'
  BY ExposureKept, ControlKept, LockKept, StartKept, TruthKept, LedgerKept DEF StreamingInv, ExposureInv
<1>3. StreamingInv => LedgerExactAtFirst
  <2> SUFFICES ASSUME StreamingInv, generation = 0, Settled, NEW id \in DOMAIN resting \ overtaken
               PROVE  resting[id] = open[id]
    BY DEF LedgerExactAtFirst
  <2>1. BookType /\ BatchInv /\ StartInv /\ LedgerInv
    BY DEF StreamingInv, ExposureInv
  <2>2. Unbroken
    <3>1. Len(connEvents) = 0
      BY DEF Settled
    <3> QED BY <3>1 DEF Settled, Unbroken
  <2>3. hp["start"] = "idle" /\ pending = <<>> /\ ~pendingErr /\ batch["start"] = <<>> /\ wire = <<>> /\ ch = <<>>
    BY <2>1, <2>2, HydratorsAre DEF Settled, StartInv, BatchInv
  <2>4. Pipe = <<>>
    <3>1. <<>> \in Seq(Sent)
      OBVIOUS
    <3>2. <<>> \o <<>> = <<>>
      BY <3>1, ConcatEmptySeq
    <3> QED BY <2>3, <3>2 DEF Pipe
  <2>5. LeadsTo(<<>>, resting, open, Ids \ overtaken)
    BY <2>1, <2>2, <2>3, <2>4 DEF LedgerInv, Following, Told
  <2>6. DOMAIN resting = Ids
    BY <2>1 DEF BookType, Ledgers
  <2> QED BY <2>5, <2>6, LeadsToNothing
<1> QED BY <1>1, <1>2, <1>3, PTL DEF Spec

\* The news of the connection.
LEMMA NewsAppended ==
  ASSUME ControlType, NEW e \in {"reconnecting", "connected"}, connEvents' = Append(connEvents, e)
  PROVE  /\ Lost' <=> Lost \/ e = "reconnecting"
         /\ e = "reconnecting" => ~BackNews'
<1>1. /\ Len(connEvents) \in Nat /\ Len(connEvents') = Len(connEvents) + 1
      /\ connEvents'[Len(connEvents) + 1] = e /\ \A i \in 1 .. Len(connEvents) : connEvents'[i] = connEvents[i]
  BY AppendProperties, LenProperties DEF ControlType
<1>2. Lost' <=> Lost \/ e = "reconnecting"
  BY <1>1 DEF Lost
<1>3. e = "reconnecting" => ~BackNews'
  <2> SUFFICES ASSUME e = "reconnecting", NEW j \in 1 .. Len(connEvents'), connEvents'[j] = "connected",
                      \A i \in 1 .. Len(connEvents') : i > j => connEvents'[i] # "reconnecting"
               PROVE  FALSE
    BY DEF BackNews
  <2>1. j # Len(connEvents) + 1
    BY <1>1
  <2>2. Len(connEvents) + 1 \in 1 .. Len(connEvents') /\ Len(connEvents) + 1 > j
    BY <1>1, <2>1
  <2> QED BY <1>1, <2>2
<1> QED BY <1>2, <1>3

LEMMA NewsTaken ==
  ASSUME ControlType, connEvents # <<>>, connEvents' = Tail(connEvents)
  PROVE  /\ Lost <=> Lost' \/ Head(connEvents) = "reconnecting"
         /\ BackNews' => BackNews
         /\ ~Lost /\ Head(connEvents) = "connected" => BackNews
<1>1. /\ Len(connEvents) \in Nat \ {0} /\ Len(connEvents') = Len(connEvents) - 1 /\ connEvents[1] = Head(connEvents)
      /\ \A i \in 1 .. Len(connEvents') : connEvents'[i] = connEvents[i + 1]
  BY HeadTailProperties, EmptySeq DEF ControlType
<1>2. \A i \in 1 .. Len(connEvents') : i + 1 \in 1 .. Len(connEvents) /\ connEvents'[i] = connEvents[i + 1]
  BY <1>1
<1>3. \A i \in 1 .. Len(connEvents) : i > 1 => i - 1 \in 1 .. Len(connEvents') /\ connEvents'[i - 1] = connEvents[i]
  <2>1. ASSUME NEW i \in 1 .. Len(connEvents), i > 1
        PROVE  i - 1 \in 1 .. Len(connEvents') /\ connEvents'[i - 1] = connEvents[i]
    <3>1. i - 1 \in 1 .. Len(connEvents') /\ (i - 1) + 1 = i
      BY <1>1, <2>1
    <3>2. connEvents'[i - 1] = connEvents[(i - 1) + 1]
      BY <1>1, <3>1
    <3> QED BY <3>1, <3>2
  <2> QED BY <2>1
<1>4. 1 \in 1 .. Len(connEvents) /\ \A i \in 1 .. Len(connEvents) : i = 1 \/ i > 1
  BY <1>1
<1>5. Lost <=> Lost' \/ Head(connEvents) = "reconnecting"
  <2>1. Lost => Lost' \/ Head(connEvents) = "reconnecting"
    BY <1>1, <1>3, <1>4 DEF Lost
  <2>2. Lost' => Lost
    BY <1>2 DEF Lost
  <2>3. Head(connEvents) = "reconnecting" => Lost
    BY <1>1, <1>4 DEF Lost
  <2> QED BY <2>1, <2>2, <2>3
<1>6. BackNews' => BackNews
  <2> SUFFICES ASSUME NEW j \in 1 .. Len(connEvents'), connEvents'[j] = "connected",
                      \A i \in 1 .. Len(connEvents') : i > j => connEvents'[i] # "reconnecting"
               PROVE  BackNews
    BY DEF BackNews
  <2>1. j + 1 \in 1 .. Len(connEvents) /\ connEvents[j + 1] = "connected"
    BY <1>2
  <2>2. ASSUME NEW i \in 1 .. Len(connEvents), i > j + 1 PROVE connEvents[i] # "reconnecting"
    <3>1. i > 1 /\ i - 1 > j
      BY <1>1, <2>2
    <3> QED BY <1>3, <3>1
  <2> QED BY <2>1, <2>2 DEF BackNews
<1>7. ~Lost /\ Head(connEvents) = "connected" => BackNews
  BY <1>1, <1>4 DEF Lost, BackNews
<1> QED BY <1>5, <1>6, <1>7

\* The hydrations of the caller and of the stream goroutine never mix.
LEMMA HandKept ==
  ASSUME ControlType, BatchInv, LockInv, HandInv, [Next]_vars PROVE HandInv'
<1> DEFINE Same == UNCHANGED <<hp, hgen, hydrating, recovering, generation, pending, pendingErr>>
<1>1. /\ hp \in [Hydrators -> {"idle", "begin", "query", "install", "handoff", "apply"}]
      /\ hgen \in [Hydrators -> Nat] /\ generation \in Nat /\ Hydrators = {"start", "stream"}
  BY HydratorsAre DEF BatchInv, ControlType
<1>2. ASSUME Same, UNCHANGED <<early, connEvents, stream>>, cycle' = cycle \/ cycle' # "hydrate" PROVE HandInv'
  BY <1>2 DEF HandInv, Lost
<1>3. CASE OutsideStep \/ Deliver \/ Redial \/ ContextEnds \/ UNCHANGED vars
  BY <1>2, <1>3 DEF OutsideStep, Deliver, Redial, ContextEnds, vars, wsVars, streamVars, hydrateVars, cycleVars
<1>4. CASE CancelAllStart \/ PlainInstall \/ PlaceDone
  BY <1>2, <1>4 DEF CancelAllStart, PlainInstall, PlaceDone, EndCycle, wsVars, streamVars, hydrateVars
<1>5. ASSUME NEW targets \in Targets, SyncStart(targets) PROVE HandInv'
  BY <1>2, <1>5 DEF SyncStart, wsVars, streamVars, hydrateVars
<1>6. CASE PlainHydrate
  <2>1. Same /\ UNCHANGED <<early, connEvents, stream>> /\ stream = "none"
    BY <1>6 DEF PlainHydrate, wsVars, streamVars, hydrateVars
  <2> QED BY <2>1 DEF HandInv, Lost
<1>7. CASE CancelDone
  <2>1. cycle' = cycle \/ cycle' = "none"
    BY <1>7 DEF CancelDone, EndCycle
  <2> QED BY <1>2, <1>7, <2>1 DEF CancelDone, wsVars, streamVars, hydrateVars
<1>8. ASSUME NEW id \in Ids, CancelOne(id) PROVE HandInv'
  BY <1>2, <1>8 DEF CancelOne, streamVars, hydrateVars
<1>9. ASSUME NEW p \in Prices, PlaceOne(p) PROVE HandInv'
  BY <1>2, <1>9 DEF PlaceOne, streamVars, hydrateVars
<1>10. CASE Drop
  <2>1. Same /\ UNCHANGED <<stream, cycle>> /\ early' = (early \/ hp["start"] = "begin")
    BY <1>10 DEF Drop, hydrateVars, cycleVars
  <2> QED BY <2>1 DEF HandInv
<1>11. CASE Resubscribed \/ MalformedFrame
  <2>1. Same /\ UNCHANGED <<stream, cycle>> /\ connEvents' = Append(connEvents, "connected")
    BY <1>11 DEF Resubscribed, MalformedFrame, streamVars, hydrateVars, cycleVars
  <2>2. early' = early \/ early' = (early \/ link = "replaying")
    BY <1>11 DEF Resubscribed, MalformedFrame, streamVars
  <2>3. early => early'
    BY <2>2, Zenon
  <2>4. Lost' <=> Lost
    BY <2>1, NewsAppended
  <2> QED BY <2>1, <2>3, <2>4 DEF HandInv
<1>12. CASE StreamEnds
  <2>1. Same /\ UNCHANGED <<early, connEvents, cycle>> /\ stream = "running" /\ stream' = "ended"
    BY <1>12 DEF StreamEnds, wsVars, hydrateVars, cycleVars
  <2> QED BY <2>1 DEF HandInv, Lost
<1>13. CASE StartStreaming
  <2>1. /\ \A h \in Hydrators : hp[h] = "idle"
        /\ hp' = [hp EXCEPT !["start"] = "begin"] /\ connEvents' = <<>> /\ stream' = "running"
        /\ hydrating' = TRUE /\ recovering' = FALSE /\ UNCHANGED <<cycle, hgen>>
    BY <1>13 DEF StartStreaming, cycleVars
  <2>2. hp'["start"] = "begin" /\ hp'["stream"] = "idle" /\ ~Lost'
    BY <1>1, <2>1 DEF Lost
  <2> QED BY <1>1, <2>1, <2>2 DEF HandInv
<1>14. CASE OnReconnecting
  <2>1. /\ connEvents # <<>> /\ connEvents' = Tail(connEvents) /\ Head(connEvents) = "reconnecting"
        /\ UNCHANGED <<early, stream, cycle, hp, hgen>> /\ hp["stream"] = "idle" /\ stream = "running"
    BY <1>14 DEF OnReconnecting, Selecting, streamVars, hydrateVars, cycleVars
  <2>2. Lost /\ (Lost' => Lost)
    BY <2>1, NewsTaken
  <2>3. CASE recovering
    <3>1. Same
      BY <1>14, <2>3 DEF OnReconnecting, streamVars, hydrateVars
    <3> QED BY <2>1, <2>2, <3>1 DEF HandInv
  <2>4. CASE ~recovering
    <3>1. generation' = generation + 1 /\ hydrating' = TRUE /\ recovering' = TRUE
      BY <1>14, <2>4 DEF OnReconnecting
    <3>2. ~early => hp["start"] # "begin"
      BY <2>2 DEF HandInv
    <3>3. \A h \in Hydrators : hp[h] \notin {"idle", "begin"} => hgen[h] <= generation' /\ hgen[h] # generation'
      BY <1>1, <3>1 DEF HandInv
    <3> QED BY <1>1, <2>1, <3>1, <3>2, <3>3 DEF HandInv
  <2> QED BY <2>3, <2>4
<1>15. CASE OnConnected
  <2>1. /\ connEvents # <<>> /\ connEvents' = Tail(connEvents) /\ Head(connEvents) = "connected"
        /\ UNCHANGED <<early, stream, cycle, hgen, hydrating, recovering, generation, pending, pendingErr>>
        /\ hp["stream"] = "idle" /\ stream = "running"
    BY <1>15 DEF OnConnected, Selecting, streamVars, cycleVars
  <2>2. Lost' <=> Lost
    BY <2>1, NewsTaken
  <2>3. hp' = hp \/ (recovering /\ hp' = [hp EXCEPT !["stream"] = "begin"])
    <3>1. hp' = IF recovering THEN [hp EXCEPT !["stream"] = "begin"] ELSE [hp EXCEPT !["stream"] = hp["stream"]]
      BY <1>15 DEF OnConnected
    <3> QED BY <1>1, <3>1
  <2>4. CASE hp' = hp
    BY <2>1, <2>2, <2>4 DEF HandInv
  <2>5. CASE recovering /\ hp' = [hp EXCEPT !["stream"] = "begin"]
    <3>1. hp'["stream"] = "begin" /\ hp'["start"] = hp["start"]
      BY <1>1, <2>5
    <3> QED BY <1>1, <2>1, <2>2, <2>5, <3>1 DEF HandInv
  <2> QED BY <2>3, <2>4, <2>5
<1>16. CASE OnOrderEvent
  <2>1. /\ UNCHANGED <<hp, hgen, hydrating, recovering, generation, early, connEvents, stream, cycle>>
        /\ ~hydrating => UNCHANGED <<pending, pendingErr>>
    BY <1>16 DEF OnOrderEvent, hydrateVars, cycleVars
  <2> QED BY <2>1 DEF HandInv, Lost
<1>17. ASSUME NEW h \in Hydrators, HydrateStep(h) PROVE HandInv'
  <2>1. stream # "none" /\ stream' # "none" /\ UNCHANGED <<early, connEvents, generation>> /\ hp[h] # "idle"
    <3>1. hp[h] # "idle"
      BY <1>17 DEF HydrateStep, HydrateBegin, HydrateQuery, HydrateInstall, Handoff, ApplyBatch
    <3>2. stream # "none"
      BY <3>1 DEF HandInv
    <3>3. UNCHANGED <<early, connEvents, generation>> /\ (stream' = stream \/ stream' = "ended")
      BY <1>17 DEF HydrateStep, HydrateBegin, HydrateQuery, HydrateInstall, Handoff, ApplyBatch, Return, wsVars, streamVars
    <3> QED BY <3>1, <3>2, <3>3
  <2>2. Lost' <=> Lost
    BY <2>1 DEF Lost
  <2>3. ASSUME NEW to, hp' = [hp EXCEPT ![h] = to]
        PROVE  hp'[h] = to /\ \A g \in Hydrators : g # h => hp'[g] = hp[g]
    BY <1>1, <2>3
  <2>4. CASE HydrateBegin(h)
    <3>1. /\ hp[h] = "begin" /\ hp["start"] \in {"idle", "begin"} /\ hp["stream"] \in {"idle", "begin"}
          /\ hp' = [hp EXCEPT ![h] = "query"] /\ hgen' = [hgen EXCEPT ![h] = generation]
          /\ UNCHANGED <<hydrating, recovering, pending, pendingErr, cycle, stream>>
      BY <1>1, <2>4 DEF HydrateBegin, streamVars, cycleVars
    <3>2. hgen'[h] = generation /\ \A g \in Hydrators : g # h => hgen'[g] = hgen[g]
      BY <1>1, <3>1
    <3>3. CASE h = "start"
      BY <1>1, <2>1, <2>2, <2>3, <3>1, <3>2, <3>3 DEF HandInv
    <3>4. CASE h = "stream"
      BY <1>1, <2>1, <2>2, <2>3, <3>1, <3>2, <3>4 DEF HandInv
    <3> QED BY <1>1, <3>3, <3>4
  <2>5. CASE HydrateQuery(h)
    <3>1. /\ hp[h] = "query" /\ cycle = "none" /\ UNCHANGED <<hydrating, pending, pendingErr, hgen>>
          /\ cycle' \in {"none", "start", "stream"}
      BY <1>1, <2>5 DEF HydrateQuery
    <3>2. h = "stream" => hgen[h] = generation
      BY <3>1 DEF HandInv
    <3>3. recovering' = recovering /\ (hp' = [hp EXCEPT ![h] = "install"] \/ hp' = [hp EXCEPT ![h] = "idle"])
      BY <2>5, <3>2 DEF HydrateQuery, Return
    <3>4. PICK to \in {"install", "idle"} : hp' = [hp EXCEPT ![h] = to]
      BY <3>3
    <3>5. hp'[h] = to /\ \A g \in Hydrators : g # h => hp'[g] = hp[g]
      BY <2>3, <3>4
    <3>6. CASE h = "start"
      BY <1>1, <2>1, <2>2, <3>1, <3>3, <3>5, <3>6 DEF HandInv
    <3>7. CASE h = "stream"
      BY <1>1, <2>1, <2>2, <3>1, <3>3, <3>5, <3>7 DEF HandInv
    <3> QED BY <1>1, <3>6, <3>7
  <2>6. CASE HydrateInstall(h)
    <3>1. /\ hp[h] = "install" /\ cycle' = "none" /\ UNCHANGED <<hydrating, recovering, pending, pendingErr, hgen>>
          /\ hp' = [hp EXCEPT ![h] = "handoff"]
      BY <2>6 DEF HydrateInstall, streamVars
    <3>2. hp'[h] = "handoff" /\ \A g \in Hydrators : g # h => hp'[g] = hp[g]
      BY <2>3, <3>1
    <3>3. CASE h = "start"
      BY <1>1, <2>1, <2>2, <3>1, <3>2, <3>3 DEF HandInv
    <3>4. CASE h = "stream"
      BY <1>1, <2>1, <2>2, <3>1, <3>2, <3>4 DEF HandInv
    <3> QED BY <1>1, <3>3, <3>4
  <2>7. CASE ApplyBatch(h)
    <3>1. /\ hp[h] = "apply" /\ UNCHANGED <<hydrating, recovering, pending, pendingErr, hgen, cycle>>
          /\ (hp' = [hp EXCEPT ![h] = "handoff"] \/ hp' = [hp EXCEPT ![h] = "apply"])
      BY <2>7 DEF ApplyBatch, streamVars, cycleVars
    <3>2. PICK to \in {"handoff", "apply"} : hp' = [hp EXCEPT ![h] = to]
      BY <3>1
    <3>3. hp'[h] = to /\ \A g \in Hydrators : g # h => hp'[g] = hp[g]
      BY <2>3, <3>2
    <3>4. CASE h = "start"
      BY <1>1, <2>1, <2>2, <3>1, <3>3, <3>4 DEF HandInv
    <3>5. CASE h = "stream"
      BY <1>1, <2>1, <2>2, <3>1, <3>3, <3>5 DEF HandInv
    <3> QED BY <1>1, <3>4, <3>5
  <2>8. CASE Handoff(h)
    <3>1. hp[h] = "handoff" /\ UNCHANGED <<pendingErr, hgen, cycle>>
      BY <2>8 DEF Handoff, cycleVars
    <3>2. \/ /\ hydrating' = hydrating /\ pending' = pending /\ hp' = [hp EXCEPT ![h] = "idle"]
             /\ recovering' = recovering \/ (h = "stream" /\ ~recovering')
          \/ /\ hgen[h] = generation /\ hydrating' = FALSE /\ hp' = [hp EXCEPT ![h] = "idle"]
             /\ pending' = <<>> /\ ~pendingErr
             /\ (h = "stream" /\ ~recovering') \/ (h = "start" /\ recovering' = recovering)
          \/ /\ hydrating' = hydrating /\ recovering' = recovering /\ hp' = [hp EXCEPT ![h] = "apply"]
             /\ pending' = <<>>
      BY <1>1, <2>8 DEF Handoff, Return, StaleGeneration
    <3>3. CASE /\ hydrating' = hydrating /\ pending' = pending /\ hp' = [hp EXCEPT ![h] = "idle"]
               /\ recovering' = recovering \/ (h = "stream" /\ ~recovering')
      <4>1. hp'[h] = "idle" /\ \A g \in Hydrators : g # h => hp'[g] = hp[g]
        BY <2>3, <3>3
      <4>2. CASE h = "start"
        BY <1>1, <2>1, <2>2, <3>1, <3>3, <4>1, <4>2 DEF HandInv
      <4>3. CASE h = "stream"
        BY <1>1, <2>1, <2>2, <3>1, <3>3, <4>1, <4>3 DEF HandInv
      <4> QED BY <1>1, <4>2, <4>3
    <3>4. CASE /\ hgen[h] = generation /\ hydrating' = FALSE /\ hp' = [hp EXCEPT ![h] = "idle"]
               /\ pending' = <<>> /\ ~pendingErr
               /\ (h = "stream" /\ ~recovering') \/ (h = "start" /\ recovering' = recovering)
      <4>1. hp'[h] = "idle" /\ \A g \in Hydrators : g # h => hp'[g] = hp[g]
        BY <2>3, <3>4
      <4>2. CASE h = "start"
        <5>1. hp["stream"] \in {"idle", "begin"} /\ (~early => ~recovering /\ hp["stream"] = "idle")
          BY <1>1, <3>1, <3>4, <4>2 DEF HandInv
        <5> QED BY <1>1, <2>1, <2>2, <3>1, <3>4, <4>1, <4>2, <5>1 DEF HandInv
      <4>3. CASE h = "stream"
        <5>1. hp["start"] \in {"idle", "begin"} /\ (~early => hp["start"] = "idle") /\ ~recovering'
          BY <1>1, <3>1, <3>4, <4>3 DEF HandInv
        <5> QED BY <1>1, <2>1, <2>2, <3>1, <3>4, <4>1, <4>3, <5>1 DEF HandInv
      <4> QED BY <1>1, <4>2, <4>3
    <3>5. CASE /\ hydrating' = hydrating /\ recovering' = recovering /\ hp' = [hp EXCEPT ![h] = "apply"]
               /\ pending' = <<>>
      <4>1. hp'[h] = "apply" /\ \A g \in Hydrators : g # h => hp'[g] = hp[g]
        BY <2>3, <3>5
      <4>2. CASE h = "start"
        BY <1>1, <2>1, <2>2, <3>1, <3>5, <4>1, <4>2 DEF HandInv
      <4>3. CASE h = "stream"
        BY <1>1, <2>1, <2>2, <3>1, <3>5, <4>1, <4>3 DEF HandInv
      <4> QED BY <1>1, <4>2, <4>3
    <3> QED BY <3>2, <3>3, <3>4, <3>5
  <2> QED BY <1>17, <2>4, <2>5, <2>6, <2>7, <2>8 DEF HydrateStep
<1> QED BY <1>3, <1>4, <1>5, <1>6, <1>7, <1>8, <1>9, <1>10, <1>11, <1>12, <1>13, <1>14, <1>15, <1>16, <1>17
        DEF Next, ClientStep, SelectStep, CycleStep

\* A hydration begins to count, or has counted, only when there is no loss to make up for.
LEMMA WaitingHydrates ==
  ASSUME BatchInv, HandInv, NEW h \in Hydrators, HydrateStep(h), stream' = "running"
  PROVE  (Waiting' <=> Waiting) /\ stream = "running" /\ UNCHANGED <<early, link, connEvents>>
<1>1. hp \in [Hydrators -> {"idle", "begin", "query", "install", "handoff", "apply"}] /\ Hydrators = {"start", "stream"}
  BY HydratorsAre DEF BatchInv
<1>2. UNCHANGED <<early, link, connEvents>> /\ (stream' = stream \/ stream' = "ended") /\ hp[h] # "idle"
  BY DEF HydrateStep, HydrateBegin, HydrateQuery, HydrateInstall, Handoff, ApplyBatch, Return, wsVars, streamVars
<1>3. \E to : hp' = [hp EXCEPT ![h] = to]
  BY DEF HydrateStep, HydrateBegin, HydrateQuery, HydrateInstall, Handoff, ApplyBatch, Return
<1>4. Lost' <=> Lost
  BY <1>2 DEF Lost
<1>5. CASE h = "start"
  <2>1. hp'["stream"] = hp["stream"]
    BY <1>1, <1>3, <1>5
  <2>2. recovering' = recovering
    BY <1>5 DEF HydrateStep, HydrateBegin, HydrateQuery, HydrateInstall, Handoff, ApplyBatch, Return, streamVars
  <2> QED BY <1>2, <1>4, <2>1, <2>2 DEF Waiting
<1>6. CASE h = "stream"
  <2>1. CASE HydrateBegin(h)
    BY <1>1, <1>2, <1>4, <1>6, <2>1 DEF HydrateBegin, Waiting
  <2>2. CASE HydrateQuery(h)
    <3>1. hgen[h] = generation
      BY <1>6, <2>2 DEF HydrateQuery, HandInv
    <3>2. hp' = [hp EXCEPT ![h] = "install"]
      BY <2>2, <3>1 DEF HydrateQuery, Return
    <3> QED BY <1>1, <1>2, <1>4, <1>6, <3>2 DEF Waiting
  <2>3. CASE HydrateInstall(h)
    BY <1>1, <1>2, <1>4, <1>6, <2>3 DEF HydrateInstall, Waiting
  <2>4. CASE ApplyBatch(h)
    BY <1>1, <1>2, <1>4, <1>6, <2>4 DEF ApplyBatch, Waiting
  <2>5. CASE Handoff(h)
    <3>1. (hp' = [hp EXCEPT ![h] = "idle"] /\ ~recovering') \/ hp' = [hp EXCEPT ![h] = "apply"]
      BY <1>6, <2>5 DEF Handoff, Return
    <3>2. hp'["stream"] = "idle" => ~recovering'
      BY <1>1, <1>6, <3>1
    <3> QED BY <1>2, <1>4, <1>6, <3>2 DEF Waiting
  <2> QED BY <2>1, <2>2, <2>3, <2>4, <2>5 DEF HydrateStep
<1> QED BY <1>1, <1>2, <1>5, <1>6

LEMMA NewsKept ==
  ASSUME ControlType, BatchInv, HandInv, NewsInv, [Next]_vars PROVE NewsInv'
<1>1. ASSUME UNCHANGED <<stream, early, hp, recovering, connEvents, link>> PROVE NewsInv'
  BY <1>1 DEF NewsInv, Waiting, Lost, BackNews
<1>2. CASE OutsideStep \/ Deliver \/ ContextEnds \/ UNCHANGED vars
  BY <1>1, <1>2 DEF OutsideStep, Deliver, ContextEnds, vars, wsVars, streamVars, hydrateVars
<1>3. CASE CancelAllStart \/ PlainInstall \/ PlaceDone \/ PlainHydrate \/ CancelDone
  BY <1>1, <1>3 DEF CancelAllStart, PlainInstall, PlaceDone, PlainHydrate, CancelDone, wsVars, streamVars, hydrateVars
<1>4. ASSUME NEW targets \in Targets, SyncStart(targets) PROVE NewsInv'
  BY <1>1, <1>4 DEF SyncStart, wsVars, streamVars, hydrateVars
<1>5. ASSUME NEW id \in Ids, CancelOne(id) PROVE NewsInv'
  BY <1>1, <1>5 DEF CancelOne, streamVars, hydrateVars
<1>6. ASSUME NEW p \in Prices, PlaceOne(p) PROVE NewsInv'
  BY <1>1, <1>6 DEF PlaceOne, streamVars, hydrateVars
<1>7. CASE OnOrderEvent
  BY <1>1, <1>7 DEF OnOrderEvent, hydrateVars
<1>8. CASE Drop
  <2>1. Lost' /\ ~BackNews'
    BY <1>8, NewsAppended DEF Drop
  <2> QED BY <1>8, <2>1 DEF Drop, NewsInv, Waiting
<1>9. CASE Redial
  <2>1. UNCHANGED <<stream, early, hp, recovering, connEvents>> /\ link # "up"
    BY <1>9 DEF Redial, streamVars, hydrateVars
  <2> QED BY <1>9, <2>1 DEF Redial, NewsInv, Waiting, Lost, BackNews
<1>10. CASE Resubscribed \/ StartStreaming
  BY <1>10 DEF Resubscribed, StartStreaming, NewsInv
<1>11. CASE MalformedFrame
  <2>1. link' = link /\ link \in {"up", "replaying"}
    BY <1>11 DEF MalformedFrame, NewsInv
  <2>2. link = "replaying" => early'
    BY <1>11 DEF MalformedFrame
  <2> QED BY <2>1, <2>2 DEF NewsInv
<1>12. CASE StreamEnds
  BY <1>12 DEF StreamEnds, NewsInv, wsVars
<1>13. CASE OnReconnecting
  <2>1. /\ connEvents # <<>> /\ connEvents' = Tail(connEvents) /\ Head(connEvents) = "reconnecting"
        /\ UNCHANGED <<early, stream, hp, link>> /\ hp["stream"] = "idle"
    BY <1>13 DEF OnReconnecting, Selecting, streamVars, hydrateVars
  <2>2. recovering'
    BY <1>13 DEF OnReconnecting, streamVars
  <2>3. Waiting' /\ (BackNews' => BackNews)
    BY <2>1, <2>2, NewsTaken DEF Waiting
  <2> QED BY <2>1, <2>3 DEF NewsInv
<1>14. CASE OnConnected
  <2>1. /\ connEvents # <<>> /\ connEvents' = Tail(connEvents) /\ Head(connEvents) = "connected"
        /\ UNCHANGED <<early, stream, recovering, link>>
    BY <1>14 DEF OnConnected, streamVars
  <2>2. (Lost' <=> Lost) /\ (BackNews' => BackNews) /\ (~Lost => BackNews)
    BY <2>1, NewsTaken
  <2>3. ~Waiting' => ~Lost
    BY <2>2 DEF Waiting
  <2> QED BY <2>1, <2>2, <2>3 DEF NewsInv
<1>15. ASSUME NEW h \in Hydrators, HydrateStep(h) PROVE NewsInv'
  <2>1. link' = link
    BY <1>15 DEF HydrateStep, HydrateBegin, HydrateQuery, HydrateInstall, Handoff, ApplyBatch, wsVars
  <2>2. ASSUME stream' = "running" PROVE NewsInv'
    BY <1>15, <2>2, WaitingHydrates DEF NewsInv, BackNews
  <2> QED BY <2>1, <2>2 DEF NewsInv
<1> QED BY <1>2, <1>3, <1>4, <1>5, <1>6, <1>7, <1>8, <1>9, <1>10, <1>11, <1>12, <1>13, <1>14, <1>15
        DEF Next, ClientStep, SelectStep, CycleStep

\* What counts covers the book.
LEMMA CoverKept ==
  ASSUME BookType, BatchInv, CancelInv, ControlType, LockInv, HandInv, NewsInv, TruthInv, CoverInv, [Next]_vars
  PROVE  CoverInv'
<1> DEFINE Claim ==
      /\ hp[Current] = "install" => Covers(snapshot)
      /\ hp[Current] \in {"handoff", "apply", "idle"} => Covers(resting)
<1> SUFFICES ASSUME stream' = "running", ~early', ~Waiting', ~pendingErr' PROVE Claim'
  BY DEF CoverInv
<1>1. /\ hp \in [Hydrators -> {"idle", "begin", "query", "install", "handoff", "apply"}] /\ Hydrators = {"start", "stream"}
      /\ resting \in Ledgers
  BY HydratorsAre DEF BatchInv, BookType
<1>2. ASSUME stream = "running", ~early, ~Waiting, ~pendingErr PROVE Claim /\ link = "up"
  BY <1>2 DEF CoverInv, NewsInv
<1> DEFINE Still == UNCHANGED <<stream, early, hp, recovering, connEvents, pendingErr>>
<1>3. ASSUME Still PROVE Claim /\ link = "up" /\ stream = "running"
  <2>1. ~Waiting
    BY <1>3 DEF Waiting, Lost
  <2> QED BY <1>2, <1>3, <2>1
<1>4. ASSUME Still, UNCHANGED <<open, resting, snapshot>>, Underway' = Underway PROVE Claim'
  <2>1. Claim /\ hp'[Current'] = hp[Current]
    BY <1>3, <1>4 DEF Current
  <2> QED BY <1>4, <2>1 DEF Covers
<1>5. CASE Deliver
  <2>1. UNCHANGED <<open, resting, snapshot>> /\ Still
    BY <1>5 DEF Deliver, exchangeVars, streamVars, hydrateVars, cycleVars
  <2>2. Underway' = Underway
    BY <1>5, UnderwayMoves DEF Deliver, streamVars, hydrateVars
  <2> QED BY <1>4, <2>1, <2>2
<1>6. ASSUME Still, UNCHANGED <<open, resting, snapshot, wire, ch, pending, batch>> PROVE Claim'
  BY <1>4, <1>6, UnderwayMoves
<1>7. CASE Redial \/ ContextEnds \/ CancelAllStart \/ UNCHANGED vars
  BY <1>6, <1>7 DEF Redial, ContextEnds, CancelAllStart, vars, exchangeVars, wsVars, streamVars, hydrateVars, cycleVars
<1>8. ASSUME NEW targets \in Targets, SyncStart(targets) PROVE Claim'
  BY <1>6, <1>8 DEF SyncStart, exchangeVars, wsVars, streamVars, hydrateVars
<1>9. CASE StreamEnds \/ Drop
  <2>1. Drop => Lost'
    BY NewsAppended DEF Drop
  <2> QED BY <1>9, <2>1 DEF StreamEnds, Waiting
<1>10. CASE PlainHydrate
  BY <1>10 DEF PlainHydrate, streamVars
<1>11. ASSUME Still, UNCHANGED <<resting, snapshot, ch, pending, batch>>,
              (\E p \in Prices : NewOrder(p)) \/ (\E id \in Ids : Changed(id))
       PROVE  Claim'
  <2>1. Claim /\ link = "up" /\ stream = "running" /\ hp'[Current'] = hp[Current]
    BY <1>3, <1>11 DEF Current
  <2>2. \A r : Covers(r) => \A id \in Ids : open'[id] # NoOrder => r[id] # NoOrder \/ \E e \in Underway' : e.id = id
    BY <1>11, <2>1, ExchangeUnderway
  <2>3. hp[Current] = "install" => Covers(snapshot)'
    BY <1>11, <2>1, <2>2 DEF Covers
  <2>4. hp[Current] \in {"handoff", "apply", "idle"} => Covers(resting)'
    BY <1>11, <2>1, <2>2 DEF Covers
  <2> QED BY <2>1, <2>3, <2>4
<1>12. CASE OutsideStep
  BY <1>11, <1>12, OutsideChanges DEF OutsideStep, streamVars, hydrateVars, cycleVars
<1>13. ASSUME NEW id \in Ids, CancelOne(id) PROVE Claim'
  <2>1. Still /\ UNCHANGED <<resting, snapshot, ch, pending, batch>> /\ (Changed(id) \/ UNCHANGED <<open, wire>>)
    BY <1>13, CancelChanges DEF CancelOne, streamVars, hydrateVars
  <2> QED BY <1>6, <1>11, <2>1
<1>14. ASSUME NEW p \in Prices, PlaceOne(p) PROVE Claim'
  <2>1. Still /\ UNCHANGED <<resting, snapshot, ch, pending, batch>> /\ (NewOrder(p) \/ UNCHANGED <<open, wire>>)
    BY <1>14 DEF PlaceOne, exchangeVars, streamVars, hydrateVars
  <2> QED BY <1>6, <1>11, <2>1
<1>15. ASSUME Still, UNCHANGED <<open, snapshot>>, Underway' = Underway,
              \A id \in Ids : resting'[id] # NoOrder \/ resting[id] = NoOrder \/ open[id] = NoOrder
       PROVE  Claim'
  <2>1. Claim /\ hp'[Current'] = hp[Current]
    BY <1>3, <1>15 DEF Current
  <2> QED BY <1>15, <2>1 DEF Covers
<1>16. CASE CancelDone \/ PlaceDone
  <2>1. Still /\ UNCHANGED <<open, snapshot, wire, ch, pending, batch>>
    BY <1>16 DEF CancelDone, PlaceDone, exchangeVars, wsVars, streamVars, hydrateVars
  <2>2. ASSUME NEW id \in Ids PROVE resting'[id] # NoOrder \/ resting[id] = NoOrder \/ open[id] = NoOrder
    BY <1>16 DEF CancelDone, PlaceDone, CancelInv
  <2> QED BY <1>15, <2>1, <2>2, UnderwayMoves
<1>17. CASE PlainInstall
  <2>1. Still /\ cycle = "hydrate"
    BY <1>17 DEF PlainInstall, wsVars, streamVars, hydrateVars
  <2>2. hp["start"] \in {"begin", "query"} /\ (hp["start"] = "begin" => ~recovering)
    BY <2>1 DEF HandInv
  <2>3. hp[Current] \in {"begin", "query"}
    BY <1>1, <2>2 DEF HandInv, Current
  <2>4. hp'[Current'] = hp[Current]
    BY <2>1 DEF Current
  <2> QED BY <2>3, <2>4
<1>18. CASE Resubscribed \/ MalformedFrame
  <2>1. connEvents' = Append(connEvents, "connected") /\ UNCHANGED <<open, resting, snapshot, hp, wire, ch, pending, batch>>
    BY <1>18 DEF Resubscribed, MalformedFrame, exchangeVars, streamVars, hydrateVars, cycleVars
  <2>2. UNCHANGED <<stream, recovering, pendingErr>> /\ ~early
    <3>1. UNCHANGED <<stream, recovering, pendingErr>>
      BY <1>18 DEF Resubscribed, MalformedFrame, streamVars
    <3>2. early' = early \/ early' = (early \/ link = "replaying")
      BY <1>18 DEF Resubscribed, MalformedFrame, streamVars
    <3>3. early => early'
      BY <3>2, Zenon
    <3> QED BY <1>2, <3>1, <3>3
  <2>3. ~Waiting
    BY <2>1, <2>2, NewsAppended DEF Waiting
  <2>4. Claim /\ hp'[Current'] = hp[Current]
    BY <1>2, <2>1, <2>2, <2>3 DEF Current
  <2>5. Underway' = Underway
    BY <2>1, UnderwayMoves
  <2> QED BY <2>1, <2>4, <2>5 DEF Covers
<1>19. CASE StartStreaming
  <2>1. hp' = [hp EXCEPT !["start"] = "begin"] /\ hp["stream"] = "idle"
    BY <1>1, <1>19 DEF StartStreaming
  <2>2. hp'["stream"] = "idle" /\ hp'["start"] = "begin"
    BY <1>1, <2>1
  <2> QED BY <2>2 DEF Current
<1>20. CASE OnReconnecting
  <2>1. recovering' /\ hp'["stream"] = "idle"
    BY <1>20 DEF OnReconnecting, Selecting, streamVars, hydrateVars
  <2> QED BY <2>1 DEF Waiting
<1>21. CASE OnConnected
  <2>1. /\ connEvents # <<>> /\ connEvents' = Tail(connEvents) /\ Head(connEvents) = "connected" /\ hp["stream"] = "idle"
        /\ UNCHANGED <<open, resting, snapshot, wire, ch, pending, batch, stream, early, recovering, pendingErr>>
    BY <1>21 DEF OnConnected, Selecting, exchangeVars, streamVars, cycleVars
  <2>2. CASE recovering
    <3>1. hp' = [hp EXCEPT !["stream"] = "begin"]
      BY <1>21, <2>2 DEF OnConnected
    <3>2. hp'["stream"] = "begin"
      BY <1>1, <3>1
    <3> QED BY <3>2 DEF Current
  <2>3. CASE ~recovering
    <3>1. hp' = [hp EXCEPT !["stream"] = hp["stream"]]
      BY <1>21, <2>3 DEF OnConnected
    <3>2. hp' = hp
      BY <1>1, <3>1
    <3>3. ~Waiting
      BY <2>1, <3>2, NewsTaken DEF Waiting
    <3>4. Claim /\ hp'[Current'] = hp[Current]
      BY <1>2, <2>1, <3>2, <3>3 DEF Current
    <3>5. Underway' = Underway
      BY <2>1, UnderwayMoves
    <3> QED BY <2>1, <3>4, <3>5 DEF Covers
  <2> QED BY <2>2, <2>3
<1>22. CASE OnOrderEvent
  <2>1. ch # <<>> /\ ch' = Tail(ch) /\ UNCHANGED <<open, snapshot, hp, wire, batch, stream, early, recovering, connEvents>>
    BY <1>22 DEF OnOrderEvent, exchangeVars, hydrateVars, cycleVars
  <2>2. CASE hydrating
    <3>1. resting' = resting /\ EnqueuePending(Head(ch))
      BY <1>22, <2>2 DEF OnOrderEvent
    <3>2. ~pendingErr /\ ~(Len(pending) >= MaxPending)
      <4>1. pendingErr' = (pendingErr \/ Len(pending) >= MaxPending)
        BY <3>1 DEF EnqueuePending
      <4>2. (pendingErr => pendingErr') /\ (Len(pending) >= MaxPending => pendingErr')
        BY <4>1, Zenon
      <4> QED BY <1>2, <4>2
    <3>3. Len(pending) \in Nat /\ MaxPending \in Nat
      BY QuoteReconcilerAssumption DEF BookType
    <3>4. Len(pending) < MaxPending
      BY <3>2, <3>3
    <3>5. pending' = Append(pending, Head(ch))
      BY <3>1, <3>4 DEF EnqueuePending
    <3>6. Underway' = Underway
      <4>1. ch # <<>> /\ UNCHANGED <<batch, wire>> /\ pending' = Append(pending, Head(ch)) /\ ch' = Tail(ch)
        BY <2>1, <3>5
      <4> QED BY <4>1, UnderwayMoves
    <3>7. pendingErr' = pendingErr
      <4>1. pendingErr \in BOOLEAN /\ pendingErr' \in BOOLEAN
        BY ControlKept DEF ControlType
      <4> QED BY <3>2, <4>1, Zenon
    <3> QED BY <1>4, <2>1, <3>1, <3>6, <3>7
  <2>3. CASE ~hydrating
    <3>1. resting' = Applied(resting, Head(ch)) /\ UNCHANGED <<pending, pendingErr>>
      BY <1>22, <2>3 DEF OnOrderEvent, ApplyOrderEvent
    <3>2. hp["start"] = "idle" /\ hp["stream"] = "idle" /\ ~recovering
      BY <1>1, <2>1, <2>3 DEF HandInv
    <3>3. Covers(resting)
      BY <1>3, <2>1, <3>1, <3>2 DEF Current
    <3>4. Underway = {Head(ch)} \cup Underway'
      BY <2>1, <3>1, UnderwayMoves
    <3>5. Head(ch) \in Underway
      BY <3>4
    <3>6. Covers(resting)'
      BY <1>1, <2>1, <3>1, <3>3, <3>4, <3>5, CoversApplied DEF Covers
    <3> QED BY <2>1, <3>2, <3>6 DEF Current
  <2> QED BY <2>2, <2>3
<1>23. ASSUME NEW h \in Hydrators, HydrateStep(h) PROVE Claim'
  <2>1. stream = "running" /\ ~early /\ ~Waiting /\ hp[h] # "idle" /\ UNCHANGED <<open, pendingErr>>
    <3>1. stream = "running" /\ ~early /\ ~Waiting
      BY <1>23, WaitingHydrates
    <3>2. hp[h] # "idle" /\ UNCHANGED <<open, pendingErr>>
      BY <1>23 DEF HydrateStep, HydrateBegin, HydrateQuery, HydrateInstall, Handoff, ApplyBatch, exchangeVars, streamVars
    <3> QED BY <3>1, <3>2
  <2>2. Claim
    BY <1>2, <2>1
  <2>3. ASSUME NEW to, hp' = [hp EXCEPT ![h] = to]
        PROVE  hp'[h] = to /\ \A g \in Hydrators : g # h => hp'[g] = hp[g]
    BY <1>1, <2>3
  <2>4. \E to : hp' = [hp EXCEPT ![h] = to]
    BY <1>23 DEF HydrateStep, HydrateBegin, HydrateQuery, HydrateInstall, Handoff, ApplyBatch, Return
  <2>5. CASE h = "start" /\ hp["stream"] # "idle"
    <3>1. hp["stream"] = "begin"
      BY <1>1, <2>1, <2>5 DEF HandInv
    <3>2. hp'["stream"] = "begin"
      BY <1>1, <2>3, <2>4, <2>5, <3>1
    <3> QED BY <3>2 DEF Current
  <2>6. CASE h = "stream" \/ hp["stream"] = "idle"
    <3>1. Current = h
      BY <1>1, <2>1, <2>6 DEF Current
    <3>2. hgen[h] = generation \/ hp[h] = "begin"
      <4>1. CASE h = "stream"
        BY <1>1, <2>1, <4>1 DEF HandInv
      <4>2. CASE h = "start"
        BY <1>1, <2>1, <2>6, <4>2 DEF HandInv, Waiting
      <4> QED BY <1>1, <4>1, <4>2
    <3>3. ASSUME NEW to, to # "idle", hp' = [hp EXCEPT ![h] = to] PROVE Current' = h /\ hp'[Current'] = to
      BY <1>1, <2>3, <2>6, <3>3 DEF Current
    <3>4. ASSUME hp' = [hp EXCEPT ![h] = "idle"], ~(hp[h] = "begin") PROVE hp'[Current'] = "idle"
      <4>1. CASE h = "start"
        BY <1>1, <2>3, <2>6, <3>4, <4>1 DEF Current
      <4>2. CASE h = "stream"
        <5>1. hp["start"] = "idle"
          BY <1>1, <2>1, <3>4, <4>2 DEF HandInv
        <5> QED BY <1>1, <2>3, <3>4, <4>2, <5>1 DEF Current
      <4> QED BY <1>1, <4>1, <4>2
    <3>5. CASE HydrateBegin(h)
      <4>1. hp' = [hp EXCEPT ![h] = "query"]
        BY <3>5 DEF HydrateBegin
      <4>2. hp'[Current'] = "query"
        BY <3>3, <4>1
      <4> QED BY <4>2
    <3>6. CASE HydrateQuery(h)
      <4>1. hp[h] = "query" /\ hgen[h] = generation
        BY <3>2, <3>6 DEF HydrateQuery
      <4>2. hp' = [hp EXCEPT ![h] = "install"] /\ snapshot' = open
        BY <3>6, <4>1 DEF HydrateQuery, Return
      <4>3. hp'[Current'] = "install"
        BY <3>3, <4>2
      <4> QED BY <2>1, <4>2, <4>3 DEF Covers
    <3>7. CASE HydrateInstall(h)
      <4>1. /\ hp[h] = "install" /\ hp' = [hp EXCEPT ![h] = "handoff"] /\ resting' = snapshot
            /\ UNCHANGED <<wire, ch, pending, batch>>
        BY <3>7 DEF HydrateInstall, wsVars, streamVars
      <4>2. hp'[Current'] = "handoff" /\ Underway' = Underway
        BY <3>3, <4>1, UnderwayMoves
      <4> QED BY <2>1, <2>2, <3>1, <4>1, <4>2 DEF Covers
    <3>8. CASE Handoff(h)
      <4>1. hp[h] = "handoff" /\ UNCHANGED <<resting, ch, wire>>
        BY <3>8 DEF Handoff, wsVars
      <4>2. hgen[h] = generation
        BY <3>2, <4>1
      <4>3. \/ UNCHANGED <<pending, batch>> /\ hp' = [hp EXCEPT ![h] = "idle"]
            \/ batch' = [batch EXCEPT ![h] = pending] /\ pending' = <<>> /\ hp' = [hp EXCEPT ![h] = "apply"]
        BY <3>8, <4>2 DEF Handoff, Return, StaleGeneration
      <4>4. batch[h] = <<>>
        BY <4>1 DEF BatchInv
      <4>5. Underway' = Underway
        BY <4>1, <4>3, <4>4, UnderwayMoves, UnderwayTaken
      <4>6. hp'[Current'] \in {"idle", "apply"}
        BY <3>3, <3>4, <4>1, <4>3
      <4> QED BY <2>1, <2>2, <3>1, <4>1, <4>5, <4>6 DEF Covers
    <3>9. CASE ApplyBatch(h)
      <4>1. /\ hp[h] = "apply" /\ UNCHANGED <<pending, ch, wire>> /\ resting' = Applied(resting, Head(batch[h]))
            /\ batch' = [batch EXCEPT ![h] = Tail(batch[h])]
            /\ (hp' = [hp EXCEPT ![h] = "handoff"] \/ hp' = [hp EXCEPT ![h] = "apply"])
        BY <3>9 DEF ApplyBatch, ApplyOrderEvent, wsVars, streamVars
      <4>2. hp'[Current'] \in {"handoff", "apply"}
        BY <3>3, <4>1
      <4>3. batch[h] # <<>>
        BY <4>1 DEF BatchInv
      <4>4. Underway = {Head(batch[h])} \cup Underway'
        BY <4>1, <4>3, UnderwayTaken
      <4>5. Head(batch[h]) \in Underway
        BY <4>4
      <4>6. Covers(resting)
        BY <2>2, <3>1, <4>1
      <4>7. Covers(resting)'
        BY <1>1, <2>1, <4>1, <4>4, <4>5, <4>6, CoversApplied DEF Covers
      <4> QED BY <4>2, <4>7
    <3> QED BY <1>23, <3>5, <3>6, <3>7, <3>8, <3>9 DEF HydrateStep
  <2> QED BY <1>1, <2>5, <2>6
<1> HIDE DEF Claim
<1> QED BY <1>5, <1>7, <1>8, <1>9, <1>10, <1>12, <1>13, <1>14, <1>16, <1>17, <1>18, <1>19, <1>20, <1>21, <1>22, <1>23
        DEF Next, ClientStep, SelectStep, CycleStep

RecoveringInv == ExposureInv /\ ControlType /\ LockInv /\ HandInv /\ NewsInv /\ TruthInv /\ CoverInv

LEMMA RecoveringInit == ASSUME Init PROVE RecoveringInv
<1>1. ExposureInv
  BY ExposureInit
<1>2. ControlType
  <2>1. connEvents = <<>> /\ generation = 0 /\ hydrating = FALSE /\ recovering = FALSE /\ pendingErr = FALSE
        /\ hgen = [h \in Hydrators |-> 0]
    BY DEF Init
  <2>2. <<>> \in Seq({"reconnecting", "connected"})
    OBVIOUS
  <2> QED BY <2>1, <2>2 DEF ControlType
<1>3. LockInv
  BY DEF Init, LockInv
<1>4. \A h \in Hydrators : hp[h] = "idle"
  BY DEF Init
<1>5. HandInv
  BY <1>4, HydratorsAre DEF Init, HandInv
<1>6. NewsInv /\ CoverInv
  BY DEF Init, NewsInv, CoverInv
<1>7. TruthInv
  <2>1. \A id \in Ids : open[id] = NoOrder
    BY DEF Init, Nobody
  <2>2. Underway = {}
    BY RangeEmpty, HydratorsAre DEF Init, Underway
  <2> QED BY <2>1, <2>2 DEF TruthInv
<1> QED BY <1>1, <1>2, <1>3, <1>5, <1>6, <1>7 DEF RecoveringInv

\* A stream that has caught up forgets no open order (reconciler_stream.go), however
\* often connections dropped, hydrations were overtaken by newer ones, batches
\* overflowed and calls failed, and whatever cycles ran meanwhile; unless a
\* connection event made it hydrate before the feeds were back (early).
THEOREM NothingForgotten == Spec => []NoOrderForgotten
<1>1. Init => RecoveringInv
  BY RecoveringInit
<1>2. RecoveringInv /\ [Next]_vars => RecoveringInv'
  <2> SUFFICES ASSUME RecoveringInv, [Next]_vars PROVE RecoveringInv'
    OBVIOUS
  <2>1. /\ BookType /\ BatchInv /\ CancelInv /\ ControlType /\ LockInv /\ HandInv /\ NewsInv /\ TruthInv /\ CoverInv
        /\ ExposureInv
    BY DEF RecoveringInv, ExposureInv
  <2>2. ExposureInv' /\ ControlType' /\ LockInv' /\ HandInv'
    BY <2>1, ExposureKept, ControlKept, LockKept, HandKept
  <2>3. NewsInv' /\ TruthInv' /\ CoverInv'
    BY <2>1, NewsKept, TruthKept, CoverKept
  <2> QED BY <2>2, <2>3 DEF RecoveringInv
<1>3. RecoveringInv => NoOrderForgotten
  <2> SUFFICES ASSUME RecoveringInv, Settled, ~early, NEW id \in Ids, open[id] # NoOrder PROVE resting[id] # NoOrder
    BY DEF NoOrderForgotten
  <2>1. BatchInv /\ HandInv /\ CoverInv
    BY DEF RecoveringInv, ExposureInv
  <2>2. /\ stream = "running" /\ ~hydrating /\ wire = <<>> /\ ch = <<>> /\ Len(connEvents) = 0
        /\ hp["start"] = "idle" /\ hp["stream"] = "idle"
    BY HydratorsAre DEF Settled
  <2>3. ~Waiting /\ ~pendingErr /\ pending = <<>>
    BY <2>1, <2>2 DEF HandInv, Waiting, Lost
  <2>4. batch["start"] = <<>> /\ batch["stream"] = <<>>
    BY <2>1, <2>2, HydratorsAre DEF BatchInv
  <2>5. Underway = {}
    BY <2>2, <2>3, <2>4, RangeEmpty DEF Underway
  <2>6. Covers(resting)
    BY <2>1, <2>2, <2>3 DEF CoverInv, Current
  <2> QED BY <2>5, <2>6 DEF Covers
<1> QED BY <1>1, <1>2, <1>3, PTL DEF Spec

-----------------------------------------------------------------------------
(***************************************************************************)
(* The diff of Sync.                                                       *)
(***************************************************************************)

\* Induction up to n, of the set of numbers that have a property.
LEMMA UpTo ==
  ASSUME NEW n \in Nat, NEW S, 0 \in S, \A k \in 0 .. n - 1 : k \in S => k + 1 \in S
  PROVE  \A k \in 0 .. n : k \in S
<1> DEFINE T == {k \in 0 .. n : k \notin S}
<1>1. SUFFICES ASSUME T # {} PROVE FALSE
  OBVIOUS
<1>2. T \subseteq Nat
  OBVIOUS
<1> HIDE DEF T
<1>3. PICK x \in T : \A y \in T : ~(<<y, x>> \in OpToRel(<, Nat))
  BY <1>1, <1>2, NatLessThanWellFounded, WFMin
<1>4. x \in 1 .. n /\ x \notin S
  BY DEF T
<1>5. x - 1 \in T
  BY <1>4 DEF T
<1>6. x - 1 \in Nat /\ x \in Nat /\ x - 1 < x
  BY <1>4
<1>7. <<x - 1, x>> \in OpToRel(<, Nat)
  BY <1>6 DEF OpToRel
<1> QED BY <1>3, <1>5, <1>7

\* The smallest of some orders.
LEMMA Oldest ==
  ASSUME NEW S \in SUBSET Ids, S # {}
  PROVE  Min(S) \in S /\ \A y \in S : Min(S) <= y
<1>1. S \subseteq Nat
  BY Constants DEF Ids
<1>2. PICK x \in S : \A y \in S : ~(<<y, x>> \in OpToRel(<, Nat))
  BY <1>1, NatLessThanWellFounded, WFMin
<1>3. ASSUME NEW y \in S PROVE x <= y
  <2>1. x \in Nat /\ y \in Nat /\ <<y, x>> \in Nat \X Nat
    BY <1>1
  <2>2. <<y, x>> \in OpToRel(<, Nat) <=> y < x
    BY <2>1 DEF OpToRel
  <2>3. ~(<<y, x>> \in OpToRel(<, Nat))
    BY <1>2, Zenon
  <2>4. ~(y < x)
    BY <2>2, <2>3
  <2> QED BY <2>1, <2>4
<1> QED BY <1>3 DEF Min

LEMMA TargetsAre ==
  ASSUME NEW targets \in Targets
  PROVE  /\ Len(targets) \in Nat /\ DOMAIN targets = 1 .. Len(targets)
         /\ \A i \in 1 .. Len(targets) : targets[i] \in Prices
         /\ \A i, j \in 1 .. Len(targets) : i # j => targets[i] # targets[j]
<1>1. PICK k \in 0 .. MaxTargets : targets \in [1 .. k -> Prices]
  BY DEF Targets
<1>2. k \in Nat
  BY QuoteReconcilerAssumption
<1>3. targets \in Seq(Prices)
  BY <1>1, <1>2
<1>4. Len(targets) \in Nat /\ DOMAIN targets = 1 .. Len(targets)
  BY <1>3
<1> QED BY <1>3, <1>4 DEF Targets

\* What each of the targets adds to what is kept.
IsKept(f, targets, n) ==
  f = [k \in 0 .. n |-> IF k = 0 THEN {} ELSE Keep(f[k - 1], targets[k])]

LEMMA KeptExists ==
  ASSUME NEW targets, NEW n \in Nat
  PROVE  \E f : IsKept(f, targets, n)
<1> DEFINE S == {m \in Nat : \E f : IsKept(f, targets, m)}
<1>1. 0 \in S
  <2>1. IsKept([k \in 0 .. 0 |-> {}], targets, 0)
    BY DEF IsKept
  <2> QED BY <2>1
<1>2. ASSUME NEW m \in 0 .. n - 1, m \in S PROVE m + 1 \in S
  <2>1. PICK g : IsKept(g, targets, m)
    BY <1>2
  <2> DEFINE f == [k \in 0 .. m + 1 |-> IF k = m + 1 THEN Keep(g[m], targets[m + 1]) ELSE g[k]]
  <2>2. ASSUME NEW k \in 0 .. m + 1
        PROVE  f[k] = IF k = 0 THEN {} ELSE Keep(f[k - 1], targets[k])
    <3>1. m \in Nat /\ f[k] = IF k = m + 1 THEN Keep(g[m], targets[m + 1]) ELSE g[k]
      OBVIOUS
    <3>2. k # 0 => k - 1 \in 0 .. m /\ f[k - 1] = g[k - 1]
      BY <3>1
    <3>3. k # m + 1 => g[k] = IF k = 0 THEN {} ELSE Keep(g[k - 1], targets[k])
      <4>1. \A j \in 0 .. m : g[j] = IF j = 0 THEN {} ELSE Keep(g[j - 1], targets[j])
        BY <2>1 DEF IsKept
      <4>2. k # m + 1 => k \in 0 .. m
        BY <3>1
      <4> QED BY <4>1, <4>2
    <3> HIDE DEF f
    <3>4. CASE k = m + 1
      <4>1. k # 0 /\ k - 1 = m
        BY <3>1, <3>4
      <4> QED BY <3>1, <3>2, <3>4, <4>1
    <3>5. CASE k # m + 1
      BY <3>1, <3>2, <3>3, <3>5
    <3> QED BY <3>4, <3>5
  <2>3. f = [k \in 0 .. m + 1 |-> IF k = 0 THEN {} ELSE Keep(f[k - 1], targets[k])]
    BY <2>2
  <2> HIDE DEF f
  <2>4. IsKept(f, targets, m + 1)
    BY <2>3 DEF IsKept
  <2> QED BY <2>4
<1> HIDE DEF S
<1>3. \A k \in 0 .. n : k \in S
  BY <1>1, <1>2, UpTo
<1>4. n \in S
  BY <1>3
<1> QED BY <1>4 DEF S

LEMMA KeptIs ==
  ASSUME NEW targets \in Targets
  PROVE  /\ Kept(targets)[0] = {}
         /\ \A k \in 1 .. Len(targets) :
              Kept(targets)[k] = Keep(Kept(targets)[k - 1], targets[k])
<1> DEFINE n == Len(targets)
           f == Kept(targets)
<1>1. n \in Nat
  BY TargetsAre
<1>2. f = CHOOSE g : g = [k \in 0 .. n |-> IF k = 0 THEN {} ELSE Keep(g[k - 1], targets[k])]
  BY DEF Kept
<1>3. \E g : g = [k \in 0 .. n |-> IF k = 0 THEN {} ELSE Keep(g[k - 1], targets[k])]
  BY <1>1, KeptExists DEF IsKept
<1> HIDE DEF f
<1>4. f = [k \in 0 .. n |-> IF k = 0 THEN {} ELSE Keep(f[k - 1], targets[k])]
  BY <1>2, <1>3
<1>5. \A k \in 0 .. n : f[k] = IF k = 0 THEN {} ELSE Keep(f[k - 1], targets[k])
  BY <1>4
<1> QED BY <1>1, <1>5 DEF f

\* What a target does to what is kept.
LEMMA KeepAdds ==
  ASSUME NEW kept, NEW p
  PROVE  \/ Keep(kept, p) = kept
         \/ \E id \in Ids \ kept :
              /\ Keep(kept, p) = kept \cup {id} /\ Matches(resting[id], p)
              /\ \A i \in Ids \ kept : Matches(resting[i], p) => id <= i
<1> DEFINE fits == {id \in Ids \ kept : Matches(resting[id], p)}
<1>1. CASE fits = {}
  BY <1>1 DEF Keep
<1>2. CASE fits # {}
  <2>1. Min(fits) \in fits /\ \A i \in fits : Min(fits) <= i
    BY <1>2, Oldest
  <2>2. Keep(kept, p) = kept \cup {Min(fits)}
    BY <1>2 DEF Keep
  <2> QED BY <2>1, <2>2
<1> QED BY <1>1, <1>2

\* The kept orders rest, and no younger order is kept before its equal.
LEMMA KeptRest ==
  ASSUME NEW targets \in Targets
  PROVE  \A k \in 0 .. Len(targets) :
           /\ \A id \in Kept(targets)[k] : id \in Ids /\ resting[id] # NoOrder
           /\ \A i, j \in Ids :
                i < j /\ resting[i] = resting[j] /\ j \in Kept(targets)[k] => i \in Kept(targets)[k]
<1> DEFINE n == Len(targets)
           K == Kept(targets)
           Good(k) == /\ \A id \in K[k] : id \in Ids /\ resting[id] # NoOrder
                      /\ \A i, j \in Ids : i < j /\ resting[i] = resting[j] /\ j \in K[k] => i \in K[k]
           S == {k \in 0 .. n : Good(k)}
<1>1. n \in Nat
  BY TargetsAre
<1>2. K[0] = {} /\ \A k \in 1 .. n : K[k] = Keep(K[k - 1], targets[k])
  BY KeptIs
<1> HIDE DEF K
<1>3. 0 \in S
  BY <1>1, <1>2
<1>4. ASSUME NEW k \in 0 .. n - 1, k \in S PROVE k + 1 \in S
  <2>1. k + 1 \in 1 .. n /\ (k + 1) - 1 = k
    BY <1>1
  <2>2. K[k + 1] = Keep(K[k], targets[k + 1])
    BY <1>2, <2>1
  <2>3. Good(k)
    BY <1>4
  <2>4. CASE K[k + 1] = K[k]
    BY <2>1, <2>3, <2>4
  <2>5. ASSUME NEW id \in Ids \ K[k], K[k + 1] = K[k] \cup {id}, Matches(resting[id], targets[k + 1]),
               \A i \in Ids \ K[k] : Matches(resting[i], targets[k + 1]) => id <= i
        PROVE  k + 1 \in S
    <3>1. \A i \in K[k + 1] : i \in Ids /\ resting[i] # NoOrder
      BY <2>3, <2>5 DEF Matches
    <3>2. ASSUME NEW i \in Ids, NEW j \in Ids, i < j, resting[i] = resting[j], j \in K[k + 1]
          PROVE  i \in K[k + 1]
      <4>1. CASE j \in K[k]
        BY <2>3, <2>5, <3>2, <4>1
      <4>2. CASE j = id
        <5>1. i \notin K[k] => id <= i
          BY <2>5, <3>2, <4>2
        <5>2. i \in Nat /\ id \in Nat
          BY Constants DEF Ids
        <5> QED BY <2>5, <3>2, <4>2, <5>1, <5>2
      <4> QED BY <2>5, <3>2, <4>1, <4>2
    <3> QED BY <2>1, <3>1, <3>2
  <2> QED BY <2>2, <2>4, <2>5, KeepAdds
<1>5. \A k \in 0 .. n : k \in S
  BY <1>1, <1>3, <1>4, UpTo
<1> QED BY <1>5 DEF K

\* Every target keeps an order that matches or is to be placed, once.
Missing(targets, k) ==
  {targets[i] : i \in {j \in 1 .. k : Kept(targets)[j] = Kept(targets)[j - 1]}}

LEMMA KeptCounts ==
  ASSUME NEW targets \in Targets
  PROVE  \A k \in 0 .. Len(targets) :
           /\ IsFiniteSet(Kept(targets)[k]) /\ IsFiniteSet(Missing(targets, k))
           /\ Cardinality(Kept(targets)[k]) + Cardinality(Missing(targets, k)) = k
           /\ \A i \in 1 .. k : targets[i] \in Missing(targets, k)
                \/ \E id \in Kept(targets)[k] : Matches(resting[id], targets[i])
<1> DEFINE n == Len(targets)
           K == Kept(targets)
           M(k) == Missing(targets, k)
           Covered(i, k) == targets[i] \in M(k) \/ \E id \in K[k] : Matches(resting[id], targets[i])
           Good(k) == /\ IsFiniteSet(K[k]) /\ IsFiniteSet(M(k))
                      /\ Cardinality(K[k]) + Cardinality(M(k)) = k
                      /\ \A i \in 1 .. k : Covered(i, k)
           S == {k \in 0 .. n : Good(k)}
<1>1. n \in Nat /\ \A i, j \in 1 .. n : i # j => targets[i] # targets[j]
  BY TargetsAre
<1>2. K[0] = {} /\ \A k \in 1 .. n : K[k] = Keep(K[k - 1], targets[k])
  BY KeptIs
<1>3. \A k : M(k) = {targets[i] : i \in {j \in 1 .. k : K[j] = K[j - 1]}}
  BY DEF Missing
<1> HIDE DEF K, M
<1>4. 0 \in S
  <2>1. M(0) = {} /\ K[0] = {}
    BY <1>2, <1>3
  <2>2. IsFiniteSet(K[0]) /\ IsFiniteSet(M(0)) /\ Cardinality(K[0]) + Cardinality(M(0)) = 0
    BY <2>1, FS_EmptySet
  <2>3. 0 \in 0 .. n
    BY <1>1
  <2>4. \A i \in 1 .. 0 : Covered(i, 0)
    OBVIOUS
  <2> QED BY <2>2, <2>3, <2>4
<1>5. ASSUME NEW k \in 0 .. n - 1, k \in S PROVE k + 1 \in S
  <2>1. k + 1 \in 1 .. n /\ (k + 1) - 1 = k /\ k \in Nat /\ k + 1 \in 0 .. n
    BY <1>1
  <2>2. K[k + 1] = Keep(K[k], targets[k + 1])
    BY <1>2, <2>1
  <2>3. Good(k)
    BY <1>5
  <2>4. /\ IsFiniteSet(K[k]) /\ IsFiniteSet(M(k)) /\ Cardinality(K[k]) \in Nat /\ Cardinality(M(k)) \in Nat
        /\ Cardinality(K[k]) + Cardinality(M(k)) = k
    BY <2>3, FS_CardinalityType
  <2>5. \A i \in 1 .. k + 1 : i \in 1 .. k \/ i = k + 1
    BY <2>1
  <2>6. CASE K[k + 1] = K[k]
    <3>1. M(k + 1) = M(k) \cup {targets[k + 1]}
      <4>1. {j \in 1 .. k + 1 : K[j] = K[j - 1]} = {j \in 1 .. k : K[j] = K[j - 1]} \cup {k + 1}
        BY <2>1, <2>6
      <4> QED BY <1>3, <4>1
    <3>2. targets[k + 1] \notin M(k)
      <4> SUFFICES ASSUME NEW j \in 1 .. k PROVE targets[j] # targets[k + 1]
        BY <1>3
      <4>1. j \in 1 .. n /\ j # k + 1
        BY <2>1
      <4> QED BY <1>1, <2>1, <4>1
    <3>3. IsFiniteSet(M(k + 1)) /\ Cardinality(M(k + 1)) = Cardinality(M(k)) + 1
      BY <2>4, <3>1, <3>2, FS_AddElement
    <3>4. \A i \in 1 .. k + 1 : Covered(i, k + 1)
      BY <2>3, <2>5, <2>6, <3>1
    <3>5. Cardinality(K[k + 1]) + Cardinality(M(k + 1)) = k + 1
      BY <2>1, <2>4, <2>6, <3>3
    <3> QED BY <2>1, <2>4, <2>6, <3>3, <3>4, <3>5
  <2>7. ASSUME NEW id \in Ids \ K[k], K[k + 1] = K[k] \cup {id}, Matches(resting[id], targets[k + 1])
        PROVE  k + 1 \in S
    <3>1. M(k + 1) = M(k)
      <4>1. K[k + 1] # K[(k + 1) - 1]
        BY <2>1, <2>7
      <4>2. {j \in 1 .. k + 1 : K[j] = K[j - 1]} = {j \in 1 .. k : K[j] = K[j - 1]}
        BY <2>1, <4>1
      <4> QED BY <1>3, <4>2
    <3>2. IsFiniteSet(K[k + 1]) /\ Cardinality(K[k + 1]) = Cardinality(K[k]) + 1
      <4>1. IsFiniteSet(K[k] \cup {id}) /\ Cardinality(K[k] \cup {id}) = Cardinality(K[k]) + 1
        BY <2>4, FS_AddElement
      <4> QED BY <2>7, <4>1
    <3>3. \A i \in 1 .. k + 1 : Covered(i, k + 1)
      BY <2>3, <2>5, <2>7, <3>1
    <3>4. Cardinality(K[k + 1]) + Cardinality(M(k + 1)) = k + 1
      BY <2>1, <2>4, <3>1, <3>2
    <3> QED BY <2>1, <2>4, <3>1, <3>2, <3>3, <3>4
  <2> QED BY <2>2, <2>6, <2>7, KeepAdds
<1>6. \A k \in 0 .. n : k \in S
  BY <1>1, <1>4, <1>5, UpTo
<1> QED BY <1>6 DEF K, M

\* The targets are as many as they are different.
LEMMA TargetsCount ==
  ASSUME NEW targets \in Targets
  PROVE  IsFiniteSet(Range(targets)) /\ Cardinality(Range(targets)) = Len(targets)
<1> DEFINE n == Len(targets)
           R(k) == {targets[i] : i \in 1 .. k}
           S == {k \in 0 .. n : IsFiniteSet(R(k)) /\ Cardinality(R(k)) = k}
<1>1. n \in Nat /\ DOMAIN targets = 1 .. n /\ \A i, j \in 1 .. n : i # j => targets[i] # targets[j]
  BY TargetsAre
<1>2. 0 \in S
  <2>1. R(0) = {}
    OBVIOUS
  <2> QED BY <1>1, <2>1, FS_EmptySet
<1>3. ASSUME NEW k \in 0 .. n - 1, k \in S PROVE k + 1 \in S
  <2>1. k + 1 \in 1 .. n /\ k \in Nat /\ k + 1 \in 0 .. n
    BY <1>1
  <2>2. R(k + 1) = R(k) \cup {targets[k + 1]}
    <3>1. 1 .. k + 1 = (1 .. k) \cup {k + 1}
      BY <2>1
    <3> QED BY <3>1
  <2>3. targets[k + 1] \notin R(k)
    <3> SUFFICES ASSUME NEW j \in 1 .. k PROVE targets[j] # targets[k + 1]
      OBVIOUS
    <3>1. j \in 1 .. n /\ j # k + 1
      BY <2>1
    <3> QED BY <1>1, <2>1, <3>1
  <2>4. IsFiniteSet(R(k)) /\ Cardinality(R(k)) = k
    BY <1>3
  <2> HIDE DEF R
  <2>5. IsFiniteSet(R(k + 1)) /\ Cardinality(R(k + 1)) = k + 1
    <3>1. /\ IsFiniteSet(R(k) \cup {targets[k + 1]})
          /\ Cardinality(R(k) \cup {targets[k + 1]}) = k + 1
      BY <2>3, <2>4, FS_AddElement
    <3> QED BY <2>2, <3>1
  <2> QED BY <2>1, <2>5
<1>4. \A k \in 0 .. n : k \in S
  BY <1>1, <1>2, <1>3, UpTo
<1>5. Range(targets) = R(n)
  BY <1>1 DEF Range
<1>6. n \in 0 .. n
  BY <1>1
<1>7. n \in S
  BY <1>4, <1>6
<1> QED BY <1>5, <1>7

\* What a Sync sets out to do.
LEMMA SyncPlans ==
  ASSUME NEW targets \in Targets, SyncStart(targets)
  PROVE  LET kept == Kept(targets)[Len(targets)] IN
         /\ phase' = "cancel" /\ cycle' = "sync" /\ cycle = "none"
         /\ wanted' = Range(targets) /\ toPlace' = Missing(targets, Len(targets))
         /\ \A id \in Ids : expected'[id] = IF resting[id] # NoOrder /\ id \notin kept THEN resting[id] ELSE NoOrder
<1> DEFINE n == Len(targets)
           kept == Kept(targets)[n]
<1>1. /\ phase' = "cancel" /\ cycle' = "sync" /\ cycle = "none" /\ wanted' = Range(targets)
      /\ toCancel' = {id \in Ids : resting[id] # NoOrder} \ kept
      /\ expected' = [id \in Ids |-> IF id \in toCancel' THEN resting[id] ELSE NoOrder]
      /\ toPlace' = {targets[k] : k \in {i \in 1 .. n : Kept(targets)[i] = Kept(targets)[i - 1]}}
  BY DEF SyncStart
<1>2. toPlace' = Missing(targets, n)
  BY <1>1 DEF Missing
<1> HIDE DEF kept
<1>3. \A id \in Ids : expected'[id] = IF resting[id] # NoOrder /\ id \notin kept THEN resting[id] ELSE NoOrder
  BY <1>1
<1> QED BY <1>1, <1>2, <1>3 DEF kept

\* Only a Sync begins one.
LEMMA SyncBegins ==
  ASSUME [Next]_vars, cycle = "none", cycle' = "sync"
  PROVE  \E targets \in Targets : SyncStart(targets)
<1>1. CASE OutsideStep \/ ClientStep \/ Drop \/ MalformedFrame \/ StartStreaming \/ StreamEnds \/ SelectStep
           \/ UNCHANGED vars
  BY <1>1 DEF OutsideStep, ClientStep, Deliver, Redial, Resubscribed, Drop, MalformedFrame, StartStreaming, StreamEnds,
              SelectStep, OnReconnecting, OnConnected, OnOrderEvent, cycleVars, vars
<1>2. ASSUME NEW h \in Hydrators, HydrateStep(h) PROVE FALSE
  BY <1>2, HydratorsAre DEF HydrateStep, HydrateBegin, HydrateQuery, HydrateInstall, Handoff, ApplyBatch, cycleVars
<1>3. CASE CycleStep
  BY <1>3 DEF CycleStep, CancelOne, CancelDone, EndCycle, PlaceOne, PlaceDone, PlainInstall
<1>4. CASE CancelAllStart \/ PlainHydrate \/ ContextEnds
  BY <1>4 DEF CancelAllStart, PlainHydrate, ContextEnds
<1> QED BY <1>1, <1>2, <1>3, <1>4 DEF Next

\* Of two equal resting orders Sync never cancels the older one to keep the younger
\* (restingOrdersByAge), for any orders, targets and tolerance.
THEOREM OldestOrdersKept == Spec => OldestKept
<1> DEFINE Step == cycle = "none" /\ cycle' = "sync" =>
             \A i, j \in DOMAIN resting :
               i < j /\ resting[i] # NoOrder /\ resting[i] = resting[j] /\ expected'[j] = NoOrder
                 => expected'[i] = NoOrder
<1>1. Init => ExposureInv
  BY ExposureInit
<1>2. ExposureInv /\ [Next]_vars => ExposureInv'
  BY ExposureKept
<1>3. ExposureInv /\ [Next]_vars => Step
  <2> SUFFICES ASSUME ExposureInv, [Next]_vars, cycle = "none", cycle' = "sync",
                      NEW i \in DOMAIN resting, NEW j \in DOMAIN resting,
                      i < j, resting[i] # NoOrder, resting[i] = resting[j], expected'[j] = NoOrder
               PROVE  expected'[i] = NoOrder
    OBVIOUS
  <2>1. PICK targets \in Targets : SyncStart(targets)
    BY SyncBegins
  <2> DEFINE kept == Kept(targets)[Len(targets)]
  <2>2. \A id \in Ids : expected'[id] = IF resting[id] # NoOrder /\ id \notin kept THEN resting[id] ELSE NoOrder
    BY <2>1, SyncPlans
  <2>3. i \in Ids /\ j \in Ids
    BY DEF ExposureInv, BookType, Ledgers
  <2>4. Len(targets) \in 0 .. Len(targets)
    BY TargetsAre
  <2>5. j \in kept => i \in kept
    BY <2>3, <2>4, KeptRest
  <2> HIDE DEF kept
  <2> QED BY <2>2, <2>3, <2>5
<1>4. ExposureInv /\ [Next]_vars => [Step]_vars
  BY <1>3
<1> QED BY <1>1, <1>2, <1>3, PTL DEF Spec, OldestKept

-----------------------------------------------------------------------------
(***************************************************************************)
(* Cycles without a stream.                                                *)
(***************************************************************************)
RestingIds == {id \in Ids : resting[id] # NoOrder}
PlacedIds == {pl[1] : pl \in placed}

\* What the cycle lets rest.
Survivors == {id \in Ids : resting[id] # NoOrder /\ expected[id] = NoOrder}

NoStream == stream = "none" /\ \A h \in Hydrators : hp[h] = "idle"

\* Between two cycles there is nothing to do.
IdleInv ==
  /\ phase # "none" => cycle \in {"sync", "cancelAll"}
  /\ phase = "none" => toPlace = {} /\ placed = {} /\ ~errs
  /\ IsFiniteSet(wanted) /\ IsFiniteSet(toPlace)

\* While it cancels, the ledger is as the cycle saw it: the orders it keeps and
\* those it is to place make up the targets.
PlanInv ==
  phase = "cancel" =>
    /\ placed = {}
    /\ \A id \in Ids : expected[id] # NoOrder => expected[id] = resting[id]
    /\ cycle = "sync" =>
         /\ Cardinality(Survivors) + Cardinality(toPlace) = Cardinality(wanted)
         /\ \A p \in wanted : p \in toPlace \/ \E id \in Survivors : Matches(resting[id], p)

\* While it places, and nothing failed, each target has its order, has one on the
\* exchange, or is to be placed.
PlaceInv ==
  phase = "place" /\ ~errs =>
    /\ \A pl, ql \in placed : pl[1] = ql[1] => pl = ql
    /\ \A id \in PlacedIds : resting[id] = NoOrder
    /\ Cardinality(RestingIds) + Cardinality(PlacedIds) + Cardinality(toPlace) = Cardinality(wanted)
    /\ \A p \in wanted :
         \/ p \in toPlace
         \/ \E id \in Ids : Matches(resting[id], p)
         \/ \E pl \in placed : pl[2] = p

CycleInv == NoStream /\ IdleInv /\ PlanInv /\ PlaceInv

\* Before the application starts a stream.
UnstreamedInv == stream = "none" => CycleInv

LEMMA CycleInit == ASSUME Init PROVE CycleInv
<1>1. NoStream /\ PlanInv /\ PlaceInv
  BY DEF Init, NoStream, PlanInv, PlaceInv
<1>2. IdleInv
  BY FS_EmptySet DEF Init, IdleInv
<1> QED BY <1>1, <1>2 DEF CycleInv

\* Steps that leave the cycle and the ledger alone.
LEMMA CycleStays ==
  ASSUME CycleInv, UNCHANGED <<resting, cycleVars, stream, hp>> PROVE CycleInv'
<1>1. UNCHANGED <<cycle, phase, wanted, expected, toPlace, placed, errs, stream, hp, resting>>
  BY DEF cycleVars
<1>2. Survivors' = Survivors /\ RestingIds' = RestingIds /\ PlacedIds' = PlacedIds
  BY <1>1 DEF Survivors, RestingIds, PlacedIds
<1>3. NoStream' /\ IdleInv'
  BY <1>1 DEF CycleInv, NoStream, IdleInv
<1>4. PlanInv'
  BY <1>1, <1>2 DEF CycleInv, PlanInv, Matches
<1>5. PlaceInv'
  BY <1>1, <1>2 DEF CycleInv, PlaceInv, Matches
<1> QED BY <1>3, <1>4, <1>5 DEF CycleInv

\* Sync keeps and places as many orders as it has targets.
LEMMA SyncPlanned ==
  ASSUME BookType, CycleInv, NEW targets \in Targets, SyncStart(targets)
  PROVE  CycleInv'
<1> DEFINE n == Len(targets)
           kept == Kept(targets)[n]
<1>1. /\ phase' = "cancel" /\ cycle' = "sync" /\ cycle = "none"
      /\ wanted' = Range(targets) /\ toPlace' = Missing(targets, n)
      /\ \A id \in Ids : expected'[id] = IF resting[id] # NoOrder /\ id \notin kept THEN resting[id] ELSE NoOrder
  BY SyncPlans
<1>2. UNCHANGED <<resting, stream, hp, placed>>
  BY DEF SyncStart, streamVars, hydrateVars
<1>3. n \in 0 .. n /\ DOMAIN targets = 1 .. n
  BY TargetsAre
<1>4. \A id \in kept : id \in Ids /\ resting[id] # NoOrder
  BY <1>3, KeptRest
<1>5. /\ IsFiniteSet(Missing(targets, n))
      /\ Cardinality(kept) + Cardinality(Missing(targets, n)) = n
      /\ \A i \in 1 .. n : targets[i] \in Missing(targets, n) \/ \E id \in kept : Matches(resting[id], targets[i])
  BY <1>3, KeptCounts
<1> HIDE DEF kept
<1>6. Survivors' = kept
  BY <1>1, <1>2, <1>4 DEF Survivors
<1>7. IsFiniteSet(wanted') /\ Cardinality(wanted') = n
  BY <1>1, TargetsCount
<1>8. placed' = {}
  BY <1>1, <1>2 DEF CycleInv, IdleInv
<1>9. \A p \in wanted' : p \in toPlace' \/ \E id \in Survivors' : Matches(resting'[id], p)
  <2> SUFFICES ASSUME NEW i \in 1 .. n
               PROVE  targets[i] \in toPlace' \/ \E id \in Survivors' : Matches(resting'[id], targets[i])
    BY <1>1, <1>3 DEF Range
  <2> QED BY <1>1, <1>2, <1>5, <1>6
<1>10. NoStream'
  BY <1>2 DEF CycleInv, NoStream
<1>11. IdleInv'
  BY <1>1, <1>5, <1>7 DEF IdleInv
<1>12. \A id \in Ids : expected'[id] # NoOrder => expected'[id] = resting'[id]
  BY <1>1, <1>2
<1>13. Cardinality(Survivors') + Cardinality(toPlace') = Cardinality(wanted')
  BY <1>1, <1>5, <1>6, <1>7
<1>14. PlanInv'
  BY <1>8, <1>9, <1>12, <1>13 DEF PlanInv, Matches
<1>15. PlaceInv'
  BY <1>1 DEF PlaceInv
<1> QED BY <1>10, <1>11, <1>14, <1>15 DEF CycleInv

\* What was cancelled leaves the ledger, and nothing else.
LEMMA CancelsRecorded ==
  ASSUME BookType, CancelInv, CycleInv, CancelDone PROVE CycleInv'
<1>1. /\ phase = "cancel" /\ toCancel = {} /\ UNCHANGED <<stream, hp>>
      /\ resting' = [id \in Ids |-> IF id \in cancelled /\ SameRestingOrder(id) THEN NoOrder ELSE resting[id]]
  BY DEF CancelDone, streamVars, hydrateVars
<1>2. NoStream'
  BY <1>1 DEF CycleInv, NoStream
<1>3. CASE ~Placing
  <2>1. /\ phase' = "none" /\ wanted' = {} /\ toPlace' = {} /\ placed' = {} /\ errs' = FALSE
    BY <1>3 DEF CancelDone, EndCycle
  <2>2. IdleInv' /\ PlanInv' /\ PlaceInv'
    BY <2>1, FS_EmptySet DEF IdleInv, PlanInv, PlaceInv
  <2> QED BY <1>2, <2>2 DEF CycleInv
<1>4. CASE Placing
  <2>1. phase' = "place" /\ UNCHANGED <<cycle, wanted, expected, toCancel, toPlace, cancelled, placed, errs>>
    BY <1>4 DEF CancelDone
  <2>2. cycle = "sync" /\ ~errs
    BY <1>4 DEF Placing
  <2>3. /\ placed = {}
        /\ \A id \in Ids : expected[id] # NoOrder => expected[id] = resting[id]
        /\ Cardinality(Survivors) + Cardinality(toPlace) = Cardinality(wanted)
        /\ \A p \in wanted : p \in toPlace \/ \E id \in Survivors : Matches(resting[id], p)
    BY <1>1, <2>2 DEF CycleInv, PlanInv
  <2>4. ASSUME NEW id \in Ids
        PROVE  IF id \in Survivors THEN resting'[id] = resting[id] /\ resting'[id] # NoOrder ELSE resting'[id] = NoOrder
    <3>1. resting'[id] = IF id \in cancelled /\ resting[id] = expected[id] THEN NoOrder ELSE resting[id]
      BY <1>1 DEF SameRestingOrder
    <3>2. expected[id] # NoOrder => id \in cancelled
      BY <1>1, <2>2 DEF CancelInv
    <3> QED BY <2>3, <3>1, <3>2 DEF Survivors
  <2>5. RestingIds' = Survivors
    BY <2>4 DEF RestingIds, Survivors
  <2>6. PlacedIds' = {}
    BY <2>1, <2>3 DEF PlacedIds
  <2>7. Cardinality(RestingIds') + Cardinality(PlacedIds') + Cardinality(toPlace') = Cardinality(wanted')
    <3>1. IsFiniteSet(toPlace) /\ Cardinality(toPlace) \in Nat
      BY FS_CardinalityType DEF CycleInv, IdleInv
    <3>2. IsFiniteSet(Survivors) /\ Cardinality(Survivors) \in Nat
      <4>1. IsFiniteSet(Ids)
        BY Constants, FS_Interval DEF Ids
      <4>2. Survivors \in SUBSET Ids
        BY DEF Survivors
      <4> QED BY <4>1, <4>2, FS_Subset, FS_CardinalityType
    <3> QED BY <2>1, <2>3, <2>5, <2>6, <3>1, <3>2, FS_EmptySet
  <2>8. \A p \in wanted' : p \in toPlace' \/ \E id \in Ids : Matches(resting'[id], p)
    BY <2>1, <2>3, <2>4 DEF Survivors
  <2>9. PlaceInv'
    BY <2>1, <2>3, <2>6, <2>7, <2>8 DEF PlaceInv, Matches
  <2>10. IdleInv' /\ PlanInv'
    BY <2>1, <2>2 DEF CycleInv, IdleInv, PlanInv
  <2> QED BY <1>2, <2>9, <2>10 DEF CycleInv
<1> QED BY <1>3, <1>4

LEMMA IdsFinite ==
  ASSUME BookType
  PROVE  /\ IsFiniteSet(RestingIds) /\ Cardinality(RestingIds) \in Nat
         /\ IsFiniteSet(PlacedIds) /\ Cardinality(PlacedIds) \in Nat /\ PlacedIds \subseteq 1 .. nextId - 1
<1>1. IsFiniteSet(Ids)
  BY Constants, FS_Interval DEF Ids
<1>2. RestingIds \in SUBSET Ids
  BY DEF RestingIds
<1>3. PlacedIds \subseteq 1 .. nextId - 1
  BY DEF BookType, PlacedIds
<1>4. PlacedIds \in SUBSET Ids
  BY <1>3, KnownIds
<1> QED BY <1>1, <1>2, <1>3, <1>4, FS_Subset, FS_CardinalityType

\* An answered placement is an order more and a target less.
LEMMA PlacementKept ==
  ASSUME BookType, CycleInv, NEW p \in Prices, PlaceOne(p) PROVE CycleInv'
<1>1. /\ phase = "place" /\ p \in toPlace /\ toPlace' = toPlace \ {p}
      /\ UNCHANGED <<resting, stream, hp, cycle, phase, wanted, expected>>
  BY DEF PlaceOne, streamVars, hydrateVars
<1>2. IsFiniteSet(toPlace) /\ Cardinality(toPlace) \in Nat
  BY FS_CardinalityType DEF CycleInv, IdleInv
<1>3. IsFiniteSet(toPlace') /\ Cardinality(toPlace') = Cardinality(toPlace) - 1
  <2>1. /\ IsFiniteSet(toPlace \ {p}) /\ Cardinality(toPlace \ {p}) = Cardinality(toPlace) - 1
    BY <1>1, <1>2, FS_RemoveElement
  <2> QED BY <1>1, <2>1
<1>4. NoStream' /\ IdleInv' /\ PlanInv'
  BY <1>1, <1>3 DEF CycleInv, NoStream, IdleInv, PlanInv
<1>5. CASE errs' = TRUE
  BY <1>4, <1>5 DEF CycleInv, PlaceInv
<1>6. CASE NewOrder(p) /\ placed' = placed \cup {<<nextId, p>>} /\ errs' = errs
  <2> SUFFICES ASSUME ~errs PROVE PlaceInv'
    BY <1>4, <1>6 DEF CycleInv, PlaceInv
  <2>1. /\ \A pl, ql \in placed : pl[1] = ql[1] => pl = ql
        /\ \A id \in PlacedIds : resting[id] = NoOrder
        /\ Cardinality(RestingIds) + Cardinality(PlacedIds) + Cardinality(toPlace) = Cardinality(wanted)
        /\ \A q \in wanted :
             q \in toPlace \/ (\E id \in Ids : Matches(resting[id], q)) \/ \E pl \in placed : pl[2] = q
    BY <1>1 DEF CycleInv, PlaceInv
  <2>2. nextId \in Ids /\ nextId \notin 1 .. nextId - 1 /\ resting[nextId] = NoOrder
    <3>1. nextId \in Ids /\ nextId \in Nat
      BY <1>6, PlacedType, KnownIds
    <3>2. resting[nextId] # NoOrder => nextId < nextId
      BY <3>1 DEF BookType, Ledgers
    <3> QED BY <3>1, <3>2
  <2>3. nextId \notin PlacedIds
    BY <2>2, IdsFinite
  <2>4. PlacedIds' = PlacedIds \cup {nextId}
    <3>1. PlacedIds' = {pl[1] : pl \in placed \cup {<<nextId, p>>}}
      BY <1>6 DEF PlacedIds
    <3>2. <<nextId, p>>[1] = nextId
      OBVIOUS
    <3>3. {pl[1] : pl \in placed \cup {<<nextId, p>>}} = {pl[1] : pl \in placed} \cup {nextId}
      BY <3>2, Zenon
    <3> QED BY <3>1, <3>3 DEF PlacedIds
  <2>5. Cardinality(PlacedIds') = Cardinality(PlacedIds) + 1
    <3>1. Cardinality(PlacedIds \cup {nextId}) = Cardinality(PlacedIds) + 1
      BY <2>3, IdsFinite, FS_AddElement
    <3> QED BY <2>4, <3>1
  <2>6. RestingIds' = RestingIds
    BY <1>1 DEF RestingIds
  <2>7. Cardinality(RestingIds') + Cardinality(PlacedIds') + Cardinality(toPlace') = Cardinality(wanted')
    BY <1>1, <1>2, <1>3, <2>1, <2>5, <2>6, IdsFinite
  <2>8. \A id \in PlacedIds' : resting'[id] = NoOrder
    BY <1>1, <2>1, <2>2, <2>4
  <2>9. \A pl, ql \in placed' : pl[1] = ql[1] => pl = ql
    <3>1. \A pl \in placed : pl[1] # nextId
      BY <2>3 DEF PlacedIds
    <3>2. \A pl \in placed' : pl \in placed \/ pl = <<nextId, p>>
      BY <1>6
    <3>3. <<nextId, p>>[1] = nextId
      OBVIOUS
    <3> QED BY <2>1, <3>1, <3>2, <3>3
  <2>10. ASSUME NEW q \in wanted'
         PROVE  q \in toPlace' \/ (\E id \in Ids : Matches(resting'[id], q)) \/ \E pl \in placed' : pl[2] = q
    <3>1. CASE q = p
      <4>1. <<nextId, p>> \in placed' /\ <<nextId, p>>[2] = p
        BY <1>6
      <4> QED BY <3>1, <4>1
    <3>2. CASE q # p
      BY <1>1, <1>6, <2>1, <3>2
    <3> QED BY <3>1, <3>2
  <2> QED BY <2>7, <2>8, <2>9, <2>10 DEF PlaceInv, Matches
<1>7. errs' = TRUE \/ (NewOrder(p) /\ placed' = placed \cup {<<nextId, p>>} /\ errs' = errs)
  BY DEF PlaceOne
<1> QED BY <1>5, <1>6, <1>7

\* A stream that was started leaves its traces.
LEMMA NeverStreamed ==
  ASSUME [Next]_vars, stream' = "none" PROVE stream = "none"
<1>1. CASE OutsideStep \/ ClientStep \/ Drop \/ MalformedFrame \/ UNCHANGED vars
  BY <1>1 DEF OutsideStep, ClientStep, Deliver, Redial, Resubscribed, Drop, MalformedFrame, streamVars, vars
<1>2. ~StartStreaming /\ ~StreamEnds
  BY DEF StartStreaming, StreamEnds
<1>3. CASE SelectStep
  BY <1>3 DEF SelectStep, OnReconnecting, OnConnected, OnOrderEvent, streamVars
<1>4. ASSUME NEW h \in Hydrators, HydrateStep(h) PROVE stream = "none"
  BY <1>4 DEF HydrateStep, HydrateBegin, HydrateQuery, HydrateInstall, Handoff, ApplyBatch, Return, streamVars
<1>5. ASSUME NEW targets \in Targets, SyncStart(targets) PROVE stream = "none"
  BY <1>5 DEF SyncStart, streamVars
<1>6. CASE CancelAllStart \/ PlainHydrate \/ ContextEnds
  BY <1>6 DEF CancelAllStart, PlainHydrate, ContextEnds, streamVars
<1>7. CASE CycleStep
  BY <1>7 DEF CycleStep, CancelOne, CancelDone, PlaceOne, PlaceDone, PlainInstall, streamVars
<1> QED BY <1>1, <1>2, <1>3, <1>4, <1>5, <1>6, <1>7 DEF Next

LEMMA CycleKept ==
  ASSUME BookType, CancelInv, CycleInv, stream' = "none", [Next]_vars PROVE CycleInv'
<1>1. stream = "none" /\ \A h \in Hydrators : hp[h] = "idle"
  BY DEF CycleInv, NoStream
<1>2. CASE OutsideStep \/ ClientStep \/ UNCHANGED vars
  BY <1>2, CycleStays DEF OutsideStep, ClientStep, Deliver, Redial, Resubscribed, streamVars, hydrateVars, vars
<1>3. ~(Drop \/ MalformedFrame \/ StartStreaming \/ StreamEnds \/ SelectStep)
  BY <1>1 DEF Drop, MalformedFrame, StartStreaming, StreamEnds, SelectStep, OnReconnecting, OnConnected, OnOrderEvent,
              Selecting
<1>4. \A h \in Hydrators : ~HydrateStep(h)
  BY <1>1 DEF HydrateStep, HydrateBegin, HydrateQuery, HydrateInstall, Handoff, ApplyBatch
<1>5. \A targets \in Targets : SyncStart(targets) => CycleInv'
  BY SyncPlanned
<1>6. CASE CancelAllStart
  <2>1. /\ phase' = "cancel" /\ cycle' = "cancelAll" /\ cycle = "none" /\ expected' = resting
        /\ UNCHANGED <<resting, stream, hp, wanted, toPlace, placed, errs>>
    BY <1>6 DEF CancelAllStart, streamVars, hydrateVars
  <2>2. placed = {}
    BY <2>1 DEF CycleInv, IdleInv
  <2>3. NoStream' /\ IdleInv'
    BY <2>1 DEF CycleInv, NoStream, IdleInv
  <2>4. PlanInv' /\ PlaceInv'
    BY <2>1, <2>2 DEF PlanInv, PlaceInv
  <2> QED BY <2>3, <2>4 DEF CycleInv
<1>7. CASE PlainHydrate \/ PlainInstall
  <2>1. phase = "none"
    BY <1>7 DEF PlainHydrate, PlainInstall, CycleInv, IdleInv
  <2>2. UNCHANGED <<stream, hp, phase, wanted, toPlace, placed, errs>>
    BY <1>7 DEF PlainHydrate, PlainInstall, streamVars, hydrateVars
  <2> QED BY <2>1, <2>2 DEF CycleInv, NoStream, IdleInv, PlanInv, PlaceInv
<1>8. CASE ContextEnds
  <2>1. /\ phase # "none" /\ errs' = TRUE /\ toPlace' = IF phase = "place" THEN {} ELSE toPlace
        /\ UNCHANGED <<resting, stream, hp, cycle, phase, wanted, expected, placed>>
    BY <1>8 DEF ContextEnds, streamVars, hydrateVars
  <2>2. NoStream' /\ IdleInv' /\ PlaceInv'
    BY <2>1, FS_EmptySet DEF CycleInv, NoStream, IdleInv, PlaceInv
  <2>3. PlanInv'
    BY <2>1 DEF CycleInv, PlanInv, Survivors, Matches
  <2> QED BY <2>2, <2>3 DEF CycleInv
<1>9. ASSUME NEW id \in Ids, CancelOne(id) PROVE CycleInv'
  <2>1. /\ phase = "cancel"
        /\ UNCHANGED <<resting, stream, hp, cycle, phase, wanted, expected, toPlace, placed>>
    BY <1>9 DEF CancelOne, streamVars, hydrateVars
  <2>2. NoStream' /\ IdleInv' /\ PlaceInv'
    BY <2>1 DEF CycleInv, NoStream, IdleInv, PlaceInv
  <2>3. PlanInv'
    BY <2>1 DEF CycleInv, PlanInv, Survivors, Matches
  <2> QED BY <2>2, <2>3 DEF CycleInv
<1>10. CASE PlaceDone
  <2>1. /\ phase' = "none" /\ wanted' = {} /\ toPlace' = {} /\ placed' = {} /\ errs' = FALSE
        /\ UNCHANGED <<stream, hp>>
    BY <1>10 DEF PlaceDone, EndCycle, streamVars, hydrateVars
  <2> QED BY <2>1, FS_EmptySet DEF CycleInv, NoStream, IdleInv, PlanInv, PlaceInv
<1> QED BY <1>2, <1>3, <1>4, <1>5, <1>6, <1>7, <1>8, <1>9, <1>10, CancelsRecorded, PlacementKept DEF Next, CycleStep

\* A new order matches the target it was placed for.
LEMMA FullOrder ==
  ASSUME NEW p
  PROVE  LET o == [price |-> p, amount |-> Full] IN o # NoOrder /\ (p \in Nat => Matches(o, p))
<1> DEFINE o == [price |-> p, amount |-> Full]
<1>1. o.price = p /\ o.amount = Full
  OBVIOUS
<1> HIDE DEF o
<1>2. o # NoOrder
  BY <1>1, QuoteReconcilerAssumption DEF NoOrder
<1>3. ASSUME p \in Nat PROVE Matches(o, p)
  <2>1. p - p <= Tolerance
    BY <1>3, QuoteReconcilerAssumption
  <2> QED BY <1>1, <1>2, <2>1 DEF Matches
<1> QED BY <1>2, <1>3 DEF o

\* What the ledger is once the placements are in it.
LEMMA PlacementsRecorded ==
  ASSUME BookType, CycleInv, PlaceDone, ~errs
  PROVE  /\ Cardinality({id \in Ids : resting'[id] # NoOrder}) = Cardinality(wanted)
         /\ \A p \in wanted : \E id \in Ids : Matches(resting'[id], p)
<1>1. /\ phase = "place" /\ toPlace = {}
      /\ resting' = [id \in Ids |->
           IF resting[id] = NoOrder /\ \E pl \in placed : pl[1] = id
           THEN [price |-> (CHOOSE pl \in placed : pl[1] = id)[2], amount |-> Full] ELSE resting[id]]
  BY DEF PlaceDone
<1>2. /\ \A pl, ql \in placed : pl[1] = ql[1] => pl = ql
      /\ \A id \in PlacedIds : resting[id] = NoOrder
      /\ Cardinality(RestingIds) + Cardinality(PlacedIds) + Cardinality(toPlace) = Cardinality(wanted)
      /\ \A p \in wanted : (\E id \in Ids : Matches(resting[id], p)) \/ \E pl \in placed : pl[2] = p
  BY <1>1 DEF CycleInv, PlaceInv
<1>3. ASSUME NEW pl \in placed
      PROVE  pl[1] \in Ids /\ resting'[pl[1]] = [price |-> pl[2], amount |-> Full]
  <2>1. pl[1] \in PlacedIds /\ resting[pl[1]] = NoOrder
    BY <1>2 DEF PlacedIds
  <2>2. pl[1] \in Ids
    BY <2>1, IdsFinite, KnownIds
  <2>3. (CHOOSE ql \in placed : ql[1] = pl[1]) = pl
    BY <1>2
  <2> QED BY <1>1, <2>1, <2>2, <2>3
<1>4. ASSUME NEW id \in Ids, id \notin PlacedIds PROVE resting'[id] = resting[id]
  BY <1>1, <1>4 DEF PlacedIds
<1>5. \A id \in PlacedIds : id \in Ids /\ resting'[id] # NoOrder
  <2> SUFFICES ASSUME NEW pl \in placed PROVE pl[1] \in Ids /\ resting'[pl[1]] # NoOrder
    BY DEF PlacedIds
  <2> QED BY <1>3, FullOrder
<1>6. {id \in Ids : resting'[id] # NoOrder} = RestingIds \cup PlacedIds
  BY <1>4, <1>5 DEF RestingIds
<1>7. RestingIds \cap PlacedIds = {}
  BY <1>2 DEF RestingIds
<1>8. Cardinality(RestingIds \cup PlacedIds) = Cardinality(RestingIds) + Cardinality(PlacedIds)
  <2>1. Cardinality(RestingIds \cup PlacedIds) =
          Cardinality(RestingIds) + Cardinality(PlacedIds) - Cardinality(RestingIds \cap PlacedIds)
    BY IdsFinite, FS_Union
  <2>2. Cardinality(RestingIds \cap PlacedIds) = 0
    BY <1>7, FS_EmptySet
  <2> QED BY <2>1, <2>2, IdsFinite
<1>9. Cardinality(RestingIds) + Cardinality(PlacedIds) = Cardinality(wanted)
  <2>1. Cardinality(toPlace) = 0
    BY <1>1, FS_EmptySet
  <2> QED BY <1>2, <2>1, IdsFinite
<1>10. ASSUME NEW p \in wanted PROVE \E id \in Ids : Matches(resting'[id], p)
  <2>1. ASSUME NEW id \in Ids, Matches(resting[id], p) PROVE Matches(resting'[id], p)
    <3>1. id \notin PlacedIds
      BY <1>2, <2>1 DEF Matches
    <3> QED BY <1>4, <2>1, <3>1
  <2>2. ASSUME NEW pl \in placed, pl[2] = p PROVE pl[1] \in Ids /\ Matches(resting'[pl[1]], p)
    <3>1. p \in Nat
      BY <2>2 DEF BookType
    <3>2. pl[1] \in PlacedIds
      BY DEF PlacedIds
    <3>3. resting'[pl[1]] = [price |-> p, amount |-> Full] /\ pl[1] \in Ids
      BY <1>3, <2>2
    <3> QED BY <3>1, <3>3, FullOrder
  <2> QED BY <1>2, <2>1, <2>2
<1> QED BY <1>6, <1>8, <1>9, <1>10

\* Without a stream, a cycle that ends without an error has reached its targets.
LEMMA SyncReaches == Spec => SyncReachesTargets
<1>1. Init => ExposureInv /\ UnstreamedInv
  BY ExposureInit, CycleInit DEF UnstreamedInv
<1>2. ExposureInv /\ UnstreamedInv /\ [Next]_vars => (ExposureInv /\ UnstreamedInv)'
  BY ExposureKept, CycleKept, NeverStreamed DEF ExposureInv, UnstreamedInv
<1>3. ExposureInv /\ UnstreamedInv /\ [Next]_vars =>
        (phase = "place" /\ phase' = "none" /\ ~errs /\ stream = "none" =>
           /\ Cardinality({id \in DOMAIN resting' : resting'[id] # NoOrder}) = Cardinality(wanted)
           /\ \A p \in wanted : \E id \in DOMAIN resting' : Matches(resting'[id], p))
  <2> SUFFICES ASSUME ExposureInv, CycleInv, [Next]_vars, phase = "place", phase' = "none", ~errs, stream = "none"
               PROVE  /\ Cardinality({id \in DOMAIN resting' : resting'[id] # NoOrder}) = Cardinality(wanted)
                      /\ \A p \in wanted : \E id \in DOMAIN resting' : Matches(resting'[id], p)
    BY DEF UnstreamedInv
  <2>1. PlaceDone
    <3>1. CASE OutsideStep \/ ClientStep \/ Drop \/ MalformedFrame \/ StartStreaming \/ StreamEnds \/ SelectStep
               \/ UNCHANGED vars
      BY <3>1 DEF OutsideStep, ClientStep, Deliver, Redial, Resubscribed, Drop, MalformedFrame, StartStreaming,
                  StreamEnds, SelectStep, OnReconnecting, OnConnected, OnOrderEvent, cycleVars, vars
    <3>2. ASSUME NEW h \in Hydrators, HydrateStep(h) PROVE FALSE
      BY <3>2 DEF HydrateStep, HydrateBegin, HydrateQuery, HydrateInstall, Handoff, ApplyBatch, cycleVars
    <3>3. CASE CycleStep
      BY <3>3 DEF CycleStep, CancelOne, CancelDone, PlaceOne, PlainInstall
    <3>4. CASE CancelAllStart \/ PlainHydrate \/ ContextEnds \/ \E targets \in Targets : SyncStart(targets)
      BY <3>4 DEF CancelAllStart, PlainHydrate, ContextEnds, SyncStart
    <3> QED BY <3>1, <3>2, <3>3, <3>4 DEF Next
  <2>2. DOMAIN resting' = Ids
    BY <2>1 DEF PlaceDone
  <2> QED BY <2>1, <2>2, PlacementsRecorded DEF ExposureInv
<1> QED BY <1>1, <1>2, <1>3, PTL DEF Spec, SyncReachesTargets

\* A Sync that reports no error leaves one order per target in the ledger and nothing
\* else, unless a stream was started, which may change the ledger meanwhile; and among
\* equal orders it leaves the oldest (reconciler.go: Sync).
THEOREM TargetsReached == Spec => CyclesReachTargets
BY SyncReaches, OldestOrdersKept, PTL DEF CyclesReachTargets
=============================================================================
