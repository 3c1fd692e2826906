----------------------------- MODULE Pagination -----------------------------
(***************************************************************************)
(* The Go SDK's iterators over paginated endpoints: NewPaginator of the    *)
(* transport and the fetchers of prediction markets, which ask for a page  *)
(* by offset and limit and decide from the answer whether there are more.  *)
(* The collection lives at the exchange and may change between two pages,  *)
(* or while the caller's loop body runs.                                   *)
(*                                                                         *)
(* A fetcher is described by its page sizes and by whether answers carry   *)
(* the size of the collection (hasMoreByTotal, hasMoreByPagination) or not *)
(* (active orders, order history, and any answer without a total).  The    *)
(* endpoint of the order history ignores the offset of a request that is   *)
(* bounded in time.                                                        *)
(***************************************************************************)
EXTENDS Integers, Sequences, FiniteSetsExt

CONSTANTS
  Absent,       \* a parameter the caller leaves out (nil)
  Limits,       \* limits callers ask for: integers or Absent
  Offsets,      \* offsets callers ask for: integers or Absent
  DefaultPage,  \* page size when the caller asks for none
  MaxPage,      \* the largest page the endpoint serves
  MaxItems,     \* bound: items in the collection at first
  MaxChanges    \* bound: items that come or go during the iteration

VARIABLES
  coll,     \* the collection, at the exchange
  reports,  \* whether answers carry its size
  bounded,  \* whether the caller bounds the request in time
  first,    \* the offset the iteration begins with
  limit, offset, \* of the page asked for
  page,     \* items of the page still to be yielded
  count,    \* items the page had
  hasMore,
  yielded,  \* items the caller has got
  phase,    \* "start", "fetching", "yielding"; "done", "failed", "stopped" by the caller
  original, \* history: the collection at first
  came, went \* history: items that came, and that went, during the iteration

vars == <<coll, reports, bounded, first, limit, offset, page, count, hasMore, yielded, phase, original, came, went>>

Init ==
  /\ \E n \in 0 .. MaxItems : coll = [i \in 1 .. n |-> i]
  /\ reports \in BOOLEAN
  /\ bounded \in BOOLEAN /\ (bounded => ~reports)
  /\ first = 0 /\ limit = 0 /\ offset = 0
  /\ page = <<>> /\ count = 0 /\ hasMore = FALSE /\ yielded = <<>>
  /\ phase = "start"
  /\ original = coll /\ came = {} /\ went = {}

\* Mutant: what the caller asks for is passed on, although no page is as long.
PageSizeUncapped(value) == IF value = Absent THEN DefaultPage ELSE value

\* predictionPageSize
PageSize(value) == IF value = Absent THEN DefaultPage ELSE IF value > MaxPage THEN MaxPage ELSE value

\* predictionPageOffset
PageOffset(value) == IF value = Absent THEN 0 ELSE value

\* validatePredictionPagination
Valid(wantedLimit, wantedOffset) ==
  (wantedLimit # Absent => wantedLimit > 0) /\ (wantedOffset # Absent => wantedOffset >= 0)

\* Iterate..., and the caller's loop begins.  An iteration the endpoint would
\* answer with the first page again and again is refused.
Start(wantedLimit, wantedOffset) ==
  /\ phase = "start"
  /\ IF Valid(wantedLimit, wantedOffset) /\ ~bounded
     THEN /\ limit' = PageSize(wantedLimit)
          /\ offset' = PageOffset(wantedOffset) /\ first' = offset'
          /\ phase' = "fetching"
     ELSE phase' = "failed" /\ UNCHANGED <<limit, offset, first>>
  /\ UNCHANGED <<coll, reports, bounded, page, count, hasMore, yielded, original, came, went>>

\* What the exchange answers: no page is longer than MaxPage.
Served ==
  LET from == IF bounded THEN 0 ELSE offset IN
  SubSeq(coll, from + 1, Min({from + limit, from + MaxPage, Len(coll)}))

\* hasMoreByTotal, hasMoreByPagination; without a total a full page has a next one.
HasMore(got) == IF reports THEN offset + got < Len(coll) ELSE got = limit

\* The answer to a page, and whether there are more.
Fetch ==
  /\ phase = "fetching"
  /\ page' = Served /\ count' = Len(page')
  /\ hasMore' = HasMore(count')
  /\ phase' = "yielding"
  /\ UNCHANGED <<coll, reports, bounded, first, limit, offset, yielded, original, came, went>>

\* The request fails, or the context is done.
FetchFails ==
  /\ phase = "fetching" /\ phase' = "failed"
  /\ UNCHANGED <<coll, reports, bounded, first, limit, offset, page, count, hasMore, yielded, original, came, went>>

\* The loop body runs, and may leave the loop.
Yield ==
  /\ phase = "yielding" /\ page # <<>>
  /\ yielded' = Append(yielded, Head(page)) /\ page' = Tail(page)
  /\ phase' \in {"yielding", "stopped"}
  /\ UNCHANGED <<coll, reports, bounded, first, limit, offset, count, hasMore, original, came, went>>

PageEnds ==
  /\ phase = "yielding" /\ page = <<>>
  /\ IF ~hasMore \/ count = 0 THEN phase' = "done" /\ UNCHANGED offset
     ELSE phase' = "fetching" /\ offset' = offset + count
  /\ UNCHANGED <<coll, reports, bounded, first, limit, page, count, hasMore, yielded, original, came, went>>

Iterating == phase \in {"fetching", "yielding"}

MayChange == Iterating /\ Cardinality(came) + Cardinality(went) < MaxChanges

\* An item comes in anywhere.
ItemComes(i) ==
  /\ MayChange
  /\ LET new == MaxItems + Cardinality(came) + 1 IN
     /\ coll' = SubSeq(coll, 1, i - 1) \o <<new>> \o SubSeq(coll, i, Len(coll))
     /\ came' = came \cup {new}
  /\ UNCHANGED <<reports, bounded, first, limit, offset, page, count, hasMore, yielded, phase, original, went>>

ItemGoes(i) ==
  /\ MayChange
  /\ coll' = SubSeq(coll, 1, i - 1) \o SubSeq(coll, i + 1, Len(coll))
  /\ went' = went \cup {coll[i]}
  /\ UNCHANGED <<reports, bounded, first, limit, offset, page, count, hasMore, yielded, phase, original, came>>

Next ==
  \/ \E l \in Limits, o \in Offsets : Start(l, o)
  \/ Fetch \/ FetchFails \/ Yield \/ PageEnds
  \/ \E i \in 1 .. Len(coll) + 1 : ItemComes(i)
  \/ \E i \in 1 .. Len(coll) : ItemGoes(i)

Spec == Init /\ [][Next]_vars

-----------------------------------------------------------------------------
Got == {yielded[i] : i \in 1 .. Len(yielded)}

\* A caller that iterates to the end misses no item that was there from the
\* start, unless one went away meanwhile, and gets no item twice unless one came
\* in: whether or not answers carry a total, the last page is full, the caller
\* asks for more than a page can hold, bounds the request in time, or the
\* collection ends at the offset.
PagesComplete ==
  /\ phase = "done" /\ went = {} =>
       \A i \in first + 1 .. Len(original) : original[i] \in Got
  /\ came = {} => \A i, j \in 1 .. Len(yielded) : yielded[i] = yielded[j] => i = j
=============================================================================
