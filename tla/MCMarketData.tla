---------------------------- MODULE MCMarketData ----------------------------
(***************************************************************************)
(* A small instance for TLC of what LiveOrderBook stands on:               *)
(* DepthDelivery, which promises it that a frame marked as snapshot is a   *)
(* whole book, OrderBook, which implements the map of levels it is written *)
(* with, and IsolatedClients, which decides what connection the frames of  *)
(* a symbol come from.  They share no state and are explored one at a      *)
(* time.                                                                   *)
(***************************************************************************)
EXTENDS DepthDelivery

CONSTANTS
  Prices, MaxAmount, MaxBatch, MaxUpdateID, Bad,  \* OrderBook
  Calls, Variants, NoVariant, MaxLosses           \* IsolatedClients

ASSUME MCMarketDataAssumption ==
  /\ Prices \subseteq Int /\ Bad \notin 0 .. MaxAmount
  /\ MaxAmount \in Nat /\ MaxBatch \in Nat /\ MaxUpdateID \in Nat

VARIABLES
  levels, lastUpdateID, ref,                      \* OrderBook
  parent, current, refs, made, open, activeFeed, pc, using, variant, swept,
  losses,                                         \* IsolatedClients
  layer  \* the layer that a behaviour explores

Book == INSTANCE OrderBook

Isolated == INSTANCE IsolatedClients WITH active <- activeFeed

bookVars == <<levels, lastUpdateID, ref>>
clientVars ==
  <<parent, current, refs, made, open, activeFeed, pc, using, variant, swept, losses>>

\* The layers that are not explored stay in one initial state.
MarketInit ==
  /\ Init /\ Book!Init /\ Isolated!Init
  /\ layer \in {"delivery", "book", "clients"}
  /\ layer # "clients" => variant = [c \in Calls |-> CHOOSE v \in Variants : TRUE]

MarketNext ==
  /\ UNCHANGED layer
  /\ \/ layer = "delivery" /\ Next /\ UNCHANGED <<bookVars, clientVars>>
     \/ layer = "book" /\ Book!Next /\ UNCHANGED <<vars, clientVars>>
     \/ layer = "clients" /\ Isolated!Next /\ UNCHANGED <<vars, bookVars>>

MarketSpec == MarketInit /\ [][MarketNext]_<<vars, bookVars, clientVars, layer>> /\ Fairness

\* The sorted slices of OrderBook are the map that the accepted frames
\* describe, and a refused frame changes neither side.
BookIsSorted == Book!SortedMap

\* Simulated fills and depths are complete and optimal.
SweepsAreSound == layer = "book" => Book!SweepIsBest /\ Book!DepthMatchesSweep

\* A failed subscription closes no client that is in use, and no client of a
\* symbol is left open.
IsolationHolds == Isolated!IsolationHolds
=============================================================================
