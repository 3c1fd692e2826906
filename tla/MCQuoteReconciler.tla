------------------------- MODULE MCQuoteReconciler -------------------------
(***************************************************************************)
(* Two small instances of QuoteReconciler for TLC, explored one at a time: *)
(* one for the stream, with few orders and every fault of the connection,  *)
(* and one for the cycles, with prices to choose from and no stream.       *)
(***************************************************************************)
EXTENDS QuoteReconciler

CONSTANTS
  CyclePrices, CycleOrders, CycleMaxFaults,
  CycleOutside, CycleFaults, CycleKinds

VARIABLE layer  \* the instance that a behaviour explores

Cycling == INSTANCE QuoteReconciler
  WITH Prices <- CyclePrices, MaxOrders <- CycleOrders,
       MaxFaults <- CycleMaxFaults, Outside <- CycleOutside, Faults <- CycleFaults, Cycles <- CycleKinds,
       MayStream <- FALSE

ReconcilerInit ==
  \/ layer = "stream" /\ Init
  \/ layer = "cycles" /\ Cycling!Init

ReconcilerNext ==
  /\ UNCHANGED layer
  /\ \/ layer = "stream" /\ Next
     \/ layer = "cycles" /\ Cycling!Next

\* Cycles that stop halfway break none of their properties.
ReconcilerSpec == ReconcilerInit /\ [][ReconcilerNext]_<<vars, layer>> /\ Fairness
=============================================================================
