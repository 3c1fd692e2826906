-------------------------- MODULE MCPriceWatchers --------------------------
(***************************************************************************)
(* A small instance for TLC of what watches prices: the live order book of *)
(* the SDK (LiveOrderBook) and the alert daemon of the MCP server          *)
(* (AlertScheduler).  They share no state and are explored one at a time.  *)
(***************************************************************************)
EXTENDS LiveOrderBook

CONSTANTS
  N, OneShots, Cooldown, MaxRunning, MaxTicks, MaxEvents  \* AlertScheduler

\* What the proofs need of the numbers; there is a reload, as the first one is
\* due from the start.
ASSUME MCPriceWatchersAssumption == N \in Nat /\ Cooldown \in Nat /\ MaxRunning \in Nat \ {0}

VARIABLES
  file, clock, memory, tick, reload, subscribed, listeners, handle, announced,
  editor, lastFire, forgotten, before, unsaved, hazards, evaluations,
  events,                                                 \* AlertScheduler
  layer  \* the layer that a behaviour explores

alertVars ==
  <<file, clock, memory, tick, reload, subscribed, listeners, handle, announced,
    editor, lastFire, forgotten, before, unsaved, hazards, evaluations, events>>

Alerts == INSTANCE AlertScheduler

\* The book when one goroutine ingests at a time.
OneIngester == INSTANCE LiveOrderBook WITH Ingesters <- {CHOOSE p \in Ingesters : TRUE}

\* Bound: changes and buffered diffs explored when several ingest at a time.
FewUpdates == n' < MaxUpdateID /\ Len(queue') < MaxBufferedDiffs

\* The layer that is not explored stays in one initial state.
WatchInit ==
  /\ Init /\ Alerts!Init
  /\ layer \in {"book", "callbacks", "alerts"}
  /\ layer # "alerts" => Alerts!Enabled(file) = Alerts!Rules

WatchNext ==
  /\ UNCHANGED layer
  /\ \/ layer = "book" /\ OneIngester!Next /\ UNCHANGED alertVars
     \/ layer = "callbacks" /\ Next /\ FewUpdates /\ UNCHANGED alertVars
     \/ layer = "alerts" /\ Alerts!Next /\ UNCHANGED vars

WatchSpec == WatchInit /\ [][WatchNext]_<<vars, alertVars, layer>>

\* An alert does not fire again within its cooldown.
CooldownHolds == Alerts!CooldownHolds

\* The symbol of an enabled rule is watched once reloads are over.
RulesWatched == Alerts!RulesWatched
=============================================================================
