----------------------------- MODULE EventFeed ------------------------------
(***************************************************************************)
(* What the WebSocket client promises the reader of a channel of lifecycle *)
(* events: events arrive in the order of their publication and each at     *)
(* most once.  A lossless feed (SubscribeConnectionEvents) leaves none out *)
(* between its registration and its end; a lossy one (Events) may leave    *)
(* out events, but not the newest as long as it is not over.               *)
(*                                                                         *)
(* Events are named by the number of their publication.  The module is     *)
(* instantiated once per channel, each variable with an expression over    *)
(* the state of ConnectionEvents.                                          *)
(***************************************************************************)
EXTENDS Naturals

CONSTANT Lossless  \* whether the reader may not miss an event

VARIABLES
  latest,  \* the newest event published
  seen,    \* the newest event the reader received
  phase    \* "off" before registration, "on", "over" once the end has come

vars == <<latest, seen, phase>>

Phases == {"off", "on", "over"}

Init == latest = 0 /\ seen = 0 /\ phase \in {"off", "on"}

\* The reader registers; what was published before is not for it.
Register ==
  /\ phase = "off"
  /\ phase' = "on"
  /\ UNCHANGED <<latest, seen>>

\* An event, which may also be the last one of the feed.
Publish ==
  /\ latest' = latest + 1
  /\ seen' = IF phase = "off" THEN latest + 1 ELSE seen
  /\ phase' \in IF phase = "on" THEN {"on", "over"} ELSE {phase}

Receive(n) ==
  /\ phase # "off"
  /\ Lossless => n = seen + 1
  /\ seen' = n
  /\ UNCHANGED <<latest, phase>>

Finish ==
  /\ phase' = "over"
  /\ seen' = IF phase = "off" THEN latest ELSE seen
  /\ UNCHANGED latest

Next == Register \/ Publish \/ (\E n \in seen + 1 .. latest : Receive(n)) \/ Finish

Spec == Init /\ [][Next]_vars

\* A reader that keeps reading catches up whenever publications pause, unless
\* the feed ends.
KeepsUp == []<>(seen = latest \/ phase # "on")
=============================================================================
