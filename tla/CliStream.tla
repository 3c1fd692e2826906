----------------------------- MODULE CliStream ------------------------------
(***************************************************************************)
(* A stream command of the CLI (stream trades, ticker, depth, orders,      *)
(* balances, positions) on top of the WebSocket client's lifecycle events. *)
(*                                                                         *)
(* The command connects and subscribes to one feed, registers for          *)
(* lifecycle events, copies values to its output until something ends it,  *)
(* and closes the client.  A behaviour in which cmd is "absent" is one of  *)
(* another application of the SDK, which connects, subscribes and closes   *)
(* as it likes.                                                            *)
(***************************************************************************)
EXTENDS ConnectionEvents

CONSTANTS
  Command,     \* the command's subscription to lifecycle events
  FeedBuffer   \* capacity of the feed's channel

ASSUME CliStreamAssumption ==
  /\ Command \in Subscribers
  /\ FeedBuffer \in Nat \ {0}
  /\ MayStop  \* a command does

VARIABLES
  cmd,        \* "start", "subscribing", "register", "consuming", "stopping",
              \* "closing", "done"; "absent" if there is no command
  cancelled,  \* the command's context is done (SIGINT, SIGTERM)
  feed,       \* the subscription's channel: "none", "open", "closed"
  items,      \* ... values in it
  result      \* what RunE returns: "none", "ok", "error"

cmdVars == <<cmd, cancelled, feed, items, result>>
allVars == <<vars, cmdVars>>

CliInit ==
  /\ Init
  /\ cmd \in {"start", "absent"}
  /\ cancelled = FALSE /\ feed = "none" /\ items = 0 /\ result = "none"

(***************************************************************************)
(* The client's own steps, with the feed they close.                       *)
(***************************************************************************)
CloseFeed == feed' = IF feed = "open" THEN "closed" ELSE feed

\* closeAll in failSubscriptionsIfCurrentLocked and in Close.
ClientStep == cmd # "absent" /\
  \/ FailCheck /\ (IF failPc' = "publish" THEN CloseFeed ELSE UNCHANGED feed)
       /\ UNCHANGED <<cmd, cancelled, items, result>>
  \/ TablesClosed /\ CloseFeed /\ UNCHANGED <<cmd, cancelled, items, result>>
  \/ /\ \/ DialFails \/ Install \/ Replayed \/ Dropped \/ GiveUp \/ FailGate \/ FailPublish
        \/ Report \/ DispatchStops \/ PumpReturns \/ DrainStep
        \/ PumpsWaited \/ EventsWaited \/ ChannelsClosed
        \/ ReplayFails /\ feed = "open"
     /\ UNCHANGED cmdVars

\* The dispatcher sends a value; it waits as long as the channel is full.
DeliverItem ==
  /\ dispatching /\ feed = "open" /\ items < FeedBuffer
  /\ items' = items + 1
  /\ UNCHANGED <<vars, cmd, cancelled, feed, result>>

(***************************************************************************)
(* The command.                                                            *)
(***************************************************************************)
Cancel ==
  /\ cmd \notin {"done", "absent"} /\ ~cancelled
  /\ cancelled' = TRUE
  /\ UNCHANGED <<vars, cmd, feed, items, result>>

CmdConnect ==
  /\ cmd = "start" /\ Connect
  /\ cmd' = "subscribing"
  /\ UNCHANGED <<cancelled, feed, items, result>>

\* The Subscribe call returns, with the feed or with an error.
Subscribed ==
  /\ cmd = "subscribing"
  /\ \/ /\ state = "connected" /\ ~replaying
        /\ feed' = "open" /\ cmd' = "register" /\ UNCHANGED result
     \/ /\ feed' = "none" /\ cmd' = "closing" /\ result' = "error"
  /\ UNCHANGED <<vars, cancelled, items>>

RegisterForEvents ==
  /\ cmd = "register"
  /\ SubscribeConnectionEvents(Command)
  /\ cmd' = "consuming"
  /\ UNCHANGED <<cancelled, feed, items, result>>

Consuming == cmd = "consuming"

\* consumeStream returns: without an error exactly if the context is done.
Ends == cmd' = "stopping" /\ result' = IF cancelled THEN "ok" ELSE "error"

SeesCancel ==
  /\ Consuming /\ cancelled
  /\ Ends /\ UNCHANGED <<vars, cancelled, feed, items>>

\* A value is written, or writing it fails.
TakesItem ==
  /\ Consuming /\ items > 0
  /\ items' = items - 1
  /\ Ends \/ (~cancelled /\ UNCHANGED <<cmd, result>>)
  /\ UNCHANGED <<vars, cancelled, feed>>

\* Mutant: only lifecycle events end the command.
SeesFeedClosedIgnored == FALSE /\ UNCHANGED allVars

SeesFeedClosed ==
  /\ Consuming /\ feed = "closed" /\ items = 0
  /\ Ends /\ UNCHANGED <<vars, cancelled, feed, items>>

TakesEvent ==
  /\ Consuming /\ ReadSubscriber(Command)
  /\ IF cancelled \/ Head(subQueue[Command]).state \in {"disconnected", "closed"}
     THEN Ends ELSE UNCHANGED <<cmd, result>>
  /\ UNCHANGED <<cancelled, feed, items>>

SeesEventsClosed ==
  /\ Consuming /\ sub[Command] = "over" /\ subQueue[Command] = <<>>
  /\ Ends /\ UNCHANGED <<vars, cancelled, feed, items>>

\* The deferred stop function, then the owner's Close.
StopsEvents ==
  /\ cmd = "stopping"
  /\ IF sub[Command] = "on" THEN CloseSubscriber(Command) ELSE UNCHANGED vars
  /\ cmd' = "closing"
  /\ UNCHANGED <<cancelled, feed, items, result>>

ClosesClient ==
  /\ cmd = "closing" /\ CloseBegin
  /\ UNCHANGED cmdVars

Returns ==
  /\ cmd = "closing" /\ closing = "done"
  /\ cmd' = "done"
  /\ UNCHANGED <<vars, cancelled, feed, items, result>>

SelectStep == SeesCancel \/ TakesItem \/ SeesFeedClosed \/ TakesEvent \/ SeesEventsClosed

CmdStep ==
  CmdConnect \/ Subscribed \/ RegisterForEvents \/ SelectStep \/ StopsEvents \/ ClosesClient \/ Returns

\* A step of another application of the SDK.
AppStep == cmd = "absent" /\ Next /\ UNCHANGED cmdVars

CliNext == AppStep \/ ClientStep \/ DeliverItem \/ Cancel \/ CmdStep

\* Goroutines run; a lost connection is noticed, a dial or replay ends, and a
\* reconnect either succeeds or gives up.  Nobody reads Events() but another
\* application, which then keeps reading.
CliSpec ==
  /\ CliInit /\ [][CliNext]_allVars
  /\ WF_allVars(CmdStep)
  /\ WF_vars(DrainStep) /\ WF_vars(CloseStep)
  /\ WF_vars(DispatchStops) /\ WF_vars(PumpReturns)
  /\ WF_vars(FailGate \/ FailCheck \/ FailPublish)
  /\ WF_vars(cmd = "absent" /\ ReadEvents)

-----------------------------------------------------------------------------
\* An application that keeps reading Events() receives the newest event, or a
\* newer one, unless Close comes first: no event is left behind in the
\* coalescing slot.
NewestArrives == cmd = "absent" => Shared!KeepsUp

\* A command that consumes a stream whose connection is lost for good ends, and
\* with an error unless it was cancelled: also when the loss came between its
\* subscription to the feed and its registration for lifecycle events, and
\* although nobody reads Events().  A cancelled command ends, wherever it was.
CommandEnds ==
  /\ (Consuming /\ state = "disconnected") ~> (cmd = "done" /\ (result = "error" \/ cancelled))
  /\ cancelled ~> cmd = "done"
=============================================================================
