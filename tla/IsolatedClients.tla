-------------------------- MODULE IsolatedClients --------------------------
(***************************************************************************)
(* Snapshot isolation of the Go SDK's WebSocket client: depth frames that  *)
(* do not name their symbol get a connection per symbol, a client of its   *)
(* own that the subscriptions of the symbol share and count.  The table    *)
(* of differential depth and that of partial depth are alike, and symbols  *)
(* share nothing but Close: one entry of one table is modelled.            *)
(*                                                                         *)
(* An isolated client is a WsClient.  Here it is open or closed, and has   *)
(* the subscriptions of its one feed.  One action is one critical section  *)
(* of snapshotMu, or one step of the isolated client.                      *)
(***************************************************************************)
EXTENDS Naturals

CONSTANTS
  Calls,     \* calls of SubscribeDepth, UnsubscribeDepth and the like
  Variants,  \* stream suffixes of the feed
  NoVariant, \* no feed is active
  MaxLosses  \* bound: connections lost for good

VARIABLES
  parent,   \* Close of the parent: "open", "closed" (its State), "sweeping", "done"
  current,  \* snapshotClients of the symbol, or 0
  refs,     \* snapshotClientRefs of the symbol
  made,     \* clients made so far; a client is named by its place
  open,     \* clients that are not closed
  active,   \* activeFeeds of each client
  pc,       \* calls: "idle"; Subscribe: "acquired", "registered", "cut" (its channel
            \* is closed already), "serving", "failed", "releasing";
            \* Unsubscribe: "removed", "unsubscribing"; both: "ended"
  using,    \* the client each call works with
  variant,  \* the suffix each call asks for
  swept,    \* clients that Close has collected
  losses    \* bound: connections lost for good

tableVars == <<current, refs, made>>
callVars == <<pc, using, variant>>
vars == <<parent, tableVars, open, active, callVars, swept, losses>>

Init ==
  /\ parent = "open" /\ current = 0 /\ refs = 0 /\ made = 0
  /\ open = {} /\ active = [x \in {} |-> NoVariant]
  /\ pc = [c \in Calls |-> "idle"] /\ using = [c \in Calls |-> 0]
  /\ variant \in [Calls -> Variants]
  /\ swept = {} /\ losses = 0

Goes(c, place) == pc' = [pc EXCEPT ![c] = place]

(***************************************************************************)
(* Subscribe.                                                              *)
(***************************************************************************)

\* acquireIsolatedClient: the symbol's client, or a new one.
Acquire(c) ==
  /\ pc[c] = "idle" /\ parent = "open"
  /\ IF current = 0
     THEN /\ made' = made + 1 /\ current' = made'
          /\ open' = open \cup {made'}
          /\ active' = [x \in 1 .. made' |-> IF x = made' THEN NoVariant ELSE active[x]]
          /\ refs' = refs + 1
     ELSE /\ refs' = refs + 1
          /\ UNCHANGED <<current, made, open, active>>
  /\ using' = [using EXCEPT ![c] = current']
  /\ Goes(c, "acquired")
  /\ UNCHANGED <<parent, variant, swept, losses>>

\* The parent is closed.
AcquireFails(c) ==
  /\ pc[c] = "idle" /\ parent # "open"
  /\ Goes(c, "ended")
  /\ UNCHANGED <<parent, tableVars, open, active, using, variant, swept, losses>>

\* subscribePublicFeed on the isolated client, to the end of its subsMu section.
Register(c) ==
  /\ pc[c] = "acquired"
  /\ using[c] \in open /\ active[using[c]] \in {NoVariant, variant[c]}
  /\ active' = [active EXCEPT ![using[c]] = variant[c]]
  /\ Goes(c, "registered")
  /\ UNCHANGED <<parent, tableVars, open, using, variant, swept, losses>>

\* The exchange acknowledges, and the caller has its channel, which may be closed already.
Subscribed(c) ==
  /\ pc[c] \in {"registered", "cut"}
  /\ Goes(c, IF pc[c] = "registered" THEN "serving" ELSE "ended")
  /\ UNCHANGED <<parent, tableVars, open, active, using, variant, swept, losses>>

Registered(x) == {c \in Calls : using[c] = x /\ pc[c] \in {"registered", "serving"}}

\* The feed x had is no longer active once nobody is registered.
WithoutFeed(x, left) == IF left = {} THEN [active EXCEPT ![x] = NoVariant] ELSE active

\* The subscription fails: no connection, another variant, a refusal, a context
\* that ends, or the client was closed.
SubscribeFails(c) ==
  /\ pc[c] \in {"acquired", "registered", "cut"}
  /\ active' = IF pc[c] = "registered"
               THEN WithoutFeed(using[c], Registered(using[c]) \ {c}) ELSE active
  /\ Goes(c, "failed")
  /\ UNCHANGED <<parent, tableVars, open, using, variant, swept, losses>>

\* Mutant: the entry is taken for the one that was acquired.
StillCurrentUnchecked(c) == current # 0

\* The entry is that of the client this call acquired.
StillCurrent(c) == current = using[c]

\* releaseIsolatedClient, to the end of its critical section.
Release(c) ==
  /\ pc[c] = "failed"
  /\ IF ~StillCurrent(c) THEN Goes(c, "ended") /\ UNCHANGED <<current, refs>>
     ELSE IF refs > 1 THEN refs' = refs - 1 /\ Goes(c, "ended") /\ UNCHANGED current
     ELSE refs' = 0 /\ current' = 0 /\ Goes(c, "releasing")
  /\ UNCHANGED <<parent, made, open, active, using, variant, swept, losses>>

(***************************************************************************)
(* Unsubscribe.                                                            *)
(***************************************************************************)

\* There is a client, and it serves no other variant.
Removable(c) == current # 0 /\ active[current] \in {NoVariant, variant[c]}

\* removeIsolatedClientForVariant takes the client out, whoever counts on it.
Remove(c) ==
  /\ pc[c] = "idle" /\ Removable(c)
  /\ current' = 0 /\ refs' = 0
  /\ using' = [using EXCEPT ![c] = current]
  /\ Goes(c, "removed")
  /\ UNCHANGED <<parent, made, open, active, variant, swept, losses>>

RemoveFails(c) ==
  /\ pc[c] = "idle" /\ ~Removable(c)
  /\ Goes(c, "ended")
  /\ UNCHANGED <<parent, tableVars, open, active, using, variant, swept, losses>>

\* The channels of client x are closed, also those not handed out yet.
CloseChannels(x) ==
  [d \in Calls |->
     IF using[d] # x THEN pc[d]
     ELSE CASE pc[d] = "serving" -> "ended" [] pc[d] = "registered" -> "cut" [] OTHER -> pc[d]]

\* unsubscribePublicFeed waits for the wire gate, which a Subscribe holds until
\* it is answered, or for its context.
Unsubscribed(c) ==
  /\ pc[c] = "removed"
  /\ \/ /\ \A d \in Calls : using[d] = using[c] => pc[d] # "registered"
        /\ pc' = [CloseChannels(using[c]) EXCEPT ![c] = "unsubscribing"]
        /\ active' = [active EXCEPT ![using[c]] = NoVariant]
     \/ Goes(c, "unsubscribing") /\ UNCHANGED active
  /\ UNCHANGED <<parent, tableVars, open, using, variant, swept, losses>>

(***************************************************************************)
(* Isolated clients: Close, and a connection that is lost for good         *)
(* (failSubscriptionsIfCurrent).                                           *)
(***************************************************************************)
CloseClient(c) ==
  /\ pc[c] \in {"releasing", "unsubscribing"}
  /\ open' = open \ {using[c]}
  /\ active' = [active EXCEPT ![using[c]] = NoVariant]
  /\ pc' = [CloseChannels(using[c]) EXCEPT ![c] = "ended"]
  /\ UNCHANGED <<parent, tableVars, using, variant, swept, losses>>

\* The client stays in the table, with the references it had.
LosesConnection(x) ==
  /\ x \in open /\ losses < MaxLosses
  /\ losses' = losses + 1
  /\ active' = [active EXCEPT ![x] = NoVariant]
  /\ pc' = CloseChannels(x)
  /\ UNCHANGED <<parent, tableVars, open, using, variant, swept>>

(***************************************************************************)
(* Close of the parent: State first, the tables much later.                *)
(***************************************************************************)
CloseBegins ==
  /\ parent = "open" /\ parent' = "closed"
  /\ UNCHANGED <<tableVars, open, active, callVars, swept, losses>>

CloseSweeps ==
  /\ parent = "closed" /\ parent' = "sweeping"
  /\ swept' = {current} \ {0} /\ current' = 0 /\ refs' = 0
  /\ UNCHANGED <<made, open, active, callVars, losses>>

CloseSwept(x) ==
  /\ parent = "sweeping" /\ x \in swept
  /\ swept' = swept \ {x} /\ open' = open \ {x}
  /\ active' = [active EXCEPT ![x] = NoVariant]
  /\ pc' = CloseChannels(x)
  /\ UNCHANGED <<parent, tableVars, using, variant, losses>>

CloseReturns ==
  /\ parent = "sweeping" /\ swept = {} /\ parent' = "done"
  /\ UNCHANGED <<tableVars, open, active, callVars, swept, losses>>

CallStep(c) ==
  \/ Acquire(c) \/ AcquireFails(c) \/ Register(c) \/ Subscribed(c) \/ SubscribeFails(c) \/ Release(c)
  \/ Remove(c) \/ RemoveFails(c) \/ Unsubscribed(c) \/ CloseClient(c)

Next ==
  \/ \E c \in Calls : CallStep(c)
  \/ \E x \in open : LosesConnection(x)
  \/ CloseBegins \/ CloseSweeps \/ (\E x \in swept : CloseSwept(x)) \/ CloseReturns

Spec == Init /\ [][Next]_vars

-----------------------------------------------------------------------------
Places ==
  {"idle", "acquired", "registered", "cut", "serving", "failed", "releasing",
   "removed", "unsubscribing", "ended"}

TypeOK ==
  /\ parent \in {"open", "closed", "sweeping", "done"}
  /\ current \in 0 .. made /\ refs \in Nat /\ made \in Nat
  /\ open \subseteq 1 .. made
  /\ active \in [1 .. made -> Variants \cup {NoVariant}]
  /\ pc \in [Calls -> Places] /\ using \in [Calls -> 0 .. made]
  /\ variant \in [Calls -> Variants]
  /\ swept \subseteq 1 .. made /\ losses \in Nat

Closer(c) == pc[c] \in {"releasing", "removed", "unsubscribing"}

Subscribing(c) == pc[c] \in {"acquired", "registered", "cut", "serving"}

\* The client that a failed Subscribe gives back and closes is used by no other
\* call, whatever was subscribed, unsubscribed and lost meanwhile: a failure
\* never ends the stream of somebody else.
ReleasedIsUnused ==
  \A c \in Calls : pc[c] = "releasing" =>
    \A d \in Calls : using[d] = using[c] => ~Subscribing(d)

\* No connection is left behind: an open client is the one of its symbol, which
\* later calls and Close find, or somebody is about to close it.  In
\* particular a Subscribe that races Close leaves none.
NoneLeftOpen ==
  /\ \A x \in open : x = current \/ x \in swept \/ \E c \in Calls : Closer(c) /\ using[c] = x
  /\ parent \in {"sweeping", "done"} => current = 0

IsolationHolds == ReleasedIsUnused /\ NoneLeftOpen
=============================================================================
