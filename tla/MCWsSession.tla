---------------------------- MODULE MCWsSession ----------------------------
(***************************************************************************)
(* A small instance for TLC of the WebSocket layers of the TypeScript SDK: *)
(* the session with its streams (WsSession), and the order books that      *)
(* share one (LocalBooks, which has the session in outline).  They share   *)
(* no state and are explored one at a time.                                *)
(***************************************************************************)
EXTENDS WsSession

CONSTANTS
  Symbols, Moving, MaxBooks, MaxUpdates, MaxPending, MaxResyncs  \* LocalBooks

ASSUME MCWsSessionAssumption ==
  MaxBooks \in Nat /\ MaxUpdates \in Nat /\ MaxPending \in Nat /\ MaxResyncs \in Nat

VARIABLES
  books, made, bookReady, updates, feed, frames, used, reopened, bookFaults,  \* LocalBooks
  layer  \* the layer that a behaviour explores

bookVars == <<books, made, bookReady, updates, feed, frames, used, reopened, bookFaults>>

Books == INSTANCE LocalBooks
  WITH client <- books, ready <- bookReady, stream <- feed, wire <- frames, faults <- bookFaults

TypeScriptInit == Init /\ Books!Init /\ layer \in {"session", "books"}

TypeScriptNext ==
  /\ UNCHANGED layer
  /\ \/ layer = "session" /\ Next /\ UNCHANGED bookVars
     \/ layer = "books" /\ Books!Next /\ UNCHANGED vars

TypeScriptSpec ==
  /\ TypeScriptInit /\ [][TypeScriptNext]_<<vars, bookVars, layer>>
  /\ Fairness /\ Books!Fairness

\* A live book shows the exchange's levels at its last update ID.
BookIsExact == Books!BookIsExact

\* A stale book is rebuilt or closed.
BooksRecover == Books!BooksRecover
=============================================================================
