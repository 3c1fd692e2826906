----------------------------- MODULE MCWsClient -----------------------------
(***************************************************************************)
(* Small instances of WsClient for TLC.                                    *)
(***************************************************************************)
EXTENDS WsClient, TLC

\* Feeds without variants (trades, tickers), and feeds that are all variants
\* of one family (the two cadences of a symbol's depth, orders@account and
\* orders@session).
NoFamily  == [f \in Feeds |-> None]
OneFamily == [f \in Feeds |-> "family"]

\* Calls are interchangeable: each picks its operation when it starts.
CallSymmetry == Permutations(Calls)
=============================================================================
