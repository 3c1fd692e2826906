------------------------- MODULE MCConnectionEvents -------------------------
(***************************************************************************)
(* Small instances of ConnectionEvents for TLC.                            *)
(***************************************************************************)
EXTENDS ConnectionEvents
=============================================================================
