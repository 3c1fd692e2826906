---------------------------- MODULE MCCliStream -----------------------------
(***************************************************************************)
(* Small instances of CliStream for TLC.                                   *)
(***************************************************************************)
EXTENDS CliStream
=============================================================================
