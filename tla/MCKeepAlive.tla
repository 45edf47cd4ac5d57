---------------------------- MODULE MCKeepAlive ----------------------------
(***************************************************************************)
(* KeepAliveTiming for TLC.                                                *)
(***************************************************************************)
EXTENDS KeepAliveTiming
=============================================================================
