-------------------------- MODULE MCElectionWatch --------------------------
(***************************************************************************)
(* ElectionWatch for TLC.                                                  *)
(***************************************************************************)
EXTENDS ElectionWatch
=============================================================================
