--------------------------- MODULE MCSessionKeys ---------------------------
(***************************************************************************)
(* SessionKeys for TLC.                                                    *)
(***************************************************************************)
EXTENDS SessionKeys
=============================================================================
