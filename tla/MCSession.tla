----------------------------- MODULE MCSession -----------------------------
(***************************************************************************)
(* Session and Lessor for TLC.                                             *)
(***************************************************************************)
EXTENDS Session

\* The option is a signed int: a negative number means no revocation at all,
\* and 0 the default of three.
MCRetryOptions == {-1, 0}
=============================================================================
