------------------------------- MODULE MCTxn -------------------------------
(***************************************************************************)
(* TxnBuilder for TLC: two Txns, and stores with two keys.  The requests   *)
(* for <<1>> reach neither of them without WithPrefix, and one of them     *)
(* with it.                                                                *)
(***************************************************************************)
EXTENDS TxnBuilder, TLC

MCStores ==
  UNION {[keys -> {[value |-> 1, lease |-> 0]}] : keys \in SUBSET {<<1, 2>>, <<2>>}}
MCCompares == {[key |-> <<2>>, there |-> TRUE], [key |-> <<1, 2>>, there |-> FALSE]}
MCRequests ==
  {[kind |-> "range", key |-> <<1>>, value |-> 1],
   [kind |-> "delete", key |-> <<1>>, value |-> 1],
   [kind |-> "put", key |-> <<2>>, value |-> 1],
   [kind |-> "put", key |-> <<1, 2>>, value |-> 2]}
Symmetry == Permutations(Txns)
=============================================================================
