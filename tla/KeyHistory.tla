----------------------------- MODULE KeyHistory -----------------------------
(***************************************************************************)
(* The etcd key-value store as an election sees it: the keys in the range  *)
(* that the election reads and watches, the revision of the store, and the *)
(* history that watches are served from.                                   *)
(*                                                                         *)
(* EXTERNAL: the server is not part of this repository.  It is modelled    *)
(* from the requests of etcdv3client/{election,kv,watch}.cc and from what  *)
(* proto/{kv,rpc}.proto say of the answers.                                *)
(***************************************************************************)
EXTENDS Integers, Sequences

CONSTANTS
  Key,       \* the keys in the range of the election
  Lease,     \* the leases that a key may be put with (0: none)
  MaxRev,    \* bound: the highest revision
  Compacts   \* does anybody compact the history?

ASSUME KeyHistoryAssumption ==
  /\ Lease \subseteq Nat
  /\ MaxRev \in Nat \ {0}
  /\ Compacts \in BOOLEAN

VARIABLES
  kv,          \* key -> [lease, create], create = 0 if there is no such key
  history,     \* the events; number i has revision i + 1
  compacted,   \* events below this revision are gone
  led          \* history: the [lease, create] that were ever first created

storeVars == <<kv, history, compacted, led>>

Rev == Len(history) + 1
Absent == [lease |-> 0, create |-> 0]
Stored == [lease : Nat, create : 0..MaxRev]
EventType == {"PUT", "DELETE"}
Event == [type : EventType, create : 0..MaxRev]

StoreTypeOK ==
  /\ kv \in [Key -> Stored]
  /\ history \in Seq(Event)
  /\ Rev <= MaxRev
  /\ compacted \in -1..MaxRev
  /\ led \subseteq Stored

StoreInit ==
  /\ kv = [k \in Key |-> Absent]
  /\ history = <<>>
  /\ compacted = -1
  /\ led = {}

Existing(s) == {k \in Key : s[k].create > 0}

\* What a range request sorted by creation, ascending, limit 1 returns: the
\* key created first, if there is one.
FirstCreated(s) == {s[k] : k \in {k \in Existing(s) :
                      \A l \in Existing(s) : s[k].create <= s[l].create}}

Record(type, create) ==
  /\ Rev < MaxRev
  /\ history' = Append(history, [type |-> type, create |-> create])
  /\ led' = led \cup FirstCreated(kv')
  /\ UNCHANGED compacted

\* A candidate or anybody else creates or overwrites a key.
Put(k, l) ==
  LET create == IF kv[k].create = 0 THEN Rev + 1 ELSE kv[k].create
  IN /\ kv' = [kv EXCEPT ![k] = [lease |-> l, create |-> create]]
     /\ Record("PUT", create)

\* A key is deleted, or its lease ends.  The event's key-value holds the key
\* and the revision of the deletion only (kv.proto:35-36).
Delete(k) ==
  /\ kv[k].create > 0
  /\ kv' = [kv EXCEPT ![k] = Absent]
  /\ Record("DELETE", 0)

Compact ==
  /\ Compacts
  /\ compacted < Rev
  /\ compacted' = Rev
  /\ UNCHANGED <<kv, history, led>>

StoreNext ==
  \/ \E k \in Key : Delete(k) \/ \E l \in Lease : Put(k, l)
  \/ Compact

\* The revisions of the events of a type from a revision on.
EventsFrom(type, from) ==
  {r \in 2..Rev : r >= from /\ history[r - 1].type = type}
=============================================================================
