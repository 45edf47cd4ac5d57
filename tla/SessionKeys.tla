---------------------------- MODULE SessionKeys ----------------------------
(***************************************************************************)
(* What a session is for: a key that lives as long as the session does.    *)
(*                                                                         *)
(* One more application thread looks at IsAlive(), reads get_lease(), puts *)
(* a key under that lease, and from then on waits for the expired event    *)
(* (get_expired_event) to learn that the key is gone.  It takes no lock:   *)
(* the worker may be anywhere while it does so.  The reads of lease_       *)
(* (session.h:119) race with the worker's writes; an aligned 64-bit load   *)
(* returns the value before or after such a write, as an atomic step does. *)
(***************************************************************************)
EXTENDS Session

VARIABLES
  apc,        \* where this application thread is
  mine,       \* the lease id it has read
  key,        \* the lease its key is attached to on the server, or NoKey
  told        \* history: expired_ has been set at some time since the put

appVars == <<apc, mine, key, told>>
keysVars == <<vars, appVars>>

NoKey == InvalidLeaseID

KeysTypeOK ==
  /\ TypeOK
  /\ apc \in {"idle", "alive", "read", "putting", "put"}
  /\ mine \in AnyId
  /\ key \in AnyId
  /\ told \in BOOLEAN

KeysInit ==
  /\ Init
  /\ apc = "idle"
  /\ mine = InvalidLeaseID
  /\ key = NoKey
  /\ told = FALSE

\* IsAlive() returned true.
SeesAlive ==
  /\ apc = "idle" /\ alive
  /\ apc' = "alive"
  /\ UNCHANGED <<mine, key, told>>

\* get_lease(), at some later time.
ReadsLease ==
  /\ apc = "alive"
  /\ mine' = lease
  /\ apc' = "read"
  /\ UNCHANGED <<key, told>>

\* Put(..., PutOptions().WithLease(mine)) sets off ...
Put ==
  /\ apc = "read"
  /\ apc' = "putting"
  /\ UNCHANGED <<mine, key, told>>

\* ... and is served: the server stores the key only under a lease that exists.
ServePut ==
  /\ apc = "putting" /\ mine \in leases
  /\ key' = mine
  /\ told' = expired
  /\ apc' = "put"
  /\ UNCHANGED mine

\* The put fails, or only its answer is lost.
PutFails ==
  /\ apc = "putting"
  /\ key' \in {key} \cup ({mine} \cap leases)
  /\ apc' = "idle"
  /\ UNCHANGED <<mine, told>>

\* The expired event wakes the application: it starts over.
SeesExpired ==
  /\ apc = "put" /\ expired
  /\ apc' = "idle"
  /\ UNCHANGED <<mine, key, told>>

\* Whatever the session and the server do, the server deletes the keys of a
\* lease that ends.
KeyFollows ==
  /\ key' = IF key \in leases' THEN key ELSE NoKey
  /\ told' = (told \/ expired')
  /\ UNCHANGED <<apc, mine>>

KeysApplication ==
  SeesAlive \/ ReadsLease \/ Put \/ ServePut \/ PutFails \/ SeesExpired

KeysNext ==
  \/ Next /\ KeyFollows
  \/ KeysApplication /\ UNCHANGED vars

KeysSpec == KeysInit /\ [][KeysNext]_keysVars

KeysHealedSpec ==
  KeysSpec /\ ThreadsRun /\ CallsEnd /\ NetworkHeals /\ LeasesExpire
-----------------------------------------------------------------------------
\* The id that get_lease() returns after IsAlive() said so is one the server
\* granted to this session, whatever has happened to the session in between:
\* never the uninitialised lease_, and never 0, with which the key would have
\* no lease and stay for ever (session.h:108, 119).
ReadsGrantedLease == apc \in {"read", "putting", "put"} => mine \in issued

\* No key that an application puts under its session ends up on a lease that
\* another client holds, though lease_ may name one until the first grant
\* assigns it (session.h:119, 151, session.cc:61-64).
KeyOnOwnLease == key \notin Foreign

\* When the worker has ended with revocations to spare, no key put under the
\* session is left, whenever the put was served (session.h:109: Close "also will
\* revoke the lease"), unless the network broke a grant.
KeysAreGone ==
  wpc = "ended" /\ retry <= RetryLimit /\ ~lost => key = NoKey

\* The lease is granted again under the same id, but the key is not put again:
\* before that happens the expired event has been set, so that a lease that
\* looks as good as before never hides the loss of the key (session.cc:56-71),
\* unless the network broke a grant whose request was served late.
RegrantIsTold ==
  apc = "put" /\ key = NoKey /\ mine \in leases /\ ~lost => told

\* An application whose lease is gone is told so.
LossTold == apc = "put" /\ mine \notin leases /\ stray = {} ~> told
=============================================================================
