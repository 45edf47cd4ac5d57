-------------------------- MODULE SessionLifecycle --------------------------
(***************************************************************************)
(* What an application may rely on when it watches a Session from outside: *)
(* its alive and expired events, its lease id, and whether it has been     *)
(* asked to stop (Close, or a finished Context).                           *)
(***************************************************************************)
CONSTANTS
  Leases,   \* the ids that a lease may have
  NoLease   \* not one of them

VARIABLES
  status,   \* "idle" before Grant; then "down", "rising", "up", "falling"; "over"
  id,       \* the lease id, or NoLease as long as there was none
  stopped   \* the session is to end

vars == <<status, id, stopped>>

Status == {"idle", "down", "rising", "up", "falling", "over"}

TypeOK ==
  /\ status \in Status
  /\ id \in Leases \cup {NoLease}
  /\ stopped \in BOOLEAN

Init == status = "idle" /\ id = NoLease /\ stopped = FALSE

Start == status = "idle" /\ status' = "down" /\ UNCHANGED <<id, stopped>>

\* The first lease that is granted fixes the id for good.
Obtain ==
  /\ status = "down" /\ id = NoLease
  /\ id' \in Leases
  /\ UNCHANGED <<status, stopped>>

Rise ==
  /\ status = "down" /\ id # NoLease
  /\ status' = "rising"
  /\ UNCHANGED <<id, stopped>>

Up == status = "rising" /\ status' = "up" /\ UNCHANGED <<id, stopped>>
Fall == status = "up" /\ status' = "falling" /\ UNCHANGED <<id, stopped>>
Down == status = "falling" /\ status' = "down" /\ UNCHANGED <<id, stopped>>

\* A request to stop is never taken back.
Stop == stopped' = TRUE /\ UNCHANGED <<status, id>>

\* The session ends only when asked to, and only from "down".
End ==
  /\ status = "down" /\ stopped
  /\ status' = "over"
  /\ UNCHANGED <<id, stopped>>

Next == Start \/ Obtain \/ Rise \/ Up \/ Fall \/ Down \/ Stop \/ End

Spec == Init /\ [][Next]_vars
=============================================================================
