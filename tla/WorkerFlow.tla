----------------------------- MODULE WorkerFlow -----------------------------
(***************************************************************************)
(* The course of the worker of a session, without its events, its calls,   *)
(* its ids and its clock: it grants, it keeps alive, it grants again; and  *)
(* when it is told to stop it revokes, a limited number of times.  Session *)
(* and KeepAliveTiming are two models of that worker, and each of them     *)
(* follows this course.                                                    *)
(***************************************************************************)
EXTENDS Integers

VARIABLES
  stage,     \* "idle", "granting", "keeping", "revoking", "pausing", "ended"
  stopped,   \* the worker has been told to stop
  tries,     \* revocations begun
  limit      \* how many there may be

vars == <<stage, stopped, tries, limit>>

Init ==
  /\ stage \in {"idle", "granting"}
  /\ stopped = FALSE
  /\ tries = 0
  /\ limit \in Int

Start ==
  /\ stage = "idle" /\ stage' = "granting"
  /\ limit' \in Int
  /\ UNCHANGED <<stopped, tries>>

\* To stop is never taken back.
Stop == stopped' = TRUE /\ UNCHANGED <<stage, tries, limit>>

Granted ==
  /\ stage = "granting" /\ ~stopped
  /\ stage' = "keeping"
  /\ UNCHANGED <<stopped, tries, limit>>

Lost ==
  /\ stage = "keeping"
  /\ stage' = "granting"
  /\ UNCHANGED <<stopped, tries, limit>>

\* The first revocation only once it is told to stop, the next ones each after
\* one that failed, and none beyond the limit.
Revoke ==
  /\ \/ stage \in {"granting", "keeping"} /\ stopped /\ tries' = 1
     \/ stage = "pausing" /\ tries' = tries + 1
  /\ stage' = IF tries' <= limit THEN "revoking" ELSE "ended"
  /\ UNCHANGED <<stopped, limit>>

RevokeFails ==
  /\ stage = "revoking"
  /\ stage' = "pausing"
  /\ UNCHANGED <<stopped, tries, limit>>

Revoked ==
  /\ stage = "revoking"
  /\ stage' = "ended"
  /\ UNCHANGED <<stopped, tries, limit>>

Next == Start \/ Stop \/ Granted \/ Lost \/ Revoke \/ RevokeFails \/ Revoked

Spec == Init /\ [][Next]_vars
=============================================================================
