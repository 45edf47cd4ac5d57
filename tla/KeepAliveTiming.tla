-------------------------- MODULE KeepAliveTiming --------------------------
(***************************************************************************)
(* The worker of etcdv3client/session.cc against the clock.  Session.tla   *)
(* lets a wait, a sleep and a call last for any time; here they have       *)
(* durations, in seconds, and the question is how old the lease may get    *)
(* between two renewals and how long the worker runs on after it is told   *)
(* to stop.  The control is that of Session.tla, with the events and the   *)
(* ids left out; a lease that is gone is answered with NOT_FOUND.          *)
(*                                                                         *)
(* Time passes by Tick, for everyone at once; every other step takes none. *)
(* BackOffStrategy (cbase, EXTERNAL) is used as its callers use it: Next() *)
(* lies between the two durations it was built with, and is the smaller    *)
(* one after construction and after Reset(); Reset(false) promises nothing.*)
(***************************************************************************)
EXTENDS Integers

CONSTANTS
  RetryMin, RetryMax,  \* SessionOptions::WithRetryWaitTime
  Deadline,            \* of each call: get_grpc_client_context_func_ sets it
  TTLs,                \* lease_ttl_: what the server may answer to a grant
  RevokeRetries,       \* revoke_max_retry_times
  MaxFails             \* bound: keep-alives that fail between two renewals

ASSUME TimingAssumption ==
  /\ RetryMin \in Nat \ {0} /\ RetryMax \in Nat /\ RetryMin <= RetryMax
  /\ Deadline \in Nat
  /\ TTLs \subseteq Nat \ {0}
  /\ RevokeRetries \in Nat
  /\ MaxFails \in Nat

VARIABLES
  pc,        \* where the worker is
  left,      \* what is left of its wait or sleep, or until its call times out
  served,    \* the server has acted on the call under way
  ttl,       \* lease_ttl_
  age,       \* seconds since the server last granted or renewed the lease
  fails,     \* history: keep-alives that failed since one last succeeded
  tries,     \* retry_times in TryRevoke
  finished,  \* close_event->Finished()
  since      \* history: seconds since then

vars == <<pc, left, served, ttl, age, fails, tries, finished, since>>

Alive == {"waiting", "calling", "sleeping"}
Calls == {"granting", "calling", "revoking"}

TypeOK ==
  /\ pc \in Alive \cup Calls \cup {"grantWait", "pausing", "ended"}
  /\ left \in Nat /\ age \in Nat /\ fails \in Nat /\ tries \in Nat /\ since \in Nat
  /\ served \in BOOLEAN /\ finished \in BOOLEAN
  /\ ttl \in TTLs

\* The back-off of TryKeepAlive is built from min(retry times, ttl).
Least(a, b) == IF a <= b THEN a ELSE b
Lo(t) == Least(RetryMin, t)
Hi(t) == Least(RetryMax, t)

\* The back-offs of TryGrant and TryRevoke: no TTL, and Reset(false) always.
Pause == RetryMin .. RetryMax

Init ==
  /\ pc = "granting" /\ left = Deadline
  /\ served = FALSE
  /\ ttl \in TTLs /\ age = 0 /\ fails = 0 /\ tries = 0
  /\ finished = FALSE /\ since = 0

Call(where) == pc' = where /\ left' = Deadline /\ served' = FALSE

\* Close(), or the context is done.
Stop ==
  /\ ~finished /\ pc # "ended"
  /\ finished' = TRUE
  /\ UNCHANGED <<pc, left, served, ttl, age, fails, tries, since>>

\* A wait ends at once when close_event is finished; a sleep does not.
Tick ==
  /\ left > 0
  /\ ~(finished /\ pc \in {"waiting", "grantWait"})
  /\ left' = left - 1
  /\ age' = IF pc \in Alive \/ served THEN age + 1 ELSE age
  /\ since' = IF finished THEN since + 1 ELSE since
  /\ UNCHANGED <<pc, served, ttl, fails, tries, finished>>

-----------------------------------------------------------------------------
(* The server. *)

ServeGrant ==
  /\ pc = "granting" /\ ~served
  /\ served' = TRUE
  /\ ttl' \in TTLs /\ age' = 0
  /\ UNCHANGED <<pc, left, fails, tries, finished, since>>

ServeKeepAlive ==
  /\ pc = "calling" /\ ~served /\ age < ttl
  /\ served' = TRUE /\ age' = 0
  /\ UNCHANGED <<pc, left, ttl, fails, tries, finished, since>>

-----------------------------------------------------------------------------
(* The worker. *)

\* Mutant: retry_times++ where the code has ++retry_times.
RevokeOnceMore(n) ==
  /\ tries' = n
  /\ IF n <= RevokeRetries + 1 THEN Call("revoking")
                               ELSE pc' = "ended" /\ left' = 0 /\ served' = FALSE
  /\ UNCHANGED <<ttl, age, fails, finished, since>>

\* TryRevoke: while (++retry_times <= revoke_max_retry_times).
Revoke(n) ==
  /\ tries' = n
  /\ IF n <= RevokeRetries THEN Call("revoking")
                           ELSE pc' = "ended" /\ left' = 0 /\ served' = FALSE
  /\ UNCHANGED <<ttl, age, fails, finished, since>>

\* GrantAndKeepAlive goes on to TryKeepAlive with a new back-off, or, finished,
\* to TryRevoke.  The wait of TryKeepAlive takes the back-off's first Next().
Granted ==
  /\ pc = "granting" /\ served
  /\ \/ finished /\ Revoke(1)
     \/ /\ ~finished
        /\ pc' = "waiting" /\ left' = Lo(ttl)
        /\ served' = FALSE /\ fails' = 0
        /\ UNCHANGED <<ttl, age, tries, finished, since>>

GrantFails ==
  /\ pc = "granting"
  /\ pc' = "grantWait" /\ left' \in Pause /\ served' = FALSE
  /\ UNCHANGED <<ttl, age, fails, tries, finished, since>>

\* close_event->Wait(backoff.Next()) of TryGrant.
GrantWaits ==
  /\ pc = "grantWait"
  /\ \/ finished /\ Revoke(1)
     \/ /\ ~finished /\ left = 0
        /\ Call("granting")
        /\ UNCHANGED <<ttl, age, fails, tries, finished, since>>

\* close_event->Wait(backoff.Next()) of TryKeepAlive, then the request.
Waits ==
  /\ pc = "waiting"
  /\ \/ finished /\ Revoke(1)
     \/ /\ ~finished /\ left = 0
        /\ Call("calling")
        /\ UNCHANGED <<ttl, age, fails, tries, finished, since>>

\* Mutant: the back-off is not reset after a success.
KeepAliveOkKeepsBackoff ==
  /\ pc = "calling" /\ served
  /\ pc' = "waiting" /\ served' = FALSE /\ fails' = 0
  /\ left' \in Lo(ttl) .. Hi(ttl)
  /\ UNCHANGED <<ttl, age, tries, finished, since>>

\* backoff.Reset(), and the inner loop waits for backoff.Next() again.
KeepAliveOk ==
  /\ pc = "calling" /\ served
  /\ pc' = "waiting" /\ served' = FALSE /\ fails' = 0
  /\ left' = Lo(ttl)
  /\ UNCHANGED <<ttl, age, tries, finished, since>>

\* The call ends with an error, whether or not it was served: a plain sleep.
KeepAliveFails ==
  /\ pc = "calling" /\ fails < MaxFails
  /\ pc' = "sleeping" /\ served' = FALSE /\ fails' = fails + 1
  /\ left' \in Lo(ttl) .. Hi(ttl)
  /\ UNCHANGED <<ttl, age, tries, finished, since>>

\* ... and, unless finished, a new stream and the wait before its first request.
Sleeps ==
  /\ pc = "sleeping" /\ left = 0
  /\ \/ finished /\ Revoke(1)
     \/ /\ ~finished
        /\ pc' = "waiting" /\ left' \in Lo(ttl) .. Hi(ttl)
        /\ UNCHANGED <<served, ttl, age, fails, tries, finished, since>>

\* NOT_FOUND: TryKeepAlive returns, and the outer loop starts over.
LeaseLost ==
  /\ pc = "calling" /\ ~served /\ age >= ttl
  /\ \/ finished /\ Revoke(1)
     \/ /\ ~finished
        /\ Call("granting")
        /\ UNCHANGED <<ttl, age, fails, tries, finished, since>>

Revoked ==
  /\ pc = "revoking"
  /\ pc' = "ended" /\ left' = 0
  /\ UNCHANGED <<served, ttl, age, fails, tries, finished, since>>

\* Each failed revocation is followed by a sleep, the last one too.
RevokeFails ==
  /\ pc = "revoking"
  /\ pc' = "pausing" /\ left' \in Pause
  /\ UNCHANGED <<served, ttl, age, fails, tries, finished, since>>

\* Mutant: the retries are counted down.
PausesCountsDown == pc = "pausing" /\ left = 0 /\ Revoke(tries - 1)

Pauses == pc = "pausing" /\ left = 0 /\ Revoke(tries + 1)

Server == ServeGrant \/ ServeKeepAlive

Worker ==
  \/ Granted \/ GrantFails \/ GrantWaits
  \/ Waits \/ KeepAliveOk \/ KeepAliveFails \/ Sleeps \/ LeaseLost
  \/ Revoked \/ RevokeFails \/ Pauses

Next == Tick \/ Stop \/ Server \/ Worker

Spec == Init /\ [][Next]_vars
-----------------------------------------------------------------------------
\* The longest a lease with TTL t goes without a renewal when k
\* keep-alives in a row fail: the answer to the grant, one wait and one call; and
\* for each failure a sleep, another wait and another call (session.cc:117-149).
Reach(t, k) == Lo(t) + 2 * Deadline + k * (2 * Hi(t) + Deadline)

\* A session that says it is alive had its lease renewed that recently.  So a
\* lease is never lost to k failures when Reach(ttl, k) is below its TTL; and when it
\* is not, this is how long the session can go on saying that it is alive.
AliveIsRenewed == pc \in Alive => age <= Reach(ttl, fails)

\* After Close(), or the end of the context, the worker is gone within one call,
\* one sleep, and for each revocation it tries a call and a sleep: Close, which
\* joins it, can block for that long (session.cc:145, 160-174; session.cc:43-48).
ClosesInTime == since <= (RevokeRetries + 1) * (Deadline + RetryMax)

-----------------------------------------------------------------------------
(* The worker with a clock is the worker without one. *)

Stage ==
  IF pc \in {"granting", "grantWait"} THEN "granting"
  ELSE IF pc \in Alive THEN "keeping" ELSE pc

Flow == INSTANCE WorkerFlow WITH
  stage <- Stage, stopped <- finished, limit <- RevokeRetries

\* Whatever its waits, sleeps and deadlines are, the worker follows the course that
\* it follows in Session (session.cc:52-175).
FollowsFlow == Flow!Spec
=============================================================================
