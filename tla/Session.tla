------------------------------ MODULE Session ------------------------------
(***************************************************************************)
(* etcdv3client/session.{h,cc}: one Session object, the application        *)
(* threads that call Grant and Close on it, the worker thread that Grant   *)
(* starts, and the lease server it talks to (module Lessor).               *)
(*                                                                         *)
(* The worker is a sequential program: wpc is its program counter, and     *)
(* each action runs it to its next access to something shared (an event, a *)
(* call to the server).  Durations are left out: a wait may end at any     *)
(* time, and a sleep is the worker not moving.                             *)
(***************************************************************************)
EXTENDS Lessor

CONSTANTS
  Callers,       \* application threads that share the session
  RequestIds,    \* values of SessionOptions::lease_ (0: the server chooses)
  RetryOptions   \* values of SessionOptions::revoke_max_retry_times_

ASSUME SessionAssumption ==
  /\ RequestIds \subseteq AnyId
  /\ RetryOptions \subseteq Int

VARIABLES
  wpc,           \* where the worker thread is
  lease,         \* lease_
  inited,        \* history: lease_ has been assigned (the constructor does not)
  options,       \* the worker's copy of the SessionOptions: [lease, retries]
  retry,         \* retry_times in TryRevoke
  alive,         \* alive_->IsSet()
  expired,       \* expired_->IsSet()
  closed,        \* closed_.IsSet()
  done,          \* the Context given to Grant is finished
  granted,       \* granted_
  handle,        \* grant_and_keep_alive_thread_
  cpc,           \* per caller: "idle", or "joining" inside Close
  ret,           \* per caller: what its last Grant returned
  closeReturned  \* history: a call of Close has returned

leaseVars == <<lease, inited>>
optionVars == <<options, retry>>
eventVars == <<alive, expired, closed, done>>
callerVars == <<granted, handle, cpc, ret, closeReturned>>
sessionVars == <<wpc, lease, inited, options, retry, alive, expired, closed,
                 done, granted, handle, cpc, ret, closeReturned>>
vars == <<lessorVars, sessionVars>>

WorkerPC ==
  {"none", "loop", "tryGrant", "granting", "grantBackoff", "granted",
   "resetExpired", "setAlive", "tryKeepAlive", "waitKeepAlive", "keepingAlive",
   "resetAlive", "setExpired", "tryRevoke", "revoking", "finish", "ended"}

GrantResult == {"none", "OK", "SessionAlreadyClosed", "SessionAlreadyGranted"}

TypeOK ==
  /\ LessorTypeOK
  /\ wpc \in WorkerPC
  /\ lease \in AnyId
  /\ inited \in BOOLEAN
  /\ options \in [lease : AnyId, retries : Int]
  /\ retry \in Nat
  /\ alive \in BOOLEAN /\ expired \in BOOLEAN
  /\ closed \in BOOLEAN /\ done \in BOOLEAN
  /\ granted \in BOOLEAN
  /\ handle \in {"none", "joinable", "joined"}
  /\ cpc \in [Callers -> {"idle", "joining"}]
  /\ ret \in [Callers -> GrantResult]
  /\ closeReturned \in BOOLEAN

\* The constructor sets neither lease_ nor lease_ttl_: lease_ holds whatever
\* the memory held.  expired_ starts set, alive_ and closed_ do not.
Init ==
  /\ LessorInit
  /\ wpc = "none"
  /\ lease \in AnyId
  /\ inited = FALSE
  /\ options = [lease |-> InvalidLeaseID, retries |-> 0]
  /\ retry = 0
  /\ alive = FALSE
  /\ expired = TRUE
  /\ closed = FALSE
  /\ done = FALSE
  /\ granted = FALSE
  /\ handle = "none"
  /\ cpc = [c \in Callers |-> "idle"]
  /\ ret = [c \in Callers |-> "none"]
  /\ closeReturned = FALSE

\* close_event = WaitAny({ctx, &closed_}); both only ever become finished.
Finished == done \/ closed

\* m_ is held across the join in Close, and never by the worker.
MutexFree == \A c \in Callers : cpc[c] = "idle"

-----------------------------------------------------------------------------
(* Application threads. *)

\* Session::Grant.  The whole body runs under m_ and does not block.
Grant(c, id, retries) ==
  /\ MutexFree
  /\ ~closed /\ ~granted
  /\ handle' = "joinable"
  /\ wpc' = "loop"
  /\ options' = [lease |-> id, retries |-> retries]
  /\ granted' = TRUE
  /\ ret' = [ret EXCEPT ![c] = "OK"]
  /\ UNCHANGED <<lessorVars, leaseVars, retry, eventVars, cpc, closeReturned>>

GrantRefused(c) ==
  /\ MutexFree
  /\ closed \/ granted
  /\ ret' = [ret EXCEPT ![c] = IF closed THEN "SessionAlreadyClosed"
                                         ELSE "SessionAlreadyGranted"]
  /\ UNCHANGED <<lessorVars, wpc, leaseVars, optionVars, eventVars, granted,
                 handle, cpc, closeReturned>>

\* Session::Close up to the join ...
Close(c) ==
  /\ MutexFree
  /\ closed' = TRUE
  /\ cpc' = [cpc EXCEPT ![c] = "joining"]
  /\ UNCHANGED <<lessorVars, wpc, leaseVars, optionVars, alive, expired, done,
                 granted, handle, ret, closeReturned>>

\* Mutant: Close does not join the worker.
CloseReturnsNoJoin(c) ==
  /\ cpc[c] = "joining"
  /\ cpc' = [cpc EXCEPT ![c] = "idle"]
  /\ closeReturned' = TRUE
  /\ UNCHANGED <<lessorVars, wpc, leaseVars, optionVars, eventVars, granted,
                 handle, ret>>

\* ... and from the end of the worker to its return.
CloseReturns(c) ==
  /\ cpc[c] = "joining"
  /\ handle = "joinable" => wpc = "ended"
  /\ handle' = IF handle = "joinable" THEN "joined" ELSE handle
  /\ cpc' = [cpc EXCEPT ![c] = "idle"]
  /\ closeReturned' = TRUE
  /\ UNCHANGED <<lessorVars, wpc, leaseVars, optionVars, eventVars, granted, ret>>

\* The context is cancelled, or its deadline passes.
ContextDone ==
  /\ ~done
  /\ done' = TRUE
  /\ UNCHANGED <<lessorVars, wpc, leaseVars, optionVars, alive, expired, closed,
                 callerVars>>

-----------------------------------------------------------------------------
(* The worker: GrantAndKeepAlive and what it calls. *)

Goto(from, to) == wpc = from /\ wpc' = to

\* while (!close_event->Finished()) of GrantAndKeepAlive.  TryRevoke is entered
\* with retry_times = 0.
Loop ==
  /\ Goto("loop", IF Finished THEN "tryRevoke" ELSE "tryGrant")
  /\ retry' = 0
  /\ UNCHANGED <<lessorVars, leaseVars, options, eventVars, callerVars>>

\* TryGrant: the loop's condition, then the LeaseGrant call.
TryGrant ==
  /\ wpc = "tryGrant"
  /\ \/ /\ Finished
        /\ wpc' = "granted" /\ UNCHANGED call
     \/ /\ ~Finished
        /\ wpc' = "granting" /\ Send("grant", options.lease)
  /\ UNCHANGED <<leases, stray, issued, lost, leaseVars, optionVars, eventVars,
                 callerVars>>

GrantOk ==
  /\ Goto("granting", "granted")
  /\ Answered("grant") /\ call.st = "ok"
  /\ lease' = call.id /\ inited' = TRUE
  /\ HangUp
  /\ UNCHANGED <<leases, stray, issued, lost, optionVars, eventVars, callerVars>>

GrantFailed ==
  /\ Goto("granting", "grantBackoff")
  /\ Answered("grant") /\ call.st # "ok"
  /\ HangUp
  /\ UNCHANGED <<leases, stray, issued, lost, leaseVars, optionVars, eventVars,
                 callerVars>>

\* Mutant: the wait of the back-off has no time-out.
GrantBackoffForever ==
  /\ Finished
  /\ Goto("grantBackoff", "granted")
  /\ UNCHANGED <<lessorVars, leaseVars, optionVars, eventVars, callerVars>>

\* close_event->Wait(backoff.Next()): true if finished, false on time-out.
GrantBackoff ==
  /\ Goto("grantBackoff", IF Finished THEN "granted" ELSE "tryGrant")
  /\ UNCHANGED <<lessorVars, leaseVars, optionVars, eventVars, callerVars>>

\* Mutant: the session is declared alive without looking at close_event again.
GrantedUnchecked ==
  /\ Goto("granted", "resetExpired")
  /\ options' = [options EXCEPT !.lease = lease]
  /\ UNCHANGED <<lessorVars, leaseVars, retry, eventVars, callerVars>>

\* Mutant: the granted lease is not written back into the options.
GrantedForgets ==
  /\ Goto("granted", IF Finished THEN "loop" ELSE "resetExpired")
  /\ UNCHANGED <<lessorVars, leaseVars, optionVars, eventVars, callerVars>>

\* Back in GrantAndKeepAlive: later grants ask for the lease held now.
Granted ==
  /\ Goto("granted", IF Finished THEN "loop" ELSE "resetExpired")
  /\ options' = [options EXCEPT !.lease = lease]
  /\ UNCHANGED <<lessorVars, leaseVars, retry, eventVars, callerVars>>

\* Mutant: alive_ is set before expired_ is reset.
ResetExpiredSwapped ==
  /\ Goto("resetExpired", "setAlive")
  /\ alive' = TRUE
  /\ UNCHANGED <<lessorVars, leaseVars, optionVars, expired, closed, done, callerVars>>

ResetExpired ==
  /\ Goto("resetExpired", "setAlive")
  /\ expired' = FALSE
  /\ UNCHANGED <<lessorVars, leaseVars, optionVars, alive, closed, done, callerVars>>

SetAlive ==
  /\ Goto("setAlive", "tryKeepAlive")
  /\ alive' = TRUE
  /\ UNCHANGED <<lessorVars, leaseVars, optionVars, expired, closed, done, callerVars>>

\* TryKeepAlive: the outer loop's condition, then a new stream.
TryKeepAlive ==
  /\ Goto("tryKeepAlive", IF Finished THEN "resetAlive" ELSE "waitKeepAlive")
  /\ UNCHANGED <<lessorVars, leaseVars, optionVars, eventVars, callerVars>>

\* Mutant: the wait of the inner loop is a plain sleep.
WaitKeepAliveSleeps ==
  /\ Goto("waitKeepAlive", "keepingAlive")
  /\ Send("keepalive", lease)
  /\ UNCHANGED <<leases, stray, issued, lost, leaseVars, optionVars, eventVars,
                 callerVars>>

\* The inner loop: wait, then write a request and block reading the response.
WaitKeepAlive ==
  /\ wpc = "waitKeepAlive"
  /\ \/ /\ Finished
        /\ wpc' = "resetAlive" /\ UNCHANGED call
     \/ /\ ~Finished
        /\ wpc' = "keepingAlive" /\ Send("keepalive", lease)
  /\ UNCHANGED <<leases, stray, issued, lost, leaseVars, optionVars, eventVars,
                 callerVars>>

\* Any response counts as a success: its TTL is stored, not looked at.
KeepAliveOk ==
  /\ Goto("keepingAlive", "waitKeepAlive")
  /\ Answered("keepalive") /\ call.st \in {"ok", "gone"}
  /\ lease' = call.id
  /\ HangUp
  /\ UNCHANGED <<leases, stray, issued, lost, inited, optionVars, eventVars,
                 callerVars>>

\* Mutant: NOT_FOUND opens another stream, as any other error does.
KeepAliveFailedRetries ==
  /\ Answered("keepalive") /\ call.st \in {"notfound", "error"}
  /\ Goto("keepingAlive", "tryKeepAlive")
  /\ HangUp
  /\ UNCHANGED <<leases, stray, issued, lost, leaseVars, optionVars, eventVars,
                 callerVars>>

\* The stream ended: NOT_FOUND leaves TryKeepAlive, any other status sleeps
\* (not interruptible) and opens another stream.
KeepAliveFailed ==
  /\ Answered("keepalive") /\ call.st \in {"notfound", "error"}
  /\ Goto("keepingAlive", IF call.st = "notfound" THEN "resetAlive" ELSE "tryKeepAlive")
  /\ HangUp
  /\ UNCHANGED <<leases, stray, issued, lost, leaseVars, optionVars, eventVars,
                 callerVars>>

ResetAlive ==
  /\ Goto("resetAlive", "setExpired")
  /\ alive' = FALSE
  /\ UNCHANGED <<lessorVars, leaseVars, optionVars, expired, closed, done, callerVars>>

\* Mutant: expired_ is not set when the keep-alive stops.
SetExpiredMissing ==
  /\ Goto("setExpired", "loop")
  /\ UNCHANGED <<lessorVars, leaseVars, optionVars, eventVars, callerVars>>

SetExpired ==
  /\ Goto("setExpired", "loop")
  /\ expired' = TRUE
  /\ UNCHANGED <<lessorVars, leaseVars, optionVars, alive, closed, done, callerVars>>

\* revoke_default_max_retry_times applies when the option is 0.
RetryLimit == IF options.retries = 0 THEN 3 ELSE options.retries

\* Mutant: the counter runs down, so the limit is never met.
TryRevokeCountsDown ==
  /\ wpc = "tryRevoke"
  /\ retry' = retry - 1
  /\ wpc' = "revoking" /\ Send("revoke", lease)
  /\ UNCHANGED <<leases, stray, issued, lost, leaseVars, options, eventVars,
                 callerVars>>

\* Mutant: failed revocations are not counted.
TryRevokeForever ==
  /\ wpc = "tryRevoke"
  /\ wpc' = "revoking" /\ Send("revoke", lease)
  /\ UNCHANGED <<leases, stray, issued, lost, leaseVars, optionVars, eventVars,
                 callerVars>>

\* Mutant: what is revoked is the lease that was asked for.
TryRevokeRequested ==
  /\ wpc = "tryRevoke"
  /\ retry' = retry + 1
  /\ \/ /\ retry' <= RetryLimit
        /\ wpc' = "revoking" /\ Send("revoke", options.lease)
     \/ /\ retry' > RetryLimit
        /\ wpc' = "finish" /\ UNCHANGED call
  /\ UNCHANGED <<leases, stray, issued, lost, leaseVars, options, eventVars,
                 callerVars>>

\* TryRevoke: while (++retry_times <= revoke_max_retry_times).
TryRevoke ==
  /\ wpc = "tryRevoke"
  /\ retry' = retry + 1
  /\ \/ /\ retry' <= RetryLimit
        /\ wpc' = "revoking" /\ Send("revoke", lease)
     \/ /\ retry' > RetryLimit
        /\ wpc' = "finish" /\ UNCHANGED call
  /\ UNCHANGED <<leases, stray, issued, lost, leaseVars, options, eventVars,
                 callerVars>>

\* Mutant: any answer ends TryRevoke.
RevokeReturnsAlways ==
  /\ Answered("revoke")
  /\ Goto("revoking", "finish")
  /\ HangUp
  /\ UNCHANGED <<leases, stray, issued, lost, leaseVars, optionVars, eventVars,
                 callerVars>>

RevokeReturns ==
  /\ Answered("revoke")
  /\ Goto("revoking", IF call.st \in {"ok", "notfound"} THEN "finish" ELSE "tryRevoke")
  /\ HangUp
  /\ UNCHANGED <<leases, stray, issued, lost, leaseVars, optionVars, eventVars,
                 callerVars>>

\* closed_.Set() and the end of the thread.
Finish ==
  /\ Goto("finish", "ended")
  /\ closed' = TRUE
  /\ UNCHANGED <<lessorVars, leaseVars, optionVars, alive, expired, done, callerVars>>

Worker ==
  \/ Loop \/ TryGrant \/ GrantOk \/ GrantFailed \/ GrantBackoff \/ Granted
  \/ ResetExpired \/ SetAlive
  \/ TryKeepAlive \/ WaitKeepAlive \/ KeepAliveOk \/ KeepAliveFailed
  \/ ResetAlive \/ SetExpired
  \/ TryRevoke \/ RevokeReturns \/ Finish

Application ==
  \/ \E c \in Callers :
       \/ \E id \in RequestIds, n \in RetryOptions : Grant(c, id, n)
       \/ GrantRefused(c) \/ Close(c) \/ CloseReturns(c)
  \/ ContextDone

Server == LessorNext /\ UNCHANGED sessionVars

Next == Worker \/ Application \/ Server

Spec == Init /\ [][Next]_vars

-----------------------------------------------------------------------------
(* Safety. *)

\* No thread that looks at both events ever finds the session alive and
\* expired at once: the worker resets one before it sets the other
\* (session.cc:63-64 and 70-71).
EventsExclusive == ~(alive /\ expired)

\* While IsAlive() says so, lease_ is a lease the server did grant to this
\* session, never the value the constructor left there: the close that lets
\* TryGrant return without a lease (session.cc:103) is seen at line 61.
AliveHoldsLease == alive => inited /\ lease \in issued

\* Once some call of Close has returned, the worker is gone, nothing is under
\* way on its behalf, the events read "expired", and no later Grant, by any
\* thread, starts it again (session.cc:25-32, 42-50).
CloseIsFinal ==
  closeReturned =>
    /\ closed /\ expired /\ ~alive
    /\ wpc \in {"none", "ended"}
    /\ call = NoCall

\* What the session asks of the server agrees with what its events say and with
\* the lease it holds: it keeps alive only a lease it announces as alive, and
\* it grants or revokes only when it has announced the lease as expired; it
\* never revokes while it may still go on.
CallsMatchEvents ==
  /\ call.op = "keepalive" => alive /\ call.id = lease
  /\ call.op = "grant" => expired /\ ~alive
  /\ call.op = "revoke" => expired /\ ~alive /\ Finished /\ call.id = lease

\* A worker that ended with revocations to spare has left no lease behind, also
\* where the network broke some of its revocations and NOT_FOUND answers a later
\* one (session.cc:166), unless it broke one of its grants: of a lease that is
\* created behind the session's back the session knows nothing.
RevokedAtTheEnd ==
  wpc = "ended" /\ retry <= RetryLimit /\ ~lost => issued \cap leases = {}

\* The lease id never changes once it is known: a lost lease is granted again
\* under the same id (session.cc:58), and a keep-alive answers with the id it
\* was sent (session.cc:132).
LeaseIdStable == [][inited => lease' = lease]_vars

\* Another client's lease goes only if lease_ names it by chance, from the memory
\* it was constructed in, and no grant has assigned it before the session is
\* closed (session.h:151, session.cc:165): a session that ever had a lease
\* ends no other.
OnlyMemoryHurts ==
  \/ Foreign \subseteq leases
  \/ ~inited /\ Foreign \ leases = {lease}

\* How many steps the worker has left at most once the session is finished: those
\* to the condition of GrantAndKeepAlive's loop, then those of TryRevoke.
Revocations == IF RetryLimit > 0 THEN RetryLimit ELSE 0
RevocationsLeft == IF retry < RetryLimit THEN RetryLimit - retry ELSE 0
ToLoop ==
  [loop |-> 0, granted |-> 1, grantBackoff |-> 2, tryGrant |-> 2, granting |-> 3,
   setExpired |-> 1, resetAlive |-> 2, tryKeepAlive |-> 3, waitKeepAlive |-> 3,
   keepingAlive |-> 4, setAlive |-> 4, resetExpired |-> 5]
FromLoop ==
  [tryRevoke |-> 2 + 2 * RevocationsLeft, revoking |-> 3 + 2 * RevocationsLeft,
   finish |-> 1, ended |-> 0, none |-> 0]
StepsLeft ==
  IF wpc \in DOMAIN ToLoop THEN ToLoop[wpc] + 3 + 2 * Revocations ELSE FromLoop[wpc]

\* Once the session is closed, or its context is finished, whatever the worker
\* does brings it nearer to its end, and nothing that a server, a caller or the
\* network does takes it further away: it begins no grant and no keep-alive, and
\* takes at most 8 + 2 * Revocations steps (session.cc:55-175).
WindsDown ==
  [][Finished /\ wpc # "none" =>
       /\ StepsLeft' >= 0
       /\ wpc' = wpc => StepsLeft' = StepsLeft
       /\ wpc' # wpc => StepsLeft' < StepsLeft]_vars

-----------------------------------------------------------------------------
(* What an application may rely on, and that the session provides it. *)

\* The events, read as one status; "rising" and "falling" are the moments in
\* which neither is set.
Observed ==
  IF wpc \in {"none", "ended"} THEN IF wpc = "none" THEN "idle" ELSE "over"
  ELSE IF alive THEN "up"
  ELSE IF expired THEN "down"
  ELSE IF wpc = "setAlive" THEN "rising" ELSE "falling"

Lifecycle == INSTANCE SessionLifecycle WITH
  Leases <- LeaseId,
  NoLease <- InvalidLeaseID,
  status <- Observed,
  id <- IF inited THEN lease ELSE InvalidLeaseID,
  stopped <- Finished

\* The session, its worker and the server together implement the lifecycle.
ImplementsLifecycle == Lifecycle!Spec

\* How far the worker is in the course that GrantAndKeepAlive takes.
KeepingPC == {"resetExpired", "setAlive", "tryKeepAlive", "waitKeepAlive", "keepingAlive",
              "resetAlive", "setExpired"}
Stage ==
  IF wpc = "none" THEN "idle"
  ELSE IF wpc \in KeepingPC THEN "keeping"
  ELSE IF wpc = "revoking" THEN "revoking"
  ELSE IF wpc = "tryRevoke" /\ retry > 0 THEN "pausing"
  ELSE IF wpc \in {"finish", "ended"} THEN "ended" ELSE "granting"

Flow == INSTANCE WorkerFlow WITH
  stage <- Stage, stopped <- Finished, tries <- retry, limit <- RetryLimit

\* The worker follows the course of GrantAndKeepAlive: it revokes nothing before it
\* is told to stop, tries no more often than its options say, and grants and
\* keeps alive nothing from its first revocation on (session.cc:52-175).
FollowsFlow == Flow!Spec

-----------------------------------------------------------------------------
(* Liveness. *)

\* The threads run: the worker takes its next step, and a Close that can
\* return does.
ThreadsRun ==
  /\ WF_vars(Worker)
  /\ \A c \in Callers : WF_vars(CloseReturns(c))

\* Every call ends one way or another.  The session sets no deadline: this is
\* what a deadline set by SessionOptions::get_grpc_client_context_func gives.
CallsEnd == WF_vars(Answer /\ UNCHANGED sessionVars)

\* From some time on the network breaks no call and the server refuses only the
\* grant of an id in use; and a lease that nobody keeps alive expires.
NetworkHeals ==
  <>[][~Break /\ (Refuse => call.op = "grant" /\ call.id \in leases)]_vars
LeasesExpire ==
  \A id \in LeaseId :
    WF_vars(~(alive /\ lease = id) /\ Expire(id) /\ UNCHANGED sessionVars)

FairSpec == Spec /\ ThreadsRun /\ CallsEnd
HealedSpec == FairSpec /\ NetworkHeals /\ LeasesExpire

\* A finished context ends the worker and closes the session, whatever the
\* server answers and however often it fails (session.h:93).
ContextCloses == done /\ wpc # "none" ~> wpc = "ended" /\ closed

\* Close returns: the join under m_ (session.cc:43-48) is no deadlock.
CloseTerminates == \A c \in Callers : cpc[c] = "joining" ~> cpc[c] = "idle"

\* A session that was granted comes alive, unless it is stopped first.
BecomesAlive == wpc # "none" ~> alive \/ Finished

\* A session whose lease is gone stops saying that it is alive.
LossNoticed == alive /\ lease \notin leases ~> ~alive \/ lease \in leases

-----------------------------------------------------------------------------
(* What the repository says and the code does not do: see README.md. *)

\* The session only ever ends leases that are its own.
ForeignLeasesKept == Foreign \subseteq leases
=============================================================================
