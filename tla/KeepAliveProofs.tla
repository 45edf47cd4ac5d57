-------------------------- MODULE KeepAliveProofs --------------------------
(***************************************************************************)
(* Theorems about KeepAliveTiming, for all retry times, deadlines, TTLs and*)
(* numbers of retries.                                                     *)
(***************************************************************************)
EXTENDS KeepAliveTiming, TLAPS

\* What n revocations may take, each with a sleep.
Limit(n) == n * (Deadline + RetryMax)

\* A call is under way no longer than its deadline; a worker that has ended has
\* nothing to wait for.
CallInv ==
  /\ pc \in Calls => left <= Deadline
  /\ pc = "ended" => left = 0

\* How old the lease is, and how old it can still get.
AgeInv ==
  /\ pc = "granting" /\ served => age + left <= Deadline
  /\ pc = "waiting" => age + left + Deadline <= Reach(ttl, fails)
  /\ pc = "calling" => age + left <= IF served THEN Deadline ELSE Reach(ttl, fails)
  /\ pc = "sleeping" => age + left + Hi(ttl) + Deadline <= Reach(ttl, fails)

\* How long the worker has been running on, and how long it still can.
SinceInv ==
  /\ ~finished => since = 0
  /\ pc \in {"granting", "calling"} => since + left <= Deadline
  /\ pc \in {"grantWait", "waiting"} => since <= Deadline
  /\ pc = "sleeping" => since + left <= Deadline + Hi(ttl)
  /\ pc \in {"revoking", "pausing"} => 1 <= tries /\ tries <= RevokeRetries
  /\ pc = "revoking" => since + left <= Limit(tries) + Deadline
  /\ pc = "pausing" => since + left <= Limit(tries + 1)
  /\ pc = "ended" => since <= Limit(RevokeRetries + 1)

Inv == TypeOK /\ CallInv /\ AgeInv /\ SinceInv
-----------------------------------------------------------------------------
\* The two bounds of the back-off of TryKeepAlive.
LEMMA LoHi ==
  ASSUME NEW t \in TTLs
  PROVE  /\ Lo(t) \in Nat /\ Hi(t) \in Nat
         /\ Lo(t) <= Hi(t) /\ Hi(t) <= RetryMax
PROOF
  BY TimingAssumption DEF Lo, Hi, Least

\* Each further failure moves the reach by two waits and a call.
LEMMA ReachNext ==
  ASSUME NEW t \in TTLs, NEW k \in Nat
  PROVE  /\ Reach(t, k) \in Nat
         /\ Lo(t) + 2 * Deadline <= Reach(t, k)
         /\ Reach(t, 0) = Lo(t) + 2 * Deadline
         /\ Reach(t, k + 1) = Reach(t, k) + 2 * Hi(t) + Deadline
PROOF
<1> DEFINE p == 2 * Hi(t) + Deadline
<1>1. Lo(t) \in Nat /\ Hi(t) \in Nat /\ Deadline \in Nat
  BY LoHi, TimingAssumption
<1>2. p \in Nat
  BY <1>1
<1>3. k * p \in Nat /\ 0 * p = 0 /\ (k + 1) * p = k * p + p
  <2> HIDE DEF p
  <2> QED
    BY <1>2
<1> QED
  BY <1>1, <1>2, <1>3 DEF Reach

\* Each further revocation moves the limit by a call and a sleep.
LEMMA LimitNext ==
  ASSUME NEW n \in Nat
  PROVE  /\ Limit(n) \in Nat
         /\ Limit(1) = Deadline + RetryMax
         /\ Limit(n + 1) = Limit(n) + Deadline + RetryMax
PROOF
<1> DEFINE p == Deadline + RetryMax
<1>1. Deadline \in Nat /\ RetryMax \in Nat /\ p \in Nat
  BY TimingAssumption
<1>2. n * p \in Nat /\ 1 * p = p /\ (n + 1) * p = n * p + p
  <2> HIDE DEF p
  <2> QED
    BY <1>1
<1> QED
  BY <1>1, <1>2 DEF Limit

\* More revocations take no less time.
LEMMA LimitGrows ==
  ASSUME NEW m \in Nat, NEW n \in Nat, m <= n
  PROVE  Limit(m) <= Limit(n)
PROOF
<1> DEFINE p == Deadline + RetryMax
<1>1. p \in Nat
  BY TimingAssumption
<1>2. n - m \in Nat
  OBVIOUS
<1>3. (n - m) * p \in Nat /\ n * p = m * p + (n - m) * p /\ m * p \in Nat
  <2> HIDE DEF p
  <2> QED
    BY <1>1, <1>2
<1> QED
  BY <1>1, <1>3 DEF Limit

\* The constants are numbers.
LEMMA Numbers ==
  /\ RetryMin \in Nat /\ RetryMax \in Nat /\ RetryMin <= RetryMax
  /\ Deadline \in Nat /\ RevokeRetries \in Nat /\ MaxFails \in Nat
  /\ TTLs \subseteq Nat
PROOF
  BY TimingAssumption

\* TryRevoke, begun or gone on with in time, stays in time.
LEMMA RevokeInTime ==
  ASSUME Inv, NEW n \in Nat \ {0}, Revoke(n), n <= RevokeRetries + 1,
         since <= Limit(n)
  PROVE  Inv'
PROOF
<1> USE Numbers
<1>1. Limit(n) \in Nat /\ Limit(RevokeRetries + 1) \in Nat
  BY LimitNext
<1>2. CASE n <= RevokeRetries
  <2>1. /\ pc' = "revoking" /\ left' = Deadline /\ served' = FALSE /\ tries' = n
        /\ UNCHANGED <<ttl, age, fails, finished, since>>
    BY <1>2 DEF Revoke, Call
  <2>2. TypeOK'
    BY <2>1 DEF Inv, TypeOK, Calls
  <2>3. CallInv'
    BY <2>1 DEF CallInv
  <2>4. AgeInv'
    BY <2>1 DEF AgeInv
  <2>5. SinceInv'
    <3>1. since + Deadline <= Limit(n) + Deadline
      BY <1>1 DEF Inv, TypeOK
    <3>2. 1 <= n
      OBVIOUS
    <3> QED
      BY <1>2, <2>1, <3>1, <3>2 DEF SinceInv, Inv
  <2> QED
    BY <2>2, <2>3, <2>4, <2>5 DEF Inv
<1>3. CASE ~(n <= RevokeRetries)
  <2>1. /\ pc' = "ended" /\ left' = 0 /\ served' = FALSE /\ tries' = n
        /\ UNCHANGED <<ttl, age, fails, finished, since>>
    BY <1>3 DEF Revoke, Call
  <2>2. TypeOK'
    BY <2>1 DEF Inv, TypeOK
  <2>3. CallInv'
    BY <2>1 DEF CallInv, Calls
  <2>4. AgeInv'
    BY <2>1 DEF AgeInv
  <2>5. SinceInv'
    <3>1. n = RevokeRetries + 1
      BY <1>3
    <3> QED
      BY <2>1, <3>1 DEF SinceInv, Inv
  <2> QED
    BY <2>2, <2>3, <2>4, <2>5 DEF Inv
<1> QED
  BY <1>2, <1>3

\* Every step keeps the invariant.
LEMMA InvStep == Inv /\ [Next]_vars => Inv'
PROOF
<1> SUFFICES ASSUME Inv, [Next]_vars PROVE Inv'
  OBVIOUS
<1> USE Numbers DEF Calls, Alive
<1>0. /\ Lo(ttl) \in Nat /\ Hi(ttl) \in Nat /\ Lo(ttl) <= Hi(ttl) /\ Hi(ttl) <= RetryMax
      /\ Reach(ttl, fails) \in Nat /\ Lo(ttl) + 2 * Deadline <= Reach(ttl, fails)
      /\ Reach(ttl, 0) = Lo(ttl) + 2 * Deadline
      /\ Reach(ttl, fails + 1) = Reach(ttl, fails) + 2 * Hi(ttl) + Deadline
      /\ Limit(1) = Deadline + RetryMax
  BY LoHi, ReachNext, LimitNext DEF Inv, TypeOK
<1>1. CASE Tick
  <2>1. tries \in Nat => Limit(tries) \in Nat /\ Limit(tries + 1) \in Nat
    BY LimitNext
  <2>5. TypeOK'
    BY <1>0, <1>1, <2>1 DEF Inv, TypeOK, Tick
  <2>6. CallInv'
    BY <1>0, <1>1, <2>1 DEF Inv, TypeOK, CallInv, Tick
  <2>7. AgeInv'
    BY <1>0, <1>1, <2>1 DEF Inv, TypeOK, CallInv, AgeInv, Tick
  <2>8. SinceInv'
    <3>1. /\ left' = left - 1 /\ left > 0
          /\ since' = IF finished THEN since + 1 ELSE since
          /\ pc \in {"waiting", "grantWait"} => ~finished
          /\ UNCHANGED <<pc, ttl, tries, finished>>
      BY <1>1 DEF Tick
    <3>2. left \in Nat /\ since \in Nat /\ tries \in Nat
      BY DEF Inv, TypeOK
    <3>3. /\ since' + left' <= since + left /\ since' \in Nat /\ left' \in Nat
          /\ ~finished => since' = since
      BY <3>1, <3>2
    <3>4. pc # "ended"
      BY <3>1 DEF Inv, CallInv
    <3> QED
      BY <1>0, <2>1, <3>1, <3>2, <3>3, <3>4 DEF Inv, SinceInv
  <2> QED
    BY <2>5, <2>6, <2>7, <2>8 DEF Inv
<1>2. CASE Stop
  <2>5. TypeOK'
    BY <1>0, <1>2 DEF Inv, TypeOK, Stop
  <2>6. CallInv'
    BY <1>0, <1>2 DEF Inv, TypeOK, CallInv, Stop
  <2>7. AgeInv'
    BY <1>0, <1>2 DEF Inv, TypeOK, CallInv, AgeInv, Stop
  <2>8. SinceInv'
    BY <1>0, <1>2 DEF Inv, TypeOK, CallInv, SinceInv, Stop
  <2> QED
    BY <2>5, <2>6, <2>7, <2>8 DEF Inv
<1>3. CASE ServeGrant
  <2>1. ttl' \in TTLs
    BY <1>0, <1>3 DEF ServeGrant
  <2>5. TypeOK'
    BY <1>0, <1>3, <2>1 DEF Inv, TypeOK, ServeGrant
  <2>6. CallInv'
    BY <1>0, <1>3, <2>1 DEF Inv, TypeOK, CallInv, ServeGrant
  <2>7. AgeInv'
    BY <1>0, <1>3, <2>1 DEF Inv, TypeOK, CallInv, AgeInv, ServeGrant
  <2>8. SinceInv'
    BY <1>0, <1>3, <2>1 DEF Inv, TypeOK, CallInv, SinceInv, ServeGrant
  <2> QED
    BY <2>5, <2>6, <2>7, <2>8 DEF Inv
<1>4. CASE ServeKeepAlive
  <2>5. TypeOK'
    BY <1>0, <1>4 DEF Inv, TypeOK, ServeKeepAlive
  <2>6. CallInv'
    BY <1>0, <1>4 DEF Inv, TypeOK, CallInv, ServeKeepAlive
  <2>7. AgeInv'
    BY <1>0, <1>4 DEF Inv, TypeOK, CallInv, AgeInv, ServeKeepAlive
  <2>8. SinceInv'
    BY <1>0, <1>4 DEF Inv, TypeOK, CallInv, SinceInv, ServeKeepAlive
  <2> QED
    BY <2>5, <2>6, <2>7, <2>8 DEF Inv
<1>5. CASE Granted
  <2>1. CASE finished /\ Revoke(1)
    BY <1>0, <1>5, <2>1, RevokeInTime DEF Inv, TypeOK, SinceInv, Granted
  <2>2. CASE ~finished
    <3>4. /\ pc' = "waiting" /\ left' = Lo(ttl) /\ served' = FALSE /\ fails' = 0
          /\ UNCHANGED <<ttl, age, tries, finished, since>>
      BY <1>5, <2>2 DEF Granted
    <3>5. TypeOK'
      BY <1>0, <3>4 DEF Inv, TypeOK
    <3>6. CallInv'
      BY <1>0, <1>5, <2>2 DEF Inv, TypeOK, CallInv, Granted
    <3>7. AgeInv'
      BY <1>0, <1>5, <2>2 DEF Inv, TypeOK, CallInv, AgeInv, Granted
    <3>8. SinceInv'
      BY <1>0, <1>5, <2>2 DEF Inv, TypeOK, CallInv, SinceInv, Granted
    <3> QED
      BY <3>5, <3>6, <3>7, <3>8 DEF Inv
  <2> QED
    BY <1>5, <2>1, <2>2 DEF Granted
<1>6. CASE GrantFails
  <2>1. left' \in Nat
    BY <1>0, <1>6 DEF GrantFails, Pause
  <2>5. TypeOK'
    BY <1>0, <1>6, <2>1 DEF Inv, TypeOK, GrantFails
  <2>6. CallInv'
    BY <1>0, <1>6, <2>1 DEF Inv, TypeOK, CallInv, GrantFails
  <2>7. AgeInv'
    BY <1>0, <1>6, <2>1 DEF Inv, TypeOK, CallInv, AgeInv, GrantFails
  <2>8. SinceInv'
    BY <1>0, <1>6, <2>1 DEF Inv, TypeOK, CallInv, SinceInv, GrantFails
  <2> QED
    BY <2>5, <2>6, <2>7, <2>8 DEF Inv
<1>7. CASE GrantWaits
  <2>1. CASE finished /\ Revoke(1)
    BY <1>0, <1>7, <2>1, RevokeInTime DEF Inv, TypeOK, SinceInv, GrantWaits
  <2>2. CASE ~finished
    <3>5. TypeOK'
      BY <1>0, <1>7, <2>2 DEF Inv, TypeOK, GrantWaits, Call
    <3>6. CallInv'
      BY <1>0, <1>7, <2>2 DEF Inv, TypeOK, CallInv, GrantWaits, Call
    <3>7. AgeInv'
      BY <1>0, <1>7, <2>2 DEF Inv, TypeOK, CallInv, AgeInv, GrantWaits, Call
    <3>8. SinceInv'
      BY <1>0, <1>7, <2>2 DEF Inv, TypeOK, CallInv, SinceInv, GrantWaits, Call
    <3> QED
      BY <3>5, <3>6, <3>7, <3>8 DEF Inv
  <2> QED
    BY <1>7, <2>1, <2>2 DEF GrantWaits
<1>8. CASE Waits
  <2>1. CASE finished /\ Revoke(1)
    BY <1>0, <1>8, <2>1, RevokeInTime DEF Inv, TypeOK, SinceInv, Waits
  <2>2. CASE ~finished
    <3>5. TypeOK'
      BY <1>0, <1>8, <2>2 DEF Inv, TypeOK, Waits, Call
    <3>6. CallInv'
      BY <1>0, <1>8, <2>2 DEF Inv, TypeOK, CallInv, Waits, Call
    <3>7. AgeInv'
      BY <1>0, <1>8, <2>2 DEF Inv, TypeOK, CallInv, AgeInv, Waits, Call
    <3>8. SinceInv'
      BY <1>0, <1>8, <2>2 DEF Inv, TypeOK, CallInv, SinceInv, Waits, Call
    <3> QED
      BY <3>5, <3>6, <3>7, <3>8 DEF Inv
  <2> QED
    BY <1>8, <2>1, <2>2 DEF Waits
<1>9. CASE KeepAliveOk
  <2>5. TypeOK'
    BY <1>0, <1>9 DEF Inv, TypeOK, KeepAliveOk
  <2>6. CallInv'
    BY <1>0, <1>9 DEF Inv, TypeOK, CallInv, KeepAliveOk
  <2>7. AgeInv'
    BY <1>0, <1>9 DEF Inv, TypeOK, CallInv, AgeInv, KeepAliveOk
  <2>8. SinceInv'
    BY <1>0, <1>9 DEF Inv, TypeOK, CallInv, SinceInv, KeepAliveOk
  <2> QED
    BY <2>5, <2>6, <2>7, <2>8 DEF Inv
<1>10. CASE KeepAliveFails
  <2>1. left' \in Nat /\ left' <= Hi(ttl)
    BY <1>0, <1>10 DEF KeepAliveFails
  <2>4. /\ pc' = "sleeping" /\ served' = FALSE /\ fails' = fails + 1
        /\ UNCHANGED <<ttl, age, tries, finished, since>>
    BY <1>10 DEF KeepAliveFails
  <2>5. TypeOK'
    <3>1. fails \in Nat /\ fails' \in Nat
      BY <2>4 DEF Inv, TypeOK
    <3>2. served' \in BOOLEAN /\ finished' \in BOOLEAN
      BY <2>4 DEF Inv, TypeOK
    <3> QED
      BY <2>1, <2>4, <3>1, <3>2 DEF Inv, TypeOK
  <2>6. CallInv'
    BY <1>0, <1>10, <2>1 DEF Inv, TypeOK, CallInv, KeepAliveFails
  <2>7. AgeInv'
    BY <1>0, <1>10, <2>1 DEF Inv, TypeOK, CallInv, AgeInv, KeepAliveFails
  <2>8. SinceInv'
    BY <1>0, <1>10, <2>1 DEF Inv, TypeOK, CallInv, SinceInv, KeepAliveFails
  <2> QED
    BY <2>5, <2>6, <2>7, <2>8 DEF Inv
<1>11. CASE Sleeps
  <2>1. CASE finished /\ Revoke(1)
    BY <1>0, <1>11, <2>1, RevokeInTime DEF Inv, TypeOK, SinceInv, Sleeps
  <2>2. CASE ~finished
    <3>1. left' \in Nat /\ left' <= Hi(ttl)
      BY <1>0, <1>11, <2>2 DEF Sleeps
    <3>5. TypeOK'
      BY <1>0, <1>11, <2>2, <3>1 DEF Inv, TypeOK, Sleeps
    <3>6. CallInv'
      BY <1>0, <1>11, <2>2, <3>1 DEF Inv, TypeOK, CallInv, Sleeps
    <3>7. AgeInv'
      BY <1>0, <1>11, <2>2, <3>1 DEF Inv, TypeOK, CallInv, AgeInv, Sleeps
    <3>8. SinceInv'
      BY <1>0, <1>11, <2>2, <3>1 DEF Inv, TypeOK, CallInv, SinceInv, Sleeps
    <3> QED
      BY <3>5, <3>6, <3>7, <3>8 DEF Inv
  <2> QED
    BY <1>11, <2>1, <2>2 DEF Sleeps
<1>12. CASE LeaseLost
  <2>1. CASE finished /\ Revoke(1)
    BY <1>0, <1>12, <2>1, RevokeInTime DEF Inv, TypeOK, SinceInv, LeaseLost
  <2>2. CASE ~finished
    <3>5. TypeOK'
      BY <1>0, <1>12, <2>2 DEF Inv, TypeOK, LeaseLost, Call
    <3>6. CallInv'
      BY <1>0, <1>12, <2>2 DEF Inv, TypeOK, CallInv, LeaseLost, Call
    <3>7. AgeInv'
      BY <1>0, <1>12, <2>2 DEF Inv, TypeOK, CallInv, AgeInv, LeaseLost, Call
    <3>8. SinceInv'
      BY <1>0, <1>12, <2>2 DEF Inv, TypeOK, CallInv, SinceInv, LeaseLost, Call
    <3> QED
      BY <3>5, <3>6, <3>7, <3>8 DEF Inv
  <2> QED
    BY <1>12, <2>1, <2>2 DEF LeaseLost
<1>13. CASE Revoked
  <2>1. Limit(tries + 1) <= Limit(RevokeRetries + 1)
    BY <1>13, LimitGrows DEF Revoked, Inv, TypeOK, SinceInv
  <2>2. /\ Limit(tries) \in Nat /\ Limit(tries + 1) = Limit(tries) + Deadline + RetryMax
        /\ Limit(RevokeRetries + 1) \in Nat
    BY LimitNext DEF Inv, TypeOK
  <2>5. TypeOK'
    BY <1>13, <2>1, <2>2 DEF Inv, TypeOK, Revoked
  <2>6. CallInv'
    BY <1>13, <2>1, <2>2 DEF Inv, TypeOK, CallInv, Revoked
  <2>7. AgeInv'
    BY <1>13, <2>1, <2>2 DEF Inv, TypeOK, CallInv, AgeInv, Revoked
  <2>8. SinceInv'
    BY <1>13, <2>1, <2>2 DEF Inv, TypeOK, CallInv, SinceInv, Revoked
  <2> QED
    BY <2>5, <2>6, <2>7, <2>8 DEF Inv
<1>14. CASE RevokeFails
  <2>1. left' \in Nat /\ left' <= RetryMax
    BY <1>14 DEF RevokeFails, Pause
  <2>2. Limit(tries) \in Nat /\ Limit(tries + 1) = Limit(tries) + Deadline + RetryMax
    BY LimitNext DEF Inv, TypeOK
  <2>5. TypeOK'
    BY <1>14, <2>1, <2>2 DEF Inv, TypeOK, RevokeFails
  <2>6. CallInv'
    BY <1>14, <2>1, <2>2 DEF Inv, TypeOK, CallInv, RevokeFails
  <2>7. AgeInv'
    BY <1>14, <2>1, <2>2 DEF Inv, TypeOK, CallInv, AgeInv, RevokeFails
  <2>8. SinceInv'
    BY <1>14, <2>1, <2>2 DEF Inv, TypeOK, CallInv, SinceInv, RevokeFails
  <2> QED
    BY <2>5, <2>6, <2>7, <2>8 DEF Inv
<1>15. CASE Pauses
  <2>1. Revoke(tries + 1)
    BY <1>15 DEF Pauses
  <2>2. /\ tries + 1 \in Nat \ {0} /\ tries + 1 <= RevokeRetries + 1
        /\ Limit(tries + 1) \in Nat /\ since <= Limit(tries + 1)
    BY <1>15, LimitNext DEF Pauses, Inv, TypeOK, SinceInv
  <2> QED
    BY <2>1, <2>2, RevokeInTime
<1>16. CASE UNCHANGED vars
  BY <1>16 DEF vars, Inv, TypeOK, CallInv, AgeInv, SinceInv
<1> QED
  BY <1>1, <1>2, <1>3, <1>4, <1>5, <1>6, <1>7, <1>8, <1>9, <1>10, <1>11, <1>12,
     <1>13, <1>14, <1>15, <1>16 DEF Next, Server, Worker

\* The inductive invariant holds of every reachable state.
THEOREM TimingInvariance == Spec => []Inv
PROOF
<1>1. Init => Inv
  <2> SUFFICES ASSUME Init PROVE Inv
    OBVIOUS
  <2> USE Numbers DEF Init, Calls
  <2>1. TypeOK
    BY DEF TypeOK
  <2>2. CallInv
    BY DEF CallInv
  <2>3. AgeInv
    BY DEF AgeInv
  <2>4. SinceInv
    BY DEF SinceInv
  <2> QED
    BY <2>1, <2>2, <2>3, <2>4 DEF Inv
<1> QED
  BY <1>1, InvStep, PTL DEF Spec

\* Every variable stays in its type.
THEOREM TimingTypeCorrect == Spec => []TypeOK
PROOF
<1>1. Inv => TypeOK
  BY DEF Inv
<1> QED
  BY TimingInvariance, <1>1, PTL

\* session.cc:108-151: while the session says it is alive, its lease was renewed
\* at most Reach ago.
THEOREM AliveMeansRenewed == Spec => []AliveIsRenewed
PROOF
<1>1. Inv => AliveIsRenewed
  <2> SUFFICES ASSUME Inv PROVE AliveIsRenewed
    OBVIOUS
  <2>1. /\ Lo(ttl) \in Nat /\ Hi(ttl) \in Nat /\ Reach(ttl, fails) \in Nat
        /\ Lo(ttl) + 2 * Deadline <= Reach(ttl, fails)
    BY LoHi, ReachNext DEF Inv, TypeOK
  <2> QED
    BY <2>1, Numbers DEF Inv, TypeOK, AgeInv, Alive, AliveIsRenewed
<1> QED
  BY TimingInvariance, <1>1, PTL

\* session.cc:108-149: when the waits and calls of k failures fit into the TTL,
\* k failures in a row never cost the session its lease.
THEOREM FailuresSurvived ==
  Spec => [](pc \in Alive /\ Reach(ttl, fails) < ttl => age < ttl)
PROOF
<1>1. TypeOK /\ AliveIsRenewed => (pc \in Alive /\ Reach(ttl, fails) < ttl => age < ttl)
  <2> SUFFICES ASSUME TypeOK, AliveIsRenewed, pc \in Alive, Reach(ttl, fails) < ttl
               PROVE  age < ttl
    OBVIOUS
  <2>1. Reach(ttl, fails) \in Nat /\ ttl \in Nat /\ age \in Nat
    BY ReachNext, Numbers DEF TypeOK
  <2> QED
    BY <2>1 DEF AliveIsRenewed
<1> QED
  BY TimingTypeCorrect, AliveMeansRenewed, <1>1, PTL

\* session.cc:43-48, 152-175: a worker that is told to stop is gone in time.
THEOREM ClosesInBoundedTime == Spec => []ClosesInTime
PROOF
<1>1. Inv => ClosesInTime
  <2> SUFFICES ASSUME Inv PROVE ClosesInTime
    OBVIOUS
  <2>1. /\ Limit(RevokeRetries + 1) \in Nat
        /\ Deadline + RetryMax <= Limit(RevokeRetries + 1)
    <3>1. Limit(1) <= Limit(RevokeRetries + 1)
      BY LimitGrows, Numbers
    <3> QED
      BY <3>1, LimitNext, Numbers
  <2>2. since <= Limit(RevokeRetries + 1)
    <3>1. CASE pc \in {"granting", "calling", "grantWait", "waiting", "sleeping"}
      BY <2>1, <3>1, LoHi, Numbers DEF Inv, TypeOK, SinceInv
    <3>2. CASE pc \in {"revoking", "pausing"}
      <4>0. tries \in Nat /\ tries + 1 <= RevokeRetries + 1
        BY <3>2, Numbers DEF Inv, TypeOK, SinceInv
      <4>1. Limit(tries) \in Nat /\ Limit(tries + 1) = Limit(tries) + Deadline + RetryMax
        BY <4>0, LimitNext
      <4>2. Limit(tries + 1) <= Limit(RevokeRetries + 1)
        <5>1. tries + 1 \in Nat /\ RevokeRetries + 1 \in Nat
          BY <4>0, Numbers
        <5> QED
          BY <4>0, <5>1, LimitGrows
      <4> QED
        BY <2>1, <3>2, <4>1, <4>2, Numbers DEF Inv, TypeOK, SinceInv
    <3>3. CASE pc = "ended"
      BY <3>3 DEF Inv, SinceInv
    <3> QED
      BY <3>1, <3>2, <3>3 DEF Inv, TypeOK, Alive, Calls
  <2> QED
    BY <2>2 DEF ClosesInTime, Limit
<1> QED
  BY TimingInvariance, <1>1, PTL

-----------------------------------------------------------------------------
(* The course of the worker. *)

\* Revocations are counted from 0, and only once the worker is told to stop.
CountInv == pc \notin {"revoking", "pausing", "ended"} => tries = 0

LEMMA CountStep == CountInv /\ [Next]_vars => CountInv'
PROOF
<1> SUFFICES ASSUME CountInv, [Next]_vars PROVE CountInv'
  OBVIOUS
<1> USE DEF CountInv, Call, Revoke
<1>1. CASE Tick \/ Stop \/ Server \/ UNCHANGED vars
  BY <1>1 DEF Tick, Stop, Server, ServeGrant, ServeKeepAlive, vars
<1>2. CASE Granted \/ GrantFails \/ GrantWaits \/ Waits \/ LeaseLost
  BY <1>2 DEF Granted, GrantFails, GrantWaits, Waits, LeaseLost
<1>3. CASE KeepAliveOk \/ KeepAliveFails \/ Sleeps
  BY <1>3 DEF KeepAliveOk, KeepAliveFails, Sleeps
<1>4. CASE Revoked \/ RevokeFails \/ Pauses
  BY <1>4 DEF Revoked, RevokeFails, Pauses
<1> QED
  BY <1>1, <1>2, <1>3, <1>4 DEF Next, Worker

\* Every step goes on in the course, or stays where it is.
LEMMA FlowStep ==
  ASSUME TypeOK, CountInv, [Next]_vars
  PROVE  Flow!Next \/ UNCHANGED <<Stage, finished, tries>>
PROOF
<1> USE DEF Stage, Alive, Call
<1>1. CASE Tick \/ Server \/ UNCHANGED vars
  BY <1>1 DEF Tick, Server, ServeGrant, ServeKeepAlive, vars
<1>2. CASE Stop
  BY <1>2 DEF Stop, Flow!Next, Flow!Stop
<1>3. ASSUME finished, pc \in Alive \cup {"granting", "grantWait"}, Revoke(1)
      PROVE  Flow!Next
  BY <1>3 DEF Revoke, Flow!Next, Flow!Revoke
<1>4. CASE Granted
  <2>1. CASE finished
    BY <1>3, <1>4, <2>1 DEF Granted
  <2>2. CASE ~finished
    BY <1>4, <2>2 DEF Granted, Flow!Next, Flow!Granted
  <2> QED
    BY <2>1, <2>2
<1>5. CASE GrantFails
  BY <1>5 DEF GrantFails
<1>6. CASE GrantWaits \/ Waits \/ Sleeps
  BY <1>3, <1>6 DEF GrantWaits, Waits, Sleeps
<1>7. CASE KeepAliveOk \/ KeepAliveFails
  BY <1>7 DEF KeepAliveOk, KeepAliveFails
<1>8. CASE LeaseLost
  <2>1. CASE finished
    BY <1>3, <1>8, <2>1 DEF LeaseLost
  <2>2. CASE ~finished
    BY <1>8, <2>2 DEF LeaseLost, Flow!Next, Flow!Lost
  <2> QED
    BY <2>1, <2>2
<1>9. CASE Revoked \/ RevokeFails
  BY <1>9 DEF Revoked, RevokeFails, Flow!Next, Flow!Revoked, Flow!RevokeFails
<1>10. CASE Pauses
  BY <1>10 DEF Pauses, Revoke, Flow!Next, Flow!Revoke
<1> QED
  BY <1>1, <1>2, <1>4, <1>5, <1>6, <1>7, <1>8, <1>9, <1>10 DEF Next, Worker

\* session.cc:52-175: with its durations, the worker still follows WorkerFlow, as
\* that of Session does without them.
THEOREM TimedWorkerFollowsFlow == Spec => FollowsFlow
PROOF
<1>1. Init => Flow!Init /\ CountInv
  BY Numbers DEF Init, Flow!Init, CountInv, Stage
<1>2. TypeOK /\ CountInv /\ [Next]_vars => [Flow!Next]_(Flow!vars)
  BY FlowStep DEF Flow!vars
<1> QED
  BY TimingTypeCorrect, CountStep, <1>1, <1>2, PTL DEF Spec, FollowsFlow, Flow!Spec
=============================================================================
