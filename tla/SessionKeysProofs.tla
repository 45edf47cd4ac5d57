------------------------- MODULE SessionKeysProofs -------------------------
(***************************************************************************)
(* Theorems about SessionKeys.  A step of the session or of the server is  *)
(* a step of Session, so the invariant of SessionProofs carries over; what *)
(* is left is to relate it to the key and to what the application has read.*)
(***************************************************************************)
EXTENDS SessionKeys, SessionProofs

\* What the application has read, and where its key can be.
AppInv ==
  /\ apc # "idle" => inited
  /\ apc \in {"read", "putting", "put"} => mine \in issued
  /\ key # NoKey => inited /\ key \in issued \cap leases
  /\ apc = "put" => key \in {mine, NoKey}

\* An application that has not been told of a loss since its put holds a lease
\* that is not announced as expired, and no lease without its key.
ToldInv ==
  apc = "put" /\ ~told =>
    /\ ~expired
    /\ key = NoKey /\ ~lost => mine \notin leases

KeysInv == Inv /\ KeysTypeOK /\ AppInv /\ ToldInv
-----------------------------------------------------------------------------
\* A step of the whole is one of the session, or leaves the session alone.
LEMMA KeysStep == [KeysNext]_keysVars => [Next]_vars
PROOF
  BY DEF KeysNext, keysVars

\* The server forgets no lease it has issued, and the session no lease it holds.
LEMMA IssuedGrows ==
  [Next]_vars => issued \subseteq issued' /\ (inited => inited')
PROOF
<1> SUFFICES ASSUME [Next]_vars PROVE issued \subseteq issued' /\ (inited => inited')
  OBVIOUS
<1> USE DEF leaseVars, optionVars, eventVars, callerVars, lessorVars
<1>1. CASE Worker
  BY <1>1 DEF Worker, Loop, TryGrant, GrantOk, GrantFailed, GrantBackoff, Granted,
     ResetExpired, SetAlive, TryKeepAlive, WaitKeepAlive, KeepAliveOk,
     KeepAliveFailed, ResetAlive, SetExpired, TryRevoke, RevokeReturns, Finish
<1>2. CASE Application
  BY <1>2 DEF Application, Grant, GrantRefused, Close, CloseReturns, ContextDone
<1>3. CASE Server
  BY <1>3 DEF Server, sessionVars, LessorNext, Answer, ServeGrant, ServeKeepAlive,
     ServeRevoke, Refuse, Break, ServeStray, Expire
<1>4. CASE UNCHANGED vars
  BY <1>4 DEF vars, sessionVars
<1> QED
  BY <1>1, <1>2, <1>3, <1>4 DEF Next

\* As long as no grant was broken, a lease comes into being only while the
\* session says that it has none; and a broken grant is not forgotten.
LEMMA NewLeaseWhenExpired ==
  Inv /\ [Next]_vars => (lost => lost') /\ (~lost /\ ~expired => leases' \subseteq leases)
PROOF
<1> SUFFICES ASSUME Inv, [Next]_vars
             PROVE  (lost => lost') /\ (~lost /\ ~expired => leases' \subseteq leases)
  OBVIOUS
<1> USE DEF leaseVars, optionVars, eventVars, callerVars, lessorVars
<1>1. CASE Worker
  BY <1>1 DEF Worker, Loop, TryGrant, GrantOk, GrantFailed, GrantBackoff, Granted,
     ResetExpired, SetAlive, TryKeepAlive, WaitKeepAlive, KeepAliveOk,
     KeepAliveFailed, ResetAlive, SetExpired, TryRevoke, RevokeReturns, Finish
<1>2. CASE Application
  BY <1>2 DEF Application, Grant, GrantRefused, Close, CloseReturns, ContextDone
<1>3. CASE ServeGrant
  <2>1. call.op = "grant"
    BY <1>3 DEF ServeGrant, Pending
  <2>2. expired
    BY <2>1 DEF Inv, WorkerInv, AlivePC
  <2>3. QED
    BY <1>3, <2>2 DEF ServeGrant
<1>4. CASE ServeStray
  <2>1. PICK m \in stray : m.op = "grant" \/ leases' = leases \ {m.id}
    BY <1>4 DEF ServeStray
  <2>2. ~lost => m.op = "revoke"
    BY DEF Inv, RevokeInv
  <2>3. QED
    BY <1>4, <2>1, <2>2 DEF ServeStray
<1>5. CASE ServeKeepAlive \/ ServeRevoke \/ Refuse
  BY <1>5 DEF ServeKeepAlive, ServeRevoke, Refuse
<1>6. CASE Break
  BY <1>6 DEF Break
<1>7. CASE \E id \in LeaseId : Expire(id)
  BY <1>7 DEF Expire
<1>8. CASE UNCHANGED vars
  BY <1>8 DEF vars
<1> QED
  BY <1>1, <1>2, <1>3, <1>4, <1>5, <1>6, <1>7, <1>8 DEF Next, Server, LessorNext, Answer

\* The session has been granted a lease whenever it says that it is alive.
LEMMA AliveInited == Inv /\ alive => inited
PROOF
  BY DEF Inv, WorkerInv, LeaseInv, HoldPC

\* Every step keeps the application's view in line.
LEMMA KeysInvStep == KeysInv /\ [KeysNext]_keysVars => KeysInv'
PROOF
<1> SUFFICES ASSUME KeysInv, [KeysNext]_keysVars PROVE KeysInv'
  OBVIOUS
<1>1. Inv'
  BY KeysStep, TypeStep, WorkerStep, ThreadStep, LeaseStep, RevokeStep DEF KeysInv, Inv
<1>2. CASE Next /\ KeyFollows
  <2>1. issued \subseteq issued' /\ (inited => inited')
    BY <1>2, IssuedGrows
  <2>2. (lost => lost') /\ (~lost /\ ~expired => leases' \subseteq leases)
    BY <1>2, NewLeaseWhenExpired DEF KeysInv
  <2>3. KeysTypeOK'
    <3>1. TypeOK'
      BY <1>1 DEF Inv
    <3>2. told' \in BOOLEAN
      BY <1>2 DEF KeyFollows
    <3> QED
      BY <1>2, <3>1, <3>2 DEF KeyFollows, KeysInv, KeysTypeOK, NoKey, AnyId
  <2>4. AppInv'
    BY <1>2, <2>1 DEF KeyFollows, KeysInv, AppInv
  <2>5. ToldInv'
    <3> SUFFICES ASSUME apc' = "put", ~told'
                 PROVE  ~expired' /\ (key' = NoKey /\ ~lost' => mine' \notin leases')
      BY DEF ToldInv
    <3>1. apc = "put" /\ ~told /\ ~expired' /\ mine' = mine
      BY <1>2 DEF KeyFollows
    <3>2. ~expired /\ (key = NoKey /\ ~lost => mine \notin leases)
      BY <3>1 DEF KeysInv, ToldInv
    <3>3. ASSUME key' = NoKey, ~lost' PROVE mine \notin leases'
      <4>1. leases' \subseteq leases
        BY <2>2, <3>2, <3>3
      <4>2. CASE key = NoKey
        BY <2>2, <3>2, <3>3, <4>1, <4>2
      <4>3. CASE key # NoKey
        BY <1>2, <3>1, <3>3, <4>3 DEF KeyFollows, KeysInv, AppInv
      <4> QED
        BY <4>2, <4>3
    <3> QED
      BY <3>1, <3>3
  <2> QED
    BY <1>1, <2>3, <2>4, <2>5 DEF KeysInv
<1>3. CASE KeysApplication /\ UNCHANGED vars
  <2> USE <1>3 DEF KeysInv, KeysTypeOK, AppInv, ToldInv, vars, lessorVars, sessionVars
  <2>0. TypeOK'
    BY <1>1 DEF Inv
  <2>1. CASE SeesAlive
    BY <1>1, <2>0, <2>1, AliveInited DEF SeesAlive
  <2>2. CASE ReadsLease
    BY <1>1, <2>0, <2>2 DEF ReadsLease, Inv, LeaseInv, TypeOK
  <2>3. CASE Put
    BY <1>1, <2>0, <2>3 DEF Put
  <2>4. CASE ServePut
    <3>1. told' \in BOOLEAN
      BY <2>4 DEF ServePut, TypeOK
    <3>2. KeysTypeOK'
      BY <2>0, <2>4, <3>1 DEF ServePut
    <3>3. AppInv'
      BY <2>4 DEF ServePut
    <3>4. mine # NoKey
      BY <2>4, LessorAssumption DEF ServePut, NoKey, TypeOK, LessorTypeOK
    <3>5. ToldInv'
      BY <2>4, <3>4 DEF ServePut
    <3> QED
      BY <1>1, <3>2, <3>3, <3>5
  <2>5. CASE PutFails
    BY <1>1, <2>0, <2>5 DEF PutFails, NoKey
  <2>6. CASE SeesExpired
    BY <1>1, <2>0, <2>6 DEF SeesExpired
  <2> QED
    BY <2>1, <2>2, <2>3, <2>4, <2>5, <2>6 DEF KeysApplication
<1>4. CASE UNCHANGED keysVars
  <2>1. UNCHANGED vars /\ UNCHANGED appVars
    BY <1>4 DEF keysVars
  <2>2. TypeOK'
    BY <1>1 DEF Inv
  <2>3. QED
    BY <1>1, <2>1, <2>2 DEF appVars, vars, lessorVars, sessionVars, KeysInv, KeysTypeOK,
       AppInv, ToldInv
<1> QED
  BY <1>2, <1>3, <1>4 DEF KeysNext

\* The inductive invariant holds of every reachable state.
THEOREM KeysInvariance == KeysSpec => []KeysInv
PROOF
<1>1. KeysInit => KeysInv
  <2> SUFFICES ASSUME KeysInit PROVE KeysInv
    OBVIOUS
  <2>1. Inv
    BY InitInv DEF KeysInit
  <2> QED
    BY <2>1 DEF KeysInit, KeysInv, KeysTypeOK, AppInv, ToldInv, NoKey, AnyId, Inv
<1> QED
  BY <1>1, KeysInvStep, PTL DEF KeysSpec

\* Every variable of the session and of the application stays in its type.
THEOREM KeysTypeCorrect == KeysSpec => []KeysTypeOK
PROOF
<1>1. KeysInv => KeysTypeOK
  BY DEF KeysInv
<1> QED
  BY KeysInvariance, <1>1, PTL

\* session.h:108, 119: what get_lease() returns after IsAlive() was true is a
\* lease the server granted to this session, at whatever later time it is read.
THEOREM LeaseReadIsGranted == KeysSpec => []ReadsGrantedLease
PROOF
<1>1. KeysInv => ReadsGrantedLease
  BY DEF KeysInv, AppInv, ReadsGrantedLease
<1> QED
  BY KeysInvariance, <1>1, PTL

\* session.h:109: with no broken grant, no key put under the
\* session outlives a worker that ended before its retries did.
THEOREM NoKeyLeftBehind == KeysSpec => []KeysAreGone
PROOF
<1>1. KeysInv => KeysAreGone
  BY DEF KeysInv, Inv, TypeOK, RevokeInv, HeldLease, WorkerInv, AppInv, KeysAreGone
<1> QED
  BY KeysInvariance, <1>1, PTL

\* session.cc:56-71: between the loss of a key and the moment its lease exists
\* again, the expired event has been set.
THEOREM LossIsAnnounced == KeysSpec => []RegrantIsTold
PROOF
<1>1. KeysInv => RegrantIsTold
  BY DEF KeysInv, ToldInv, RegrantIsTold
<1> QED
  BY KeysInvariance, <1>1, PTL

\* SessionKeys adds an application to the session, and takes nothing away: all that
\* SessionProofs shows of Session holds beside such an application too.
THEOREM KeysImplementSession == KeysSpec => Spec
PROOF
<1>1. KeysInit => Init
  BY DEF KeysInit
<1> QED
  BY <1>1, KeysStep, PTL DEF KeysSpec, Spec

\* session.h:119, 151: an application that asked IsAlive() first puts its key on no
\* lease of another client, whatever lease_ held before the first grant.
THEOREM KeyIsOnOwnLease == KeysSpec => []KeyOnOwnLease
PROOF
<1>1. KeysInv /\ ForeignInv => KeyOnOwnLease
  <2> SUFFICES ASSUME KeysInv, ForeignInv, key \in Foreign PROVE FALSE
    BY DEF KeyOnOwnLease
  <2>1. key # NoKey
    BY LessorAssumption DEF NoKey
  <2>2. inited /\ key \in issued
    BY <2>1 DEF KeysInv, AppInv
  <2> QED
    BY <2>2 DEF ForeignInv
<1> QED
  BY KeysInvariance, KeysImplementSession, ForeignInvariance, <1>1, PTL
=============================================================================
