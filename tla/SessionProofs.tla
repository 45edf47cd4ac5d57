--------------------------- MODULE SessionProofs ---------------------------
(***************************************************************************)
(* Theorems about Session, for every number of callers, every set of       *)
(* leases, any number of stray requests and both ways in which a server    *)
(* answers for a lease that is gone.                                       *)
(***************************************************************************)
EXTENDS Session, TLAPS

AlivePC == {"tryKeepAlive", "waitKeepAlive", "keepingAlive", "resetAlive"}
HoldPC == AlivePC \cup {"resetExpired", "setAlive", "setExpired"}
ClosePC == {"tryRevoke", "revoking", "finish"}

\* Where the worker is decides what the events say and which call is under way.
WorkerInv ==
  /\ alive <=> wpc \in AlivePC
  /\ expired <=> wpc \notin AlivePC \cup {"setAlive", "setExpired"}
  /\ call.op = "grant" <=> wpc = "granting"
  /\ call.op = "keepalive" <=> wpc = "keepingAlive"
  /\ call.op = "revoke" <=> wpc = "revoking"
  /\ call.op = "none" => call = NoCall
  /\ wpc \in ClosePC => Finished
  /\ wpc = "ended" => closed

\* The thread object and granted_ follow the worker; Close left it joined.
ThreadInv ==
  /\ granted <=> wpc # "none"
  /\ handle = "none" <=> wpc = "none"
  /\ handle = "joined" => wpc = "ended"
  /\ closeReturned => closed /\ wpc \in {"none", "ended"}
  /\ \A c \in Callers : cpc[c] = "joining" => closed

\* The lease that the worker holds, the one it asks for next, and the one that
\* the call under way is about are the same.
LeaseInv ==
  /\ inited => lease \in LeaseId /\ lease \in issued
  /\ wpc \in HoldPC => inited
  /\ wpc = "none" => ~inited
  /\ wpc = "granted" => inited \/ Finished
  /\ inited /\ wpc # "granted" => options.lease = lease
  /\ call.op = "grant" /\ inited => call.id = lease
  /\ call.op = "grant" /\ call.st = "ok" => call.id \in LeaseId /\ call.id \in issued
  /\ call.op \in {"keepalive", "revoke"} => call.id = lease

\* As long as no grant was broken, the only lease of this session is the one it
\* holds or is about to be told of; a revocation that was broken, and is served
\* after all, adds none.
HeldLease == (IF inited THEN {lease} ELSE {})
             \cup (IF call.op = "grant" /\ call.st = "ok" THEN {call.id} ELSE {})
RevokeInv ==
  /\ wpc = "revoking" => retry <= RetryLimit
  /\ ~lost =>
       /\ \A m \in stray : m.op = "revoke"
       /\ issued \cap leases \subseteq HeldLease
       /\ wpc = "revoking" /\ call.st \in {"ok", "notfound"} => lease \notin leases
       /\ wpc \in {"finish", "ended"} /\ retry <= RetryLimit
            => lease \notin leases

Inv == TypeOK /\ WorkerInv /\ ThreadInv /\ LeaseInv /\ RevokeInv
-----------------------------------------------------------------------------
\* A step of the system keeps every variable in its type.
LEMMA TypeStep == Inv /\ [Next]_vars => TypeOK'
PROOF
<1> SUFFICES ASSUME Inv, [Next]_vars PROVE TypeOK'
  OBVIOUS
<1> USE LessorAssumption, SessionAssumption DEF Inv, TypeOK, LessorTypeOK, vars,
      lessorVars, sessionVars, leaseVars, optionVars, eventVars, callerVars,
      Goto, Send, Answered, HangUp, NoCall, Finished, WorkerPC, GrantResult,
      AnyId, InvalidLeaseID, Call, Op, Status
<1>1. CASE Loop
  BY <1>1 DEF Loop
<1>2. CASE TryGrant
  BY <1>2 DEF TryGrant
<1>3. CASE GrantOk
  BY <1>3 DEF GrantOk
<1>4. CASE GrantFailed
  BY <1>4 DEF GrantFailed
<1>5. CASE GrantBackoff
  BY <1>5 DEF GrantBackoff
<1>6. CASE Granted
  BY <1>6 DEF Granted
<1>7. CASE ResetExpired
  <2>1. expired' \in BOOLEAN
    BY <1>7 DEF ResetExpired
  <2>2. QED
    BY <1>7, <2>1 DEF ResetExpired
<1>8. CASE SetAlive
  BY <1>8 DEF SetAlive
<1>9. CASE TryKeepAlive
  BY <1>9 DEF TryKeepAlive
<1>10. CASE WaitKeepAlive
  BY <1>10 DEF WaitKeepAlive
<1>11. CASE KeepAliveOk
  BY <1>11 DEF KeepAliveOk
<1>12. CASE KeepAliveFailed
  BY <1>12 DEF KeepAliveFailed
<1>13. CASE ResetAlive
  <2>1. alive' \in BOOLEAN
    BY <1>13 DEF ResetAlive
  <2>2. QED
    BY <1>13, <2>1 DEF ResetAlive
<1>14. CASE SetExpired
  BY <1>14 DEF SetExpired
<1>15. CASE TryRevoke
  BY <1>15 DEF TryRevoke
<1>16. CASE RevokeReturns
  BY <1>16 DEF RevokeReturns
<1>17. CASE Finish
  BY <1>17 DEF Finish
<1>18. CASE \E c \in Callers, id \in RequestIds, m \in RetryOptions : Grant(c, id, m)
  BY <1>18 DEF Grant, MutexFree
<1>19. CASE \E c \in Callers : GrantRefused(c)
  BY <1>19 DEF GrantRefused, MutexFree
<1>20. CASE \E c \in Callers : Close(c)
  BY <1>20 DEF Close, MutexFree
<1>21. CASE \E c \in Callers : CloseReturns(c)
  BY <1>21 DEF CloseReturns, MutexFree
<1>22. CASE ContextDone
  BY <1>22 DEF ContextDone
<1>23. CASE ServeGrant /\ UNCHANGED sessionVars
  <2>1. PICK id \in LeaseId : call' = [call EXCEPT !.id = id, !.st = "ok"]
                              /\ leases' = leases \cup {id}
                              /\ issued' = issued \cup {id}
    BY <1>23 DEF ServeGrant
  <2>2. call' \in Call
    BY <2>1
  <2>3. QED
    BY <1>23, <2>1, <2>2 DEF ServeGrant
<1>24. CASE ServeKeepAlive /\ UNCHANGED sessionVars
  BY <1>24 DEF ServeKeepAlive, Pending
<1>25. CASE ServeRevoke /\ UNCHANGED sessionVars
  BY <1>25 DEF ServeRevoke, Pending
<1>26. CASE Refuse /\ UNCHANGED sessionVars
  BY <1>26 DEF Refuse
<1>27. CASE Break /\ UNCHANGED sessionVars
  BY <1>27 DEF Break
<1>28. CASE ServeStray /\ UNCHANGED sessionVars
  <2>1. stray' \in SUBSET [op : Op, id : AnyId]
    BY <1>28 DEF ServeStray
  <2>2. leases' \in SUBSET LeaseId /\ issued' \in SUBSET LeaseId
    BY <1>28 DEF ServeStray
  <2>3. QED
    BY <1>28, <2>1, <2>2 DEF ServeStray
<1>29. CASE \E id \in LeaseId : Expire(id) /\ UNCHANGED sessionVars
  BY <1>29 DEF Expire
<1>30. CASE UNCHANGED vars
  BY <1>30 DEF vars
<1> QED
  BY <1>1, <1>2, <1>3, <1>4, <1>5, <1>6, <1>7, <1>8, <1>9, <1>10, <1>11,
     <1>12, <1>13, <1>14, <1>15, <1>16, <1>17, <1>18, <1>19, <1>20, <1>21,
     <1>22, <1>23, <1>24, <1>25, <1>26, <1>27, <1>28, <1>29, <1>30
     DEF Next, Worker, Application, Server, LessorNext, Answer

\* A step keeps the events and the call under way in line with the worker.
LEMMA WorkerStep == Inv /\ [Next]_vars => WorkerInv'
PROOF
<1> SUFFICES ASSUME Inv, [Next]_vars PROVE WorkerInv'
  OBVIOUS
<1> USE DEF Inv, WorkerInv, TypeOK, LessorTypeOK, Call, Op, Status, AnyId,
      ThreadInv, AlivePC, ClosePC, vars, lessorVars, sessionVars, leaseVars,
      optionVars, eventVars, callerVars, Goto, Send, Answered, HangUp, NoCall,
      Finished
<1>1. CASE Loop
  BY <1>1 DEF Loop
<1>2. CASE TryGrant
  BY <1>2 DEF TryGrant
<1>3. CASE GrantOk
  BY <1>3 DEF GrantOk
<1>4. CASE GrantFailed
  BY <1>4 DEF GrantFailed
<1>5. CASE GrantBackoff
  BY <1>5 DEF GrantBackoff
<1>6. CASE Granted
  BY <1>6 DEF Granted
<1>7. CASE ResetExpired
  BY <1>7 DEF ResetExpired
<1>8. CASE SetAlive
  BY <1>8 DEF SetAlive
<1>9. CASE TryKeepAlive
  BY <1>9 DEF TryKeepAlive
<1>10. CASE WaitKeepAlive
  BY <1>10 DEF WaitKeepAlive
<1>11. CASE KeepAliveOk
  BY <1>11 DEF KeepAliveOk
<1>12. CASE KeepAliveFailed
  BY <1>12 DEF KeepAliveFailed
<1>13. CASE ResetAlive
  BY <1>13 DEF ResetAlive
<1>14. CASE SetExpired
  BY <1>14 DEF SetExpired
<1>15. CASE TryRevoke
  BY <1>15 DEF TryRevoke
<1>16. CASE RevokeReturns
  BY <1>16 DEF RevokeReturns
<1>17. CASE Finish
  BY <1>17 DEF Finish
<1>18. CASE \E c \in Callers, id \in RequestIds, m \in RetryOptions : Grant(c, id, m)
  BY <1>18 DEF Grant, MutexFree
<1>19. CASE \E c \in Callers : GrantRefused(c)
  BY <1>19 DEF GrantRefused, MutexFree
<1>20. CASE \E c \in Callers : Close(c)
  BY <1>20 DEF Close, MutexFree
<1>21. CASE \E c \in Callers : CloseReturns(c)
  BY <1>21 DEF CloseReturns, MutexFree
<1>22. CASE ContextDone
  BY <1>22 DEF ContextDone
<1>23. CASE ServeGrant /\ UNCHANGED sessionVars
  BY <1>23 DEF ServeGrant, Pending
<1>24. CASE ServeKeepAlive /\ UNCHANGED sessionVars
  BY <1>24 DEF ServeKeepAlive, Pending
<1>25. CASE ServeRevoke /\ UNCHANGED sessionVars
  BY <1>25 DEF ServeRevoke, Pending
<1>26. CASE Refuse /\ UNCHANGED sessionVars
  BY <1>26 DEF Refuse
<1>27. CASE Break /\ UNCHANGED sessionVars
  BY <1>27 DEF Break
<1>28. CASE ServeStray /\ UNCHANGED sessionVars
  BY <1>28 DEF ServeStray
<1>29. CASE \E id \in LeaseId : Expire(id) /\ UNCHANGED sessionVars
  BY <1>29 DEF Expire
<1>30. CASE UNCHANGED vars
  BY <1>30 DEF vars
<1> QED
  BY <1>1, <1>2, <1>3, <1>4, <1>5, <1>6, <1>7, <1>8, <1>9, <1>10, <1>11,
     <1>12, <1>13, <1>14, <1>15, <1>16, <1>17, <1>18, <1>19, <1>20, <1>21,
     <1>22, <1>23, <1>24, <1>25, <1>26, <1>27, <1>28, <1>29, <1>30
     DEF Next, Worker, Application, Server, LessorNext, Answer

\* A step keeps the thread object, granted_ and closed_ in line with the worker.
LEMMA ThreadStep == Inv /\ [Next]_vars => ThreadInv'
PROOF
<1> SUFFICES ASSUME Inv, [Next]_vars PROVE ThreadInv'
  OBVIOUS
<1> USE DEF Inv, ThreadInv, WorkerInv, TypeOK, LessorTypeOK, ClosePC, vars,
      lessorVars, sessionVars, leaseVars, optionVars, eventVars, callerVars,
      Goto, Send, Answered, HangUp, NoCall, Finished
<1>1. CASE Loop
  BY <1>1 DEF Loop
<1>2. CASE TryGrant
  BY <1>2 DEF TryGrant
<1>3. CASE GrantOk
  BY <1>3 DEF GrantOk
<1>4. CASE GrantFailed
  BY <1>4 DEF GrantFailed
<1>5. CASE GrantBackoff
  BY <1>5 DEF GrantBackoff
<1>6. CASE Granted
  BY <1>6 DEF Granted
<1>7. CASE ResetExpired
  BY <1>7 DEF ResetExpired
<1>8. CASE SetAlive
  BY <1>8 DEF SetAlive
<1>9. CASE TryKeepAlive
  BY <1>9 DEF TryKeepAlive
<1>10. CASE WaitKeepAlive
  BY <1>10 DEF WaitKeepAlive
<1>11. CASE KeepAliveOk
  BY <1>11 DEF KeepAliveOk
<1>12. CASE KeepAliveFailed
  BY <1>12 DEF KeepAliveFailed
<1>13. CASE ResetAlive
  BY <1>13 DEF ResetAlive
<1>14. CASE SetExpired
  BY <1>14 DEF SetExpired
<1>15. CASE TryRevoke
  BY <1>15 DEF TryRevoke
<1>16. CASE RevokeReturns
  BY <1>16 DEF RevokeReturns
<1>17. CASE Finish
  BY <1>17 DEF Finish
<1>18. CASE \E c \in Callers, id \in RequestIds, m \in RetryOptions : Grant(c, id, m)
  BY <1>18 DEF Grant, MutexFree
<1>19. CASE \E c \in Callers : GrantRefused(c)
  BY <1>19 DEF GrantRefused, MutexFree
<1>20. CASE \E c \in Callers : Close(c)
  BY <1>20 DEF Close, MutexFree
<1>21. CASE \E c \in Callers : CloseReturns(c)
  BY <1>21 DEF CloseReturns, MutexFree
<1>22. CASE ContextDone
  BY <1>22 DEF ContextDone
<1>23. CASE ServeGrant /\ UNCHANGED sessionVars
  BY <1>23 DEF ServeGrant, Pending
<1>24. CASE ServeKeepAlive /\ UNCHANGED sessionVars
  BY <1>24 DEF ServeKeepAlive, Pending
<1>25. CASE ServeRevoke /\ UNCHANGED sessionVars
  BY <1>25 DEF ServeRevoke, Pending
<1>26. CASE Refuse /\ UNCHANGED sessionVars
  BY <1>26 DEF Refuse
<1>27. CASE Break /\ UNCHANGED sessionVars
  BY <1>27 DEF Break
<1>28. CASE ServeStray /\ UNCHANGED sessionVars
  BY <1>28 DEF ServeStray
<1>29. CASE \E id \in LeaseId : Expire(id) /\ UNCHANGED sessionVars
  BY <1>29 DEF Expire
<1>30. CASE UNCHANGED vars
  BY <1>30 DEF vars
<1> QED
  BY <1>1, <1>2, <1>3, <1>4, <1>5, <1>6, <1>7, <1>8, <1>9, <1>10, <1>11,
     <1>12, <1>13, <1>14, <1>15, <1>16, <1>17, <1>18, <1>19, <1>20, <1>21,
     <1>22, <1>23, <1>24, <1>25, <1>26, <1>27, <1>28, <1>29, <1>30
     DEF Next, Worker, Application, Server, LessorNext, Answer

\* A step keeps one lease id throughout, once there is one.
LEMMA LeaseStep == Inv /\ [Next]_vars => LeaseInv'
PROOF
<1> SUFFICES ASSUME Inv, [Next]_vars PROVE LeaseInv'
  OBVIOUS
<1> USE LessorAssumption DEF Inv, LeaseInv, WorkerInv, ThreadInv, TypeOK,
      LessorTypeOK, Call, Op, Status, AnyId, InvalidLeaseID, AlivePC, HoldPC,
      ClosePC, vars, lessorVars, sessionVars, leaseVars, optionVars, eventVars,
      callerVars, Goto, Send, Answered, HangUp, NoCall, Finished
<1>1. CASE Loop
  BY <1>1 DEF Loop
<1>2. CASE TryGrant
  BY <1>2 DEF TryGrant
<1>3. CASE GrantOk
  BY <1>3 DEF GrantOk
<1>4. CASE GrantFailed
  BY <1>4 DEF GrantFailed
<1>5. CASE GrantBackoff
  BY <1>5 DEF GrantBackoff
<1>6. CASE Granted
  BY <1>6 DEF Granted
<1>7. CASE ResetExpired
  BY <1>7 DEF ResetExpired
<1>8. CASE SetAlive
  BY <1>8 DEF SetAlive
<1>9. CASE TryKeepAlive
  BY <1>9 DEF TryKeepAlive
<1>10. CASE WaitKeepAlive
  BY <1>10 DEF WaitKeepAlive
<1>11. CASE KeepAliveOk
  BY <1>11 DEF KeepAliveOk
<1>12. CASE KeepAliveFailed
  BY <1>12 DEF KeepAliveFailed
<1>13. CASE ResetAlive
  BY <1>13 DEF ResetAlive
<1>14. CASE SetExpired
  BY <1>14 DEF SetExpired
<1>15. CASE TryRevoke
  BY <1>15 DEF TryRevoke
<1>16. CASE RevokeReturns
  BY <1>16 DEF RevokeReturns
<1>17. CASE Finish
  BY <1>17 DEF Finish
<1>18. CASE \E c \in Callers, id \in RequestIds, m \in RetryOptions : Grant(c, id, m)
  BY <1>18 DEF Grant, MutexFree
<1>19. CASE \E c \in Callers : GrantRefused(c)
  BY <1>19 DEF GrantRefused, MutexFree
<1>20. CASE \E c \in Callers : Close(c)
  BY <1>20 DEF Close, MutexFree
<1>21. CASE \E c \in Callers : CloseReturns(c)
  BY <1>21 DEF CloseReturns, MutexFree
<1>22. CASE ContextDone
  BY <1>22 DEF ContextDone
<1>23. CASE ServeGrant /\ UNCHANGED sessionVars
  BY <1>23 DEF ServeGrant, Pending
<1>24. CASE ServeKeepAlive /\ UNCHANGED sessionVars
  BY <1>24 DEF ServeKeepAlive, Pending
<1>25. CASE ServeRevoke /\ UNCHANGED sessionVars
  BY <1>25 DEF ServeRevoke, Pending
<1>26. CASE Refuse /\ UNCHANGED sessionVars
  BY <1>26 DEF Refuse
<1>27. CASE Break /\ UNCHANGED sessionVars
  BY <1>27 DEF Break
<1>28. CASE ServeStray /\ UNCHANGED sessionVars
  BY <1>28 DEF ServeStray
<1>29. CASE \E id \in LeaseId : Expire(id) /\ UNCHANGED sessionVars
  BY <1>29 DEF Expire
<1>30. CASE UNCHANGED vars
  BY <1>30 DEF vars
<1> QED
  BY <1>1, <1>2, <1>3, <1>4, <1>5, <1>6, <1>7, <1>8, <1>9, <1>10, <1>11,
     <1>12, <1>13, <1>14, <1>15, <1>16, <1>17, <1>18, <1>19, <1>20, <1>21,
     <1>22, <1>23, <1>24, <1>25, <1>26, <1>27, <1>28, <1>29, <1>30
     DEF Next, Worker, Application, Server, LessorNext, Answer

\* A step that breaks no grant leaves no lease unknown to the session.
LEMMA RevokeStep == Inv /\ [Next]_vars => RevokeInv'
PROOF
<1> SUFFICES ASSUME Inv, [Next]_vars PROVE RevokeInv'
  OBVIOUS
<1> USE DEF Inv, RevokeInv, HeldLease, RetryLimit, LeaseInv, WorkerInv,
      ThreadInv, TypeOK, LessorTypeOK, Call, Op, Status, AnyId, InvalidLeaseID,
      vars, lessorVars, sessionVars, leaseVars, optionVars, eventVars,
      callerVars, Goto, Send, Answered, HangUp, NoCall, Finished
<1>1. CASE Loop
  BY <1>1 DEF Loop
<1>2. CASE TryGrant
  BY <1>2 DEF TryGrant
<1>3. CASE GrantOk
  BY <1>3 DEF GrantOk
<1>4. CASE GrantFailed
  BY <1>4 DEF GrantFailed
<1>5. CASE GrantBackoff
  BY <1>5 DEF GrantBackoff
<1>6. CASE Granted
  BY <1>6 DEF Granted
<1>7. CASE ResetExpired
  BY <1>7 DEF ResetExpired
<1>8. CASE SetAlive
  BY <1>8 DEF SetAlive
<1>9. CASE TryKeepAlive
  BY <1>9 DEF TryKeepAlive
<1>10. CASE WaitKeepAlive
  BY <1>10 DEF WaitKeepAlive
<1>11. CASE KeepAliveOk
  BY <1>11 DEF KeepAliveOk
<1>12. CASE KeepAliveFailed
  BY <1>12 DEF KeepAliveFailed
<1>13. CASE ResetAlive
  BY <1>13 DEF ResetAlive
<1>14. CASE SetExpired
  BY <1>14 DEF SetExpired
<1>15. CASE TryRevoke
  BY <1>15 DEF TryRevoke
<1>16. CASE RevokeReturns
  BY <1>16 DEF RevokeReturns
<1>17. CASE Finish
  BY <1>17 DEF Finish
<1>18. CASE \E c \in Callers, id \in RequestIds, m \in RetryOptions : Grant(c, id, m)
  BY <1>18 DEF Grant, MutexFree
<1>19. CASE \E c \in Callers : GrantRefused(c)
  BY <1>19 DEF GrantRefused, MutexFree
<1>20. CASE \E c \in Callers : Close(c)
  BY <1>20 DEF Close, MutexFree
<1>21. CASE \E c \in Callers : CloseReturns(c)
  BY <1>21 DEF CloseReturns, MutexFree
<1>22. CASE ContextDone
  BY <1>22 DEF ContextDone
<1>23. CASE ServeGrant /\ UNCHANGED sessionVars
  BY <1>23 DEF ServeGrant, Pending
<1>24. CASE ServeKeepAlive /\ UNCHANGED sessionVars
  BY <1>24 DEF ServeKeepAlive, Pending
<1>25. CASE ServeRevoke /\ UNCHANGED sessionVars
  BY <1>25 DEF ServeRevoke, Pending
<1>26. CASE Refuse /\ UNCHANGED sessionVars
  BY <1>26 DEF Refuse
<1>27. CASE Break /\ UNCHANGED sessionVars
  <2>1. /\ leases' = leases /\ issued' = issued /\ call' = [call EXCEPT !.st = "error"]
        /\ UNCHANGED <<wpc, lease, inited, options, retry>>
        /\ lost' = (lost \/ call.op = "grant")
        /\ stray' = stray \/ stray' = stray \cup {[op |-> call.op, id |-> call.id]}
        /\ stray' # stray => call.op \in {"grant", "revoke"}
    BY <1>27 DEF Break
  <2>2. ASSUME ~lost' PROVE \A m \in stray' : m.op = "revoke"
    BY <2>1, <2>2
  <2> QED
    BY <2>1, <2>2
<1>28. CASE ServeStray /\ UNCHANGED sessionVars
  <2>1. PICK m \in stray : /\ stray' = stray \ {m}
                           /\ m.op = "grant" \/ (leases' = leases \ {m.id} /\ issued' = issued)
                           /\ UNCHANGED <<call, lost>>
    BY <1>28 DEF ServeStray
  <2>2. UNCHANGED <<wpc, lease, inited, options, retry>>
    BY <1>28
  <2>3. ~lost => leases' \subseteq leases /\ issued' = issued
    BY <2>1
  <2> QED
    BY <2>1, <2>2, <2>3
<1>29. CASE \E id \in LeaseId : Expire(id) /\ UNCHANGED sessionVars
  BY <1>29 DEF Expire
<1>30. CASE UNCHANGED vars
  BY <1>30 DEF vars
<1> QED
  BY <1>1, <1>2, <1>3, <1>4, <1>5, <1>6, <1>7, <1>8, <1>9, <1>10, <1>11,
     <1>12, <1>13, <1>14, <1>15, <1>16, <1>17, <1>18, <1>19, <1>20, <1>21,
     <1>22, <1>23, <1>24, <1>25, <1>26, <1>27, <1>28, <1>29, <1>30
     DEF Next, Worker, Application, Server, LessorNext, Answer

\* The invariant holds when the session has been constructed.
LEMMA InitInv == Init => Inv
PROOF
<1> SUFFICES ASSUME Init PROVE Inv
  OBVIOUS
<1> USE DEF Init, LessorInit, NoCall, InvalidLeaseID
<1>1. TypeOK
  <2>1. call \in Call
    BY DEF Call, Op, AnyId, Status
  <2>2. leases \in SUBSET LeaseId
    BY LessorAssumption
  <2>3. options \in [lease : AnyId, retries : Int]
    BY DEF AnyId
  <2>4. alive \in BOOLEAN /\ expired \in BOOLEAN
    OBVIOUS
  <2> QED
    BY <2>1, <2>2, <2>3, <2>4 DEF TypeOK, LessorTypeOK, WorkerPC, GrantResult
<1>2. WorkerInv
  BY DEF WorkerInv, AlivePC, ClosePC
<1>3. ThreadInv
  BY DEF ThreadInv
<1>4. LeaseInv
  BY DEF LeaseInv, HoldPC, AlivePC
<1>5. RevokeInv
  BY DEF RevokeInv
<1> QED
  BY <1>1, <1>2, <1>3, <1>4, <1>5 DEF Inv

\* The inductive invariant holds of every reachable state.
THEOREM Invariance == Spec => []Inv
PROOF
<1>1. Inv /\ [Next]_vars => Inv'
  BY TypeStep, WorkerStep, ThreadStep, LeaseStep, RevokeStep DEF Inv
<1> QED
  BY InitInv, <1>1, PTL DEF Spec

\* Every variable stays in its type.
THEOREM TypeCorrect == Spec => []TypeOK
PROOF
<1>1. Inv => TypeOK
  BY DEF Inv
<1> QED
  BY Invariance, <1>1, PTL

\* session.cc:63-64, 70-71: alive_ and expired_ are never set together.
THEOREM EventsAreExclusive == Spec => []EventsExclusive
PROOF
<1>1. Inv => EventsExclusive
  BY DEF Inv, WorkerInv, AlivePC, EventsExclusive
<1> QED
  BY Invariance, <1>1, PTL

\* session.cc:56-70: alive_ is set only for a lease the server granted to this
\* session, whatever lease_ held before.
THEOREM AliveSessionHoldsLease == Spec => []AliveHoldsLease
PROOF
<1>1. Inv => AliveHoldsLease
  BY DEF Inv, WorkerInv, LeaseInv, AlivePC, HoldPC, AliveHoldsLease
<1> QED
  BY Invariance, <1>1, PTL

\* session.cc:22-50: after Close has returned to any of the callers, the session
\* is at rest for good.
THEOREM ClosedForGood == Spec => []CloseIsFinal
PROOF
<1>1. Inv => CloseIsFinal
  BY DEF Inv, TypeOK, LessorTypeOK, Call, Op, WorkerInv, ThreadInv, AlivePC, CloseIsFinal
<1> QED
  BY Invariance, <1>1, PTL

\* session.cc:56-75: the call under way agrees with the events and with lease_.
THEOREM CallsAgree == Spec => []CallsMatchEvents
PROOF
<1>1. Inv => CallsMatchEvents
  BY DEF Inv, WorkerInv, LeaseInv, AlivePC, ClosePC, CallsMatchEvents
<1> QED
  BY Invariance, <1>1, PTL

\* session.cc:152-175: with no broken grant, a worker that ended
\* before its retries did has left no lease of its own on the server.
THEOREM NoLeaseLeftBehind == Spec => []RevokedAtTheEnd
PROOF
<1>1. Inv => RevokedAtTheEnd
  BY DEF Inv, TypeOK, WorkerInv, RevokeInv, HeldLease, RevokedAtTheEnd
<1> QED
  BY Invariance, <1>1, PTL

\* session.cc:58, 93, 132: lease_ is written at most once with a new value.
THEOREM LeaseIdNeverChanges == Spec => LeaseIdStable
PROOF
<1>1. Inv /\ [Next]_vars => [inited => lease' = lease]_vars
  <2> SUFFICES ASSUME Inv, Next, inited PROVE lease' = lease
    BY DEF vars
  <2>1. CASE GrantOk
    BY <2>1 DEF Inv, WorkerInv, LeaseInv, GrantOk, Goto, Answered
  <2>2. CASE KeepAliveOk
    BY <2>2 DEF Inv, LeaseInv, KeepAliveOk, Answered
  <2>3. CASE ~GrantOk /\ ~KeepAliveOk
    BY <2>3 DEF Next, Worker, Application, Server, sessionVars, leaseVars, Loop, TryGrant,
       GrantFailed, GrantBackoff, Granted, ResetExpired, SetAlive, TryKeepAlive,
       WaitKeepAlive, KeepAliveFailed, ResetAlive, SetExpired, TryRevoke, RevokeReturns,
       Finish, Grant, GrantRefused, Close, CloseReturns, ContextDone
  <2> QED
    BY <2>1, <2>2, <2>3
<1> QED
  BY Invariance, <1>1, PTL DEF Spec, LeaseIdStable

-----------------------------------------------------------------------------
(* The session implements SessionLifecycle. *)

\* Each step of the worker that moves the events is the lifecycle's step of
\* that name; Close and the end of the context are Stop; every other step
\* changes nothing that an application observes.
LEMMA StepRefines ==
  Inv /\ Inv' /\ [Next]_vars => [Lifecycle!Next]_(Lifecycle!vars)
PROOF
<1> SUFFICES ASSUME Inv, Inv', [Next]_vars PROVE [Lifecycle!Next]_(Lifecycle!vars)
  OBVIOUS
<1> USE LessorAssumption DEF Inv, TypeOK, WorkerInv, ThreadInv, LeaseInv,
      AlivePC, HoldPC, ClosePC, WorkerPC, AnyId, InvalidLeaseID, Goto, Finished,
      Answered, leaseVars, optionVars, eventVars, callerVars, Observed,
      Lifecycle!vars
<1>1. CASE Loop
  BY <1>1 DEF Loop
<1>2. CASE TryGrant
  BY <1>2 DEF TryGrant
<1>3. CASE GrantOk
  BY <1>3 DEF GrantOk, Lifecycle!Next, Lifecycle!Obtain
<1>4. CASE GrantFailed
  BY <1>4 DEF GrantFailed
<1>5. CASE GrantBackoff
  BY <1>5 DEF GrantBackoff
<1>6. CASE Granted
  BY <1>6 DEF Granted
<1>7. CASE ResetExpired
  BY <1>7 DEF ResetExpired, Lifecycle!Next, Lifecycle!Rise
<1>8. CASE SetAlive
  BY <1>8 DEF SetAlive, Lifecycle!Next, Lifecycle!Up
<1>9. CASE TryKeepAlive
  BY <1>9 DEF TryKeepAlive
<1>10. CASE WaitKeepAlive
  BY <1>10 DEF WaitKeepAlive
<1>11. CASE KeepAliveOk
  BY <1>11 DEF KeepAliveOk
<1>12. CASE KeepAliveFailed
  BY <1>12 DEF KeepAliveFailed
<1>13. CASE ResetAlive
  BY <1>13 DEF ResetAlive, Lifecycle!Next, Lifecycle!Fall
<1>14. CASE SetExpired
  BY <1>14 DEF SetExpired, Lifecycle!Next, Lifecycle!Down
<1>15. CASE TryRevoke
  BY <1>15 DEF TryRevoke
<1>16. CASE RevokeReturns
  BY <1>16 DEF RevokeReturns
<1>17. CASE Finish
  BY <1>17 DEF Finish, Lifecycle!Next, Lifecycle!End
<1>18. CASE \E c \in Callers, id \in RequestIds, m \in RetryOptions : Grant(c, id, m)
  BY <1>18 DEF Grant, Lifecycle!Next, Lifecycle!Start
<1>19. CASE \E c \in Callers : GrantRefused(c)
  BY <1>19 DEF GrantRefused
<1>20. CASE \E c \in Callers : Close(c)
  BY <1>20 DEF Close, Lifecycle!Next, Lifecycle!Stop
<1>21. CASE \E c \in Callers : CloseReturns(c)
  BY <1>21 DEF CloseReturns
<1>22. CASE ContextDone
  BY <1>22 DEF ContextDone, Lifecycle!Next, Lifecycle!Stop
<1>23. CASE Server
  BY <1>23 DEF Server, sessionVars
<1>24. CASE UNCHANGED vars
  BY <1>24 DEF vars, sessionVars
<1> QED
  BY <1>1, <1>2, <1>3, <1>4, <1>5, <1>6, <1>7, <1>8, <1>9, <1>10, <1>11,
     <1>12, <1>13, <1>14, <1>15, <1>16, <1>17, <1>18, <1>19, <1>20, <1>21,
     <1>22, <1>23, <1>24
     DEF Next, Worker, Application

\* session.cc as a whole: what an application sees of the session is what
\* SessionLifecycle allows.
THEOREM SessionImplementsLifecycle == Spec => ImplementsLifecycle
PROOF
<1>1. Init => Lifecycle!Init
  BY DEF Init, Lifecycle!Init, Observed, Finished
<1>2. Inv /\ Inv' /\ [Next]_vars => [Lifecycle!Next]_(Lifecycle!vars)
  BY StepRefines
<1> QED
  BY Invariance, <1>1, <1>2, PTL DEF Spec, ImplementsLifecycle, Lifecycle!Spec

-----------------------------------------------------------------------------
(* Leases of other clients. *)

\* The worker is past its loop: it grants nothing any more.
Closing == wpc \in ClosePC \cup {"ended"}

\* Before that, the session knows no lease of another client by its id.  Whatever
\* it does to one it does under the id that lease_ came with.
ForeignInv ==
  /\ issued \cap Foreign # {} => ~inited /\ Closing
  /\ \A m \in stray : m.op = "revoke" => Closing /\ (m.id \in Foreign => ~inited /\ m.id = lease)
  /\ Foreign \subseteq leases \/ (~inited /\ Closing /\ Foreign \ leases = {lease})

LEMMA ForeignStep == Inv /\ ForeignInv /\ [Next]_vars => ForeignInv'
PROOF
<1> SUFFICES ASSUME Inv, ForeignInv, [Next]_vars PROVE ForeignInv'
  OBVIOUS
<1> USE LessorAssumption DEF Inv, ForeignInv, Closing, LeaseInv, WorkerInv, ThreadInv, TypeOK,
      LessorTypeOK, Call, Op, Status, AnyId, InvalidLeaseID, AlivePC, HoldPC, ClosePC,
      vars, lessorVars, sessionVars, leaseVars, optionVars, eventVars, callerVars,
      Goto, Send, Answered, HangUp, NoCall
<1>1. CASE Worker
  <2>1. UNCHANGED <<leases, stray, issued>>
    BY <1>1 DEF Worker, Loop, TryGrant, GrantOk, GrantFailed, GrantBackoff, Granted,
       ResetExpired, SetAlive, TryKeepAlive, WaitKeepAlive, KeepAliveOk, KeepAliveFailed,
       ResetAlive, SetExpired, TryRevoke, RevokeReturns, Finish
  <2>2. Closing => Closing' /\ UNCHANGED <<lease, inited>>
    BY <1>1 DEF Worker, Loop, TryGrant, GrantOk, GrantFailed, GrantBackoff, Granted,
       ResetExpired, SetAlive, TryKeepAlive, WaitKeepAlive, KeepAliveOk, KeepAliveFailed,
       ResetAlive, SetExpired, TryRevoke, RevokeReturns, Finish
  <2> QED
    BY <2>1, <2>2
<1>2. CASE Application
  BY <1>2 DEF Application, Grant, GrantRefused, Close, CloseReturns, ContextDone
<1>3. CASE ServeGrant /\ UNCHANGED sessionVars
  BY <1>3 DEF ServeGrant, Pending
<1>4. CASE ServeKeepAlive /\ UNCHANGED sessionVars
  BY <1>4 DEF ServeKeepAlive, Pending
<1>5. CASE ServeRevoke /\ UNCHANGED sessionVars
  BY <1>5 DEF ServeRevoke, Pending
<1>6. CASE Refuse /\ UNCHANGED sessionVars
  BY <1>6 DEF Refuse
<1>7. CASE Break /\ UNCHANGED sessionVars
  BY <1>7 DEF Break
<1>8. CASE ServeStray /\ UNCHANGED sessionVars
  <2>1. UNCHANGED <<wpc, lease, inited>>
    BY <1>8
  <2>2. PICK m \in stray :
          /\ stray' = stray \ {m}
          /\ \/ /\ m.op = "grant"
                /\ \E id \in LeaseId \ leases :
                     /\ m.id \in {InvalidLeaseID, id}
                     /\ leases' = leases \cup {id}
                     /\ issued' = issued \cup {id}
             \/ /\ m.op = "revoke"
                /\ leases' = leases \ {m.id}
                /\ issued' = issued
    BY <1>8 DEF ServeStray
  <2>3. \A n \in stray' : n.op = "revoke" => Closing' /\ (n.id \in Foreign => ~inited' /\ n.id = lease')
    BY <2>1, <2>2
  <2>4. CASE m.op = "grant"
    <3>1. PICK id \in LeaseId \ leases : leases' = leases \cup {id} /\ issued' = issued \cup {id}
      BY <2>2, <2>4
    <3>2. id \in Foreign => ~inited /\ Closing /\ Foreign \ leases = {id}
      BY <3>1
    <3>3. issued' \cap Foreign # {} => ~inited /\ Closing
      BY <3>1, <3>2
    <3>4. Foreign \subseteq leases' \/ (~inited /\ Closing /\ Foreign \ leases' = {lease})
      BY <3>1, <3>2
    <3> QED
      BY <2>1, <2>3, <3>3, <3>4
  <2>5. CASE m.op = "revoke"
    <3>1. leases' = leases \ {m.id} /\ issued' = issued
      BY <2>2, <2>5
    <3>2. m.id \in Foreign => ~inited /\ Closing /\ m.id = lease
      BY <2>5
    <3>3. CASE m.id \notin Foreign
      <4>1. Foreign \ leases' = Foreign \ leases
        BY <3>1, <3>3
      <4> QED
        BY <2>1, <2>3, <3>1, <4>1
    <3>4. CASE m.id \in Foreign
      <4>1. Foreign \ leases' = (Foreign \ leases) \cup {lease}
        BY <3>1, <3>2, <3>4
      <4>2. Foreign \ leases' = {lease}
        BY <4>1
      <4> QED
        BY <2>1, <2>3, <3>1, <3>2, <3>4, <4>2
    <3> QED
      BY <3>3, <3>4
  <2> QED
    BY <2>2, <2>4, <2>5
<1>9. CASE \E id \in LeaseId : Expire(id) /\ UNCHANGED sessionVars
  BY <1>9 DEF Expire
<1>10. CASE UNCHANGED vars
  BY <1>10 DEF vars
<1> QED
  BY <1>1, <1>2, <1>3, <1>4, <1>5, <1>6, <1>7, <1>8, <1>9, <1>10
     DEF Next, Server, LessorNext, Answer

LEMMA ForeignInvariance == Spec => []ForeignInv
PROOF
<1>1. Init => ForeignInv
  <2> SUFFICES ASSUME Init PROVE ForeignInv
    OBVIOUS
  <2>1. Foreign \subseteq leases
    BY DEF Init, LessorInit
  <2>2. issued = {} /\ stray = {}
    BY DEF Init, LessorInit
  <2> QED
    BY <2>1, <2>2 DEF ForeignInv
<1> QED
  BY Invariance, ForeignStep, <1>1, PTL DEF Spec

\* session.h:151, session.cc:165: the session ends a lease of another client only
\* under the id that was in its memory when it was constructed.
THEOREM OnlyMemoryHurtsOthers == Spec => []OnlyMemoryHurts
PROOF
<1>1. ForeignInv => OnlyMemoryHurts
  BY DEF ForeignInv, OnlyMemoryHurts
<1> QED
  BY ForeignInvariance, <1>1, PTL

\* So it is this memory that the counterexample to ForeignLeasesKept needs: a
\* session constructed with a lease_ that names no other client's lease keeps
\* its hands off them for good, whatever is asked of it and whatever fails.
THEOREM InitialisedSessionHarmsNobody ==
  Spec /\ lease \notin Foreign => []ForeignLeasesKept
PROOF
<1> DEFINE Kept == lease \notin Foreign \/ inited
<1>1. Inv /\ Kept /\ [Next]_vars => Kept'
  <2> SUFFICES ASSUME Inv, Kept, [Next]_vars PROVE Kept'
    OBVIOUS
  <2>1. CASE GrantOk
    BY <2>1 DEF GrantOk
  <2>2. CASE KeepAliveOk
    BY <2>2 DEF KeepAliveOk, Inv, LeaseInv, Answered
  <2>3. CASE ~GrantOk /\ ~KeepAliveOk
    BY <2>3 DEF vars, Next, Worker, Application, Server, sessionVars, leaseVars, Loop, TryGrant,
       GrantFailed, GrantBackoff, Granted, ResetExpired, SetAlive, TryKeepAlive,
       WaitKeepAlive, KeepAliveFailed, ResetAlive, SetExpired, TryRevoke, RevokeReturns,
       Finish, Grant, GrantRefused, Close, CloseReturns, ContextDone
  <2> QED
    BY <2>1, <2>2, <2>3
<1>2. lease \notin Foreign => Kept
  OBVIOUS
<1>3. OnlyMemoryHurts /\ Kept => ForeignLeasesKept
  BY DEF OnlyMemoryHurts, ForeignLeasesKept
<1> HIDE DEF Kept
<1> QED
  BY Invariance, OnlyMemoryHurtsOthers, <1>1, <1>2, <1>3, PTL DEF Spec

-----------------------------------------------------------------------------
(* The end of the worker. *)

\* The measure is a number, and it is 0 only where the worker is gone.
LEMMA StepsLeftNat ==
  ASSUME Inv PROVE StepsLeft \in Nat /\ (StepsLeft = 0 <=> wpc \in {"none", "ended"})
PROOF
<1>1. RetryLimit \in Int /\ retry \in Int
  BY DEF Inv, TypeOK, RetryLimit
<1>2. Revocations \in Nat /\ RevocationsLeft \in Nat
  BY <1>1 DEF Revocations, RevocationsLeft
<1> QED
  BY <1>2 DEF Inv, TypeOK, WorkerPC, StepsLeft, ToLoop, FromLoop

\* While the worker stands still, so does the measure.
LEMMA StillStandsMeasure ==
  ASSUME UNCHANGED <<wpc, options, retry>> PROVE StepsLeft' = StepsLeft
PROOF
  BY DEF StepsLeft, ToLoop, FromLoop, Revocations, RevocationsLeft, RetryLimit

\* session.cc:55-175: each step of the worker of a finished session takes the
\* measure down.
LEMMA WorkerWindsDown ==
  ASSUME Inv, Finished, Worker PROVE wpc' # wpc /\ StepsLeft' >= 0 /\ StepsLeft' < StepsLeft
PROOF
<1>1. RetryLimit \in Int /\ retry \in Nat /\ options.retries \in Int
  BY DEF Inv, TypeOK, RetryLimit
<1>2. Revocations \in Nat /\ RevocationsLeft \in Nat /\ RevocationsLeft <= Revocations
  BY <1>1 DEF Revocations, RevocationsLeft
<1>3. RetryLimit' = RetryLimit /\ Revocations' = Revocations
  BY DEF Inv, TypeOK, Worker, Loop, TryGrant, GrantOk, GrantFailed, GrantBackoff, Granted,
     ResetExpired, SetAlive, TryKeepAlive, WaitKeepAlive, KeepAliveOk, KeepAliveFailed,
     ResetAlive, SetExpired, TryRevoke, RevokeReturns, Finish, optionVars, RetryLimit, Revocations
<1> USE <1>1, <1>2, <1>3 DEF Goto, StepsLeft, ToLoop, FromLoop
<1>4. CASE Loop
  <2>1. wpc = "loop" /\ wpc' = "tryRevoke" /\ retry' = 0
    BY <1>4 DEF Loop
  <2>2. RevocationsLeft' = Revocations
    BY <2>1 DEF RevocationsLeft, Revocations
  <2> QED
    BY <2>1, <2>2
<1>5. CASE TryRevoke
  <2>1. retry' = retry + 1 /\ wpc = "tryRevoke"
    BY <1>5 DEF TryRevoke
  <2>2. CASE wpc' = "revoking" /\ retry' <= RetryLimit
    <3>1. RevocationsLeft' = RevocationsLeft - 1 /\ RevocationsLeft >= 1
      BY <2>1, <2>2 DEF RevocationsLeft
    <3> QED
      BY <2>1, <2>2, <3>1
  <2>3. CASE wpc' = "finish"
    BY <2>1, <2>3
  <2> QED
    BY <2>2, <2>3, <1>5 DEF TryRevoke
<1>6. CASE RevokeReturns
  <2>1. RevocationsLeft' = RevocationsLeft
    BY <1>6 DEF RevokeReturns, RevocationsLeft, optionVars
  <2> QED
    BY <1>6, <2>1 DEF RevokeReturns
<1>7. CASE Finish
  BY <1>7 DEF Finish
<1>8. CASE TryGrant \/ GrantOk \/ GrantFailed \/ GrantBackoff \/ Granted
  BY <1>8 DEF TryGrant, GrantOk, GrantFailed, GrantBackoff, Granted
<1>9. CASE ResetExpired \/ SetAlive \/ TryKeepAlive \/ WaitKeepAlive
  BY <1>9 DEF ResetExpired, SetAlive, TryKeepAlive, WaitKeepAlive
<1>10. CASE KeepAliveOk \/ KeepAliveFailed \/ ResetAlive \/ SetExpired
  BY <1>10 DEF KeepAliveOk, KeepAliveFailed, ResetAlive, SetExpired
<1> QED
  BY <1>4, <1>5, <1>6, <1>7, <1>8, <1>9, <1>10 DEF Worker

\* session.h:93, session.cc:55-175: closing a session, or finishing its context,
\* leaves the worker a number of steps that nobody can add to.
THEOREM SessionWindsDown == Spec => WindsDown
PROOF
<1> DEFINE Down == Finished /\ wpc # "none" =>
       /\ StepsLeft' >= 0
       /\ wpc' = wpc => StepsLeft' = StepsLeft
       /\ wpc' # wpc => StepsLeft' < StepsLeft
<1>1. Inv /\ [Next]_vars => [Down]_vars
  <2> SUFFICES ASSUME Inv, [Next]_vars, Finished, wpc # "none"
               PROVE Down
    OBVIOUS
  <2>1. StepsLeft \in Nat
    BY StepsLeftNat
  <2>2. CASE Worker
    BY <2>2, WorkerWindsDown
  <2>3. CASE UNCHANGED <<wpc, options, retry>>
    BY <2>1, <2>3, StillStandsMeasure
  <2>4. Application => UNCHANGED <<wpc, options, retry>>
    BY DEF Inv, ThreadInv, Application, Grant, GrantRefused, Close, CloseReturns, ContextDone,
       optionVars
  <2>5. Server \/ UNCHANGED vars => UNCHANGED <<wpc, options, retry>>
    BY DEF Server, vars, sessionVars
  <2> QED
    BY <2>2, <2>3, <2>4, <2>5 DEF Next
<1> QED
  BY Invariance, <1>1, PTL DEF Spec, WindsDown

-----------------------------------------------------------------------------
(* The course of the worker. *)

\* Revocations are counted from 0, and only once the loop is left.
CountInv ==
  /\ wpc \notin ClosePC \cup {"ended"} => retry = 0
  /\ wpc = "revoking" => retry > 0

LEMMA CountStep == Inv /\ CountInv /\ [Next]_vars => CountInv'
PROOF
<1> SUFFICES ASSUME Inv, CountInv, [Next]_vars PROVE CountInv'
  OBVIOUS
<1> USE DEF CountInv, ClosePC, Goto, optionVars, Inv, TypeOK
<1>1. CASE Loop \/ TryRevoke
  BY <1>1 DEF Loop, TryRevoke
<1>2. CASE TryGrant \/ GrantOk \/ GrantFailed \/ GrantBackoff \/ Granted
  BY <1>2 DEF TryGrant, GrantOk, GrantFailed, GrantBackoff, Granted
<1>3. CASE ResetExpired \/ SetAlive \/ TryKeepAlive \/ WaitKeepAlive
  BY <1>3 DEF ResetExpired, SetAlive, TryKeepAlive, WaitKeepAlive
<1>4. CASE KeepAliveOk \/ KeepAliveFailed \/ ResetAlive \/ SetExpired
  BY <1>4 DEF KeepAliveOk, KeepAliveFailed, ResetAlive, SetExpired
<1>5. CASE RevokeReturns \/ Finish
  BY <1>5 DEF RevokeReturns, Finish
<1>6. CASE Application
  BY <1>6 DEF Application, Grant, GrantRefused, Close, CloseReturns, ContextDone, ThreadInv
<1>7. CASE Server \/ UNCHANGED vars
  BY <1>7 DEF Server, vars, sessionVars
<1> QED
  BY <1>1, <1>2, <1>3, <1>4, <1>5, <1>6, <1>7 DEF Next, Worker

\* Every step of the session goes on in the course, or stays where it is.
LEMMA FlowStep ==
  ASSUME Inv, CountInv, [Next]_vars
  PROVE  Flow!Next \/ UNCHANGED <<Stage, Finished, retry, RetryLimit>>
PROOF
<1>1. retry \in Nat /\ RetryLimit \in Int /\ Finished \in BOOLEAN
  BY DEF Inv, TypeOK, RetryLimit, Finished
<1> USE <1>1 DEF Goto, optionVars, eventVars, Stage, KeepingPC, Finished, RetryLimit
<1>2. CASE Loop
  BY <1>2 DEF Loop, CountInv, ClosePC
<1>3. CASE TryGrant \/ GrantOk \/ GrantFailed \/ GrantBackoff
  BY <1>3 DEF TryGrant, GrantOk, GrantFailed, GrantBackoff
<1>4. CASE Granted
  <2>1. options'.retries = options.retries /\ UNCHANGED <<retry, closed, done>> /\ wpc = "granted"
        /\ wpc' = IF Finished THEN "loop" ELSE "resetExpired"
    BY <1>4 DEF Granted, Inv, TypeOK
  <2> QED
    BY <2>1 DEF Flow!Next, Flow!Granted
<1>5. CASE ResetExpired \/ SetAlive \/ TryKeepAlive \/ WaitKeepAlive
  BY <1>5 DEF ResetExpired, SetAlive, TryKeepAlive, WaitKeepAlive
<1>6. CASE KeepAliveOk \/ KeepAliveFailed \/ ResetAlive
  BY <1>6 DEF KeepAliveOk, KeepAliveFailed, ResetAlive
<1>7. CASE SetExpired
  BY <1>7 DEF SetExpired, Flow!Next, Flow!Lost
<1>8. CASE TryRevoke
  <2>1. /\ wpc = "tryRevoke" /\ retry' = retry + 1 /\ UNCHANGED <<options, closed, done>>
        /\ wpc' = IF retry' <= RetryLimit THEN "revoking" ELSE "finish"
    BY <1>8 DEF TryRevoke
  <2>2. Finished
    BY <2>1 DEF Inv, WorkerInv, ClosePC
  <2> QED
    BY <2>1, <2>2 DEF Flow!Next, Flow!Revoke
<1>9. CASE RevokeReturns
  BY <1>9 DEF RevokeReturns, CountInv, Flow!Next, Flow!RevokeFails, Flow!Revoked
<1>10. CASE Finish
  BY <1>10 DEF Finish, Inv, WorkerInv, ClosePC
<1>11. ASSUME NEW c \in Callers, NEW id \in RequestIds, NEW n \in RetryOptions, Grant(c, id, n)
       PROVE  Flow!Next
  <2>1. wpc = "none" /\ wpc' = "loop" /\ UNCHANGED <<retry, closed, done>>
    BY <1>11 DEF Grant, Inv, ThreadInv
  <2>2. RetryLimit' \in Int
    BY <1>11, SessionAssumption DEF Grant
  <2> QED
    BY <2>1, <2>2 DEF Flow!Next, Flow!Start
<1>12. CASE \E c \in Callers : GrantRefused(c) \/ CloseReturns(c)
  BY <1>12 DEF GrantRefused, CloseReturns
<1>13. CASE ContextDone \/ \E c \in Callers : Close(c)
  BY <1>13 DEF ContextDone, Close, Flow!Next, Flow!Stop
<1>14. CASE Server \/ UNCHANGED vars
  BY <1>14 DEF Server, vars, sessionVars
<1> QED
  BY <1>2, <1>3, <1>4, <1>5, <1>6, <1>7, <1>8, <1>9, <1>10, <1>11, <1>12, <1>13, <1>14
     DEF Next, Worker, Application

\* session.cc:52-175: the worker of Session follows WorkerFlow, with any number of
\* callers, and however its calls end.
THEOREM SessionFollowsFlow == Spec => FollowsFlow
PROOF
<1>1. Init => Flow!Init /\ CountInv
  BY DEF Init, Flow!Init, CountInv, Stage, Finished, RetryLimit, ClosePC
<1>2. Inv /\ CountInv /\ [Next]_vars => [Flow!Next]_(Flow!vars)
  BY FlowStep DEF Flow!vars
<1> QED
  BY Invariance, CountStep, <1>1, <1>2, PTL DEF Spec, FollowsFlow, Flow!Spec
=============================================================================
