------------------------------- MODULE Lessor -------------------------------
(***************************************************************************)
(* The etcd lease service as the session sees it through one Lease stub.   *)
(*                                                                         *)
(* EXTERNAL: the server is not part of this repository.  It is modelled    *)
(* from the calls the client makes (etcdv3client/lease.cc), from the       *)
(* statuses session.cc tells apart, and from the messages of               *)
(* proto/rpc.proto.  At most one call of the session is outstanding: the   *)
(* worker thread makes every call and blocks until it returns.             *)
(*                                                                         *)
(* A call can be answered, refused (an error, nothing done) or broken (the *)
(* connection fails: the client sees an error whether or not the server    *)
(* acted).  The request of a broken call may still be on its way: it is    *)
(* then a stray, which the server may serve at any later time.             *)
(***************************************************************************)
EXTENDS Integers, FiniteSets

CONSTANTS
  LeaseId,    \* the ids of leases that may exist on the server
  Foreign,    \* those of them that other clients hold and keep alive
  Leftover,   \* those an earlier life of this client may have left behind when
              \* it crashed: nobody keeps them alive any more
  MaxStray,   \* bound: how many stray requests may be under way at once
  GoneReply   \* how a keep-alive for a lease that is gone is answered:
              \* "notfound" (the stream ends with NOT_FOUND, session.cc:138)
              \* or "gone" (a response whose TTL is not positive)

\* lease.h:26: the id 0 names no lease; as a requested id it lets the server
\* choose.
InvalidLeaseID == 0
AnyId == LeaseId \cup {InvalidLeaseID}

ASSUME LessorAssumption ==
  /\ LeaseId \subseteq Int \ {InvalidLeaseID}
  /\ Foreign \subseteq LeaseId
  /\ Leftover \subseteq LeaseId \ Foreign
  /\ MaxStray \in Nat
  /\ GoneReply \subseteq {"notfound", "gone"}

VARIABLES
  leases,     \* the leases alive on the server
  call,       \* the session's outstanding call
  stray,      \* requests of broken calls that are still on their way
  issued,     \* history: leases the server granted at this session's request
  lost        \* history: a grant of this session has been broken

lessorVars == <<leases, call, stray, issued, lost>>

Op == {"grant", "keepalive", "revoke"}
\* "sent" has not been served; the others are answers on their way back.
Status == {"sent", "ok", "error", "notfound", "gone"}
Call == [op : Op \cup {"none"}, id : AnyId, st : Status]
NoCall == [op |-> "none", id |-> InvalidLeaseID, st |-> "sent"]

LessorTypeOK ==
  /\ leases \in SUBSET LeaseId
  /\ call \in Call
  /\ stray \in SUBSET [op : Op, id : AnyId]
  /\ issued \in SUBSET LeaseId
  /\ lost \in BOOLEAN

LessorInit ==
  /\ \E S \in SUBSET Leftover : leases = Foreign \cup S
  /\ call = NoCall
  /\ stray = {}
  /\ issued = {}
  /\ lost = FALSE

\* The client's side of a call: lines 87, 129 and 165 of session.cc.
Send(op, id) == call' = [op |-> op, id |-> id, st |-> "sent"]
Answered(op) == call.op = op /\ call.st # "sent"
HangUp == call' = NoCall

-----------------------------------------------------------------------------
Pending(op) == call.op = op /\ call.st = "sent"

\* A grant creates the requested lease, or one the server chooses; an id that
\* is in use cannot be granted (the call can then only be refused or broken).
ServeGrant ==
  /\ Pending("grant")
  /\ \E id \in LeaseId \ leases :
       /\ call.id \in {InvalidLeaseID, id}
       /\ leases' = leases \cup {id}
       /\ issued' = issued \cup {id}
       /\ call' = [call EXCEPT !.id = id, !.st = "ok"]
  /\ UNCHANGED <<stray, lost>>

\* A keep-alive echoes the id; whether the lease is renewed shows in the answer.
ServeKeepAlive ==
  /\ Pending("keepalive")
  /\ \E st \in IF call.id \in leases THEN {"ok"} ELSE GoneReply :
       call' = [call EXCEPT !.st = st]
  /\ UNCHANGED <<leases, stray, issued, lost>>

ServeRevoke ==
  /\ Pending("revoke")
  /\ leases' = leases \ {call.id}
  /\ call' = [call EXCEPT !.st = IF call.id \in leases THEN "ok" ELSE "notfound"]
  /\ UNCHANGED <<stray, issued, lost>>

Refuse ==
  /\ call.op # "none" /\ call.st = "sent"
  /\ call' = [call EXCEPT !.st = "error"]
  /\ UNCHANGED <<leases, stray, issued, lost>>

\* The connection fails before the request arrives or before the answer does.
\* A stray keep-alive changes nothing that is modelled, so none is kept.
Break ==
  /\ call.op # "none" /\ call.st # "error"
  /\ call' = [call EXCEPT !.st = "error"]
  /\ \/ stray' = stray
     \/ /\ call.st = "sent" /\ call.op \in {"grant", "revoke"}
        /\ Cardinality(stray) < MaxStray
        /\ stray' = stray \cup {[op |-> call.op, id |-> call.id]}
  /\ lost' = (lost \/ call.op = "grant")
  /\ UNCHANGED <<leases, issued>>

\* A stray request is served: its answer goes nowhere.
ServeStray ==
  /\ \E m \in stray :
       /\ stray' = stray \ {m}
       /\ \/ /\ m.op = "grant"
             /\ \E id \in LeaseId \ leases :
                  /\ m.id \in {InvalidLeaseID, id}
                  /\ leases' = leases \cup {id}
                  /\ issued' = issued \cup {id}
          \/ /\ m.op = "revoke"
             /\ leases' = leases \ {m.id}
             /\ issued' = issued
  /\ UNCHANGED <<call, lost>>

\* A lease whose time-to-live has passed disappears.  Another client's lease
\* is kept alive by its owner.
Expire(id) ==
  /\ id \in leases \ Foreign
  /\ leases' = leases \ {id}
  /\ UNCHANGED <<call, stray, issued, lost>>

\* Whatever ends the outstanding call, one way or another.
Answer == ServeGrant \/ ServeKeepAlive \/ ServeRevoke \/ Refuse \/ Break

LessorNext == Answer \/ ServeStray \/ \E id \in LeaseId : Expire(id)
=============================================================================
