--------------------------- MODULE ElectionProofs ---------------------------
(***************************************************************************)
(* Theorems about ElectionWatch, for every set of keys and leases, every   *)
(* length of the history, with and without compaction.                     *)
(***************************************************************************)
EXTENDS ElectionWatch, TLAPS

LeaderOf(n) == [lease |-> n.lease, create |-> n.create]

\* Every key was created at a revision the store has reached, so say the events
\* too, and the key that was created first is on record.
StoreInv ==
  /\ \A k \in Key : kv[k].create <= Rev
  /\ \A i \in 1..Len(history) :
       /\ history[i].create <= Rev
       /\ history[i].type = "DELETE" => history[i].create = 0
  /\ FirstCreated(kv) \subseteq led
  /\ \A s \in led : s.create > 0

\* A clean Watch holds a valid node only from the store, and looks for a leader
\* again only after it has seen a deletion.
NodeInv ==
  pc # "idle" /\ clean =>
    /\ IsValid(node) => LeaderOf(node) \in led
    /\ pc \in {"getLeader", "getBackoff"} /\ IsValid(node) => revision = -1
    /\ pc = "ok" => IsValid(node)

\* A watch that is at a revision still has the end of the leader ahead of it.
Ahead(from) ==
  from <= Rev + 1 /\ (Gone(node) => EventsFrom("DELETE", from) # {})

\* Where the watch at the server is, if it is open.
Open(from) == from = 0 \/ (from > node.current /\ Ahead(from))

\* The watch for the end of a leader starts right after the revision at which
\* the leader was read, and the leader was there then.  It passes no deletion.
WatchInv ==
  /\ node.current <= Rev
  /\ pc \in {"getLeader", "getBackoff"} => revision <= Rev
  /\ Waiting /\ clean /\ IsValid(node) =>
       /\ want = "DELETE"
       /\ start = node.current + 1
       /\ Ahead(start)
       /\ pc = "reading" => Open(next)

Inv == TypeOK /\ StoreInv /\ NodeInv /\ WatchInv

-----------------------------------------------------------------------------
(* The store. *)

\* An event that is recorded takes the next revision; the others stay.
LEMMA Recorded ==
  ASSUME StoreTypeOK, NEW type \in EventType, NEW c \in 0..MaxRev, Record(type, c)
  PROVE  /\ Rev' = Rev + 1 /\ Rev' <= MaxRev
         /\ history' \in Seq(Event)
         /\ \A i \in 1..Len(history') :
              history'[i] = IF i <= Len(history) THEN history[i]
                            ELSE [type |-> type, create |-> c]
         /\ \A t \in EventType, f \in Int : EventsFrom(t, f) \subseteq EventsFrom(t, f)'
         /\ \A f \in Int : f <= Rev + 1 => Rev + 1 \in EventsFrom(type, f)'
PROOF
<1> DEFINE e == [type |-> type, create |-> c]
<1>1. history' = Append(history, e) /\ Rev < MaxRev
  BY DEF Record
<1>2. e \in Event
  BY DEF Event
<1>3. /\ history' \in Seq(Event)
      /\ Len(history') = Len(history) + 1
      /\ \A i \in 1..Len(history) : history'[i] = history[i]
      /\ history'[Len(history) + 1] = e
  BY <1>1, <1>2 DEF StoreTypeOK
<1>4. Rev' = Rev + 1 /\ Rev \in Nat \ {0} /\ Rev' <= MaxRev
  BY <1>1, <1>3, KeyHistoryAssumption DEF Rev, StoreTypeOK
<1>5. ASSUME NEW t \in EventType, NEW f \in Int, NEW r \in EventsFrom(t, f)
      PROVE  r \in EventsFrom(t, f)'
  <2>1. r \in 2..Rev /\ r - 1 \in 1..Len(history)
    BY <1>4, StoreTypeOK DEF EventsFrom, Rev, StoreTypeOK
  <2> QED
    BY <1>3, <1>4, <2>1 DEF EventsFrom
<1>6. ASSUME NEW f \in Int, f <= Rev + 1
      PROVE  Rev + 1 \in EventsFrom(type, f)'
  <2>1. Rev + 1 \in 2..Rev' /\ history'[Rev] = e
    BY <1>3, <1>4 DEF Rev
  <2> QED
    BY <1>4, <1>6, <2>1 DEF EventsFrom
<1>7. ASSUME NEW i \in 1..Len(history')
      PROVE  history'[i] = IF i <= Len(history) THEN history[i] ELSE e
  BY <1>3 DEF StoreTypeOK
<1> QED
  BY <1>3, <1>4, <1>5, <1>6, <1>7

\* FirstCreated returns a key that exists, or nothing.
LEMMA FirstExists ==
  ASSUME StoreTypeOK, NEW s \in FirstCreated(kv)
  PROVE  s \in Stored /\ s.create > 0 /\ \E k \in Key : kv[k] = s
PROOF
  BY DEF FirstCreated, Existing, StoreTypeOK

\* A change of a key is recorded with its leader, and keeps the creations of
\* the other keys.
LEMMA PutOrDelete ==
  ASSUME StoreTypeOK, StoreInv, NEW k \in Key, NEW v \in Stored,
         NEW type \in EventType, NEW c \in 0..MaxRev,
         v.create <= Rev + 1, c <= Rev + 1, type = "DELETE" => c = 0, kv' = [kv EXCEPT ![k] = v], Record(type, c)
  PROVE  StoreTypeOK' /\ StoreInv' /\ led \subseteq led'
PROOF
<1>1. /\ Rev' = Rev + 1 /\ Rev' <= MaxRev
      /\ history' \in Seq(Event)
      /\ \A i \in 1..Len(history') :
           history'[i] = IF i <= Len(history) THEN history[i]
                         ELSE [type |-> type, create |-> c]
  BY Recorded
<1>2. kv' \in [Key -> Stored]
  BY DEF StoreTypeOK
<1>3. FirstCreated(kv)' \subseteq Stored /\ \A s \in FirstCreated(kv)' : s.create > 0
  BY <1>2 DEF FirstCreated, Existing
<1>4. led' = led \cup FirstCreated(kv)' /\ compacted' = compacted
  BY DEF Record, FirstCreated, Existing
<1>5. StoreTypeOK'
  BY <1>1, <1>2, <1>3, <1>4 DEF StoreTypeOK
<1>6. \A l \in Key : kv'[l].create <= Rev'
  BY <1>1 DEF StoreTypeOK, StoreInv, Stored, Rev
<1>7. \A i \in 1..Len(history') :
        /\ history'[i].create <= Rev'
        /\ history'[i].type = "DELETE" => history'[i].create = 0
  <2> SUFFICES ASSUME NEW i \in 1..Len(history')
               PROVE  /\ history'[i].create <= Rev'
                      /\ history'[i].type = "DELETE" => history'[i].create = 0
    OBVIOUS
  <2>1. Rev \in Nat
    BY DEF StoreTypeOK, Rev
  <2>2. CASE i <= Len(history)
    <3>1. history'[i] = history[i] /\ i \in 1..Len(history)
      BY <1>1, <2>1, <2>2 DEF Rev
    <3>2. history[i] \in Event
      BY <3>1 DEF StoreTypeOK
    <3>3. /\ history[i].create <= Rev
          /\ history[i].type = "DELETE" => history[i].create = 0
      BY <3>1 DEF StoreInv
    <3>4. history[i].create \in Int
      BY <3>2 DEF Event
    <3> QED
      BY <1>1, <2>1, <3>1, <3>3, <3>4
  <2>3. CASE ~(i <= Len(history))
    <3>1. history'[i] = [type |-> type, create |-> c]
      BY <1>1, <2>3
    <3> QED
      BY <1>1, <2>1, <3>1
  <2> QED
    BY <2>2, <2>3
<1> QED
  BY <1>3, <1>4, <1>5, <1>6, <1>7 DEF StoreInv

\* A step of the store keeps its types and its record of leaders.
LEMMA StoreStep ==
  ASSUME StoreTypeOK, StoreInv, StoreNext
  PROVE  StoreTypeOK' /\ StoreInv' /\ led \subseteq led' /\ Rev' \in {Rev, Rev + 1}
PROOF
<1>0. Rev \in Nat \ {0} /\ Rev <= MaxRev /\ MaxRev \in Nat
  BY KeyHistoryAssumption DEF Rev, StoreTypeOK
<1>1. ASSUME NEW k \in Key, NEW l \in Lease, Put(k, l)
      PROVE  StoreTypeOK' /\ StoreInv' /\ led \subseteq led' /\ Rev' = Rev + 1
  <2> DEFINE create == IF kv[k].create = 0 THEN Rev + 1 ELSE kv[k].create
  <2>1. kv' = [kv EXCEPT ![k] = [lease |-> l, create |-> create]] /\ Record("PUT", create)
    BY <1>1 DEF Put
  <2>2. kv[k] \in Stored /\ Rev < MaxRev
    BY <2>1 DEF StoreTypeOK, Record
  <2>3. create \in 0..MaxRev /\ create <= Rev + 1
    BY <1>0, <2>2 DEF Stored, StoreInv
  <2>4. [lease |-> l, create |-> create] \in Stored
    BY <2>3, KeyHistoryAssumption DEF Stored
  <2> HIDE DEF create
  <2>5. Rev' = Rev + 1
    BY <2>1, <2>3, Recorded DEF EventType
  <2> DEFINE v == [lease |-> l, create |-> create]
  <2>6. v \in Stored /\ v.create <= Rev + 1 /\ kv' = [kv EXCEPT ![k] = v]
    BY <2>1, <2>3, <2>4
  <2>7. "PUT" \in EventType /\ "PUT" # "DELETE"
    BY DEF EventType
  <2> HIDE DEF v
  <2> QED
    BY <2>1, <2>3, <2>5, <2>6, <2>7, PutOrDelete
<1>2. ASSUME NEW k \in Key, Delete(k)
      PROVE  StoreTypeOK' /\ StoreInv' /\ led \subseteq led' /\ Rev' = Rev + 1
  <2>1. kv' = [kv EXCEPT ![k] = Absent] /\ Record("DELETE", 0)
    BY <1>2 DEF Delete
  <2>2. Absent \in Stored /\ Absent.create <= Rev + 1 /\ 0 \in 0..MaxRev
    BY <1>0 DEF Absent, Stored
  <2>3. "DELETE" \in EventType
    BY DEF EventType
  <2>4. Rev' = Rev + 1
    BY <2>1, <2>2, <2>3, Recorded
  <2>5. 0 <= Rev + 1
    BY <1>0
  <2> QED
    BY <2>1, <2>2, <2>3, <2>4, <2>5, PutOrDelete
<1>3. CASE Compact
  <2>1. compacted' \in -1..MaxRev /\ UNCHANGED <<kv, history, led>>
    BY <1>0, <1>3 DEF Compact
  <2> QED
    BY <1>0, <2>1 DEF StoreTypeOK, StoreInv, FirstCreated, Existing, Rev
<1> QED
  BY <1>1, <1>2, <1>3 DEF StoreNext

-----------------------------------------------------------------------------
(* The watcher. *)

\* What GetLeader leaves in the node: the revision of now, and the key created
\* first, or the fields as they were if there is none.
LEMMA GetLeaderResult ==
  ASSUME TypeOK, StoreInv
  PROVE  /\ GetLeader \in Node /\ GetLeader.current = Rev
         /\ \/ LeaderOf(GetLeader) \in led /\ ~Gone(GetLeader)
            \/ GetLeader.lease = node.lease /\ GetLeader.create = node.create
               /\ FirstCreated(kv) = {}
PROOF
<1>1. Rev \in 0..MaxRev
  BY KeyHistoryAssumption DEF TypeOK, StoreTypeOK, Rev
<1>2. CASE FirstCreated(kv) = {}
  BY <1>1, <1>2 DEF GetLeader, TypeOK, Node
<1>3. CASE FirstCreated(kv) # {}
  <2> DEFINE first == CHOOSE s \in FirstCreated(kv) : TRUE
  <2>1. first \in FirstCreated(kv)
    BY <1>3
  <2> HIDE DEF first
  <2>2. first \in Stored /\ first \in led /\ \E k \in Key : kv[k] = first
    BY <2>1, FirstExists DEF StoreInv, TypeOK
  <2>3. GetLeader = [lease |-> first.lease, create |-> first.create, current |-> Rev]
    BY <1>3 DEF GetLeader, first
  <2>4. first = [lease |-> first.lease, create |-> first.create]
    BY <2>2 DEF Stored
  <2>5. LeaderOf(GetLeader) = first
    BY <2>3, <2>4 DEF LeaderOf
  <2> QED
    BY <1>1, <2>2, <2>3, <2>5 DEF Gone, Node, Stored
<1> QED
  BY <1>2, <1>3

\* The step of the watcher that reads the leader.
LEMMA GotLeaderStep == Inv /\ GotLeader => Inv'
PROOF
<1> SUFFICES ASSUME Inv, GotLeader PROVE Inv'
  OBVIOUS
<1> USE DEF Inv
<1>1. /\ Rev \in 1..MaxRev /\ Rev' = Rev
      /\ UNCHANGED <<storeVars, next, done, clean>> /\ node' = GetLeader
  BY KeyHistoryAssumption DEF GotLeader, TypeOK, StoreTypeOK, Rev, storeVars
<1>2. /\ node' \in Node /\ node'.current = Rev
      /\ \/ LeaderOf(node') \in led /\ ~Gone(node')
         \/ node'.lease = node.lease /\ node'.create = node.create
  BY <1>1, GetLeaderResult
<1>3. \/ /\ pc' = "ok" /\ IsValid(node') /\ UNCHANGED <<revision, start, want>>
      \/ /\ pc' = "watch" /\ start' = revision'
         /\ ~(IsValid(node') /\ (revision = 0 \/ revision < node'.create))
         /\ want' = IF IsValid(node') THEN "DELETE" ELSE "PUT"
         /\ revision' = IF IsValid(node') THEN Later(node'.current + 1, revision)
                        ELSE revision
  BY DEF GotLeader, WatchFrom
<1>4. pc = "getLeader" /\ revision \in -1..MaxRev + 1 /\ revision <= Rev
  BY DEF GotLeader, TypeOK, WatchInv
<1>5. TypeOK'
  <2>1. StoreTypeOK'
    BY <1>1 DEF TypeOK, StoreTypeOK, storeVars, Rev
  <2>2. revision' \in -1..MaxRev + 1 /\ start' \in -1..MaxRev + 1 /\ want' \in EventType
        /\ pc' \in PC
    BY <1>1, <1>2, <1>3, <1>4, KeyHistoryAssumption DEF TypeOK, Later, EventType, PC
  <2>3. next' = next /\ done' = done /\ clean' = clean
    BY <1>1
  <2> QED
    BY <1>2, <2>1, <2>2, <2>3 DEF TypeOK
<1>6. StoreInv'
  BY <1>1 DEF StoreInv, storeVars, FirstCreated, Existing, Rev
<1>7. NodeInv'
  BY <1>1, <1>2, <1>3, <1>4 DEF NodeInv, LeaderOf, IsValid, storeVars
<1>8. WatchInv'
  <2>1. ASSUME pc' = "watch", clean, IsValid(node')
        PROVE  /\ ~Gone(node') /\ want' = "DELETE"
               /\ start' = node'.current + 1 /\ start' <= Rev' + 1
    <3>1. start' = Later(Rev + 1, revision) /\ want' = "DELETE"
      BY <1>2, <1>3, <2>1
    <3>2. start' = Rev + 1
      BY <1>1, <1>4, <3>1 DEF Later
    <3>3. ~(node'.lease = node.lease /\ node'.create = node.create)
      <4> SUFFICES ASSUME node'.lease = node.lease, node'.create = node.create
                   PROVE  FALSE
        OBVIOUS
      <4>1. revision = -1
        BY <1>4, <2>1 DEF NodeInv, IsValid
      <4>2. node'.create \in Nat
        BY <1>2 DEF Node
      <4> QED
        BY <1>3, <2>1, <4>1, <4>2
    <3> QED
      BY <1>1, <1>2, <3>1, <3>2, <3>3
  <2>2. Gone(node)' <=> Gone(node')
    BY <1>1 DEF Gone, storeVars
  <2>3. clean' = clean /\ pc' \in {"ok", "watch"} /\ node'.current <= Rev'
    BY <1>1, <1>2, <1>3
  <2>4. CASE pc' = "ok"
    BY <2>3, <2>4 DEF WatchInv, Waiting
  <2>5. CASE pc' = "watch"
    BY <2>1, <2>2, <2>3, <2>5 DEF WatchInv, Waiting, IsValid, Ahead
  <2> QED
    BY <2>3, <2>4, <2>5
<1> QED
  BY <1>5, <1>6, <1>7, <1>8

\* The event that a watch delivers gives a revision below that of the store; a
\* deletion gives -1.
LEMMA ReadStep == Inv /\ Read => Inv'
PROOF
<1> SUFFICES ASSUME Inv, Read PROVE Inv'
  OBVIOUS
<1> USE DEF Inv
<1>1. PICK r \in EventsFrom(want, next) : revision' = history[r - 1].create - 1
  BY DEF Read
<1>2. r - 1 \in 1..Len(history) /\ history[r - 1].type = want
  BY <1>1 DEF EventsFrom, Rev, TypeOK, StoreTypeOK
<1>3. /\ history[r - 1].create \in 0..MaxRev /\ history[r - 1].create <= Rev
      /\ want = "DELETE" => history[r - 1].create = 0
  <2>1. history[r - 1] \in Event
    BY <1>2 DEF TypeOK, StoreTypeOK
  <2> QED
    BY <1>2, <2>1 DEF StoreInv, Event
<1>4. /\ pc = "reading" /\ pc' = "getLeader"
      /\ UNCHANGED <<kv, history, compacted, led, node, start, want, done, clean>>
      /\ next' = 0 /\ Rev' = Rev /\ Rev \in Int
  BY DEF Read, storeVars, watchVars, Rev, TypeOK, StoreTypeOK
<1>5. TypeOK'
  <2>1. revision' \in -1..MaxRev + 1 /\ next' \in -1..MaxRev + 1 /\ pc' \in PC
    BY <1>1, <1>3, <1>4, KeyHistoryAssumption DEF PC
  <2> QED
    BY <1>4, <2>1 DEF TypeOK, StoreTypeOK
<1>6. StoreInv'
  BY <1>4 DEF StoreInv, FirstCreated, Existing
<1>7. NodeInv'
  <2>1. clean /\ IsValid(node) => revision' = -1
    BY <1>1, <1>3, <1>4 DEF WatchInv, Waiting
  <2> QED
    BY <1>4, <2>1 DEF NodeInv, IsValid, LeaderOf
<1>8. WatchInv'
  BY <1>1, <1>3, <1>4 DEF WatchInv, Waiting
<1> QED
  BY <1>5, <1>6, <1>7, <1>8

\* A step keeps the invariant if it keeps the node, the watch and what the call
\* was given, and goes to a place that asks no more of them.
LEMMA QuietStep ==
  ASSUME Inv, pc' \in PC, done' \in BOOLEAN,
         UNCHANGED <<storeVars, node, revision, start, want, clean>>,
         pc' # "idle" => pc # "idle",
         pc' \in {"getLeader", "getBackoff"} => pc \in {"getLeader", "getBackoff"},
         Waiting' => Waiting, pc' = "ok" => pc = "ok",
         next' \in -1..MaxRev + 1,
         pc' = "reading" /\ clean /\ IsValid(node) => Open(next')
  PROVE  Inv'
PROOF
<1> USE DEF Inv
<1>1. /\ UNCHANGED <<kv, history, compacted, led, node, revision, start, want, clean>>
      /\ Rev' = Rev /\ Rev \in 1..MaxRev
  BY KeyHistoryAssumption DEF storeVars, Rev, TypeOK, StoreTypeOK
<1>2. TypeOK'
  BY <1>1 DEF TypeOK, StoreTypeOK
<1>3. StoreInv'
  BY <1>1 DEF StoreInv, FirstCreated, Existing
<1>4. NodeInv'
  BY <1>1 DEF NodeInv, IsValid, LeaderOf
<1>5. WatchInv'
  <2>1. node' = node /\ start' = start /\ want' = want /\ revision' = revision
    BY <1>1
  <2>2. clean' <=> clean
    BY <1>1 DEF IsValid
  <2>3. Ahead(start)' <=> Ahead(start)
    BY <1>1 DEF Ahead, Gone, EventsFrom
  <2>5. IsValid(node)' <=> IsValid(node)
    BY <1>1 DEF IsValid
  <2>6. ASSUME Waiting', clean, IsValid(node)
        PROVE  want = "DELETE" /\ start = node.current + 1 /\ Ahead(start)
    BY <2>6 DEF WatchInv
  <2>7. Open(next)' <=> Open(next')
    BY <1>1 DEF Open, Ahead, Gone, EventsFrom
  <2>8. ASSUME Waiting', clean, IsValid(node), pc' = "reading"
        PROVE  Open(next)'
    BY <2>7, <2>8
  <2>9. /\ node'.current <= Rev'
        /\ pc' \in {"getLeader", "getBackoff"} => revision' <= Rev'
    BY <1>1 DEF WatchInv
  <2> QED
    BY <2>1, <2>2, <2>3, <2>5, <2>6, <2>8, <2>9 DEF WatchInv
<1> QED
  BY <1>2, <1>3, <1>4, <1>5

\* The watch passes an event: none that it asks for, and so no deletion.
LEMMA PassesStep == Inv /\ Passes => Inv'
PROOF
<1> SUFFICES ASSUME Inv, Passes PROVE Inv'
  OBVIOUS
<1>1. /\ pc = "reading" /\ pc' = pc /\ done' = done /\ next <= Rev
      /\ next \notin EventsFrom(want, next) /\ next' = Later(next, 1) + 1
      /\ UNCHANGED <<storeVars, node, revision, start, want, clean>>
  BY DEF Passes
<1>2. /\ Rev \in 1..MaxRev /\ MaxRev \in Nat /\ next \in Int
      /\ pc \in PC /\ done \in BOOLEAN /\ node.current \in Nat
  BY KeyHistoryAssumption DEF Inv, TypeOK, StoreTypeOK, Rev, Node
<1>3. next' \in -1..MaxRev + 1
  BY <1>1, <1>2 DEF Later
<1>4. ASSUME clean, IsValid(node), next # 0 PROVE Open(next')
  <2>1. want = "DELETE" /\ next > node.current /\ Ahead(next)
    BY <1>1, <1>4 DEF Inv, WatchInv, Waiting, Open
  <2>2. next' = next + 1 /\ next' > node.current /\ next' <= Rev + 1
    BY <1>1, <1>2, <2>1 DEF Later
  <2>3. EventsFrom("DELETE", next) \subseteq EventsFrom("DELETE", next')
    BY <1>1, <1>2, <2>1, <2>2 DEF EventsFrom
  <2> QED
    BY <2>1, <2>2, <2>3 DEF Ahead, Open
<1>5. next # 0
  BY <1>1 DEF Passes, Live
<1> QED
  BY <1>1, <1>2, <1>3, <1>4, <1>5, QuietStep DEF Waiting

\* The other steps of the watcher, and the end of the context.
LEMMA OtherStep ==
  Inv /\ (GetLeaderFailed \/ Backoff \/ WatchSingle \/ Cancelled \/ ReadFailed \/ ContextDone)
    => Inv'
PROOF
<1> SUFFICES ASSUME Inv,
                    \/ GetLeaderFailed \/ Backoff \/ WatchSingle
                    \/ Cancelled \/ ReadFailed \/ ContextDone
             PROVE  Inv'
  OBVIOUS
<1> USE DEF Waiting, PC, watchVars
<1>0. /\ pc \in PC /\ done \in BOOLEAN
      /\ next \in -1..MaxRev + 1 /\ 0 \in -1..MaxRev + 1
  BY KeyHistoryAssumption DEF Inv, TypeOK
<1>1. CASE GetLeaderFailed
  BY <1>0, <1>1, QuietStep DEF GetLeaderFailed
<1>2. CASE Backoff
  <2>1. CASE pc = "getBackoff" /\ pc' = IF done THEN "cancelled" ELSE "getLeader"
    BY <1>0, <1>2, <2>1, QuietStep DEF Backoff
  <2>2. CASE pc = "watchBackoff" /\ pc' = IF done THEN "cancelled" ELSE "watch"
    BY <1>0, <1>2, <2>2, QuietStep DEF Backoff
  <2> QED
    BY <1>2, <2>1, <2>2 DEF Backoff
<1>3. CASE WatchSingle
  <2>1. Rev + 1 \in -1..MaxRev + 1 /\ start \in -1..MaxRev + 1 /\ node.current \in Nat
    BY KeyHistoryAssumption DEF Inv, TypeOK, StoreTypeOK, Rev, Node
  <2>2. ASSUME clean, IsValid(node) PROVE Open(next')
    <3>1. start = node.current + 1 /\ Ahead(start)
      BY <1>3, <2>2 DEF WatchSingle, Inv, WatchInv
    <3> QED
      BY <1>3, <2>1, <3>1 DEF WatchSingle, Open
  <2>3. next' \in -1..MaxRev + 1
    BY <1>3, <2>1 DEF WatchSingle
  <2> QED
    BY <1>0, <1>3, <2>2, <2>3, QuietStep DEF WatchSingle
<1>4. CASE ReadFailed
  BY <1>0, <1>4, QuietStep DEF ReadFailed
<1>5. CASE ContextDone
  <2>1. pc = "reading" /\ clean /\ IsValid(node) => Open(next)
    BY DEF Inv, WatchInv
  <2> QED
    BY <1>0, <1>5, <2>1, QuietStep DEF ContextDone
<1>6. CASE Cancelled
  <2>1. Open(0)
    BY DEF Open
  <2> QED
    BY <1>0, <1>6, <2>1, QuietStep DEF Cancelled
<1> QED
  BY <1>1, <1>2, <1>3, <1>4, <1>5, <1>6

\* A call takes any node and a revision that the store has reached.
LEMMA CallStep ==
  ASSUME Inv, NEW n \in Unset \cup {node}, NEW r \in 0..Rev, Call(n, r)
  PROVE  Inv'
PROOF
<1> USE DEF Inv
<1>1. /\ UNCHANGED <<kv, history, compacted, led, start, want, next, done>>
      /\ Rev' = Rev /\ Rev \in 1..MaxRev
      /\ pc' = "getLeader" /\ node' = n /\ clean' = ~IsValid(n) /\ revision' = r
  BY KeyHistoryAssumption DEF Call, storeVars, watchVars, Rev, TypeOK, StoreTypeOK
<1>2. n \in Node /\ n.current <= Rev
  <2>1. CASE n = node
    BY <2>1 DEF TypeOK, WatchInv
  <2>2. CASE n \in Unset
    <3>1. 1 \in 0..MaxRev /\ 0 \in 0..MaxRev /\ 1 <= Rev /\ 0 <= Rev
      BY <1>1, KeyHistoryAssumption
    <3> QED
      BY <2>2, <3>1 DEF Unset, Node
  <2> QED
    BY <2>1, <2>2
<1>3. TypeOK'
  BY <1>1, <1>2, KeyHistoryAssumption DEF TypeOK, StoreTypeOK, PC
<1>4. StoreInv'
  BY <1>1 DEF StoreInv, FirstCreated, Existing
<1>5. NodeInv'
  BY <1>1 DEF NodeInv, IsValid
<1>6. WatchInv'
  BY <1>1, <1>2 DEF WatchInv, Waiting
<1> QED
  BY <1>3, <1>4, <1>5, <1>6

\* A step of the store: a deletion is an event that a waiting watch has ahead of
\* it, and nothing but a deletion makes a leader go.
LEMMA EnvironmentStep == Inv /\ Store => Inv'
PROOF
<1> SUFFICES ASSUME Inv, Store PROVE Inv'
  OBVIOUS
<1> USE DEF Inv
<1>1. /\ UNCHANGED <<pc, node, revision, start, want, next, done, clean>>
      /\ StoreNext
  BY DEF Store, clientVars, watchVars
<1>2. StoreTypeOK' /\ StoreInv' /\ led \subseteq led' /\ Rev' \in {Rev, Rev + 1} /\ Rev \in Nat
  BY <1>1, StoreStep DEF TypeOK, StoreTypeOK, Rev
<1>3. TypeOK'
  BY <1>1, <1>2 DEF TypeOK
<1>4. NodeInv'
  BY <1>1, <1>2 DEF NodeInv, IsValid, LeaderOf
<1>5. ASSUME Waiting, clean, IsValid(node), Gone(node)', NEW from \in Int, Ahead(from)
      PROVE  EventsFrom("DELETE", from)' # {}
  <2>1. from <= Rev + 1
    BY <1>5 DEF Ahead
  <2>2. Gone(node) => EventsFrom("DELETE", from) # {}
    BY <1>5 DEF Ahead
  <2>3. node' = node
    BY <1>1
  <2>4. ASSUME NEW k \in Key, NEW l \in Lease, Put(k, l)
        PROVE  EventsFrom("DELETE", from)' # {}
    <3> DEFINE create == IF kv[k].create = 0 THEN Rev + 1 ELSE kv[k].create
    <3>1. /\ kv' = [kv EXCEPT ![k] = [lease |-> l, create |-> create]]
          /\ Record("PUT", create)
      BY <2>4 DEF Put
    <3>2. node.create > 0
      <4>1. LeaderOf(node) \in led
        BY <1>5 DEF NodeInv, Waiting
      <4> QED
        BY <4>1 DEF StoreInv, LeaderOf
    <3>3. Gone(node)
      BY <1>5, <2>3, <3>1, <3>2 DEF Gone, TypeOK, StoreTypeOK
    <3>4. kv[k] \in Stored /\ Rev < MaxRev
      BY <3>1 DEF TypeOK, StoreTypeOK, Record
    <3>5. create \in 0..MaxRev
      BY <1>2, <3>4, KeyHistoryAssumption DEF Stored
    <3> HIDE DEF create
    <3>6. EventsFrom("DELETE", from) \subseteq EventsFrom("DELETE", from)'
      BY <2>1, <2>3, <3>1, <3>5, Recorded DEF EventType, TypeOK
    <3> QED
      BY <2>2, <3>3, <3>6
  <2>5. ASSUME NEW k \in Key, Delete(k)
        PROVE  EventsFrom("DELETE", from)' # {}
    <3>1. Record("DELETE", 0) /\ 0 \in 0..MaxRev
      BY <2>5, KeyHistoryAssumption DEF Delete
    <3>2. Rev + 1 \in EventsFrom("DELETE", from)'
      BY <2>1, <2>3, <3>1, Recorded DEF EventType, TypeOK
    <3> QED
      BY <3>2
  <2>6. CASE Compact
    <3>1. UNCHANGED <<kv, history>>
      BY <2>6 DEF Compact
    <3>2. Gone(node)
      BY <1>5, <2>3, <3>1 DEF Gone
    <3>3. EventsFrom("DELETE", from)' = EventsFrom("DELETE", from)
      BY <2>3, <3>1 DEF EventsFrom, Rev
    <3> QED
      BY <2>2, <3>2, <3>3
  <2> QED
    BY <1>1, <2>4, <2>5, <2>6 DEF StoreNext
<1>6. WatchInv'
  <2>1. node'.current <= Rev' /\ (pc' \in {"getLeader", "getBackoff"} => revision' <= Rev')
    BY <1>1, <1>2 DEF WatchInv, TypeOK, Node
  <2>2. ASSUME Waiting, clean, IsValid(node), NEW from \in Int, Ahead(from)
        PROVE  from <= Rev' + 1 /\ (Gone(node)' => EventsFrom("DELETE", from)' # {})
    <3>0. Rev \in Nat /\ (Rev' = Rev \/ Rev' = Rev + 1) /\ from <= Rev + 1
      BY <1>2, <2>2 DEF Ahead
    <3>1. from <= Rev' + 1
      <4>1. \A a, b \in Int : a <= b + 1 => a <= (b + 1) + 1
        OBVIOUS
      <4> QED
        BY <3>0, <4>1
    <3>2. ASSUME Gone(node)' PROVE EventsFrom("DELETE", from)' # {}
      BY <1>5, <2>2, <3>2
    <3> QED
      BY <3>1, <3>2
  <2>3. start \in Int /\ next \in Int
    BY DEF TypeOK
  <2>4. ASSUME Waiting, clean, IsValid(node)
        PROVE  /\ want = "DELETE" /\ start = node.current + 1
               /\ Ahead(start)' /\ (pc = "reading" => Open(next)')
    <3>1. /\ want = "DELETE" /\ start = node.current + 1
          /\ Ahead(start) /\ (pc = "reading" => Open(next))
      BY <2>4 DEF WatchInv
    <3>2. Ahead(start)'
      BY <1>1, <2>2, <2>3, <2>4, <3>1 DEF Ahead, EventsFrom
    <3>3. ASSUME pc = "reading" PROVE Open(next)'
      <4>1. CASE next = 0
        BY <1>1, <4>1 DEF Open
      <4>2. CASE next > node.current /\ Ahead(next)
        BY <1>1, <2>2, <2>3, <2>4, <4>2 DEF Open, Ahead, EventsFrom
      <4> QED
        BY <3>1, <3>3, <4>1, <4>2 DEF Open
    <3> QED
      BY <3>1, <3>2, <3>3
  <2> QED
    BY <1>1, <2>1, <2>4 DEF WatchInv, Waiting, IsValid
<1> QED
  BY <1>2, <1>3, <1>4, <1>6

-----------------------------------------------------------------------------
(* The theorems. *)

\* The invariant holds when the thread and the store start.
LEMMA InitInv == Init => Inv
PROOF
<1> SUFFICES ASSUME Init PROVE Inv
  OBVIOUS
<1> USE DEF Init, StoreInit
<1>1. Rev = 1 /\ MaxRev \in Nat /\ 1 <= MaxRev
  BY KeyHistoryAssumption DEF Rev
<1>2. node \in Node /\ node.current <= 1
  <2>1. 0 \in 0..MaxRev /\ 1 \in 0..MaxRev
    BY <1>1
  <2> QED
    BY <2>1 DEF Unset, Node
<1>3. StoreTypeOK
  <2>1. Absent \in Stored
    BY <1>1 DEF Absent, Stored
  <2> QED
    BY <1>1, <2>1 DEF StoreTypeOK
<1>4. TypeOK
  <2>1. 0 \in 0..MaxRev /\ 0 \in -1..MaxRev + 1
    BY <1>1
  <2>2. pc \in PC /\ want \in EventType /\ done \in BOOLEAN
    BY DEF PC, EventType
  <2>3. clean \in BOOLEAN
    BY DEF IsValid
  <2> QED
    BY <1>2, <1>3, <2>1, <2>2, <2>3 DEF TypeOK
<1>5. FirstCreated(kv) = {}
  BY DEF FirstCreated, Existing, Absent
<1>6. StoreInv
  BY <1>1, <1>5 DEF StoreInv, Absent
<1> QED
  BY <1>1, <1>2, <1>4, <1>6 DEF Inv, NodeInv, WatchInv, Waiting

\* The invariant holds in every state of the specification.
THEOREM Invariance == Spec => []Inv
PROOF
<1>1. Inv /\ [Next]_vars => Inv'
  <2> SUFFICES ASSUME Inv, [Next]_vars PROVE Inv'
    OBVIOUS
  <2>1. CASE Watcher
    BY <2>1, GotLeaderStep, ReadStep, PassesStep, OtherStep DEF Watcher
  <2>2. CASE Store
    BY <2>2, EnvironmentStep
  <2>3. CASE \E n \in Unset \cup {node}, r \in 0..Rev : Call(n, r)
    BY <2>3, CallStep
  <2>4. CASE ContextDone
    BY <2>4, OtherStep
  <2>5. CASE UNCHANGED vars
    <3>1. pc' = pc /\ done' = done /\ next' = next
      BY <2>5 DEF vars, clientVars, watchVars
    <3>2. UNCHANGED <<storeVars, node, revision, start, want, clean>>
      BY <2>5 DEF vars, clientVars, watchVars
    <3>3. pc \in PC /\ done \in BOOLEAN /\ next \in -1..MaxRev + 1
      BY DEF Inv, TypeOK
    <3>4. pc = "reading" /\ clean /\ IsValid(node) => Open(next)
      BY DEF Inv, WatchInv, Waiting
    <3> QED
      BY <3>1, <3>2, <3>3, <3>4, QuietStep DEF Waiting
  <2> QED
    BY <2>1, <2>2, <2>3, <2>4, <2>5 DEF Next
<1> QED
  BY <1>1, InitInv, PTL DEF Spec

\* Every variable keeps its type: revisions stay within the history, however the
\* watcher adds to and takes from them.
THEOREM TypeCorrect == Spec => []TypeOK
PROOF
<1>1. Inv => TypeOK
  BY DEF Inv
<1> QED
  BY <1>1, Invariance, PTL

\* A clean Watch returns only a key that was the first one at some time.
THEOREM ReturnsALeader == Spec => []ReturnedDidLead
PROOF
<1>1. ASSUME Inv PROVE ReturnedDidLead
  <2>1. pc = "ok" /\ clean => IsValid(node)
    BY <1>1 DEF Inv, NodeInv
  <2> QED
    BY <1>1, <2>1 DEF Inv, NodeInv, ReturnedDidLead, LeaderOf
<1> QED
  BY <1>1, Invariance, PTL

\* A clean Watch that comes back from a deletion returns the valid leader that it
\* then reads, whatever the revisions are.
THEOREM ReturnsAfterOneEnd == Spec => OneEndIsEnough
PROOF
<1>1. ASSUME Inv, GotLeader, clean, IsValid(node), IsValid(node')
      PROVE  pc' = "ok"
  <2>1. revision = -1
    BY <1>1 DEF Inv, NodeInv, GotLeader
  <2>2. node' \in Node
    BY <1>1, GetLeaderResult DEF GotLeader, Inv, TypeOK
  <2> QED
    BY <1>1, <2>1, <2>2 DEF GotLeader, Node
<1>2. Inv => [GotLeader /\ clean /\ IsValid(node) /\ IsValid(node') => pc' = "ok"]_vars
  BY <1>1
<1> QED
  BY <1>2, Invariance, PTL DEF OneEndIsEnough

\* Whenever the leader that a clean Watch waits for is gone, a deletion is still
\* ahead of the watch, if the server serves it, and of every watch that replaces
\* it.
THEOREM NoDeletionIsMissed == Spec => []EndOfLeaderAhead
PROOF
<1>1. Inv => EndOfLeaderAhead
  BY DEF Inv, WatchInv, EndOfLeaderAhead, Ahead, Open, Live
<1> QED
  BY <1>1, Invariance, PTL

-----------------------------------------------------------------------------
(* Watch provides what LeaderWatch promises. *)

\* The node that GetLeader leaves names the key created first, or what it named
\* before if there is none.
LEMMA GetLeaderNames ==
  ASSUME TypeOK
  PROVE  \/ LeaderOf(GetLeader) \in FirstCreated(kv)
         \/ /\ FirstCreated(kv) = {}
            /\ GetLeader.lease = node.lease /\ GetLeader.create = node.create
PROOF
<1>1. CASE FirstCreated(kv) = {}
  BY <1>1 DEF GetLeader, TypeOK, Node
<1>2. CASE FirstCreated(kv) # {}
  <2> DEFINE first == CHOOSE s \in FirstCreated(kv) : TRUE
  <2>1. first \in FirstCreated(kv)
    BY <1>2
  <2> HIDE DEF first
  <2>2. first \in Stored
    BY <2>1, FirstExists DEF TypeOK
  <2>3. GetLeader = [lease |-> first.lease, create |-> first.create, current |-> Rev]
    BY <1>2 DEF GetLeader, first
  <2>4. first = [lease |-> first.lease, create |-> first.create]
    BY <2>2 DEF Stored
  <2> QED
    BY <2>1, <2>3, <2>4 DEF LeaderOf
<1> QED
  BY <1>1, <1>2

\* What LeaderWatch sees of the state, by name.
Phase ==
  IF ~clean \/ pc \in {"idle", "cancelled"} THEN "out"
  ELSE IF pc = "ok" THEN "back"
  ELSE IF Waiting THEN "waiting" ELSE "asking"
NoNode == [lease |-> 0, create |-> 0, current |-> 0]
Known == IF clean /\ IsValid(node) THEN node ELSE NoNode
Leader == FirstCreated(kv)
Ends == EventsFrom("DELETE", 0)

\* A key that is put or deleted takes the store to the next revision.
LEMMA StoreChanges ==
  ASSUME TypeOK, StoreNext
  PROVE  UNCHANGED <<Rev, Leader, Ends>> \/ (Rev' = Rev + 1 /\ Ends' \in {Ends, Ends \cup {Rev'}})
PROOF
<1>1. history \in Seq(Event) /\ Len(history) \in Nat /\ Rev \in Nat
  BY DEF TypeOK, StoreTypeOK, Rev
<1>2. CASE Compact
  BY <1>2 DEF Compact, Rev, Leader, FirstCreated, Existing, Ends, EventsFrom
<1>3. ASSUME NEW type, NEW create, history' = Append(history, [type |-> type, create |-> create])
      PROVE  Rev' = Rev + 1 /\ Ends' \in {Ends, Ends \cup {Rev'}}
  <2>1. Len(history') = Len(history) + 1
    BY <1>1, <1>3
  <2>2. Rev' = Rev + 1
    BY <1>1, <2>1 DEF Rev
  <2>3. \A r \in 2..Rev : history'[r - 1] = history[r - 1]
    BY <1>1, <1>3 DEF Rev
  <2>4. history'[Rev' - 1].type = type
    BY <1>1, <1>3, <2>2 DEF Rev
  <2>5. Ends' = {r \in 2..Rev' : r >= 0 /\ history'[r - 1].type = "DELETE"}
    BY DEF Ends, EventsFrom
  <2>6. \A r \in 2..Rev' : r \in 2..Rev \/ r = Rev'
    BY <1>1, <2>2
  <2>7. Rev' \in 2..Rev'
    BY <1>1, <2>2 DEF Rev
  <2>8. CASE type = "DELETE"
    <3>1. Ends' = Ends \cup {Rev'}
      BY <1>1, <2>2, <2>3, <2>4, <2>5, <2>6, <2>7, <2>8 DEF Ends, EventsFrom
    <3> QED
      BY <2>2, <3>1
  <2>9. CASE type # "DELETE"
    <3>1. Ends' = Ends
      BY <1>1, <2>2, <2>3, <2>4, <2>5, <2>6, <2>7, <2>9 DEF Ends, EventsFrom
    <3> QED
      BY <2>2, <3>1
  <2> QED
    BY <2>8, <2>9
<1>4. CASE \E k \in Key : Delete(k)
  BY <1>3, <1>4 DEF Delete, Record
<1>5. CASE \E k \in Key, l \in Lease : Put(k, l)
  BY <1>3, <1>5 DEF Put, Record
<1> QED
  BY <1>2, <1>4, <1>5 DEF StoreNext

\* Reading the leader: Return, or Wait.
LEMMA ReadingRefines ==
  ASSUME Inv, Inv', GotLeader
  PROVE  Promise!Return \/ Promise!Wait \/ UNCHANGED <<Phase, Known, Rev, Leader, Ends>>
PROOF
<1>1. /\ pc = "getLeader" /\ node' = GetLeader /\ clean' = clean /\ clean \in BOOLEAN
      /\ UNCHANGED <<Rev, Leader, Ends>>
  BY DEF GotLeader, Inv, TypeOK, storeVars, Rev, Leader, Ends, EventsFrom, FirstCreated, Existing
<1>2. CASE ~clean
  BY <1>1, <1>2 DEF Phase, Known
<1>3. CASE clean
  <2>1. Phase = "asking" /\ (IsValid(node) => Known = node) /\ (~IsValid(node) => Known = NoNode)
    BY <1>1, <1>3 DEF Phase, Known, Waiting
  <2>2. node'.current = Rev
    BY <1>1, GetLeaderResult DEF Inv
  <2>3. IsValid(node') => Promise!Read(node')
    <3> SUFFICES ASSUME IsValid(node') PROVE Promise!Read(node')
      OBVIOUS
    <3>1. LeaderOf(node') \in FirstCreated(kv)
          \/ (FirstCreated(kv) = {} /\ node'.lease = node.lease /\ node'.create = node.create)
      BY <1>1, GetLeaderNames DEF Inv
    <3>2. CASE LeaderOf(node') \in FirstCreated(kv)
      BY <2>2, <3>2 DEF Promise!Read, Promise!Holds, IsValid, LeaderOf
    <3>3. CASE FirstCreated(kv) = {} /\ node'.lease = node.lease /\ node'.create = node.create
      <4>1. IsValid(node)
        BY <3>3 DEF IsValid
      <4> QED
        BY <1>3, <2>2, <3>3, <4>1 DEF Promise!Read, Promise!Holds, IsValid
    <3> QED
      BY <3>1, <3>2, <3>3
  <2>4. CASE pc' = "ok"
    <3>1. IsValid(node')
      BY <2>4 DEF GotLeader
    <3>2. Phase' = "back" /\ Known' = node'
      BY <1>1, <1>3, <2>4, <3>1 DEF Phase, Known
    <3> QED
      BY <1>1, <2>1, <2>3, <3>1, <3>2
         DEF Promise!Return, Promise!store, Phase, Known, NoNode, Leader, Ends
  <2>5. CASE pc' = "watch"
    <3>1. Phase' = "waiting"
      BY <1>1, <1>3, <2>5 DEF Phase, Waiting
    <3>2. ~IsValid(node') => Known' = NoNode
      BY <1>1, <1>3 DEF Known
    <3>3. IsValid(node') => ~IsValid(node) /\ Known' = node'
      <4> SUFFICES ASSUME IsValid(node') PROVE ~IsValid(node) /\ Known' = node'
        OBVIOUS
      <4>1. ~(revision < node'.create)
        BY <2>5 DEF GotLeader
      <4>2. node'.create \in Nat
        BY DEF Inv, TypeOK, Node
      <4>3. revision # -1
        BY <4>1, <4>2
      <4> QED
        BY <1>1, <1>3, <4>3 DEF Inv, NodeInv, Known
    <3> QED
      BY <1>1, <2>1, <2>3, <3>1, <3>2, <3>3
         DEF Promise!Wait, Promise!store, Promise!NoNode, Promise!Holds, IsValid, Phase, Known,
             NoNode, Leader, Ends
  <2> QED
    BY <2>4, <2>5 DEF GotLeader
<1> QED
  BY <1>2, <1>3

\* An event of the watch: Notice.
LEMMA EventRefines ==
  ASSUME Inv, Read
  PROVE  Promise!Notice \/ UNCHANGED <<Phase, Known, Rev, Leader, Ends>>
PROOF
<1>1. /\ pc = "reading" /\ pc' = "getLeader"
      /\ node' = node /\ clean' = clean /\ clean \in BOOLEAN
      /\ UNCHANGED <<Rev, Leader, Ends>>
  BY DEF Read, Inv, TypeOK, storeVars, Rev, Leader, Ends, EventsFrom, FirstCreated, Existing
<1>2. UNCHANGED Known
  BY <1>1 DEF Known, IsValid
<1>3. CASE ~clean
  BY <1>1, <1>2, <1>3 DEF Phase
<1>4. CASE clean
  <2>1. Phase = "waiting" /\ Phase' = "asking"
    BY <1>1, <1>4 DEF Phase, Waiting
  <2>2. ASSUME IsValid(node) PROVE Known = node /\ \E r \in Ends : r > node.current
    <3>1. want = "DELETE" /\ next > node.current /\ next \in Int
      BY <1>1, <1>4, <2>2 DEF Inv, WatchInv, Waiting, Open, Read, Live, TypeOK
    <3>2. node.current \in Nat
      BY DEF Inv, TypeOK, Node
    <3>3. PICK r \in EventsFrom("DELETE", next) : TRUE
      BY <3>1 DEF Read
    <3>4. r \in Ends /\ r > node.current
      BY <3>1, <3>2, <3>3 DEF Ends, EventsFrom
    <3> QED
      BY <1>4, <2>2, <3>4 DEF Known
  <2>3. ~IsValid(node) => Known.lease = 0
    BY DEF Known, NoNode
  <2> QED
    BY <1>1, <1>2, <2>1, <2>2, <2>3
       DEF Promise!Notice, Promise!store, Promise!Holds, IsValid, Phase, Known, NoNode, Leader, Ends
<1> QED
  BY <1>3, <1>4

\* The other steps of the thread keep the node: they stand still, or give up.
LEMMA QuietRefines ==
  ASSUME Inv,
         \/ GetLeaderFailed \/ Backoff \/ WatchSingle \/ Passes \/ Cancelled \/ ReadFailed
         \/ ContextDone \/ UNCHANGED vars
  PROVE  Promise!GiveUp \/ UNCHANGED <<Phase, Known, Rev, Leader, Ends>>
PROOF
<1>1. /\ node' = node /\ clean' = clean /\ clean \in BOOLEAN
      /\ UNCHANGED <<Rev, Leader, Ends>>
  BY DEF GetLeaderFailed, Backoff, WatchSingle, Passes, Cancelled, ReadFailed, ContextDone,
     vars, clientVars, Inv, TypeOK, storeVars, Rev, Leader, Ends, EventsFrom, FirstCreated, Existing
<1>2. UNCHANGED Known
  BY <1>1 DEF Known, IsValid
<1>3. UNCHANGED Phase \/ (Phase \in {"asking", "waiting"} /\ Phase' = "out")
  BY <1>1 DEF GetLeaderFailed, Backoff, WatchSingle, Passes, Cancelled, ReadFailed, ContextDone,
     vars, clientVars, Phase, Waiting
<1> QED
  BY <1>1, <1>2, <1>3 DEF Promise!GiveUp, Promise!store, Phase, Known, NoNode, Leader, Ends

LEMMA StepRefines ==
  ASSUME Inv, Inv', [Next]_vars
  PROVE  Promise!Next \/ UNCHANGED <<Phase, Known, Rev, Leader, Ends>>
PROOF
<1>1. CASE Watcher
  BY <1>1, ReadingRefines, EventRefines, QuietRefines DEF Watcher, Promise!Next
<1>2. CASE Store
  <2>1. UNCHANGED <<Phase, Known>>
    BY <1>2 DEF Store, clientVars, Phase, Known, Waiting, IsValid
  <2>2. UNCHANGED <<Rev, Leader, Ends>> \/ (Rev' = Rev + 1 /\ Ends' \in {Ends, Ends \cup {Rev'}})
    BY <1>2, StoreChanges DEF Store, Inv
  <2> QED
    BY <2>1, <2>2 DEF Promise!Next, Promise!Change, Phase, Known, NoNode, Ends
<1>3. CASE \E n \in Unset \cup {node}, r \in 0..Rev : Call(n, r)
  <2>1. PICK n \in Unset \cup {node}, r \in 0..Rev : Call(n, r)
    BY <1>3
  <2>2. UNCHANGED <<Rev, Leader, Ends>>
    BY <2>1 DEF Call, storeVars, Rev, Leader, Ends, EventsFrom, FirstCreated, Existing
  <2>3. Phase \in {"out", "back"} /\ Phase' \in {"asking", "out"}
    BY <2>1 DEF Call, Phase, Waiting
  <2>4. Known' = NoNode
    BY <2>1 DEF Call, Known, IsValid
  <2> QED
    BY <2>2, <2>3, <2>4
       DEF Promise!Next, Promise!Ask, Promise!store, Promise!NoNode, Phase, Known, NoNode, Leader, Ends
<1>4. CASE ContextDone \/ UNCHANGED vars
  BY <1>4, QuietRefines DEF Promise!Next
<1> QED
  BY <1>1, <1>2, <1>3, <1>4 DEF Next

\* election.cc:52-140 as a whole: what a caller sees of a clean Watch is what
\* LeaderWatch allows, for every history, with and without compaction.
THEOREM WatchKeepsPromise == Spec => ImplementsLeaderWatch
PROOF
<1>1. Init => Promise!Init
  <2> SUFFICES ASSUME Init PROVE Promise!Init
    OBVIOUS
  <2>1. kv = [k \in Key |-> Absent] /\ Len(history) = 0 /\ pc = "idle" /\ clean = ~IsValid(node)
    BY DEF Init, StoreInit
  <2>2. Rev = 1 /\ EventsFrom("DELETE", 0) = {}
    BY <2>1 DEF Rev, EventsFrom
  <2>3. FirstCreated(kv) = {}
    BY <2>1 DEF FirstCreated, Existing, Absent
  <2> QED
    BY <2>1, <2>2, <2>3 DEF Promise!Init, Promise!NoNode
<1>2. Inv /\ Inv' /\ [Next]_vars => [Promise!Next]_(Promise!vars)
  BY StepRefines DEF Promise!vars, Phase, Known, NoNode, Leader, Ends
<1> QED
  BY Invariance, <1>1, <1>2, PTL DEF Spec, ImplementsLeaderWatch, Promise!Spec
=============================================================================
