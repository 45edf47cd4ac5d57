---------------------------- MODULE LeaderWatch ----------------------------
(***************************************************************************)
(* What a caller of Client::ElectionImpl::Watch may rely on, if it hands   *)
(* in a node that names no leader: which node the call returns, and what   *)
(* must have happened before it returns.  A call that hands in anything    *)
(* else is given no promise: its phase is "out".                           *)
(***************************************************************************)
EXTENDS Integers

VARIABLES
  phase,    \* "out"; "asking" for the leader, "waiting"; "back" with a node
  known,    \* the node that the call holds: [lease, create, current], or NoNode
  rev,      \* the revision of the store
  leader,   \* the key that leads at that revision, [lease, create]: none or one
  ends      \* the revisions at which a key of the election was deleted

vars == <<phase, known, rev, leader, ends>>
store == <<rev, leader, ends>>

NoNode == [lease |-> 0, create |-> 0, current |-> 0]
Holds(n) == n.lease # 0

Init ==
  /\ phase = "out" /\ known = NoNode
  /\ rev = 1 /\ leader = {} /\ ends = {}

\* The election goes on, whatever the caller does; any key may lead then.
Change ==
  /\ rev' = rev + 1
  /\ ends' \in {ends, ends \cup {rev'}}
  /\ UNCHANGED <<phase, known>>

Ask ==
  /\ phase \in {"out", "back"}
  /\ phase' \in {"asking", "out"} /\ known' = NoNode
  /\ UNCHANGED store

\* The node of the leader of this revision; or, after a wait at whose end nobody
\* leads, once more the node of the leader that was waited for.
Read(n) ==
  /\ Holds(n) /\ n.current = rev
  /\ \/ [lease |-> n.lease, create |-> n.create] \in leader
     \/ leader = {} /\ Holds(known) /\ n.lease = known.lease /\ n.create = known.create

Return ==
  /\ phase = "asking" /\ phase' = "back"
  /\ Read(known')
  /\ UNCHANGED store

\* A call waits for a leader to come, or once for the end of a leader that it has
\* just read.
Wait ==
  /\ phase = "asking" /\ phase' = "waiting"
  /\ known' = NoNode \/ (~Holds(known) /\ Read(known'))
  /\ UNCHANGED store

\* It looks again after an end later than that reading, and no sooner.
Notice ==
  /\ phase = "waiting" /\ phase' = "asking"
  /\ Holds(known) => \E r \in ends : r > known.current
  /\ UNCHANGED <<known, store>>

GiveUp ==
  /\ phase \in {"asking", "waiting"} /\ phase' = "out"
  /\ UNCHANGED <<known, store>>

Next == Change \/ Ask \/ Return \/ Wait \/ Notice \/ GiveUp

Spec == Init /\ [][Next]_vars
=============================================================================
