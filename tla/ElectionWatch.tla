--------------------------- MODULE ElectionWatch ---------------------------
(***************************************************************************)
(* etcdv3client/election.cc: Client::ElectionImpl::GetLeader and Watch, as *)
(* one thread runs them against the store of module KeyHistory.  The       *)
(* thread may call Watch again and again, with the ElectionNode of the     *)
(* call before or with another one.                                        *)
(***************************************************************************)
EXTENDS KeyHistory

VARIABLES
  pc,         \* "idle", a place in Watch, or how it ended: "ok", "cancelled"
  node,       \* *out_leader_node: [lease, create, current]
  revision,   \* the local variable of Watch
  start,      \* the start revision in watch_options
  want,       \* watch_event
  next,       \* the server's side of the watch: the next revision to look at;
              \* 0 if no watch is open at the server
  done,       \* the Context is finished
  clean       \* history: Watch was called with a node that is not valid

watchVars == <<start, want, next>>
clientVars == <<pc, node, revision, watchVars, done, clean>>
vars == <<storeVars, clientVars>>

PC == {"idle", "getLeader", "getBackoff", "watch", "reading", "watchBackoff",
       "ok", "cancelled"}
Node == [lease : Nat, create : 0..MaxRev, current : 0..MaxRev]

TypeOK ==
  /\ StoreTypeOK
  /\ pc \in PC
  /\ node \in Node
  /\ revision \in -1..MaxRev + 1 /\ start \in -1..MaxRev + 1
  /\ want \in EventType
  /\ next \in -1..MaxRev + 1
  /\ done \in BOOLEAN /\ clean \in BOOLEAN

\* election.h:36: the constructor of ElectionNode sets no field; the values
\* that its memory may hold stand for all others.
Unset == {[lease |-> 0, create |-> 0, current |-> 0],
          [lease |-> 1, create |-> 1, current |-> 1]}

IsValid(n) == n.lease # 0

Init ==
  /\ StoreInit
  /\ pc = "idle"
  /\ node \in Unset
  /\ revision = 0 /\ start = 0 /\ want = "PUT" /\ next = 0
  /\ done = FALSE
  /\ clean = ~IsValid(node)

Later(a, b) == IF a > b THEN a ELSE b

-----------------------------------------------------------------------------
\* Watch is called: for the leader (revision 0), or for one that was created
\* after a revision the caller has seen.
Call(n, r) ==
  /\ pc \in {"idle", "ok", "cancelled"}
  /\ pc' = "getLeader"
  /\ node' = n /\ clean' = ~IsValid(n)
  /\ revision' = r
  /\ UNCHANGED <<storeVars, watchVars, done>>

\* Mutant: the key created last is taken.
GetLeaderLast ==
  LET last == {kv[k] : k \in {k \in Existing(kv) :
                 \A l \in Existing(kv) : kv[k].create >= kv[l].create}}
  IN IF last = {} THEN [node EXCEPT !.current = Rev]
     ELSE LET first == CHOOSE s \in last : TRUE
          IN [lease |-> first.lease, create |-> first.create, current |-> Rev]

\* GetLeader: the node after a range request that succeeded.  Without a key in
\* the range, only current_revision_ is written.
GetLeader ==
  IF FirstCreated(kv) = {} THEN [node EXCEPT !.current = Rev]
  ELSE LET first == CHOOSE s \in FirstCreated(kv) : TRUE
       IN [lease |-> first.lease, create |-> first.create, current |-> Rev]

\* Mutant: the revision of the node is watched from the one after the next.
WatchFromGap(n) ==
  /\ revision' = IF IsValid(n) THEN Later(n.current + 2, revision) ELSE revision
  /\ start' = revision'
  /\ want' = IF IsValid(n) THEN "DELETE" ELSE "PUT"

\* Mutant: the revision that the node was read at is watched once more.
WatchFromSeen(n) ==
  /\ revision' = IF IsValid(n) THEN Later(n.current, revision) ELSE revision
  /\ start' = revision'
  /\ want' = IF IsValid(n) THEN "DELETE" ELSE "PUT"

\* Lines 86-99: from which revision on to watch, and for what.
WatchFrom(n) ==
  /\ revision' = IF IsValid(n) THEN Later(n.current + 1, revision) ELSE revision
  /\ start' = revision'
  /\ want' = IF IsValid(n) THEN "DELETE" ELSE "PUT"

\* Lines 64-99: the leader is found, and returned or watched for.
GotLeader ==
  /\ pc = "getLeader"
  /\ node' = GetLeader
  /\ IF IsValid(node') /\ (revision = 0 \/ revision < node'.create)
     THEN pc' = "ok" /\ UNCHANGED <<revision, start, want>>
     ELSE pc' = "watch" /\ WatchFrom(node')
  /\ UNCHANGED <<storeVars, next, done, clean>>

GetLeaderFailed ==
  /\ pc = "getLeader"
  /\ pc' = "getBackoff"
  /\ UNCHANGED <<storeVars, node, revision, watchVars, done, clean>>

\* Mutant: the wait does not tell whether the context is done.
BackoffSleeps ==
  /\ \/ pc = "getBackoff" /\ pc' = "getLeader"
     \/ pc = "watchBackoff" /\ pc' = "watch"
  /\ UNCHANGED <<storeVars, node, revision, watchVars, done, clean>>

\* ctx->Wait(backoff.Next()) after a failed request or a broken watch.
Backoff ==
  /\ \/ pc = "getBackoff" /\ pc' = IF done THEN "cancelled" ELSE "getLeader"
     \/ pc = "watchBackoff" /\ pc' = IF done THEN "cancelled" ELSE "watch"
  /\ UNCHANGED <<storeVars, node, revision, watchVars, done, clean>>

\* WatchSingle: the server starts a watch, from now on if start is 0.
WatchSingle ==
  /\ pc = "watch"
  /\ pc' = "reading"
  /\ next' = IF start = 0 THEN Rev + 1 ELSE start
  /\ UNCHANGED <<storeVars, node, revision, start, want, done, clean>>

\* The server still serves the watch: it has not cancelled it, and the history
\* reaches back to where the watch is.
Live == next # 0 /\ next >= compacted

\* Mutant: the revision is set from the events that carry one only.
ReadKeepsRevision ==
  /\ pc = "reading" /\ Live
  /\ \E r \in EventsFrom(want, next) :
       /\ \A s \in EventsFrom(want, next) : r <= s
       /\ revision' = IF want = "PUT" THEN history[r - 1].create - 1 ELSE revision
  /\ pc' = "getLeader"
  /\ next' = 0
  /\ UNCHANGED <<storeVars, node, start, want, done, clean>>

\* Mutant: the watch starts two revisions before the creation.
ReadOffByOne ==
  /\ pc = "reading" /\ Live
  /\ \E r \in EventsFrom(want, next) :
       /\ \A s \in EventsFrom(want, next) : r <= s
       /\ revision' = history[r - 1].create - 2
  /\ pc' = "getLeader"
  /\ next' = 0
  /\ UNCHANGED <<storeVars, node, start, want, done, clean>>

\* The server sends the first event that the watch asks for.  Batches make no
\* difference: the code uses the first event and drops the watch.
Read ==
  /\ pc = "reading" /\ Live
  /\ \E r \in EventsFrom(want, next) :
       /\ \A s \in EventsFrom(want, next) : r <= s
       /\ revision' = history[r - 1].create - 1
  /\ pc' = "getLeader"
  /\ next' = 0
  /\ UNCHANGED <<storeVars, node, start, want, done, clean>>

\* The server passes an event that the filter of the watch leaves out.
Passes ==
  /\ pc = "reading" /\ Live
  /\ next <= Rev /\ next \notin EventsFrom(want, next)
  /\ next' = Later(next, 1) + 1
  /\ UNCHANGED <<storeVars, pc, node, revision, start, want, done, clean>>

\* The server cancels a watch of revisions that were compacted.  Its response is
\* one more that was read and holds no event: nothing looks at canceled() or
\* compact_revision(), and the thread goes on reading from the same stream.
Cancelled ==
  /\ pc = "reading" /\ next # 0 /\ next < compacted
  /\ next' = 0
  /\ UNCHANGED <<storeVars, pc, node, revision, start, want, done, clean>>

\* The stream breaks, or is ended by a deadline that the application has set.
ReadFailed ==
  /\ pc = "reading"
  /\ pc' = "watchBackoff"
  /\ next' = 0
  /\ UNCHANGED <<storeVars, node, revision, start, want, done, clean>>

ContextDone ==
  /\ ~done
  /\ done' = TRUE
  /\ UNCHANGED <<storeVars, pc, node, revision, watchVars, clean>>

Watcher ==
  \/ GotLeader \/ GetLeaderFailed \/ Backoff \/ WatchSingle
  \/ Read \/ Passes \/ Cancelled \/ ReadFailed

Store == StoreNext /\ UNCHANGED clientVars

Next ==
  \/ Watcher
  \/ Store
  \/ \E n \in Unset \cup {node}, r \in 0..Rev : Call(n, r)
  \/ ContextDone

Spec == Init /\ [][Next]_vars

-----------------------------------------------------------------------------
(* Safety.  A call is clean if its node did not name a leader.             *)

Waiting == pc \in {"watch", "reading", "watchBackoff"}
Over == pc \in {"ok", "cancelled"}
Gone(n) == \A k \in Key : kv[k].create # n.create

\* The thread reads from a stream on which nothing will come any more: its watch
\* has fallen behind a compaction.
Refused == pc = "reading" /\ ~Live

\* What a clean Watch returns did lead the election at some time: it was the
\* first key created of those that existed (election.cc:33, 79-81).
ReturnedDidLead ==
  pc = "ok" /\ clean => [lease |-> node.lease, create |-> node.create] \in led

\* The gap between reading the leader and watching for its end loses nothing:
\* whenever the leader of a waiting clean Watch is gone, there is a deletion
\* that the watch, unless it is refused, and any that replaces it after an error
\* still have to send (election.cc:87-90, 104, 121-133).
EndOfLeaderAhead ==
  Waiting /\ clean /\ IsValid(node) /\ Gone(node) =>
    /\ want = "DELETE"
    /\ EventsFrom("DELETE", start) # {}
    /\ pc = "reading" /\ Live => EventsFrom("DELETE", next) # {}

\* A call of Watch waits for the end of at most one leader: after the deletion of
\* any key in the range it returns the leader that it reads then, however the
\* revision was computed (election.cc:79, 87, 111).  So it cannot go round and
\* round on deletions, between which it would not pause.
OneEndIsEnough ==
  [][GotLeader /\ clean /\ IsValid(node) /\ IsValid(node') => pc' = "ok"]_vars

-----------------------------------------------------------------------------
(* What a caller may rely on, and that Watch provides it. *)

Promise == INSTANCE LeaderWatch WITH
  phase <- IF ~clean \/ pc \in {"idle", "cancelled"} THEN "out"
           ELSE IF pc = "ok" THEN "back"
           ELSE IF Waiting THEN "waiting" ELSE "asking",
  known <- IF clean /\ IsValid(node) THEN node
           ELSE [lease |-> 0, create |-> 0, current |-> 0],
  rev <- Rev,
  leader <- FirstCreated(kv),
  ends <- EventsFrom("DELETE", 0)

\* A clean Watch returns the leader of the revision at which it read it (or, when
\* nobody leads then, once more the one whose end it waited for), and it reads
\* again only after a deletion that is later than its reading before: it never
\* wakes up on what it has already seen (election.cc:64-139).
ImplementsLeaderWatch == Promise!Spec

-----------------------------------------------------------------------------
(* Liveness. *)

\* The thread runs.  A request for the leader that is made again and again is
\* answered in the end, and a watch that is open again and again with an event to
\* send delivers it.  Nothing makes a quiet stream end: line 106.
Fairness ==
  /\ WF_vars(GotLeader \/ GetLeaderFailed \/ Backoff \/ WatchSingle)
  /\ SF_vars(GotLeader)
  /\ SF_vars(Read)

FairSpec == Spec /\ Fairness

\* What an application can add: the contexts that its function makes for the
\* streams have a deadline (election.cc:103).
StreamsEnd == WF_vars(ReadFailed)

WaitsForEnd == Waiting /\ clean /\ IsValid(node)

\* A clean Watch that waits for the end of a leader does not miss it: it ends, or
\* finds that the next leader has no lease and waits for a first one, unless its
\* watch falls behind a compaction.  A watch that keeps up is not harmed by one,
\* although the revision it was started at is gone (election.cc:85-139).
EndOfLeaderSeen == WaitsForEnd /\ Gone(node) ~> Over \/ ~IsValid(node) \/ Refused

\* Where streams end, a finished context ends a Watch that waits for the end of a
\* leader, also one whose watches are all refused (election.cc:106, 120-130); it
\* may have gone on to wait for a first leader before.
ContextEndsWait == StreamsEnd => (WaitsForEnd /\ done ~> Over \/ ~IsValid(node))

-----------------------------------------------------------------------------
(* What the repository says and the code does not do: see README.md. *)

\* election.h:147, "GetLeader gets the leader node": the node that Watch returns
\* leads the election at the revision the node carries.
ReturnedNodeIsLeader ==
  [][GotLeader /\ pc' = "ok" =>
       \E s \in FirstCreated(kv) : s.create = node'.create]_vars

\* election.cc:62, "Get current leader until context done": a Watch whose context
\* is finished ends, if its requests and streams do.
ContextEndsWatch == StreamsEnd => (done /\ pc # "idle" ~> Over)

\* election.cc:97, "Wait for first leader, means watching PUT event": a Watch
\* that found none does not sleep through the arrival of one that stays.
FirstLeaderSeen ==
  \A k \in Key :
    Waiting /\ want = "PUT" /\ clean /\ kv[k].lease # 0
      ~> Over \/ kv[k].lease = 0
=============================================================================
