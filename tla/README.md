# A TLA+ model of etcdv3client

The repository is a C++ client for etcd v3: thin wrappers of the gRPC stubs,
option objects that fill requests, a *session* that keeps a lease alive in a
thread of its own, and an *election* that watches for the leader among the keys
with a prefix. This directory models the parts with behaviour of their own in
TLA+, checks them with TLC on small instances, and proves what matters most
with TLAPS for every value of the constants.

    tlc -config MCSession.cfg MCSession          # model-check one run
    tlapm SessionProofs.tla                      # check the proofs of a module

## The system

| Part | State | Operations | Talks to |
|---|---|---|---|
| **Session** (`session.{h,cc}`) | `lease_`, `lease_ttl_`, `granted_`, `closed_`, the events `alive_` and `expired_`, a mutex, one worker thread with a copy of the options | `Grant`, `Close` (also the destructor), `IsAlive`, getters; worker: `GrantAndKeepAlive`, `TryGrant`, `TryKeepAlive`, `TryRevoke` | the lease service, through `Client`; the application, through events and a `Context` |
| **Lease calls** (`lease.{h,cc}`) | none | `LeaseGrant`, `LeaseRevoke`, `LeaseKeepAlive`, two queries | gRPC |
| **Election** (`election.{h,cc}`) | none; the caller's `ElectionNode` is in/out | `GetLeader`, `Watch` (a loop in the caller's thread) | `Range` and `WatchSingle` of `Client`; a `Context` |
| **Options** (`common.h`, `kv.h`, `watch.h`, `lease.h`) | a list of setters | `With...`, `Apply` | used by every call |
| **Prefix range end** (`common.cc`) | none | `GetPrefixRangeEnd` | `WithPrefix` of three option classes |
| **KV and watch calls** (`kv.cc`, `watch.cc`) | none | `Range`, `Put`, `DeleteRange`, `Txn`, `Compact`, `Watch`, `WatchSingle` | gRPC |
| **Txn** (`kv.h:310-391`) | a protobuf message | `If`, `Then...`, `Else...` | `Client::Txn` |
| **LeaderSession, Campaign** (`leader_session.{h,cc}`) | events, a thread handle | stubs with empty bodies | - |
| **Client, Transport, Status, Watcher** | stubs and a channel, set once | wiring; `watcher.*` is empty | gRPC |

What is hard here is not the wrappers but these behaviours:

* the session's worker blocks in calls while application threads call `Grant`
  and `Close`, a `Context` finishes, and observers look at two events that
  change one after the other;
* an application reads the lease id of a session and puts a key under it with no
  lock, while the worker loses the lease and grants it again;
* waits, sleeps and calls take time: whether a renewal comes before the lease
  runs out, and how long `Close` blocks, depends on all of them;
* every call can fail on the client's side although the server has acted, or
  will act later; grants and revocations are retried on top of that;
* the lease can be lost at any time, and the session grants it again;
* between reading the leader and watching for its end the store changes; a
  watch breaks and is started again; history is compacted and a watch refused, which
  the code does not notice; the node that `Watch` fills is also what it reads;
* a prefix becomes a range by incrementing a byte whose comparison depends on
  the signedness of `char`; setters read what earlier setters wrote.

What makes each part correct:

* *Session*: the events are exclusive and agree with what the worker does; a
  session that says it is alive holds a lease granted to it; `Close` returns, and
  is final; once told to stop, the worker has a known number of steps left; the
  lease is revoked at the end, and once there is one no other is; its id is
  stable; a lost lease is noticed; a granted session comes alive.
* *Keys on a session*: the id an application reads was granted to the session,
  and its key never lands on somebody else's lease; the loss of a key is
  announced; no key outlives a session that ended well.
* *Timing*: the lease of an alive session is never older than a known bound, and
  `Close` returns within one.
* *Election*: what `Watch` returns did lead; the end of a leader is not missed by a watch
  that is served; one end is enough; a finished context ends the wait for it, where streams end.
* *Options and ranges*: a prefix request reaches every key with the prefix, unless the end
  that is computed for it wraps around, and where char is unsigned none with another first byte; the last setter of a field wins; a
  request reaches nothing below its key.
* *Txn*: a transaction does what its calls, done one by one, would do.

## Modules

| Module | Models | Extends |
|---|---|---|
| `Lessor` | external: the lease service and the network, as one session sees them | - |
| `Session` | `session.{h,cc}` and the lease calls | `Lessor` |
| `SessionLifecycle` | abstract: what an application may rely on | - |
| `WorkerFlow` | abstract: the course of the worker | - |
| `SessionKeys` | an application's key on the lease of a session | `Session` |
| `KeepAliveTiming` | the worker of `session.cc` against a clock | - |
| `KeyHistory` | external: keys, revisions, history and compaction | - |
| `ElectionWatch` | `election.{h,cc}`, `WatchSingle` | `KeyHistory` |
| `LeaderWatch` | abstract: what a caller of `Watch` may rely on | - |
| `PrefixRange` | `common.cc`, the server's order of keys | - |
| `RequestSetters` | the setters of `kv.h` and `watch.h` | `PrefixRange` |
| `RequestOptions` | option objects and the requests made with them | `RequestSetters` |
| `TxnBuilder` | `Txn` of `kv.h`, the calls of `kv.cc` it stands for | `RequestSetters` |
| `SessionProofs`, `SessionKeysProofs`, `KeepAliveProofs`, `ElectionProofs`, `PrefixRangeProofs`, `RequestProofs`, `TxnProofs` | theorems | the module, `TLAPS` |
| `MC...` | values and symmetry for TLC | the above |

Definitions that start with "Mutant:" in their comment are variants of the
definition below them with a plausible mistake. They are not part of any
specification; putting one in place of the definition makes TLC find the property
that guards against that mistake violated.

### Session and Lessor

The worker is a sequential program. `wpc` is its program counter, and an action
takes it to its next access to something others see or change: an event, the
close condition, a call. So `expired_->Reset()` and `alive_->Set()` (lines 63
and 64) are two actions, and a call is two: sending, and taking the answer.
`call` is the outstanding call; there is at most one, since only the worker
makes calls and it blocks.

| Code | Actions |
|---|---|
| `Grant` 22-40 | `Grant`, `GrantRefused` |
| `Close` 42-50 | `Close` (up to the join), `CloseReturns` |
| `GrantAndKeepAlive` 52-78 | `Loop`, `Granted`, `ResetExpired`, `SetAlive`, `ResetAlive`, `SetExpired`, `Finish` |
| `TryGrant` 80-106 | `TryGrant`, `GrantOk`, `GrantFailed`, `GrantBackoff` |
| `TryKeepAlive` 108-150 | `TryKeepAlive`, `WaitKeepAlive`, `KeepAliveOk`, `KeepAliveFailed` |
| `TryRevoke` 152-175 | `TryRevoke`, `RevokeReturns` |

`m_` is not a variable: it is held only across the join of `Close`, so `MutexFree`
says that no caller is there. The constructor assigns neither `lease_` nor
`lease_ttl_`; `Init` lets `lease` be any id, and the history variable `inited`
remembers the first assignment. `context::Event(false, true)` is
taken to be an event that starts set (its class is not in the repository;
`leader_session.h` uses it the same way for an event that must be set before any
leadership). `lost` (a grant was broken) and
`issued` (leases granted at this session's request) are history variables too.

A call in `Lessor` is answered, refused (an error, nothing done) or broken: the
client gets an error whether the server acted before (`Break` after serving),
acts later (`ServeStray`) or never. A keep-alive for a lease that is gone is
answered in one of two ways, which `GoneReply` selects: with the status NOT_FOUND
that `session.cc:138` tests for, or with a response whose TTL is not positive,
which `rpc.proto:537` names. Leases of other clients (`Foreign`) never expire
here: their owners keep them alive. `Leftover` are leases of an earlier run of the
same client, which are there at the start and expire: a client that restarts and asks
for its old id is refused until then.

Durations are abstracted: a wait with a time-out may end at any time, and a
sleep is a worker that does not move. `lease_ttl_` only steers durations, which
`KeepAliveTiming` has.

`SessionLifecycle` is the session seen from outside: a status that goes
idle, down, rising, up, falling, down, ..., over, an id that is fixed by the
first grant, and a stop that is never taken back. `ImplementsLifecycle` maps it:
the status is read off the two events and the start and end of the thread.

`WorkerFlow` is the worker seen from inside, without events, calls, ids and time:
granting, keeping, granting again, and after a stop revocations, one after another
and none beyond the limit. `Session` and `KeepAliveTiming` are two models of this one
worker, and `FollowsFlow` of each says that it keeps to that course; this is what ties
the bounds of the second to the interleavings of the first.

`WindsDown` counts what is left: once the close event has finished, each step of
the worker makes `StepsLeft` smaller and no step of anybody else makes it larger. It is
the safety part of `ContextCloses`: nothing can send the worker round again,
and what liveness adds is only that its calls end. `OnlyMemoryHurts` says which lease of
another client can be hit at all: the one that `lease_` named before any assignment.

### SessionKeys

What a session is for, and what `test/session-test.cc` does with one: the
application sees `IsAlive()`, reads `get_lease()` at some later time, puts a key with
`PutOptions::WithLease`, and waits for the expired event. It takes no lock, so each
of these is an action of its own that interleaves with the worker, the server and
the other callers; the put can fail although it was served, or be served when the
lease is already another one. Every step of `Session` is a step of the whole, in
which the key follows its lease (`KeyFollows`). `told` remembers that the expired
event was set since the put, even if the session is alive again. The read of
`lease_` races with the worker's writes; an aligned 64-bit load gives the value before
or after, which is what an atomic step gives.

`KeyOnOwnLease` says what the missing lock cannot do: although `lease_` may name a lease of
another client until the first grant, no key of the application is ever put on one.

`KeysAreGone` and `RegrantIsTold` ask for `~lost`, as `RevokedAtTheEnd` of `Session` does:
that no grant was broken. Revocations may be broken, served late, and answered NOT_FOUND
when they are tried again; these properties hold then, too. A grant whose answer was lost can be
served late and create the lease again without the session taking notice; the key is
gone then and nothing says so.

### KeepAliveTiming

The control of the worker again, without events and ids, with durations in seconds:
`left` is what is left of a wait or sleep, or until the call times out; `Tick` lets
a second pass for everyone, and every other step takes no time. `age` is how long ago
the server granted or renewed the lease. A wait ends early when `close_event` is
finished (`close_event->Wait`), a sleep does not (`sleep_for`), and a call ends at its
deadline, which the application gives through `get_grpc_client_context_func`.
`BackOffStrategy` is not in the repository; its `Next()` lies between the two durations
it was built with, and is the smaller one after construction and `Reset()`. The server
renews with the TTL it granted, so that the bounds taken once at line 109 stay right.

`Reach(ttl, k)` is the longest that a lease goes without renewal over `k` failures:
one first wait and two calls, plus for each failure a sleep, a wait and a call. TLC shows the
bound is tight. Three things follow. With the defaults (retry times 1 s and 60 s, TTL 60)
one failed keep-alive may cost the lease, since each wait after it may last 60 s. With
a minimum retry time that is not below the TTL the renewal is always too late, since
the wait is then the TTL itself. And `Close` can block for
`(retries + 1) * (deadline + maximum retry time)`. `GetKeepAliveIntervalByTTL`
(`session.h:141`), which would renew at half the TTL, is never called.

### ElectionWatch and KeyHistory

One thread calls `Watch`, again and again, with a fresh node (two values stand
for the uninitialised memory of `ElectionNode()`, one valid and one not) or with
the node of the call before, and with any revision up to that of the store.
`pc` says where it is: reading the leader, in one of the two back-offs, about to
open a watch, or reading from it. The history variable `clean` says that the call
under way was given a node that is not valid; most properties are about such calls.

`LeaderWatch` is what such a call promises: the node returned is that of the leader of the
revision it carries, or, if nobody leads then, once more that of the leader it waited for
(the divergence of `MCElectionStale`, which the promise therefore names); it waits for the
end of one leader at most, and looks again only after a deletion later than its
reading. `ImplementsLeaderWatch` maps the loop to it: broken streams, back-offs,
revisions and compaction are stutters.

`KeyHistory` is the store: a key holds a lease and its creation revision; every
change takes the next revision and is an event; a DELETE event carries no
creation revision (`kv.proto:35-36`). `led` records what was ever first created.
A watch delivers the first event of the type it filters for at or after its
start; `start = 0` means from now on. Events that the filter leaves out are passed over
(`Passes`), so a watch that was started long ago may have got past a compaction.

A watch whose next revision is compacted is cancelled by the server (`Cancelled`), with a
response that has `canceled` and `compact_revision` set and holds no event. `Read` returns
true for it, the loop over its events finds nothing (`election.cc:108-119`), nobody looks at
`canceled()`, and the thread reads on from a stream on which nothing will come: `next = 0`
while `pc = "reading"`. Only when the stream ends (`ReadFailed`) is there a back-off, a look
at the context, and another watch, from the same revision. `Refused` names that
state; `EndOfLeaderSeen` and `EndOfLeaderAhead` except it, nothing else does.

### PrefixRange, RequestSetters and RequestOptions

Keys are sequences of bytes `0..MaxByte` (255 in the code), `Char` is a byte as a
signed or unsigned char, and `GetPrefixRangeEnd` is the loop of `common.cc`.
`RequestSetters` has what each `With` function appends and what a setter does.
`RequestOptions` is one option object and the requests made with it: `Push` appends,
`Make` sets the key of a new request, each `RunSetter` is one round of the loop of
`Options::Apply`, and `Send` ends it. `limit`, `sort_target` and `sort_order` stand for all
fields that one setter stores a constant in; `filters` of a watch, to which
setters add, is left out.

The loop looks for a char below `char(0xff)`, counting `i` from the end of the key, and then
takes `substr(0, i+1)` from its front. What `WithPrefix` asks for is therefore:

* *Every key with the prefix*, in most cases (`PrefixCovered`, `PrefixReached`), the prefixes
  with bytes 0xff included.
* *Nothing*, where the byte that is incremented is itself 0xff and wraps to 0
  (`common.cc:17`) behind at least one other byte: with unsigned chars `4 5` of the model
  becomes `[4 5, 4 0)`, as `a 0xff` would become `[a 0xff, a 0)`. This contradicts "With the key
  prefix" (`kv.h:28`). `Wraps` names the case, and `PrefixCovered` says what happens
  in it rather than leaving it out; it is a theorem, too (`WrappedPrefixReach`). Text, which has
  no byte 0xff, is not concerned (`TextDoesNotWrap`). A lone byte that wraps is `\0`, which
  means that the range has no end.
* *More keys than those*: the range of a text prefix of several bytes ends after its *first*
  byte: that of `foo` is `[foo, g)`. `PrefixStaysNear` says that it goes no further, for bytes
  0xff as well; `MCRequestExact` shows that it goes so far.

One case is left out of `PrefixCovered` (see `AsksForPrefix`): with unsigned chars,
`WithPrefix` twice on the empty key asks for `[\0, \1)` only, since the second setter takes
the key that the first one has set for the prefix.

### TxnBuilder

`txns` are `Txn::request_` of two objects, `opts` the lists of one `RangeOptions`, one
`PutOptions` and one `DeleteRangeOptions` that all calls share and that grow in
between. `said` is a history variable: the calls made on each `Txn`, with the options
as they were. `copies` is another: what each `Txn` was when it was put into another.

`Client::Txn` (`Send`, `Execute`, `Reply`) starts two executions on a store that anybody may have
changed. `server` is what etcd makes of the message (`rpc.proto:353-381`: the compares first, against
the store before the transaction, then the requests of one branch in order, nested ones in
place). `plain` takes the calls of that branch instead and does each by the request
that `Client::Range`, `Put` or `DeleteRange` would send for it. Each `Execute` serves one request
of either, or opens one nested transaction, so that nesting needs no recursion.
`RunsAsSaid` says that the two are never told apart: by the store, the answers, or where they end.
A `Txn` belongs to the thread that builds it, and `Client::Txn` blocks: no call is made on one
between `Send` and `Reply`.

The server also refuses a message that puts a key twice; that is not modelled, so the
property says what happens if it accepts. A `Txn` put into itself is not a behaviour of the
model: `CopyFrom` from a message to a part of itself is not defined.

## Runs

| Run | Question | Instance and bounds |
|---|---|---|
| `MCSession` | safety of the session, that it implements `SessionLifecycle` and `WorkerFlow`, that it winds down, and that `Close` and a finished context end the worker | `FairSpec`; 2 callers, 3 leases of which one is foreign, requested ids 0, 1 and the foreign one, retries -1 and 0 (the default 3), one late request; 411 727 states |
| `MCSessionKeys` | what does an application get that puts a key on the lease? does a session come alive, and is a loss noticed and told? | `KeysHealedSpec`; 1 caller, 3 leases, one of another client and one left over from an earlier run, two retries, so that a broken revocation is answered NOT_FOUND on the next, NOT_FOUND for lost leases; 157 644 states |
| `MCKeepAlive` | how old can the lease get, and how long can `Close` block? does it keep to `WorkerFlow`? | retry times 1 and 3, deadline 1, TTLs 2, 4 and 6, 2 retries, up to 2 failures in a row; 11 563 states |
| `MCElectionWatch` | does `Watch` return leaders only, keep the end of a leader ahead and see it, end with its context where streams end, and implement `LeaderWatch`? | `FairSpec`; 2 keys, with and without lease, 4 revisions, with compaction and refused watches; 337 398 states |
| `MCRequestOptions` | what do option objects ask for? | bytes 0..5 with unsigned chars, all keys of length 0 to 2 and some of length 3, seven requested keys of which four hold the byte 5 and one wraps, up to 5 setters; 318 528 states |
| `MCTxn` | does a transaction do what its calls say? | 2 Txns, 2 keys, 2 values, a lease, compares and requests of every kind, 4 calls in all, sent at any time on every store; 949 509 states |

Why the bounds are enough. *Session*: two callers give every race of `Grant` and
`Close` (a third would only repeat the role of one of them, and the proofs hold
for any number); the server needs one lease besides the session's to choose
another one, plus a foreign one; one late request is enough to undo a revocation.
*Election*: revision 1 is the empty store, so 4 revisions allow a leader, a
follower and one deletion, or a leader, its deletion and its successor.
*Timing*: the TTLs lie between, and above, the retry times, so that the minimum of
line 109 cuts both ways; two failures show the bound grow. *Options*: with bytes 0..5
there are keys whose last byte is skipped by the loop, keys where all are, and one whose end wraps; five
setters allow a composite of four and one more; signed chars are a matter of the theorems.
*Txn*: four calls allow a `Txn` with a compare to be put into another
behind a put, or to be built on after it was put there; the requests for `<<1>>` hit
neither key without `WithPrefix` and one with it, so a lost or misplaced option shows.

The proofs of the same safety properties have none of these bounds.

Six runs check a property that the code does not have, and show where it
disagrees with what the repository says of it:

| Run | The repository says | The code does |
|---|---|---|
| `MCSessionForeign` | `session.h:109`, `Close` "will revoke the lease" | stopped before the first grant, it revokes the uninitialised `lease_` (`session.cc:165`) |
| `MCSessionGone` | `session.h:107`, "Check if this session is alive"; `rpc.proto:537`, "Expired lease will return -1" | a response counts as a renewal whatever its TTL (`session.cc:129-134`): the session stays alive for ever |
| `MCRequestExact` | `kv.h:28`, "With the key prefix" | the range of a prefix of several bytes ends after its first byte (`common.cc:16`, see `UnsignedPrefixReach`); with signed chars that of an ASCII prefix has no end at all (`common.cc:15`, `SignedPrefixReach`) |
| `MCElectionStale` | `election.h:147`, "GetLeader gets the leader node" | without a leader, the old content of the node is returned as the leader (`election.cc:40`, 79) |
| `MCElectionSpin` | `election.cc:62`, "Get current leader until context done" | while the first key is one that was put without a lease, `Watch` is sent the PUT of that key again and again, and looks at the context after errors only (`election.cc:79`, 111). The run has one key and no lease but 0; the caller's revision lies before the key |
| `MCElectionFirst` | `election.cc:97`, "Wait for first leader" | a leader that comes between the read and the start of the watch is missed (`election.cc:87-90`) |

The same models show more, without a run of its own: after the answer to a grant
is lost, the lease it created is never revoked (`session.cc:97`; this is why
`RevokedAtTheEnd` asks for `~lost`); a lost lease is granted again although
`session.cc:139` says "close the session" (`SessionLifecycle` has `Fall`, `Down` and
`Rise` in a cycle); a server that never answers keeps a finished `Context` from
closing the session, since calls have no deadline (this is why `FairSpec` needs
`CallsEnd`); a quiet stream keeps it from ending a `Watch` (`election.cc:106`; this is why
`ContextEndsWait` assumes `StreamsEnd`); a watch refused because of compaction goes unnoticed, and once
its stream ends it is started again at the same revision, against `rpc.proto:523` (this is why
`EndOfLeaderSeen` ends with `Refused`); a prefix whose end wraps reaches no key (`Wraps`, see above); a DELETE event carries no creation
revision, so after any deletion `revision` is -1 and the next leader is returned even
if it is the one the caller wanted to go past (`election.cc:111`).

## Fairness

* `ThreadsRun`: the worker takes its next step, and a `Close` that can return
  does. Threads are scheduled by the operating system; a step of the worker is
  always enabled unless it waits for an answer.
* `CallsEnd`: the outstanding call ends, with an answer or an error. The code
  sets no deadline itself; an application gives one through
  `get_grpc_client_context_func`. Without it the session need not stop.
* `NetworkHeals`: from some time on no call is broken, and the server refuses
  only the grant of an id in use. Under permanent failure nothing comes alive.
* `LeasesExpire`: a lease that nobody keeps alive expires, which is what a lease
  is; so the id of a lost lease becomes free for the next grant.
* In `ElectionWatch`, `Fairness`: the thread takes its next step where it does not block in
  `Read`, and strong fairness of `GotLeader` and `Read`: a request that is tried for ever is
  answered, and a watch that is open again and again with an event to send gets it through.
  Nothing is assumed of anybody who changes the store, and nothing makes a stream end:
  `Read` has no time-out (`election.cc:106`), and a stream may stay quiet for ever.
* `StreamsEnd` is not part of `Fairness` but the hypothesis of `ContextEndsWait` (and of
  `ContextEndsWatch`, which fails in spite of it): a stream that stays open without an event
  ends in the end. An application gives it with a function whose contexts have a deadline
  (`election.cc:103`); without it a finished context need not end a `Watch`.

`KeepAliveTiming` states its time bounds as invariants and needs no fairness; a bound
holds in behaviours where time stops, too.

## Proofs

`KeyHistoryAssumption`, `LessorAssumption`, `SessionAssumption`, `TimingAssumption`,
`ByteAssumption`, `RequestAssumption` and `TxnAssumption` are the only assumptions: they give the constants their types,
and TLC evaluates them in the runs.

**SessionProofs.** `Inv` is inductive; TLC checked it before it was proved. It has
four parts besides types. `WorkerInv`: where the worker is decides both events and
which call is under way. `ThreadInv`: the thread object and `granted_` follow the
worker, and a caller inside `Close` has closed the session, which is why no `Grant`
can start a worker behind its back. `LeaseInv`: the lease held, the one the options
ask for and the one the call is about are the same; it rests on line 58, which
writes the lease back into the options, and on line 61, which looks at the close
event again. `RevokeInv`: as long as no grant was broken, the only live lease of the
session is the one it holds or is about to be told of, and what is still on its way is
revocations, which add none. None of the safety
properties is inductive without them: that `alive` implies a granted lease, say,
needs that the lease was known three steps earlier. One lemma per part has one
step per action. The results are `TypeCorrect`, `EventsAreExclusive`,
`AliveSessionHoldsLease`, `ClosedForGood`, `CallsAgree`, `NoLeaseLeftBehind`, and
from the same invariant `LeaseIdNeverChanges` (an action property) and
`SessionImplementsLifecycle` (initial states map to initial states, each step to a
step of the lifecycle or a stutter).

Three more parts rest on that invariant. `ForeignInv`: a lease of another client is
missing, or in a revocation on its way, only under the id that `lease_` came with and only
after the loop; late requests are why it speaks of those as well. It gives
`OnlyMemoryHurtsOthers`, and `InitialisedSessionHarmsNobody`: with a `lease_` set in the
constructor to anything but somebody's lease, `ForeignLeasesKept`, which `MCSessionForeign` refutes, holds.
`SessionWindsDown` takes the measure `StepsLeft` apart by the place of the worker (`WorkerWindsDown`)
and shows that the steps of all others leave it alone (`StillStandsMeasure`), for any
number of retries, negative ones included. `CountInv`: revocations are counted from 0 and
only after the loop, which is what `SessionFollowsFlow`, the refinement of `WorkerFlow`, needs.

**SessionKeysProofs.** On top of that invariant, unchanged: every step of the whole is a
step of the session or leaves it alone. `AppInv` follows the application from
seeing `alive` to the put: ids once granted stay granted, and `lease_` does not change
any more; a lease that is granted to the session is nobody else's, so the key is on none
of theirs. `ToldInv`: an application that was not told of a loss finds the expired event
unset, and its lease gone if the key is. The lemma `NewLeaseWhenExpired` is the core: a lease
can only be created while the expired event is set, or by a grant that was broken.
The results are `KeysTypeCorrect`, `LeaseReadIsGranted`, `KeyIsOnOwnLease`, `NoKeyLeftBehind`,
`LossIsAnnounced`, and `KeysImplementSession`: the composition is still a `Session`, so that every theorem
about that one holds of it.

**KeepAliveProofs.** `AgeInv` gives, for each place of the worker, the age of the lease
plus what is left of the wait, sleep or call there plus what must follow before the
next renewal: that sum never exceeds `Reach`. `SinceInv` does the same for the time since
the stop, with `Limit(n)` seconds when the n-th revocation starts. Each `Tick` moves a
second from one summand to another. The results, for any retry times, deadlines and
TTLs, are `TimingTypeCorrect`, `AliveMeansRenewed`, `ClosesInBoundedTime`, and `FailuresSurvived`:
k failures do not cost the lease if `Reach(ttl, k) < ttl`. `TimedWorkerFollowsFlow` is the refinement of
`WorkerFlow`, with its own `CountInv`.

**ElectionProofs.** `Inv` adds three parts to the types. `StoreInv`: creations and
events do not run ahead of the revision, deletions carry no creation, and the key
created first is on record. `NodeInv`: a clean call holds a valid node only from
the store, and looks for a leader a second time only with revision -1, so that it
returns whatever valid node it then finds. `WatchInv`: the watch for the end of a
leader starts right after the revision at which it was read, and once the leader
is gone there is a deletion from there on (`Ahead`), which a watch that is served (`Open`) has
still before it: passing over other events does not pass it. The results are `TypeCorrect`,
`ReturnsALeader`, `NoDeletionIsMissed` and, as an action property, `ReturnsAfterOneEnd`,
for any number of keys and any history, with compaction.

`WatchKeepsPromise` is the refinement of `LeaderWatch`. The same invariant carries it: `ReadingRefines` for
the read, whose node is that of the one key created first (`GetLeaderNames`); `EventRefines` for the
event that ends a wait, which by `WatchInv` lies after the reading; `StoreChanges` for the changes of others;
everything else is a stutter (`QuietRefines`).

**PrefixRangeProofs.** `PrefixReached`: for every key and prefix of any length, any
(odd) largest byte and both kinds of char, a key with the prefix lies in the range
that `GetPrefixRangeEnd` makes of it, unless its increment wraps. Then the range is empty
(`WrappedPrefixReach`). The loop
is a set of indices and its minimum, which exists because `<` is well-founded.
How far the range goes beyond that: with unsigned chars no further than the first byte of the
prefix (`UnsignedPrefixNear`, for all bytes); and stated exactly, for text and unsigned chars it is the
keys from the prefix on that share its first byte (`UnsignedPrefixReach`), which for a prefix of one
byte are those with the prefix (`OneBytePrefixExact`); for ASCII and signed chars it is every key from
the prefix on (`SignedPrefixReach`).

**RequestProofs.** The setters run one step at a time, so that no induction over the
list is needed: the inductive invariant speaks of those that have run. `KeyInv`: the key is the one
asked for, or the one that `WithPrefix` puts in place of the empty key. `EndInv`: if `WithPrefix`
has the last word on the range, its end is that of the key asked for; for the empty key this
needs that a second `WithPrefix` leaves the end alone, which `NulEnd` shows for signed
chars. `OwnEnd`: a range end is one that an option names or that of the request's own key, never
one of an earlier request. With `PrefixReached` and `WrappedPrefixReach` the results are
`RequestTypeCorrect`, `LastWins`, `PrefixIsCovered`, `PrefixIsNear` (from `UnsignedPrefixNear`) and `KeyBoundsRange`, for lists of any length and any keys.

**TxnProofs.** `Inv` has two parts. `TypeInv`: every list of setters holds setters of its kind, and
every operation of a message, of a copy, and of what the server has still to do is a request with
what the calls were given. `SameInv`: messages and calls match one by one (`Means`), a nested `Txn`
through the copy that was made of it; so do the two lists of what is still to do, and the two
runs are the same. That is why `copies` is there: the match of a nested transaction is a fact about
an earlier moment, and instead of an induction over the depth of nesting the invariant keeps
every such moment. A copy is never changed, so matches stay matches while others are added
(`StillMeans`, `StillSame`); a call more keeps the match (`LongerSame`); the compares, being the
same on both sides, take the same branch (`TakenSame`); and a step of both executions serves equal
requests or opens matching transactions (`ExecuteStep`). That the options keep a request in its
type for a list of any length is shown by the absence of a least counterexample (`NoLeast`,
`ApplyWithin`). The results are `TypeCorrect` and `TxnRunsAsSaid`, for any number of objects and calls, any
depth of nesting, any setters and any store.

Model-checked only: the liveness properties under fairness (`ContextCloses`, `CloseTerminates`,
`BecomesAlive`, `LossNoticed`, `LossTold`, `EndOfLeaderSeen`, `ContextEndsWait`), since TLAPS 1.4.5 does not
reason about `ENABLED`; and the six violations. Every invariant and every action property of
the passing runs is a theorem, and so is every refinement. No module declares a recursive operator:
`Apply` is a recursive function, and the two executions of a transaction run step by step.

## Not modelled

* `LeaderSession` and `Campaign`: empty stubs; three of them end without
  returning the `Status` they declare.
* `Client`, `Transport`, `Status`: wiring, immutable after construction. `watcher.*`:
  empty.
* `Compact`, `LeaseTimeToLive`, `LeaseLeases` and their options: one request filled and
  sent, by the mechanism that `RequestOptions` models. `WithPrevKV` of puts and deletions,
  which changes the answer only; the repeated filters of watches.
* The getter `get_granted`, which reads without the mutex; the destructor when the
  worker itself drops the last reference.
* A `Txn` put into itself, and the server's refusal of two puts of one key.

## Plan

Done: (1) `Lessor`, `Session`, `SessionLifecycle`; (2) `PrefixRange`, `RequestSetters`,
`RequestOptions`; (3) `KeyHistory`, `ElectionWatch`; (4) `SessionKeys`, the composition of a
session with the keys of its application; (5) `KeepAliveTiming`; (6) `TxnBuilder`;
(7) `WorkerFlow` and `LeaderWatch`, the abstract specifications that three of them implement;
and the proofs of all of these.

Next, in this order:

1. `LeaseElection`: two sessions, the keys they put with their leases and a watcher, composed of
   `SessionKeys` and `KeyHistory`: the end of a session ends a leadership. Two sessions
   with the same requested id share it.
2. Theorems about the abstract specifications themselves, for what an application may conclude
   from `LeaderWatch` and `SessionLifecycle` alone.
3. The filters of `WatchOptions`, and a watch that delivers batches and fragments.
4. `LeaderSession` and `Campaign`, when they have bodies.
