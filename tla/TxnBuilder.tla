----------------------------- MODULE TxnBuilder -----------------------------
(***************************************************************************)
(* Txn of etcdv3client/kv.h: If, Then and Else build the message of a      *)
(* transaction, call by call, and Client::Txn sends it.  The options of    *)
(* its requests come from option objects that serve many calls and grow in *)
(* between, and a Txn may be put into another one and be built on after.   *)
(*                                                                         *)
(* Two executions run side by side: the server's, of the message, and one  *)
(* of the calls themselves, each request sent on its own.                  *)
(*                                                                         *)
(* A Compare is the caller's own message: here it asks whether a key is    *)
(* there.                                                                  *)
(***************************************************************************)
EXTENDS RequestSetters

CONSTANTS
  Txns,      \* the Txn objects
  Stores,    \* the stores a transaction may find: from keys to values
  Values,    \* the values that are put
  Leases,    \* the leases of WithLease
  Compares,  \* the compares of If
  Requests,  \* the arguments of ThenRange, ElsePut and the others, and which
  MaxCalls   \* bound: how many calls are made on all the objects

Compare == [key : Bytes, there : BOOLEAN]
Argument == [kind : {"range", "put", "delete"}, key : Bytes, value : Values]

ASSUME TxnAssumption ==
  /\ Leases \subseteq Nat \ {0} /\ MaxCalls \in Nat
  /\ Compares \subseteq Compare /\ Requests \subseteq Argument

VARIABLES
  txns,    \* Txn::request_
  opts,    \* setfuncs of a RangeOptions, a PutOptions and a DeleteRangeOptions
  said,    \* history: the calls made on each Txn
  copies,  \* history: what each Txn was when it was put into another one
  calls,   \* how many calls were made
  server,  \* the execution of the message sent: what is still to do, the run
  plain    \* the execution of the calls

built == <<txns, opts, said, copies, calls>>
vars == <<built, server, plain>>

Branches == {"success", "failure"}
Empty == [compare |-> <<>>, success |-> <<>>, failure |-> <<>>]

\* The messages as protobuf creates them, once key and value are set.
FreshPut(key, value) ==
  [key |-> key, value |-> value, lease |-> 0, ignore_value |-> FALSE, ignore_lease |-> FALSE]
FreshOf(kind, key, value) ==
  IF kind = "put" THEN FreshPut(key, value) ELSE Fresh(key)

\* Mutant: the id passes through a variable of 8 bits.
WithLeaseNarrow(id) == Set("lease", id % 256)

WithLease(id) == Set("lease", id)
WithIgnoreValue == Set("ignore_value", TRUE)
WithIgnoreLease == Set("ignore_lease", TRUE)

Kinds == {"range", "put", "delete"}

\* Options::Apply.
Apply(setfuncs, req) ==
  LET made[n \in 0..Len(setfuncs)] ==
        IF n = 0 THEN req ELSE Call(made[n-1], setfuncs[n])
  IN made[Len(setfuncs)]

\* Mutant: the key is set after the options are applied.
OpKeyLast(arg) ==
  [kind |-> arg.kind,
   req |-> [Apply(opts[arg.kind], FreshOf(arg.kind, <<>>, arg.value)) EXCEPT !.key = arg.key]]

\* What ThenRange, ElsePut and the others append: the key, then the options.
Op(arg) ==
  [kind |-> arg.kind, req |-> Apply(opts[arg.kind], FreshOf(arg.kind, arg.key, arg.value))]

-----------------------------------------------------------------------------
(* The server (proto/rpc.proto).  EXTERNAL.  A run is the store before the *)
(* transaction and as it is now, what has been answered, and whether no    *)
(* request was refused.                                                    *)

Start(store) == [before |-> store, store |-> store, out |-> <<>>, ok |-> TRUE]

\* The requests that can stand alone.
Serve(run, kind, req) ==
  LET hit == {k \in DOMAIN run.store : InRange(k, req.key, req.range_end)}
      found == [k \in hit |-> run.store[k]]
      there == req.key \in DOMAIN run.store
      old == run.store[req.key]
      new == [value |-> IF req.ignore_value THEN old.value ELSE req.value,
              lease |-> IF req.ignore_lease THEN old.lease ELSE req.lease]
  IN CASE kind = "range" ->
            [run EXCEPT !.out = Append(@, found)]
       [] kind = "delete" ->
            [run EXCEPT !.out = Append(@, found),
                        !.store = [k \in DOMAIN @ \ hit |-> @[k]]]
       [] kind = "put" /\ (req.ignore_value \/ req.ignore_lease => there) ->
            [run EXCEPT !.store =
               [k \in DOMAIN @ \cup {req.key} |-> IF k = req.key THEN new ELSE @[k]]]
       [] kind = "put" /\ ~(req.ignore_value \/ req.ignore_lease => there) ->
            [run EXCEPT !.ok = FALSE]

\* The branch of a transaction that its compares select.  They see the store as
\* it was before the whole transaction.
Taken(store, txn) ==
  IF \A i \in 1..Len(txn.compare) :
       (txn.compare[i].key \in DOMAIN store) = txn.compare[i].there
  THEN txn.success ELSE txn.failure

\* One step of an execution: the transaction at the head gives way to its
\* branch, another request is served; a refusal ends it.
Step(exec, Request(_)) ==
  LET op == Head(exec.todo)
      run == Serve(exec.run, op.kind, Request(op))
  IN IF exec.todo = <<>> THEN exec
     ELSE IF op.kind = "txn"
     THEN [exec EXCEPT !.todo = Taken(exec.run.before, op.req) \o Tail(@)]
     ELSE [todo |-> IF run.ok THEN Tail(exec.todo) ELSE <<>>, run |-> run]

Idle == [todo |-> <<>>, run |-> Start(<<>>)]

-----------------------------------------------------------------------------
Init ==
  /\ txns = [t \in Txns |-> Empty]
  /\ opts = [kind \in Kinds |-> <<>>]
  /\ said = [t \in Txns |-> Empty]
  /\ copies = <<>>
  /\ calls = 0
  /\ server = Idle /\ plain = Idle

\* Client::Txn is not under way.  Bound: MaxCalls.
MayCall ==
  /\ server = Idle
  /\ calls < MaxCalls /\ calls' = calls + 1
  /\ UNCHANGED <<server, plain>>

Says(t, list, call) == said' = [said EXCEPT ![t][list] = Append(@, call)]

\* A With function of an option object.
Push(kind, setting) ==
  /\ MayCall
  /\ opts' = [opts EXCEPT ![kind] = @ \o setting]
  /\ UNCHANGED <<txns, said, copies>>

\* If
If(t, cmp) ==
  /\ MayCall
  /\ txns' = [txns EXCEPT ![t].compare = Append(@, cmp)]
  /\ Says(t, "compare", cmp)
  /\ UNCHANGED <<opts, copies>>

\* ThenRange, ThenPut, ThenDeleteRange; ElseRange, ElsePut, ElseDeleteRange
Request(t, branch, arg) ==
  /\ MayCall
  /\ txns' = [txns EXCEPT ![t][branch] = Append(@, Op(arg))]
  /\ Says(t, branch, [kind |-> arg.kind, arg |-> arg, options |-> opts[arg.kind]])
  /\ UNCHANGED <<opts, copies>>

\* Then(txn) and Else(txn): the other Txn as it is now, by value.
Nest(t, branch, other) ==
  /\ MayCall
  /\ t # other
  /\ txns' = [txns EXCEPT ![t][branch] = Append(@, [kind |-> "txn", req |-> txns[other]])]
  /\ Says(t, branch, [kind |-> "txn", req |-> said[other]])
  /\ copies' = Append(copies, [msg |-> txns[other], said |-> said[other]])
  /\ UNCHANGED opts

\* Client::Txn: the request of the Txn goes to the server, whose store other
\* clients may have changed.
Send(t, store) ==
  /\ server = Idle
  /\ server' = [todo |-> Taken(store, txns[t]), run |-> Start(store)]
  /\ plain' = [todo |-> Taken(store, said[t]), run |-> Start(store)]
  /\ UNCHANGED built

\* The requests that Client::Range, Put and DeleteRange send for a call.
Direct(call) == Apply(call.options, FreshOf(call.kind, call.arg.key, call.arg.value))

Execute ==
  /\ server.todo # <<>> \/ plain.todo # <<>>
  /\ server' = Step(server, LAMBDA op : op.req)
  /\ plain' = Step(plain, Direct)
  /\ UNCHANGED built

\* Client::Txn returns.
Reply ==
  /\ server # Idle
  /\ server.todo = <<>> /\ plain.todo = <<>>
  /\ server' = Idle /\ plain' = Idle
  /\ UNCHANGED built

Next ==
  \/ \E kind \in {"range", "delete"} : Push(kind, WithPrefix)
  \/ \E id \in Leases : Push("put", WithLease(id))
  \/ Push("put", WithIgnoreValue) \/ Push("put", WithIgnoreLease)
  \/ \E t \in Txns :
       \/ \E cmp \in Compares : If(t, cmp)
       \/ \E branch \in Branches :
            \/ \E arg \in Requests : Request(t, branch, arg)
            \/ \E other \in Txns : Nest(t, branch, other)
       \/ \E store \in Stores : Send(t, store)
  \/ Execute \/ Reply

Spec == Init /\ [][Next]_vars

-----------------------------------------------------------------------------
RangeRequest ==
  [key : Bytes, range_end : Bytes, limit : {0}, sort_target : {"KEY"}, sort_order : {"NONE"}]
PutRequest ==
  [key : Bytes, value : Values, lease : Leases \cup {0},
   ignore_value : BOOLEAN, ignore_lease : BOOLEAN]

\* A request of a message; a Txn in it is one that was put there.
IsOp(co, op) ==
  \/ op.kind = "txn" /\ \E i \in 1..Len(co) : op.req = co[i].msg
  \/ op.kind = "put" /\ op.req \in PutRequest
  \/ op.kind \in {"range", "delete"} /\ op.req \in RangeRequest

IsMessage(co, msg) ==
  /\ DOMAIN msg = DOMAIN Empty
  /\ msg.compare \in Seq(Compare)
  /\ \A branch \in Branches : \A i \in 1..Len(msg[branch]) : IsOp(co, msg[branch][i])

\* What has been built is always a message, with what was given to the calls,
\* down to the Txns inside, and so is what the server has still to do.
TypeOK ==
  /\ \A t \in Txns : IsMessage(copies, txns[t])
  /\ \A i \in 1..Len(copies) : IsMessage(copies, copies[i].msg)
  /\ \A i \in 1..Len(server.todo) : IsOp(copies, server.todo[i])
  /\ DOMAIN opts = Kinds /\ calls \in 0..MaxCalls

\* Whatever the order of the calls, a transaction does what the requests of the
\* branch taken do one by one, each with the options as they were at its call,
\* and answers the same; a Txn put into another stays there as it was then
\* (kv.h:310-391, kv.cc:16-52).  The server may refuse the message as a whole;
\* it refuses at least one that puts a key twice, which is no concern here.
RunsAsSaid ==
  /\ server.run = plain.run
  /\ server.todo = <<>> <=> plain.todo = <<>>
=============================================================================
