----------------------------- MODULE TxnProofs -----------------------------
(***************************************************************************)
(* Theorems about TxnBuilder, for any number of Txns, calls and setters,   *)
(* any depth of nesting, and every store.                                  *)
(***************************************************************************)
EXTENDS TxnBuilder, PrefixRangeProofs, SequenceTheorems

IsSeq(s) == Len(s) \in Nat /\ s = [i \in 1..Len(s) |-> s[i]]

\* The setters of the option objects, by the kind of request.
SetterOf(kind) ==
  IF kind = "put"
  THEN {[f |-> "lease", v |-> id] : id \in Leases}
       \cup {[f |-> "ignore_value", v |-> TRUE], [f |-> "ignore_lease", v |-> TRUE]}
  ELSE {[f |-> "prefix"]}
RequestOf(kind) == IF kind = "put" THEN PutRequest ELSE RangeRequest

TypeInv ==
  /\ TypeOK
  /\ \A kind \in Kinds : opts[kind] \in Seq(SetterOf(kind))

\* What an operation of a message has to do with the call that put it there: the
\* request is the one the call would send on its own; a Txn is a copy of what
\* had been built by the calls copied with it.
Means(co, op, call) ==
  /\ op.kind = call.kind
  /\ op.kind # "txn" => op.req = Direct(call)
  /\ op.kind = "txn" =>
       \E i \in 1..Len(co) : op.req = co[i].msg /\ call.req = co[i].said

SameList(co, ops, cs) ==
  /\ IsSeq(ops) /\ IsSeq(cs) /\ Len(ops) = Len(cs)
  /\ \A i \in 1..Len(ops) : Means(co, ops[i], cs[i])

Same(co, msg, list) ==
  /\ DOMAIN msg = DOMAIN Empty /\ DOMAIN list = DOMAIN Empty
  /\ msg.compare = list.compare
  /\ \A branch \in Branches : SameList(co, msg[branch], list[branch])

\* What is built, and what is under way at the server, matches the calls.
SameInv ==
  /\ DOMAIN txns = Txns /\ DOMAIN said = Txns /\ IsSeq(copies)
  /\ \A t \in Txns : Same(copies, txns[t], said[t])
  /\ \A i \in 1..Len(copies) : Same(copies, copies[i].msg, copies[i].said)
  /\ SameList(copies, server.todo, plain.todo)
  /\ DOMAIN server = {"todo", "run"} /\ DOMAIN plain = {"todo", "run"}
  /\ server.run = plain.run

Inv == TypeInv /\ SameInv
-----------------------------------------------------------------------------
(* Sequences whose elements are of no particular set. *)

LEMMA SeqOf ==
  ASSUME NEW s, IsSeq(s), NEW S, \A i \in 1..Len(s) : s[i] \in S
  PROVE  s \in Seq(S)
PROOF
<1> DEFINE n == Len(s)
<1>1. n \in Nat /\ s = [i \in 1..n |-> s[i]]
  BY DEF IsSeq
<1> HIDE DEF n
<1>2. s \in [1..n -> S]
  BY <1>1 DEF n
<1> QED
  BY <1>1, <1>2

LEMMA IsSeqOf == ASSUME NEW S, NEW s \in Seq(S) PROVE IsSeq(s)
BY DEF IsSeq

LEMMA Appended ==
  ASSUME NEW s, IsSeq(s), NEW e
  PROVE  /\ IsSeq(Append(s, e)) /\ Len(Append(s, e)) = Len(s) + 1
         /\ \A i \in 1..Len(s) : Append(s, e)[i] = s[i]
         /\ Append(s, e)[Len(s) + 1] = e
PROOF
<1> DEFINE S == {s[i] : i \in 1..Len(s)} \cup {e}
<1>1. s \in Seq(S) /\ e \in S
  <2>1. \A i \in 1..Len(s) : s[i] \in S
    OBVIOUS
  <2> HIDE DEF S
  <2>2. s \in Seq(S)
    BY <2>1, SeqOf
  <2> QED
    BY <2>2 DEF S
<1> HIDE DEF S
<1>2. /\ Append(s, e) \in Seq(S) /\ Len(Append(s, e)) = Len(s) + 1
      /\ \A i \in 1..Len(s) : Append(s, e)[i] = s[i]
      /\ Append(s, e)[Len(s) + 1] = e
  BY <1>1, AppendProperties
<1>3. IsSeq(Append(s, e))
  BY <1>2, IsSeqOf
<1> QED
  BY <1>2, <1>3

LEMMA Rest ==
  ASSUME NEW t, IsSeq(t), t # <<>>
  PROVE  /\ IsSeq(Tail(t)) /\ Len(Tail(t)) = Len(t) - 1
         /\ \A i \in 1..Len(t) - 1 : Tail(t)[i] = t[i + 1]
PROOF
<1> DEFINE S == {t[i] : i \in 1..Len(t)}
<1>1. t \in Seq(S)
  <2>1. \A i \in 1..Len(t) : t[i] \in S
    OBVIOUS
  <2> HIDE DEF S
  <2> QED
    BY <2>1, SeqOf
<1> HIDE DEF S
<1>2. /\ Tail(t) \in Seq(S) /\ Len(Tail(t)) = Len(t) - 1
      /\ \A i \in 1..Len(t) - 1 : Tail(t)[i] = t[i + 1]
  BY <1>1
<1> QED
  BY <1>2, IsSeqOf

LEMMA InFront ==
  ASSUME NEW s, IsSeq(s), NEW t, IsSeq(t), t # <<>>
  PROVE  LET u == s \o Tail(t) IN
         /\ IsSeq(u) /\ Len(u) = Len(s) + Len(t) - 1
         /\ \A i \in 1..Len(u) : u[i] = IF i <= Len(s) THEN s[i] ELSE t[i - Len(s) + 1]
PROOF
<1> DEFINE S == {s[i] : i \in 1..Len(s)} \cup {t[i] : i \in 1..Len(t)}
           r == Tail(t)
<1>1. s \in Seq(S) /\ t \in Seq(S)
  <2>1. (\A i \in 1..Len(s) : s[i] \in S) /\ (\A i \in 1..Len(t) : t[i] \in S)
    OBVIOUS
  <2> HIDE DEF S
  <2> QED
    BY <2>1, SeqOf
<1> HIDE DEF S
<1>2. r \in Seq(S) /\ Len(r) = Len(t) - 1 /\ \A i \in 1..Len(r) : r[i] = t[i + 1]
  BY <1>1
<1> HIDE DEF r
<1>3. s \o r \in Seq(S) /\ Len(s \o r) = Len(s) + Len(r)
  BY <1>1, <1>2
<1>4. ASSUME NEW i \in 1..Len(s \o r)
      PROVE  (s \o r)[i] = IF i <= Len(s) THEN s[i] ELSE t[i - Len(s) + 1]
  <2>1. (s \o r)[i] = IF i <= Len(s) THEN s[i] ELSE r[i - Len(s)]
    BY <1>1, <1>2, <1>3
  <2>2. Len(s) \in Nat /\ Len(r) \in Nat /\ i \in 1..Len(s) + Len(r)
    BY <1>1, <1>2, <1>3
  <2>3. i > Len(s) => i - Len(s) \in 1..Len(r) /\ r[i - Len(s)] = t[(i - Len(s)) + 1]
    <3>1. i > Len(s) => i - Len(s) \in 1..Len(r)
      BY <2>2
    <3> QED
      BY <1>2, <3>1
  <2> QED
    BY <1>2, <2>1, <2>2, <2>3
<1> QED
  BY <1>1, <1>2, <1>3, <1>4, IsSeqOf DEF r
-----------------------------------------------------------------------------
(* Options::Apply. *)

\* Induction, as the absence of a least counterexample.
LEMMA NoLeast ==
  ASSUME NEW Bad, Bad \subseteq Nat, \A n \in Bad : n > 0 /\ n - 1 \in Bad
  PROVE  Bad = {}
PROOF
<1> DEFINE R == OpToRel(<, Nat)
<1>1. IsWellFoundedOn(R, Nat)
  BY NatLessThanWellFounded
<1>2. \A n \in Bad : <<n - 1, n>> \in R
  BY DEF OpToRel
<1> HIDE DEF R
<1>3. Bad # {} => \E n \in Bad : \A m \in Bad : ~(<<m, n>> \in R)
  BY <1>1, WFMin, Zenon
<1> QED
  BY <1>2, <1>3

\* If each setter of the list keeps a request within T, so does the list.
LEMMA ApplyWithin ==
  ASSUME NEW T, NEW O, NEW s \in Seq(O), NEW req \in T,
         \A r \in T, o \in O : Call(r, o) \in T
  PROVE  Apply(s, req) \in T
PROOF
<1> DEFINE Makes(f, n) ==
      f \in [0..n -> T] /\ f[0] = req /\ \A i \in 1..n : f[i] = Call(f[i-1], s[i])
    Without == {n \in 0..Len(s) : ~\E f \in [0..n -> T] : Makes(f, n)}
<1>1. Len(s) \in Nat /\ \A i \in 1..Len(s) : s[i] \in O
  OBVIOUS
<1>2. ASSUME NEW n \in Without PROVE n > 0 /\ n - 1 \in Without
  <2>1. n > 0
    <3>1. SUFFICES n # 0
      BY <1>1
    <3> DEFINE g == [i \in 0..0 |-> req]
    <3>2. g \in [0..0 -> T] /\ g[0] = req /\ \A i \in 1..0 : FALSE
      OBVIOUS
    <3> HIDE DEF g
    <3>3. Makes(g, 0)
      BY <3>2
    <3> QED
      BY <3>2, <3>3
  <2>2. ASSUME NEW f \in [0..n-1 -> T], Makes(f, n-1) PROVE FALSE
    <3> DEFINE g == [i \in 0..n |-> IF i = n THEN Call(f[n-1], s[n]) ELSE f[i]]
    <3>1. n \in 1..Len(s) /\ n - 1 \in 0..n-1
      BY <1>1, <2>1
    <3>2. g \in [0..n -> T]
      BY <1>1, <3>1
    <3>3. g[0] = req
      BY <2>2, <3>1
    <3>4. \A i \in 1..n : g[i] = Call(g[i-1], s[i])
      BY <2>2, <3>1
    <3> HIDE DEF g
    <3> QED
      BY <3>2, <3>3, <3>4
  <2> QED
    BY <1>1, <2>1, <2>2
<1>3. Without = {}
  <2>1. Without \subseteq Nat
    BY <1>1
  <2> HIDE DEF Without
  <2> QED
    BY <1>2, <2>1, NoLeast
<1>4. PICK f \in [0..Len(s) -> T] : Makes(f, Len(s))
  BY <1>1, <1>3
<1> DEFINE made[n \in 0..Len(s)] == IF n = 0 THEN req ELSE Call(made[n-1], s[n])
<1>5. f = [n \in 0..Len(s) |-> IF n = 0 THEN req ELSE Call(f[n-1], s[n])]
  BY <1>1, <1>4
<1>6. made = [n \in 0..Len(s) |-> IF n = 0 THEN req ELSE Call(made[n-1], s[n])]
  BY <1>5
<1> HIDE DEF made
<1>7. made[Len(s)] \in T
  <2> DEFINE Bad == {n \in 0..Len(s) : made[n] \notin T}
  <2>1. \A n \in Bad : n > 0 /\ n - 1 \in Bad
    <3> SUFFICES ASSUME NEW n \in Bad PROVE n > 0 /\ n - 1 \in Bad
      OBVIOUS
    <3>1. n # 0 /\ n \in 1..Len(s) /\ n - 1 \in 0..Len(s)
      BY <1>1, <1>6
    <3>2. made[n] = Call(made[n-1], s[n])
      BY <1>6, <3>1
    <3> QED
      BY <1>1, <3>1, <3>2
  <2>2. Bad \subseteq Nat
    BY <1>1
  <2> HIDE DEF Bad
  <2>3. Bad = {}
    BY <2>1, <2>2, NoLeast
  <2> QED
    BY <1>1, <2>3 DEF Bad
<1> QED
  BY <1>7 DEF Apply, made
-----------------------------------------------------------------------------
(* The type of what is built. *)

LEMMA RequestsWithin ==
  ASSUME NEW kind \in Kinds, NEW r \in RequestOf(kind), NEW o \in SetterOf(kind)
  PROVE  Call(r, o) \in RequestOf(kind)
PROOF
<1>1. CASE kind = "put"
  <2>1. r \in PutRequest /\ o \in SetterOf("put")
    BY <1>1 DEF RequestOf
  <2>2. CASE \E id \in Leases : o = [f |-> "lease", v |-> id]
    <3>1. PICK id \in Leases : o = [f |-> "lease", v |-> id]
      BY <2>2
    <3>2. Call(r, o) = [r EXCEPT !.lease = id]
      BY <3>1 DEF Call
    <3> QED
      BY <1>1, <2>1, <3>2 DEF RequestOf, PutRequest
  <2>3. CASE o = [f |-> "ignore_value", v |-> TRUE]
    <3>1. Call(r, o) = [r EXCEPT !.ignore_value = TRUE]
      BY <2>3 DEF Call
    <3> QED
      BY <1>1, <2>1, <3>1 DEF RequestOf, PutRequest
  <2>4. CASE o = [f |-> "ignore_lease", v |-> TRUE]
    <3>1. Call(r, o) = [r EXCEPT !.ignore_lease = TRUE]
      BY <2>4 DEF Call
    <3> QED
      BY <1>1, <2>1, <3>1 DEF RequestOf, PutRequest
  <2> QED
    BY <2>1, <2>2, <2>3, <2>4 DEF SetterOf
<1>2. CASE kind # "put"
  <2>1. r \in RangeRequest /\ o = [f |-> "prefix"]
    BY <1>2 DEF RequestOf, SetterOf
  <2>2. Nul \in Bytes
    BY ByteAssumption DEF Nul, Bytes, Byte
  <2>3. r.key \in Bytes /\ GetPrefixRangeEnd(r.key) \in Bytes
    BY <2>1, EndIsBytes DEF RangeRequest
  <2>4. Call(r, o) = SetPrefix(r)
    BY <2>1 DEF Call
  <2>5. SetPrefix(r) \in RangeRequest
    BY <2>1, <2>2, <2>3 DEF SetPrefix, RangeRequest
  <2> QED
    BY <1>2, <2>4, <2>5 DEF RequestOf
<1> QED
  BY <1>1, <1>2

LEMMA OpTyped ==
  ASSUME TypeInv, NEW arg \in Requests
  PROVE  IsOp(copies, Op(arg)) /\ Op(arg).kind = arg.kind /\ arg.kind \in Kinds
PROOF
<1> DEFINE req == FreshOf(arg.kind, arg.key, arg.value)
<1>1. arg \in Argument /\ arg.kind \in Kinds
  BY TxnAssumption DEF Argument, Kinds
<1>2. req \in RequestOf(arg.kind)
  <2>1. arg.key \in Bytes /\ arg.value \in Values /\ <<>> \in Bytes
    BY <1>1 DEF Argument, Bytes
  <2>2. Fresh(arg.key) \in RangeRequest
    BY <2>1 DEF Fresh, RangeRequest
  <2>3. FreshPut(arg.key, arg.value) \in PutRequest
    BY <2>1 DEF FreshPut, PutRequest
  <2> QED
    BY <2>2, <2>3 DEF FreshOf, RequestOf
<1>3. opts[arg.kind] \in Seq(SetterOf(arg.kind))
  BY <1>1 DEF TypeInv
<1> HIDE DEF req
<1>4. Apply(opts[arg.kind], req) \in RequestOf(arg.kind)
  <2>1. \A r \in RequestOf(arg.kind), o \in SetterOf(arg.kind) : Call(r, o) \in RequestOf(arg.kind)
    BY <1>1, RequestsWithin
  <2> QED
    BY <1>2, <1>3, <2>1, ApplyWithin
<1>5. Op(arg) = [kind |-> arg.kind, req |-> Apply(opts[arg.kind], req)]
  BY DEF Op, req
<1> QED
  BY <1>1, <1>4, <1>5 DEF IsOp, RequestOf, Kinds

\* The copies that are there stay there.
Extends(co, more) ==
  /\ Len(co) \in Nat /\ Len(more) \in Nat /\ Len(co) <= Len(more)
  /\ \A i \in 1..Len(co) : more[i] = co[i]

LEMMA StillOp ==
  ASSUME NEW co, NEW more, Extends(co, more), NEW op, IsOp(co, op)
  PROVE  IsOp(more, op)
BY DEF IsOp, Extends

LEMMA StillMessage ==
  ASSUME NEW co, NEW more, Extends(co, more), NEW msg, IsMessage(co, msg)
  PROVE  IsMessage(more, msg)
BY StillOp DEF IsMessage

\* A request more leaves a message a message.
LEMMA LongerMessage ==
  ASSUME NEW co, NEW msg, IsMessage(co, msg), NEW branch \in Branches, NEW op, IsOp(co, op),
         IsSeq(msg[branch])
  PROVE  IsMessage(co, [msg EXCEPT ![branch] = Append(@, op)])
PROOF
<1> DEFINE new == [msg EXCEPT ![branch] = Append(msg[branch], op)]
<1>1. /\ DOMAIN new = DOMAIN msg /\ new[branch] = Append(msg[branch], op)
      /\ \A b \in DOMAIN msg : b # branch => new[b] = msg[b]
      /\ branch # "compare" /\ DOMAIN msg = {"compare", "success", "failure"}
  BY DEF IsMessage, Empty, Branches
<1> HIDE DEF new
<1>2. ASSUME NEW b \in Branches, NEW i \in 1..Len(new[b]) PROVE IsOp(co, new[b][i])
  <2>1. CASE b = branch
    BY <1>1, <1>2, <2>1, Appended DEF IsMessage, IsSeq
  <2>2. CASE b # branch
    BY <1>1, <1>2, <2>2 DEF IsMessage, Branches
  <2> QED
    BY <2>1, <2>2
<1>3. IsMessage(co, new)
  BY <1>1, <1>2 DEF IsMessage
<1> QED
  BY <1>3 DEF new
-----------------------------------------------------------------------------
(* The match of messages and calls. *)

LEMMA StillMeans ==
  ASSUME NEW co, NEW more, Extends(co, more), NEW op, NEW call, Means(co, op, call)
  PROVE  Means(more, op, call)
BY DEF Means, Extends

LEMMA StillSameList ==
  ASSUME NEW co, NEW more, Extends(co, more), NEW ops, NEW cs, SameList(co, ops, cs)
  PROVE  SameList(more, ops, cs)
BY StillMeans DEF SameList

LEMMA StillSame ==
  ASSUME NEW co, NEW more, Extends(co, more), NEW msg, NEW list, Same(co, msg, list)
  PROVE  Same(more, msg, list)
BY StillSameList DEF Same

\* A call more on both sides.
LEMMA LongerSameList ==
  ASSUME NEW co, NEW ops, NEW cs, SameList(co, ops, cs), NEW op, NEW call, Means(co, op, call)
  PROVE  SameList(co, Append(ops, op), Append(cs, call))
PROOF
<1>1. IsSeq(ops) /\ IsSeq(cs) /\ Len(ops) = Len(cs) /\ Len(ops) \in Nat
  BY DEF SameList, IsSeq
<1>2. /\ IsSeq(Append(ops, op)) /\ Len(Append(ops, op)) = Len(ops) + 1
      /\ \A i \in 1..Len(ops) : Append(ops, op)[i] = ops[i]
      /\ Append(ops, op)[Len(ops) + 1] = op
  BY <1>1, Appended
<1>3. /\ IsSeq(Append(cs, call)) /\ Len(Append(cs, call)) = Len(ops) + 1
      /\ \A i \in 1..Len(ops) : Append(cs, call)[i] = cs[i]
      /\ Append(cs, call)[Len(ops) + 1] = call
  BY <1>1, Appended
<1>4. ASSUME NEW i \in 1..Len(ops) + 1
      PROVE  Means(co, Append(ops, op)[i], Append(cs, call)[i])
  <2>1. CASE i = Len(ops) + 1
    BY <1>2, <1>3, <2>1
  <2>2. CASE i # Len(ops) + 1
    <3>1. i \in 1..Len(ops)
      BY <1>1, <2>2
    <3> QED
      BY <1>2, <1>3, <3>1 DEF SameList
  <2> QED
    BY <2>1, <2>2
<1> QED
  BY <1>2, <1>3, <1>4 DEF SameList

LEMMA LongerSame ==
  ASSUME NEW co, NEW msg, NEW list, Same(co, msg, list), NEW branch \in Branches,
         NEW op, NEW call, Means(co, op, call)
  PROVE  Same(co, [msg EXCEPT ![branch] = Append(@, op)], [list EXCEPT ![branch] = Append(@, call)])
PROOF
<1> DEFINE m == [msg EXCEPT ![branch] = Append(msg[branch], op)]
           l == [list EXCEPT ![branch] = Append(list[branch], call)]
<1>1. /\ DOMAIN m = DOMAIN msg /\ m[branch] = Append(msg[branch], op)
      /\ DOMAIN l = DOMAIN list /\ l[branch] = Append(list[branch], call)
      /\ \A b \in DOMAIN msg : b # branch => m[b] = msg[b] /\ l[b] = list[b]
      /\ branch # "compare" /\ DOMAIN msg = {"compare", "success", "failure"}
  BY DEF Same, Empty, Branches
<1>2. SameList(co, Append(msg[branch], op), Append(list[branch], call))
  BY LongerSameList DEF Same
<1> HIDE DEF m, l
<1>3. Same(co, m, l)
  BY <1>1, <1>2 DEF Same, Branches
<1> QED
  BY <1>3 DEF m, l
-----------------------------------------------------------------------------
(* The steps. *)

LEMMA InitInv == Init => Inv
PROOF
<1> SUFFICES ASSUME Init PROVE Inv
  OBVIOUS
<1>1. IsSeq(<<>>) /\ Len(<<>>) = 0 /\ DOMAIN Empty = {"compare", "success", "failure"}
  BY DEF IsSeq, Empty
<1>2. IsMessage(copies, Empty) /\ Same(copies, Empty, Empty)
  BY <1>1 DEF IsMessage, Same, SameList, Branches, Empty
<1>3. TypeInv
  BY <1>1, <1>2, TxnAssumption DEF Init, TypeInv, TypeOK, Kinds, Idle
<1>4. SameInv
  BY <1>1, <1>2 DEF Init, SameInv, SameList, Idle
<1> QED
  BY <1>3, <1>4 DEF Inv

\* While no message is under way, a step that makes one Txn longer, or none.
LEMMA BuildStep ==
  ASSUME Inv, UNCHANGED <<server, plain>>, calls' \in 0..MaxCalls,
         IsSeq(copies'), Extends(copies, copies'),
         \A i \in 1..Len(copies') :
            IsMessage(copies', copies'[i].msg) /\ Same(copies', copies'[i].msg, copies'[i].said),
         NEW t \in Txns, NEW msg, NEW list,
         IsMessage(copies', msg), Same(copies', msg, list),
         txns' = [txns EXCEPT ![t] = msg], said' = [said EXCEPT ![t] = list],
         UNCHANGED opts
  PROVE  Inv'
PROOF
<1>1. /\ DOMAIN txns' = Txns /\ DOMAIN said' = Txns
      /\ txns'[t] = msg /\ said'[t] = list
      /\ \A u \in Txns : u # t => txns'[u] = txns[u] /\ said'[u] = said[u]
  BY DEF Inv, SameInv
<1>2. ASSUME NEW u \in Txns
      PROVE  IsMessage(copies', txns'[u]) /\ Same(copies', txns'[u], said'[u])
  <2>1. CASE u = t
    BY <1>1, <2>1
  <2>2. CASE u # t
    <3>1. IsMessage(copies', txns[u])
      BY StillMessage DEF Inv, TypeInv, TypeOK
    <3>2. Same(copies', txns[u], said[u])
      BY StillSame DEF Inv, SameInv
    <3> QED
      BY <1>1, <2>2, <3>1, <3>2
  <2> QED
    BY <2>1, <2>2
<1>3. \A i \in 1..Len(server.todo) : IsOp(copies', server.todo[i])
  BY StillOp DEF Inv, TypeInv, TypeOK
<1>4. SameList(copies', server.todo, plain.todo)
  BY StillSameList DEF Inv, SameInv
<1>5. TypeInv'
  BY <1>2, <1>3 DEF Inv, TypeInv, TypeOK
<1>6. SameInv'
  BY <1>1, <1>2, <1>4 DEF Inv, SameInv
<1> QED
  BY <1>5, <1>6 DEF Inv

LEMMA SameCopies == ASSUME Inv, UNCHANGED copies PROVE Extends(copies, copies')
BY DEF Inv, SameInv, IsSeq, Extends

LEMMA Calling == ASSUME Inv, MayCall PROVE UNCHANGED <<server, plain>> /\ calls' \in 0..MaxCalls
BY TxnAssumption DEF Inv, TypeInv, TypeOK, MayCall

LEMMA PushStep ==
  ASSUME Inv, NEW kind \in Kinds, NEW o \in SetterOf(kind), Push(kind, <<o>>)
  PROVE  Inv'
PROOF
<1>1. UNCHANGED <<txns, said, copies, server, plain>>
  BY DEF Push, MayCall
<1>2. opts' = [opts EXCEPT ![kind] = opts[kind] \o <<o>>] /\ calls' \in 0..MaxCalls
  BY Calling DEF Push
<1>3. /\ DOMAIN opts' = Kinds
      /\ \A k \in Kinds : opts'[k] \in Seq(SetterOf(k))
  <2>1. <<o>> \in Seq(SetterOf(kind)) /\ opts[kind] \in Seq(SetterOf(kind))
    BY DEF Inv, TypeInv
  <2>2. opts[kind] \o <<o>> \in Seq(SetterOf(kind))
    BY <2>1
  <2> QED
    BY <1>2, <2>2 DEF Inv, TypeInv, TypeOK
<1>4. TypeInv'
  BY <1>1, <1>2, <1>3 DEF Inv, TypeInv, TypeOK
<1>5. SameInv'
  BY <1>1 DEF Inv, SameInv
<1> QED
  BY <1>4, <1>5 DEF Inv

LEMMA IfStep ==
  ASSUME Inv, NEW t \in Txns, NEW cmp \in Compares, If(t, cmp)
  PROVE  Inv'
PROOF
<1> DEFINE msg == [txns[t] EXCEPT !.compare = Append(txns[t].compare, cmp)]
           list == [said[t] EXCEPT !.compare = Append(said[t].compare, cmp)]
<1>1. /\ UNCHANGED <<server, plain, opts, copies>> /\ calls' \in 0..MaxCalls
      /\ txns' = [txns EXCEPT ![t] = msg] /\ said' = [said EXCEPT ![t] = list]
  BY Calling DEF If, Says
<1>2. IsMessage(copies, txns[t]) /\ Same(copies, txns[t], said[t])
  BY DEF Inv, TypeInv, TypeOK, SameInv
<1>3. /\ DOMAIN msg = DOMAIN Empty /\ msg.compare = Append(txns[t].compare, cmp)
      /\ DOMAIN list = DOMAIN Empty /\ list.compare = Append(said[t].compare, cmp)
      /\ \A b \in Branches : msg[b] = txns[t][b] /\ list[b] = said[t][b]
  BY <1>2 DEF Same, Empty, Branches
<1>4. Append(txns[t].compare, cmp) \in Seq(Compare)
  BY <1>2, TxnAssumption DEF IsMessage
<1> HIDE DEF msg, list
<1>5. Same(copies, msg, list)
  BY <1>2, <1>3 DEF Same
<1>6. IsMessage(copies', msg)
  BY <1>1, <1>2, <1>3, <1>4 DEF IsMessage, IsOp
<1>7. /\ Extends(copies, copies') /\ IsSeq(copies')
      /\ \A i \in 1..Len(copies') :
            IsMessage(copies', copies'[i].msg) /\ Same(copies', copies'[i].msg, copies'[i].said)
  BY <1>1, SameCopies, StillMessage DEF Inv, TypeInv, TypeOK, SameInv
<1> QED
  BY <1>1, <1>5, <1>6, <1>7, BuildStep

LEMMA RequestStep ==
  ASSUME Inv, NEW t \in Txns, NEW branch \in Branches, NEW arg \in Requests,
         Request(t, branch, arg)
  PROVE  Inv'
PROOF
<1> DEFINE op == Op(arg)
           call == [kind |-> arg.kind, arg |-> arg, options |-> opts[arg.kind]]
           msg == [txns[t] EXCEPT ![branch] = Append(txns[t][branch], op)]
           list == [said[t] EXCEPT ![branch] = Append(said[t][branch], call)]
<1>1. /\ UNCHANGED <<server, plain, opts, copies>> /\ calls' \in 0..MaxCalls
      /\ txns' = [txns EXCEPT ![t] = msg] /\ said' = [said EXCEPT ![t] = list]
  BY Calling DEF Request, Says
<1>2. IsMessage(copies, txns[t]) /\ Same(copies, txns[t], said[t])
  BY DEF Inv, TypeInv, TypeOK, SameInv
<1>3. IsOp(copies, op) /\ op.kind \in Kinds /\ op.kind = arg.kind
  BY OpTyped DEF Inv
<1>4. Means(copies, op, call)
  <2>1. op.req = Direct(call)
    BY DEF Op, Direct
  <2> QED
    BY <1>3, <2>1 DEF Means, Kinds
<1> HIDE DEF op, call
<1>5. IsMessage(copies, msg)
  <2>1. IsSeq(txns[t][branch])
    BY <1>2 DEF Same, SameList
  <2> QED
    BY <1>2, <1>3, <2>1, LongerMessage
<1>6. Same(copies, msg, list)
  BY <1>2, <1>4, LongerSame
<1> HIDE DEF msg, list
<1>7. /\ Extends(copies, copies') /\ IsSeq(copies')
      /\ \A i \in 1..Len(copies') :
            IsMessage(copies', copies'[i].msg) /\ Same(copies', copies'[i].msg, copies'[i].said)
  BY <1>1, SameCopies DEF Inv, TypeInv, TypeOK, SameInv
<1> QED
  BY <1>1, <1>5, <1>6, <1>7, BuildStep

LEMMA NestStep ==
  ASSUME Inv, NEW t \in Txns, NEW branch \in Branches, NEW other \in Txns,
         Nest(t, branch, other)
  PROVE  Inv'
PROOF
<1> DEFINE copy == [msg |-> txns[other], said |-> said[other]]
           op == [kind |-> "txn", req |-> txns[other]]
           call == [kind |-> "txn", req |-> said[other]]
           msg == [txns[t] EXCEPT ![branch] = Append(txns[t][branch], op)]
           list == [said[t] EXCEPT ![branch] = Append(said[t][branch], call)]
           more == Append(copies, copy)
<1>1. /\ UNCHANGED <<server, plain, opts>> /\ calls' \in 0..MaxCalls
      /\ txns' = [txns EXCEPT ![t] = msg] /\ said' = [said EXCEPT ![t] = list]
      /\ copies' = more
  BY Calling DEF Nest, Says
<1>2. ASSUME NEW u \in Txns PROVE IsMessage(copies, txns[u]) /\ Same(copies, txns[u], said[u])
  BY DEF Inv, TypeInv, TypeOK, SameInv
<1>3. /\ IsSeq(more) /\ Len(more) = Len(copies) + 1 /\ Len(copies) \in Nat
      /\ \A i \in 1..Len(copies) : more[i] = copies[i]
      /\ more[Len(copies) + 1] = copy
  BY Appended DEF Inv, SameInv, IsSeq
<1>4. copy.msg = txns[other] /\ copy.said = said[other]
  OBVIOUS
<1>5. IsOp(more, op) /\ Means(more, op, call)
  <2>1. op.kind = "txn" /\ call.kind = "txn" /\ op.req = copy.msg /\ call.req = copy.said
    OBVIOUS
  <2> HIDE DEF op, call, copy, more
  <2> QED
    BY <1>3, <2>1 DEF IsOp, Means
<1> HIDE DEF op, call, copy, more
<1>6. Extends(copies, more)
  BY <1>3 DEF Extends, IsSeq
<1>7. ASSUME NEW u \in Txns PROVE IsMessage(more, txns[u]) /\ Same(more, txns[u], said[u])
  BY <1>2, <1>6, StillMessage, StillSame
<1>8. IsMessage(more, msg)
  <2>1. IsSeq(txns[t][branch])
    BY <1>2 DEF Same, SameList
  <2> QED
    BY <1>5, <1>7, <2>1, LongerMessage
<1>9. Same(more, msg, list)
  BY <1>5, <1>7, LongerSame
<1>10. ASSUME NEW i \in 1..Len(more)
       PROVE  IsMessage(more, more[i].msg) /\ Same(more, more[i].msg, more[i].said)
  <2>1. CASE i = Len(copies) + 1
    BY <1>3, <1>4, <1>7, <2>1
  <2>2. CASE i # Len(copies) + 1
    <3>1. i \in 1..Len(copies) /\ more[i] = copies[i]
      BY <1>3, <2>2
    <3>2. IsMessage(copies, copies[i].msg) /\ Same(copies, copies[i].msg, copies[i].said)
      BY <3>1 DEF Inv, TypeInv, TypeOK, SameInv
    <3> QED
      BY <1>6, <3>1, <3>2, StillMessage, StillSame
  <2> QED
    BY <2>1, <2>2
<1> HIDE DEF msg, list
<1> QED
  BY <1>1, <1>3, <1>6, <1>8, <1>9, <1>10, BuildStep

\* The compares of a message and of its calls are the same: they take branches
\* that match.
LEMMA TakenSame ==
  ASSUME NEW co, NEW msg, NEW list, Same(co, msg, list), NEW store
  PROVE  SameList(co, Taken(store, msg), Taken(store, list))
BY DEF Same, Taken, Branches

LEMMA TakenOps ==
  ASSUME NEW co, NEW msg, IsMessage(co, msg), NEW store
  PROVE  \A i \in 1..Len(Taken(store, msg)) : IsOp(co, Taken(store, msg)[i])
BY DEF IsMessage, Taken, Branches

\* A step that leaves what is built alone.
LEMMA RunStep ==
  ASSUME Inv, UNCHANGED built,
         NEW ops, NEW cs, NEW run,
         \A i \in 1..Len(ops) : IsOp(copies, ops[i]), SameList(copies, ops, cs),
         server' = [todo |-> ops, run |-> run], plain' = [todo |-> cs, run |-> run]
  PROVE  Inv'
PROOF
<1>1. TypeInv'
  BY DEF Inv, TypeInv, TypeOK, built
<1>2. SameInv'
  BY DEF Inv, SameInv, built
<1> QED
  BY <1>1, <1>2 DEF Inv

LEMMA SendStep ==
  ASSUME Inv, NEW t \in Txns, NEW store, Send(t, store)
  PROVE  Inv'
PROOF
<1>1. IsMessage(copies, txns[t]) /\ Same(copies, txns[t], said[t])
  BY DEF Inv, TypeInv, TypeOK, SameInv
<1> QED
  BY <1>1, TakenSame, TakenOps, RunStep DEF Send

LEMMA ReplyStep == ASSUME Inv, Reply PROVE Inv'
PROOF
<1>1. SameList(copies, <<>>, <<>>) /\ Len(<<>>) = 0
  BY DEF SameList, IsSeq
<1> QED
  BY <1>1, RunStep DEF Reply, Idle

LEMMA ExecuteStep == ASSUME Inv, Execute PROVE Inv'
PROOF
<1> DEFINE ops == server.todo
           cs == plain.todo
           op == Head(ops)
           call == Head(cs)
           before == server.run.before
<1>1. /\ SameList(copies, ops, cs) /\ server.run = plain.run
      /\ DOMAIN server = {"todo", "run"} /\ DOMAIN plain = {"todo", "run"}
      /\ \A i \in 1..Len(ops) : IsOp(copies, ops[i])
  BY DEF Inv, TypeInv, TypeOK, SameInv
<1>2. IsSeq(ops) /\ IsSeq(cs) /\ Len(ops) = Len(cs) /\ ops # <<>> /\ cs # <<>> /\ Len(ops) > 0
  <2>1. \A s : IsSeq(s) => (s = <<>> <=> Len(s) = 0) /\ Len(s) \in Nat
    BY DEF IsSeq
  <2> QED
    BY <1>1, <2>1 DEF SameList, Execute
<1>3. op = ops[1] /\ call = cs[1]
  OBVIOUS
<1>4. Means(copies, op, call) /\ IsOp(copies, op)
  BY <1>1, <1>2, <1>3 DEF SameList, IsSeq
<1>5. CASE op.kind = "txn"
  <2> DEFINE msg == Taken(before, op.req)
             list == Taken(before, call.req)
  <2>1. PICK n \in 1..Len(copies) : op.req = copies[n].msg /\ call.req = copies[n].said
    BY <1>4, <1>5 DEF Means
  <2>2. IsMessage(copies, op.req) /\ Same(copies, op.req, call.req)
    BY <2>1 DEF Inv, TypeInv, TypeOK, SameInv
  <2>3. SameList(copies, msg, list) /\ \A i \in 1..Len(msg) : IsOp(copies, msg[i])
    BY <2>2, TakenSame, TakenOps
  <2>4. /\ server' = [server EXCEPT !.todo = msg \o Tail(ops)]
        /\ plain' = [plain EXCEPT !.todo = list \o Tail(cs)]
        /\ UNCHANGED built
    BY <1>1, <1>2, <1>4, <1>5 DEF Execute, Step, Means
  <2> HIDE DEF ops, cs, msg, list
  <2>5. IsSeq(msg) /\ IsSeq(list) /\ Len(msg) = Len(list) /\ Len(msg) \in Nat /\ Len(ops) \in Nat
    BY <1>2, <2>3 DEF SameList, IsSeq
  <2> DEFINE m == msg \o Tail(ops)
             l == list \o Tail(cs)
  <2>6. /\ IsSeq(m) /\ Len(m) = Len(msg) + Len(ops) - 1
        /\ \A i \in 1..Len(m) : m[i] = IF i <= Len(msg) THEN msg[i] ELSE ops[i - Len(msg) + 1]
    BY <1>2, <2>5, InFront
  <2>7. /\ IsSeq(l) /\ Len(l) = Len(msg) + Len(ops) - 1
        /\ \A i \in 1..Len(l) : l[i] = IF i <= Len(msg) THEN list[i] ELSE cs[i - Len(msg) + 1]
    BY <1>2, <2>5, InFront
  <2> HIDE DEF m, l
  <2>8. ASSUME NEW i \in 1..Len(m) PROVE Means(copies, m[i], l[i]) /\ IsOp(copies, m[i])
    <3>1. CASE i <= Len(msg)
      BY <2>3, <2>5, <2>6, <2>7, <3>1 DEF SameList
    <3>2. CASE i > Len(msg)
      <4>1. i - Len(msg) + 1 \in 1..Len(ops)
        BY <2>5, <2>6, <3>2
      <4>2. m[i] = ops[i - Len(msg) + 1] /\ l[i] = cs[i - Len(msg) + 1]
        BY <2>5, <2>6, <2>7, <3>2
      <4> QED
        BY <1>1, <4>1, <4>2 DEF SameList
    <3> QED
      BY <2>5, <2>6, <3>1, <3>2
  <2>9. SameList(copies, m, l)
    BY <2>6, <2>7, <2>8 DEF SameList
  <2>10. server' = [todo |-> m, run |-> server.run] /\ plain' = [todo |-> l, run |-> server.run]
    BY <1>1, <2>4 DEF m, l
  <2> QED
    BY <2>4, <2>8, <2>9, <2>10, RunStep
<1>6. CASE op.kind # "txn"
  <2> DEFINE run == Serve(server.run, op.kind, op.req)
             m == IF run.ok THEN Tail(ops) ELSE <<>>
             l == IF run.ok THEN Tail(cs) ELSE <<>>
  <2>1. op.kind = call.kind /\ op.req = Direct(call)
    BY <1>4, <1>6 DEF Means
  <2>2. server' = [todo |-> m, run |-> run] /\ plain' = [todo |-> l, run |-> run] /\ UNCHANGED built
    BY <1>1, <1>2, <1>6, <2>1 DEF Execute, Step
  <2> HIDE DEF ops, cs, run
  <2>3. SameList(copies, m, l) /\ \A i \in 1..Len(m) : IsOp(copies, m[i])
    <3>1. CASE run.ok
      <4>1. /\ IsSeq(m) /\ Len(m) = Len(ops) - 1
            /\ \A i \in 1..Len(m) : m[i] = ops[i + 1]
        BY <1>2, <3>1, Rest
      <4>2. /\ IsSeq(l) /\ Len(l) = Len(ops) - 1
            /\ \A i \in 1..Len(m) : l[i] = cs[i + 1]
        BY <1>2, <3>1, <4>1, Rest
      <4>3. Len(ops) \in Nat
        BY <1>2 DEF IsSeq
      <4> HIDE DEF m, l
      <4>4. \A i \in 1..Len(m) : i + 1 \in 1..Len(ops)
        BY <4>1, <4>3
      <4>5. \A i \in 1..Len(m) : Means(copies, m[i], l[i]) /\ IsOp(copies, m[i])
        BY <1>1, <4>1, <4>2, <4>4 DEF SameList
      <4> QED
        BY <4>1, <4>2, <4>5 DEF SameList
    <3>2. CASE ~run.ok
      BY <3>2 DEF SameList, IsSeq
    <3> QED
      BY <3>1, <3>2
  <2> HIDE DEF m, l
  <2> QED
    BY <2>2, <2>3, RunStep
<1> QED
  BY <1>5, <1>6

LEMMA NextInv == Inv /\ [Next]_vars => Inv'
PROOF
<1> SUFFICES ASSUME Inv, [Next]_vars PROVE Inv'
  OBVIOUS
<1>1. ASSUME NEW kind \in {"range", "delete"}, Push(kind, WithPrefix) PROVE Inv'
  <2>1. [f |-> "prefix"] \in SetterOf(kind) /\ kind \in Kinds
    BY DEF SetterOf, Kinds
  <2> QED
    BY <1>1, <2>1, PushStep DEF WithPrefix
<1>2. ASSUME NEW id \in Leases, Push("put", WithLease(id)) PROVE Inv'
  <2>1. [f |-> "lease", v |-> id] \in SetterOf("put") /\ "put" \in Kinds
    BY DEF SetterOf, Kinds
  <2> QED
    BY <1>2, <2>1, PushStep DEF WithLease, Set
<1>3. ASSUME Push("put", WithIgnoreValue) PROVE Inv'
  <2>1. [f |-> "ignore_value", v |-> TRUE] \in SetterOf("put") /\ "put" \in Kinds
    BY DEF SetterOf, Kinds
  <2> QED
    BY <1>3, <2>1, PushStep DEF WithIgnoreValue, Set
<1>4. ASSUME Push("put", WithIgnoreLease) PROVE Inv'
  <2>1. [f |-> "ignore_lease", v |-> TRUE] \in SetterOf("put") /\ "put" \in Kinds
    BY DEF SetterOf, Kinds
  <2> QED
    BY <1>4, <2>1, PushStep DEF WithIgnoreLease, Set
<1>5. ASSUME NEW t \in Txns, NEW cmp \in Compares, If(t, cmp) PROVE Inv'
  BY <1>5, IfStep
<1>6. ASSUME NEW t \in Txns, NEW branch \in Branches, NEW arg \in Requests,
             Request(t, branch, arg)
      PROVE  Inv'
  BY <1>6, RequestStep
<1>7. ASSUME NEW t \in Txns, NEW branch \in Branches, NEW other \in Txns, Nest(t, branch, other)
      PROVE  Inv'
  BY <1>7, NestStep
<1>8. ASSUME NEW t \in Txns, NEW store \in Stores, Send(t, store) PROVE Inv'
  BY <1>8, SendStep
<1>9. CASE Execute
  BY <1>9, ExecuteStep
<1>10. CASE Reply
  BY <1>10, ReplyStep
<1>11. CASE UNCHANGED vars
  BY <1>11 DEF vars, built, Inv, TypeInv, TypeOK, SameInv
<1> QED
  BY <1>1, <1>2, <1>3, <1>4, <1>5, <1>6, <1>7, <1>8, <1>9, <1>10, <1>11 DEF Next

THEOREM InvHolds == Spec => []Inv
BY InitInv, NextInv, PTL DEF Spec

\* What is built is a message, however deep Txns are put into each other, with
\* the requests, leases and range ends that the calls were given (kv.h:310-391).
THEOREM TypeCorrect == Spec => []TypeOK
PROOF
<1>1. Inv => TypeOK
  BY DEF Inv, TypeInv
<1> QED
  BY <1>1, InvHolds, PTL

\* A transaction does what its calls do one by one, on every store, whatever was
\* called before or since and however the option objects were used.
THEOREM TxnRunsAsSaid == Spec => []RunsAsSaid
PROOF
<1>1. Inv => RunsAsSaid
  <2>1. \A s : IsSeq(s) => (s = <<>> <=> Len(s) = 0)
    BY DEF IsSeq
  <2> QED
    BY <2>1 DEF Inv, SameInv, SameList, RunsAsSaid
<1> QED
  BY <1>1, InvHolds, PTL
=============================================================================
