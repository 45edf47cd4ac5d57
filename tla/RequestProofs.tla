--------------------------- MODULE RequestProofs ---------------------------
(***************************************************************************)
(* Theorems about RequestOptions, for every set of keys, any length of the *)
(* list of setters, and both kinds of char.                                *)
(***************************************************************************)
EXTENDS RequestOptions, PrefixRangeProofs

Request ==
  [key : Bytes, range_end : Bytes, limit : {0, 1, 2},
   sort_target : {"KEY", "CREATE", "MOD"}, sort_order : {"NONE", "ASCEND", "DESCEND"}]

TypeInv ==
  /\ setfuncs \in Seq(Setter) /\ Len(setfuncs) <= MaxOptions
  /\ ran \in 0..Len(setfuncs)
  /\ making \in BOOLEAN
  /\ asked \in Asked
  /\ req \in Request

\* WithPrefix has run at most once.
Once == \A i, j \in 1..ran : setfuncs[i].f = "prefix" /\ setfuncs[j].f = "prefix" => i = j

\* What the setters that ran have made of the key and the range.
KeyInv ==
  \/ req.key = asked
  \/ asked = <<>> /\ req.key = Nul /\ \E i \in 1..ran : setfuncs[i].f = "prefix"
EndInv ==
  /\ NoneOf(RangeFields) => req.key = asked /\ req.range_end = <<>>
  /\ \A i \in 1..ran : LastOf(i, RangeFields) /\ setfuncs[i].f = "prefix" =>
       /\ asked # <<>> => req.range_end = GetPrefixRangeEnd(asked)
       /\ asked = <<>> /\ (SignedChar \/ Once) => req.range_end = Nul

\* The range end is one that an option names, or that of the key.
OwnEnd == req.range_end \in {<<>>, Nul, GetPrefixRangeEnd(req.key)} \cup Ends

Inv == TypeInv /\ KeyInv /\ OwnEnd /\ EndInv /\ LastSetterWins
-----------------------------------------------------------------------------
\* Where char is signed, no range ends behind the key "\0".
LEMMA NulEnd ==
  ASSUME SignedChar
  PROVE  GetPrefixRangeEnd(Nul) = Nul
PROOF
<1>1. MaxByte \in Nat /\ MaxByte >= 1 /\ MaxByte > MaxByte \div 2
  BY ByteAssumption
<1>2. Char(MaxByte) = -1 /\ Char(0) = 0
  BY <1>1 DEF Char
<1>3. Found(Nul) = {}
  BY <1>2 DEF Found, Nul
<1> QED
  BY <1>3 DEF GetPrefixRangeEnd

\* A key is not before itself, and none is before the empty key.
LEMMA NotBefore ==
  ASSUME NEW k \in Bytes
  PROVE  ~Before(k, k) /\ ~Before(k, <<>>)
PROOF
<1>1. ~Before(k, k)
  BY PrefixFirst DEF HasPrefix, Bytes
<1>2. ~Before(k, <<>>)
  BY DEF Before
<1> QED
  BY <1>1, <1>2

\* Only the empty key is before the key "\0".
LEMMA NotBeforeNul ==
  ASSUME NEW k \in Bytes, k # <<>>
  PROVE  ~Before(k, Nul)
PROOF
<1> SUFFICES ASSUME NEW i \in 1..Len(Nul), i <= Len(k) => k[i] < Nul[i]
             PROVE  FALSE
  BY DEF Before
<1>1. i = 1 /\ Nul[1] = 0
  BY DEF Nul
<1>2. 1 <= Len(k) /\ k[1] \in Byte
  BY DEF Bytes
<1> QED
  BY <1>1, <1>2, ByteAssumption DEF Byte

\* What the With functions append are setters.
LEMMA OptionsAreSetters == ASSUME NEW o \in Options PROVE o \in Seq(Setter)
PROOF
<1>1. WithPrefix \in Seq(Setter)
  BY DEF WithPrefix, Setter
<1>2. \A end \in Ends \cup {Nul} : Set("range_end", end) \in Seq(Setter)
  BY DEF Set, Setter
<1>3. \A n \in {1, 2} : WithLimit(n) \in Seq(Setter)
  BY DEF WithLimit, Set, Setter
<1>4. \A b \in BOOLEAN : WithSortOrder(b) \in Seq(Setter)
  BY DEF WithSortOrder, Set, Setter
<1>5. \A t \in {"KEY", "CREATE", "MOD"} : WithSortBy(t) \in Seq(Setter)
  BY DEF WithSortBy, Set, Setter
<1>6. \A t \in {"KEY", "CREATE", "MOD"}, b \in BOOLEAN : WithOne(t, b) \in Seq(Setter)
  BY <1>1, <1>3, <1>4, <1>5 DEF WithOne
<1>7. \/ o = WithPrefix \/ o = WithFromKey \/ o = WithLimit(2) \/ o = WithSortOrder(FALSE)
      \/ \E end \in Ends : o = WithRangeEnd(end)
      \/ \E t \in {"KEY", "CREATE", "MOD"}, b \in BOOLEAN : o = WithOne(t, b)
  <2> DEFINE Ones == {WithOne(target, first) : target \in {"KEY", "CREATE", "MOD"}, first \in BOOLEAN}
  <2>1. o \in Ones => \E t \in {"KEY", "CREATE", "MOD"}, b \in BOOLEAN : o = WithOne(t, b)
    OBVIOUS
  <2>2. Options = {WithPrefix, WithFromKey, WithLimit(2)} \cup {WithRangeEnd(end) : end \in Ends}
                  \cup {WithSortOrder(FALSE)} \cup Ones
    BY DEF Options
  <2> HIDE DEF Ones
  <2> QED
    BY <2>1, <2>2
<1>8. WithFromKey \in Seq(Setter) /\ \A end \in Ends : WithRangeEnd(end) \in Seq(Setter)
  BY <1>2 DEF WithFromKey, WithRangeEnd
<1>9. WithLimit(2) \in Seq(Setter) /\ WithSortOrder(FALSE) \in Seq(Setter)
  BY <1>3, <1>4
<1> QED
  BY <1>1, <1>6, <1>7, <1>8, <1>9

\* What one setter does to a request.
LEMMA SetterEffect ==
  ASSUME NEW o \in Setter, NEW r \in Request
  PROVE  /\ Call(r, o) \in Request
         /\ \A f \in {"limit", "sort_target", "sort_order"} :
              Call(r, o)[f] = IF o.f = f THEN o.v ELSE r[f]
         /\ o.f \notin RangeFields =>
              Call(r, o).key = r.key /\ Call(r, o).range_end = r.range_end
         /\ o.f = "range_end" =>
              Call(r, o).key = r.key /\ Call(r, o).range_end \in Ends \cup {Nul}
         /\ o.f = "prefix" /\ r.key = <<>> =>
              Call(r, o).key = Nul /\ Call(r, o).range_end = Nul
         /\ o.f = "prefix" /\ r.key # <<>> =>
              Call(r, o).key = r.key /\ Call(r, o).range_end = GetPrefixRangeEnd(r.key)
PROOF
<1>0. Nul \in Bytes /\ Ends \subseteq Bytes /\ GetPrefixRangeEnd(r.key) \in Bytes
  BY EndIsBytes, ByteAssumption, RequestAssumption DEF Nul, Bytes, Byte, Request
<1>1. CASE o \in [f : {"prefix"}]
  BY <1>0, <1>1 DEF Call, SetPrefix, Request, RangeFields
<1>2. CASE o \in [f : {"range_end"}, v : Ends \cup {Nul}]
  BY <1>0, <1>2 DEF Call, Request, RangeFields
<1>3. CASE o \in [f : {"limit"}, v : {1, 2}]
  BY <1>3 DEF Call, Request, RangeFields
<1>4. CASE o \in [f : {"sort_target"}, v : {"KEY", "CREATE", "MOD"}]
  BY <1>4 DEF Call, Request, RangeFields
<1>5. CASE o \in [f : {"sort_order"}, v : {"ASCEND", "DESCEND"}]
  BY <1>5 DEF Call, Request, RangeFields
<1> QED
  BY <1>1, <1>2, <1>3, <1>4, <1>5 DEF Setter

\* A fresh request satisfies the invariant.
LEMMA FreshInv ==
  ASSUME TypeInv, req = Fresh(asked), ran = 0
  PROVE  KeyInv /\ OwnEnd /\ EndInv /\ LastSetterWins
PROOF
<1>1. KeyInv /\ OwnEnd
  BY DEF KeyInv, OwnEnd, Fresh
<1>2. EndInv
  BY DEF EndInv, NoneOf, Fresh
<1>3. LastSetterWins
  BY DEF LastSetterWins, NoneOf
<1> QED
  BY <1>1, <1>2, <1>3

\* The invariant depends on the list only as far as it has run.
LEMMA PushInv == Inv /\ (\E o \in Options : Push(o)) => Inv'
PROOF
<1> SUFFICES ASSUME Inv, NEW o \in Options, Push(o) PROVE Inv'
  OBVIOUS
<1>1. o \in Seq(Setter) /\ setfuncs \in Seq(Setter) /\ ran \in 0..Len(setfuncs)
  BY OptionsAreSetters DEF Inv, TypeInv
<1>2. setfuncs' = setfuncs \o o /\ UNCHANGED <<making, req, asked, ran>>
      /\ Len(setfuncs) + Len(o) <= MaxOptions
  BY DEF Push
<1>3. /\ setfuncs' \in Seq(Setter) /\ Len(setfuncs') = Len(setfuncs) + Len(o)
      /\ \A j \in 1..ran : setfuncs'[j] = setfuncs[j]
  BY <1>1, <1>2
<1>4. TypeInv'
  BY <1>1, <1>2, <1>3 DEF Inv, TypeInv
<1>5. KeyInv' /\ OwnEnd'
  BY <1>2, <1>3 DEF Inv, KeyInv, OwnEnd
<1>6. ASSUME NEW fields
      PROVE  /\ NoneOf(fields)' <=> NoneOf(fields)
             /\ \A i \in 1..ran : LastOf(i, fields)' <=> LastOf(i, fields)
  <2>1. NoneOf(fields)' <=> NoneOf(fields)
    BY <1>2, <1>3 DEF NoneOf
  <2>2. ASSUME NEW i \in 1..ran PROVE LastOf(i, fields)' <=> LastOf(i, fields)
    <3>1. \A j \in i+1..ran : j \in 1..ran
      BY <1>1
    <3> QED
      BY <1>2, <1>3, <3>1 DEF LastOf
  <2> QED
    BY <2>1, <2>2
<1>7. Once' <=> Once
  BY <1>2, <1>3 DEF Once
<1>8. EndInv'
  BY <1>2, <1>3, <1>6, <1>7 DEF Inv, EndInv
<1>9. LastSetterWins'
  BY <1>2, <1>3, <1>6 DEF Inv, LastSetterWins
<1> QED
  BY <1>4, <1>5, <1>8, <1>9 DEF Inv

\* One more setter keeps the invariant.
LEMMA RunInv == Inv /\ RunSetter => Inv'
PROOF
<1> SUFFICES ASSUME Inv, RunSetter PROVE Inv'
  OBVIOUS
<1>0. PICK n \in Nat : n = ran + 1
  BY DEF Inv, TypeInv
<1> DEFINE o == setfuncs[n]
<1>1. /\ n \in 1..Len(setfuncs) /\ ran \in Nat /\ o \in Setter /\ req \in Request
      /\ ran' = n /\ req' = Call(req, o) /\ UNCHANGED <<setfuncs, making, asked>>
  BY <1>0 DEF Inv, TypeInv, RunSetter
<1>2. /\ req' \in Request
      /\ \A f \in {"limit", "sort_target", "sort_order"} :
           req'[f] = IF o.f = f THEN o.v ELSE req[f]
      /\ o.f \notin RangeFields => req'.key = req.key /\ req'.range_end = req.range_end
      /\ o.f = "range_end" => req'.key = req.key /\ req'.range_end \in Ends \cup {Nul}
      /\ o.f = "prefix" /\ req.key = <<>> => req'.key = Nul /\ req'.range_end = Nul
      /\ o.f = "prefix" /\ req.key # <<>> =>
           req'.key = req.key /\ req'.range_end = GetPrefixRangeEnd(req.key)
  BY <1>1, SetterEffect
<1> HIDE DEF o
<1>3. n = ran + 1 /\ \A j \in 1..n : j = n \/ j \in 1..ran
  BY <1>0, <1>1
<1>4. TypeInv'
  BY <1>1, <1>2 DEF Inv, TypeInv
<1>5. KeyInv' /\ OwnEnd'
  <2>1. KeyInv'
    BY <1>1, <1>2, <1>3 DEF Inv, KeyInv, RangeFields, o
  <2>2. OwnEnd'
    BY <1>1, <1>2 DEF Inv, OwnEnd, RangeFields
  <2> QED
    BY <2>1, <2>2
<1>6. ASSUME NEW fields
      PROVE  /\ NoneOf(fields)' <=> NoneOf(fields) /\ o.f \notin fields
             /\ LastOf(n, fields)' <=> o.f \in fields
             /\ \A i \in 1..ran : LastOf(i, fields)' <=> LastOf(i, fields) /\ o.f \notin fields
  <2>1. NoneOf(fields)' <=> NoneOf(fields) /\ o.f \notin fields
    <3>1. 1..n = 1..ran \cup {n}
      BY <1>0, <1>1
    <3> QED
      BY <1>1, <3>1 DEF NoneOf, o
  <2>2. LastOf(n, fields)' <=> o.f \in fields
    <3>1. n+1..n = {}
      BY <1>1
    <3> QED
      BY <1>1, <3>1 DEF LastOf, o
  <2>3. ASSUME NEW i \in 1..ran
        PROVE  LastOf(i, fields)' <=> LastOf(i, fields) /\ o.f \notin fields
    <3>1. i+1..n = (i+1..ran) \cup {n}
      BY <1>0, <1>1
    <3>2. LastOf(i, fields)' <=> setfuncs[i].f \in fields
                               /\ \A j \in i+1..n : setfuncs[j].f \notin fields
      BY <1>1 DEF LastOf
    <3>3. LastOf(i, fields)' <=> /\ setfuncs[i].f \in fields /\ setfuncs[n].f \notin fields
                               /\ \A j \in i+1..ran : setfuncs[j].f \notin fields
      BY <3>1, <3>2
    <3> QED
      BY <3>3 DEF LastOf, o
  <2> QED
    BY <2>1, <2>2, <2>3
<1>7. Once' => Once /\ (o.f = "prefix" => \A j \in 1..ran : setfuncs[j].f # "prefix")
  BY <1>0, <1>1 DEF Once, o
<1>8. EndInv'
  <2>1. NoneOf(RangeFields)' => req'.key = asked' /\ req'.range_end = <<>>
    BY <1>1, <1>2, <1>6 DEF Inv, EndInv
  <2>2. ASSUME NEW i \in 1..n, LastOf(i, RangeFields)', setfuncs[i].f = "prefix"
        PROVE  /\ asked # <<>> => req'.range_end = GetPrefixRangeEnd(asked)
               /\ asked = <<>> /\ (SignedChar \/ Once') => req'.range_end = Nul
    <3>1. CASE i = n
      <4>1. o.f = "prefix"
        BY <2>2, <3>1 DEF o
      <4>2. asked # <<>> => req'.range_end = GetPrefixRangeEnd(asked)
        BY <1>2, <4>1 DEF Inv, KeyInv
      <4>3. ASSUME asked = <<>>, SignedChar \/ Once' PROVE req'.range_end = Nul
        <5>1. CASE req.key = <<>>
          BY <1>2, <4>1, <5>1
        <5>2. CASE req.key = Nul /\ \E j \in 1..ran : setfuncs[j].f = "prefix"
          <6>1. SignedChar
            BY <1>7, <4>1, <4>3, <5>2
          <6> QED
            BY <1>2, <4>1, <5>2, <6>1, NulEnd DEF Nul
        <5> QED
          BY <4>3, <5>1, <5>2 DEF Inv, KeyInv
      <4> QED
        BY <4>2, <4>3
    <3>2. CASE i \in 1..ran
      BY <1>2, <1>6, <1>7, <2>2, <3>2 DEF Inv, EndInv
    <3> QED
      BY <1>3, <3>1, <3>2
  <2> QED
    BY <1>1, <2>1, <2>2 DEF EndInv
<1>9. LastSetterWins'
  <2> SUFFICES ASSUME NEW f \in {"limit", "sort_target", "sort_order"}
               PROVE  /\ \A i \in 1..n : LastOf(i, {f})' => req'[f] = setfuncs[i].v
                      /\ NoneOf({f})' => req'[f] = Fresh(asked)[f]
    BY <1>1 DEF LastSetterWins
  <2>1. NoneOf({f})' => req'[f] = Fresh(asked)[f]
    BY <1>2, <1>6 DEF Inv, LastSetterWins
  <2>2. ASSUME NEW i \in 1..n, LastOf(i, {f})' PROVE req'[f] = setfuncs[i].v
    <3>1. CASE i = n
      <4>0. LastOf(n, {f})' <=> o.f \in {f}
        BY <1>6
      <4>1. o.f = f
        <5>1. LastOf(n, {f})'
          BY <2>2, <3>1
        <5> QED
          BY <4>0, <5>1
      <4>2. req'[f] = o.v
        BY <1>2, <4>1
      <4> QED
        BY <3>1, <4>2 DEF o
    <3>2. CASE i \in 1..ran
      BY <1>2, <1>6, <2>2, <3>2 DEF Inv, LastSetterWins
    <3> QED
      BY <1>3, <3>1, <3>2
  <2> QED
    BY <2>1, <2>2
<1> QED
  BY <1>4, <1>5, <1>8, <1>9 DEF Inv

\* A fresh request is a request.
LEMMA FreshIsRequest == ASSUME NEW key \in Asked PROVE Fresh(key) \in Request
PROOF
<1>1. key \in Bytes /\ <<>> \in Bytes
  BY RequestAssumption DEF Bytes
<1> QED
  BY <1>1 DEF Fresh, Request

\* The inductive invariant holds of every reachable state.
THEOREM RequestInvariance == Spec => []Inv
PROOF
<1>1. Init => Inv
  <2> SUFFICES ASSUME Init PROVE Inv
    OBVIOUS
  <2>1. TypeInv
    BY FreshIsRequest, RequestAssumption DEF Init, TypeInv
  <2> QED
    BY <2>1, FreshInv DEF Init, Inv
<1>2. Inv /\ [Next]_vars => Inv'
  <2> SUFFICES ASSUME Inv, [Next]_vars PROVE Inv'
    OBVIOUS
  <2>1. ASSUME NEW key \in Asked, Make(key) PROVE Inv'
    <3>1. TypeInv'
      BY <2>1, FreshIsRequest DEF Inv, TypeInv, Make
    <3>2. KeyInv' /\ OwnEnd'
      BY <2>1 DEF Make, KeyInv, OwnEnd, Fresh
    <3>3. EndInv'
      BY <2>1 DEF Make, EndInv, NoneOf, Fresh
    <3>4. LastSetterWins'
      BY <2>1 DEF Make, LastSetterWins, NoneOf
    <3> QED
      BY <3>1, <3>2, <3>3, <3>4 DEF Inv
  <2>2. CASE Send
    BY <2>2 DEF Send, Inv, TypeInv, KeyInv, OwnEnd, EndInv, LastSetterWins,
       NoneOf, LastOf, Once
  <2>3. CASE UNCHANGED vars
    BY <2>3 DEF vars, Inv, TypeInv, KeyInv, OwnEnd, EndInv, LastSetterWins,
       NoneOf, LastOf, Once
  <2> QED
    BY <2>1, <2>2, <2>3, PushInv, RunInv DEF Next
<1> QED
  BY <1>1, <1>2, PTL DEF Spec

\* Every variable stays in its type; the range end in particular is the request's
\* own, not that of an earlier request made with the same option object.
THEOREM RequestTypeCorrect == Spec => []TypeOK
PROOF
<1>1. Inv => TypeOK
  BY DEF Inv, TypeInv, KeyInv, OwnEnd, TypeOK, Request, Fresh
<1> QED
  BY RequestInvariance, <1>1, PTL

\* common.h:39-43: the last setter of a field wins.
THEOREM LastWins == Spec => []LastSetterWins
PROOF
<1>1. Inv => LastSetterWins
  BY DEF Inv
<1> QED
  BY RequestInvariance, <1>1, PTL

\* kv.h:29-39, watch.h:28-38, common.cc:13-23: a prefix request misses no key
\* with the prefix, whatever else has been set and whatever bytes the prefix is
\* made of, unless the increment of its end wraps; then it reaches no key.
THEOREM PrefixIsCovered == Spec => []PrefixCovered
PROOF
<1>1. Inv => PrefixCovered
  <2> SUFFICES ASSUME Inv, AsksForPrefix PROVE PrefixCovered
    BY DEF PrefixCovered
  <2>1. PICK i \in 1..ran : LastOf(i, RangeFields) /\ setfuncs[i].f = "prefix"
    BY DEF AsksForPrefix
  <2>2. Keys \subseteq Bytes /\ asked \in Bytes
    BY RequestAssumption DEF Inv, TypeInv
  <2>3. asked # <<>> => req.key = asked /\ req.range_end = GetPrefixRangeEnd(asked)
    BY <2>1 DEF Inv, KeyInv, EndInv
  <2>4. CASE Wraps(asked)
    <3>1. asked # <<>>
      BY <2>4 DEF Wraps, Found
    <3> QED
      BY <2>2, <2>3, <2>4, <3>1, WrappedPrefixReach DEF PrefixCovered
  <2>5. CASE ~Wraps(asked) /\ asked # <<>>
    BY <2>2, <2>3, <2>5, PrefixReached DEF PrefixCovered
  <2>6. CASE asked = <<>>
    <3>1. SignedChar \/ Once
      BY <2>6 DEF AsksForPrefix, Once
    <3>2. req.range_end = Nul /\ Nul # <<>>
      BY <2>1, <2>6, <3>1 DEF Inv, EndInv, Nul
    <3>3. req.key = <<>> \/ req.key = Nul
      BY <2>6 DEF Inv, KeyInv
    <3>4. \A k \in Keys \ {<<>>} : ~Before(k, req.key)
      BY <2>2, <3>3, NotBefore, NotBeforeNul
    <3>5. ~Wraps(asked)
      BY <2>6 DEF Wraps, Found
    <3> QED
      BY <3>2, <3>4, <3>5 DEF InRange, PrefixCovered
  <2> QED
    BY <2>4, <2>5, <2>6
<1> QED
  BY RequestInvariance, <1>1, PTL

\* kv.h:29-39, watch.h:28-38, common.cc:13-23: where char is unsigned, whatever a
\* prefix request reaches shares the first byte of the prefix.
THEOREM PrefixIsNear == Spec => []PrefixStaysNear
PROOF
<1>1. Inv => PrefixStaysNear
  <2> SUFFICES ASSUME Inv, ~SignedChar, AsksForPrefix, asked # <<>>, NEW k \in Keys \ {<<>>},
                      InRange(k, req.key, req.range_end)
               PROVE  k[1] = asked[1]
    BY DEF PrefixStaysNear
  <2>1. PICK i \in 1..ran : LastOf(i, RangeFields) /\ setfuncs[i].f = "prefix"
    BY DEF AsksForPrefix
  <2>2. k \in Bytes /\ asked \in Bytes
    BY RequestAssumption DEF Inv, TypeInv
  <2>3. req.key = asked /\ req.range_end = GetPrefixRangeEnd(asked)
    BY <2>1 DEF Inv, KeyInv, EndInv
  <2> QED
    BY <2>2, <2>3, UnsignedPrefixNear
<1> QED
  BY RequestInvariance, <1>1, PTL

\* kv.cc:16-46, watch.cc:21-32: nothing below the key is ever asked for, and
\* without an option on the range nothing but the key.
THEOREM KeyBoundsRange == Spec => []NothingBelowKey
PROOF
<1>1. Inv => NothingBelowKey
  <2> SUFFICES ASSUME Inv PROVE NothingBelowKey
    OBVIOUS
  <2>1. NoneOf(RangeFields)
          => \A k \in Keys \cup Asked : InRange(k, req.key, req.range_end) <=> k = asked
    BY DEF Inv, EndInv, InRange
  <2>2. ASSUME NEW k \in Keys, InRange(k, req.key, req.range_end) PROVE ~Before(k, asked)
    <3>1. k \in Bytes
      BY RequestAssumption
    <3>2. CASE asked = <<>>
      BY <3>1, <3>2, NotBefore
    <3>3. CASE asked # <<>>
      <4>1. req.key = asked
        BY <3>3 DEF Inv, KeyInv
      <4> QED
        BY <2>2, <3>1, <4>1, NotBefore DEF InRange
    <3> QED
      BY <3>2, <3>3
  <2> QED
    BY <2>1, <2>2 DEF NothingBelowKey
<1> QED
  BY RequestInvariance, <1>1, PTL
=============================================================================
