--------------------------- MODULE RequestOptions ---------------------------
(***************************************************************************)
(* The option objects of etcdv3client/{common,kv,watch}.h and the requests *)
(* made with them: RangeOptions, DeleteRangeOptions and WatchOptions are   *)
(* lists of setters, appended by the With functions and run in that order  *)
(* on each request, after the key was set.  One object may serve several   *)
(* requests, and grow between them.                                        *)
(***************************************************************************)
EXTENDS RequestSetters

CONSTANTS
  Keys,        \* the keys that may exist on the server
  Asked,       \* the keys of requests
  Ends,        \* the explicit range ends
  MaxOptions   \* bound: the length of the list of setters

ASSUME RequestAssumption ==
  /\ Keys \cup Asked \cup Ends \subseteq Bytes
  /\ MaxOptions \in Nat

VARIABLES
  setfuncs,   \* Options::setfuncs
  making,     \* Apply is at work on the request; otherwise it has been sent
  req,        \* the request made last
  asked,      \* the key it is made for
  ran         \* how many of the setters have run on it

vars == <<setfuncs, making, req, asked, ran>>

Options ==
  {WithPrefix, WithFromKey, WithLimit(2)}
  \cup {WithRangeEnd(end) : end \in Ends}
  \cup {WithSortOrder(FALSE)}
  \cup {WithOne(target, first) : target \in {"KEY", "CREATE", "MOD"}, first \in BOOLEAN}

\* A request with no options yet.
Init ==
  /\ setfuncs = <<>>
  /\ asked \in Asked
  /\ req = Fresh(asked)
  /\ ran = 0
  /\ making = TRUE

\* A With function appends its setters to the object.
Push(o) ==
  /\ ~making
  /\ Len(setfuncs) + Len(o) <= MaxOptions
  /\ setfuncs' = setfuncs \o o
  /\ UNCHANGED <<making, req, asked, ran>>

\* Mutant: the request that was made before is used again.
MakeInPlace(key) ==
  /\ ~making
  /\ req' = [req EXCEPT !.key = key]
  /\ asked' = key /\ ran' = 0 /\ making' = TRUE
  /\ UNCHANGED setfuncs

\* Client::Range, Client::DeleteRange and Client::WatchSingle: a new request
\* gets its key, then the options.
Make(key) ==
  /\ ~making
  /\ req' = Fresh(key)
  /\ asked' = key /\ ran' = 0 /\ making' = TRUE
  /\ UNCHANGED setfuncs

\* Mutant: the setters run from the last to the first.
RunSetterReversed ==
  /\ making /\ ran < Len(setfuncs)
  /\ req' = Call(req, setfuncs[Len(setfuncs) - ran])
  /\ ran' = ran + 1
  /\ UNCHANGED <<setfuncs, making, asked>>

\* One round of the loop of Options::Apply.
RunSetter ==
  /\ making /\ ran < Len(setfuncs)
  /\ req' = Call(req, setfuncs[ran + 1])
  /\ ran' = ran + 1
  /\ UNCHANGED <<setfuncs, making, asked>>

\* The loop is over: the request is sent.  The object is left as it is.
Send ==
  /\ making /\ ran = Len(setfuncs)
  /\ making' = FALSE
  /\ UNCHANGED <<setfuncs, req, asked, ran>>

Next ==
  \/ \E o \in Options : Push(o)
  \/ \E key \in Asked : Make(key)
  \/ RunSetter
  \/ Send

Spec == Init /\ [][Next]_vars

-----------------------------------------------------------------------------
Setter ==
  [f : {"prefix"}]
  \cup [f : {"range_end"}, v : Ends \cup {Nul}]
  \cup [f : {"limit"}, v : {1, 2}]
  \cup [f : {"sort_target"}, v : {"KEY", "CREATE", "MOD"}]
  \cup [f : {"sort_order"}, v : {"ASCEND", "DESCEND"}]

\* A request holds what the setters make of its own key: the range end is one that
\* an option names or the one of that key, never one of an earlier request.
TypeOK ==
  /\ setfuncs \in Seq(Setter) /\ Len(setfuncs) <= MaxOptions
  /\ ran \in 0..Len(setfuncs)
  /\ making \in BOOLEAN
  /\ asked \in Asked
  /\ DOMAIN req = DOMAIN Fresh(asked)
  /\ req.key = asked \/ (asked = <<>> /\ req.key = Nul)
  /\ req.range_end \in {<<>>, Nul, GetPrefixRangeEnd(req.key)} \cup Ends
  /\ req.limit \in {0, 1, 2}
  /\ req.sort_target \in {"KEY", "CREATE", "MOD"}
  /\ req.sort_order \in {"NONE", "ASCEND", "DESCEND"}

\* None of the setters that ran is one of these; the i-th is the last of them.
NoneOf(fields) == \A j \in 1..ran : setfuncs[j].f \notin fields
LastOf(i, fields) ==
  setfuncs[i].f \in fields /\ \A j \in i+1..ran : setfuncs[j].f \notin fields

RangeFields == {"prefix", "range_end"}

\* WithPrefix has the last word on the range.  Left out: where char is
\* unsigned, a second WithPrefix on the empty key takes the key "\0" that the
\* first one has set for the prefix, and asks for [\0, \1) only.
AsksForPrefix ==
  /\ \E i \in 1..ran : LastOf(i, RangeFields) /\ setfuncs[i].f = "prefix"
  /\ asked = <<>> /\ ~SignedChar
       => \A i, j \in 1..ran : setfuncs[i].f = "prefix" /\ setfuncs[j].f = "prefix" => i = j

\* Whatever was set before and however often, a request with WithPrefix as the
\* last word on its range reaches every key with that prefix (kv.h:29-39,
\* watch.h:28-38, common.cc:13-23): a prefix read, delete or watch misses none.
\* Except where the increment of line 17 turns a byte 0xff into 0: then the
\* range ends before it begins, and the request reaches no key at all.
PrefixCovered ==
  AsksForPrefix =>
    IF Wraps(asked)
    THEN \A k \in Keys : ~InRange(k, req.key, req.range_end)
    ELSE \A k \in Keys \ {<<>>} :
           HasPrefix(k, asked) => InRange(k, req.key, req.range_end)

\* Where char is unsigned, a prefix request goes no further than the keys that
\* begin with the first byte of the prefix, whatever bytes the prefix is made of
\* (common.cc:14-22).
PrefixStaysNear ==
  ~SignedChar /\ AsksForPrefix /\ asked # <<>> =>
    \A k \in Keys \ {<<>>} :
      InRange(k, req.key, req.range_end) => k[1] = asked[1]

\* A later setter overrides an earlier one of the same field, and a field that
\* none names keeps its default (common.h:39-43).
LastSetterWins ==
  \A f \in {"limit", "sort_target", "sort_order"} :
    /\ \A i \in 1..ran : LastOf(i, {f}) => req[f] = setfuncs[i].v
    /\ NoneOf({f}) => req[f] = Fresh(asked)[f]

\* A request for a key is for that key and no other as long as no setter says
\* otherwise; with one, the key still bounds the range from below.
NothingBelowKey ==
  /\ NoneOf(RangeFields)
       => \A k \in Keys \cup Asked : InRange(k, req.key, req.range_end) <=> k = asked
  /\ \A k \in Keys : InRange(k, req.key, req.range_end) => ~Before(k, asked)

-----------------------------------------------------------------------------
(* What the repository says and the code does not do: see README.md. *)

\* kv.h:28 and watch.h:27, "With the key prefix": a prefix request is for the
\* keys with that prefix only.
PrefixExact ==
  AsksForPrefix =>
    \A k \in Keys \ {<<>>} :
      InRange(k, req.key, req.range_end) => HasPrefix(k, asked)
=============================================================================
