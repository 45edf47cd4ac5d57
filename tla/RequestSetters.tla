--------------------------- MODULE RequestSetters ---------------------------
(***************************************************************************)
(* The setters of etcdv3client/{kv,watch}.h: what each With function adds  *)
(* to the list of an option object, and what the setters do to a request.  *)
(*                                                                         *)
(* The fields limit, sort_target and sort_order stand for every field that *)
(* a single setter stores a constant in.                                   *)
(***************************************************************************)
EXTENDS PrefixRange

\* The request as protobuf creates it, once its key is set.
Fresh(key) ==
  [key |-> key, range_end |-> <<>>, limit |-> 0, sort_target |-> "KEY", sort_order |-> "NONE"]

\* A setter: "prefix" computes the range from the key it finds in the request,
\* the others store v in the field f.
WithPrefix == <<[f |-> "prefix"]>>
Set(f, v) == <<[f |-> f, v |-> v]>>
WithRangeEnd(end) == Set("range_end", end)
WithFromKey == Set("range_end", Nul)
WithLimit(n) == Set("limit", n)
WithSortOrder(ascend) == Set("sort_order", IF ascend THEN "ASCEND" ELSE "DESCEND")
WithSortBy(target) == Set("sort_target", target)

\* WithFirstCreate, WithLastCreate, WithFirstKey, WithLastKey, WithFirstMod and
\* WithLastMod.
WithOne(target, first) ==
  WithPrefix \o WithSortBy(target) \o WithSortOrder(first) \o WithLimit(1)

SetPrefix(r) ==
  IF r.key = <<>> THEN [r EXCEPT !.key = Nul, !.range_end = Nul]
  ELSE [r EXCEPT !.range_end = GetPrefixRangeEnd(r.key)]

Call(r, o) == IF o.f = "prefix" THEN SetPrefix(r) ELSE [r EXCEPT ![o.f] = o.v]
=============================================================================
