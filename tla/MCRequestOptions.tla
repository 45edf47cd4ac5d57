-------------------------- MODULE MCRequestOptions --------------------------
(***************************************************************************)
(* RequestOptions for TLC: every key of at most two bytes, and some longer *)
(* ones.  The keys asked for are the empty one, text, and each way that    *)
(* bytes MaxByte can steer the loop of GetPrefixRangeEnd.                  *)
(***************************************************************************)
EXTENDS RequestOptions

MCKeys ==
  {<<>>} \cup {<<a>> : a \in Byte} \cup {<<a, b>> : a, b \in Byte}
    \cup {<<1, a, 5>> : a \in Byte}
MCAsked == {<<>>, <<1>>, <<3, 1>>, <<1, 2, 5>>, <<4, 5>>, <<5, 1>>, <<5, 5>>}
MCEnds == {<<2>>}
=============================================================================
