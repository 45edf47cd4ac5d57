---------------------------- MODULE PrefixRange ----------------------------
(***************************************************************************)
(* etcdv3client/common.cc: the end of the key range that WithPrefix asks   *)
(* for.  A key is a sequence of bytes 0..MaxByte (0..255 in the code); the *)
(* code compares them as chars, which are signed on some platforms and     *)
(* unsigned on others.                                                     *)
(***************************************************************************)
EXTENDS Integers, Sequences, FiniteSets

CONSTANTS
  MaxByte,     \* 255 in the code
  SignedChar   \* is a char signed on this platform?

ASSUME ByteAssumption ==
  /\ MaxByte \in Nat /\ MaxByte % 2 = 1
  /\ SignedChar \in BOOLEAN

Byte == 0..MaxByte
Bytes == Seq(Byte)

\* std::string("\0", 1)
Nul == <<0>>

\* The value of a byte as a char; char(0xff) is Char(MaxByte).
Char(b) == IF SignedChar /\ b > MaxByte \div 2 THEN b - MaxByte - 1 ELSE b

\* Mutant: the comparison is the other way round.
FoundAbove(key) == {i \in 0..Len(key)-1 : Char(key[Len(key) - i]) > Char(MaxByte)}

\* The values of i for which the loop finds key[key.length()-i-1] < char(0xff).
Found(key) == {i \in 0..Len(key)-1 : Char(key[Len(key) - i]) < Char(MaxByte)}

\* Where the loop stops, if it finds one.
Stop(key) == CHOOSE i \in Found(key) : \A j \in Found(key) : i <= j

\* Mutant: the first char is decremented instead.
IncrementedFirst(key, i) ==
  [SubSeq(key, 1, i + 1) EXCEPT ![1] = (@ + MaxByte) % (MaxByte + 1)]

\* key.substr(0, i+1) with its last char incremented (it may wrap around).
Incremented(key, i) ==
  [SubSeq(key, 1, i + 1) EXCEPT ![i + 1] = (@ + 1) % (MaxByte + 1)]

GetPrefixRangeEnd(key) ==
  IF Found(key) = {} THEN Nul ELSE Incremented(key, Stop(key))

\* The char that is incremented is 0xff and becomes 0, behind at least one other
\* char (a "\0" that stands alone has a meaning of its own: no end).
Wraps(key) == Found(key) # {} /\ Stop(key) > 0 /\ key[Stop(key) + 1] = MaxByte

-----------------------------------------------------------------------------
(* What the server makes of a range (proto/rpc.proto:180-186).  EXTERNAL.  *)

\* The order of keys: the first byte that differs decides, and a key comes
\* before those it is a proper prefix of.
Before(a, b) ==
  \E i \in 1..Len(b) :
    /\ i <= Len(a) + 1
    /\ \A j \in 1..i-1 : a[j] = b[j]
    /\ i <= Len(a) => a[i] < b[i]

InRange(k, key, range_end) ==
  IF range_end = <<>> THEN k = key
  ELSE /\ ~Before(k, key)
       /\ range_end = Nul \/ Before(k, range_end)

HasPrefix(k, key) == Len(key) <= Len(k) /\ \A j \in 1..Len(key) : k[j] = key[j]

\* The byte 0xff never occurs in text (it is in no UTF-8 sequence).
IsText(key) == \A i \in 1..Len(key) : key[i] < MaxByte
=============================================================================
