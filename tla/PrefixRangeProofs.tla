------------------------- MODULE PrefixRangeProofs -------------------------
(***************************************************************************)
(* GetPrefixRangeEnd for keys of every length, bytes of every width, and   *)
(* signed and unsigned chars.                                              *)
(***************************************************************************)
EXTENDS PrefixRange, WellFoundedInduction, TLAPS

\* The loop of GetPrefixRangeEnd stops at the first index it looks for.
LEMMA FirstFound ==
  ASSUME NEW key \in Bytes, Found(key) # {}
  PROVE  /\ Stop(key) \in Found(key) /\ \A j \in Found(key) : Stop(key) <= j
         /\ GetPrefixRangeEnd(key) = Incremented(key, Stop(key))
PROOF
<1>1. Found(key) \subseteq Nat
  BY DEF Found, Bytes
<1> DEFINE R == OpToRel(<, Nat)
<1>2. PICK i \in Found(key) : \A j \in Found(key) : ~(<<j, i>> \in R)
  <2>1. IsWellFoundedOn(R, Nat)
    BY NatLessThanWellFounded
  <2> HIDE DEF R
  <2> QED
    BY <1>1, <2>1, WFMin, Zenon
<1>3. \A j \in Found(key) : i <= j
  <2>1. \A j \in Found(key) : j < i => <<j, i>> \in R
    BY <1>1 DEF OpToRel
  <2> HIDE DEF R
  <2>2. \A j \in Found(key) : ~(j < i)
    BY <1>2, <2>1
  <2> QED
    BY <1>1, <2>2
<1>4. Stop(key) \in Found(key) /\ \A j \in Found(key) : Stop(key) <= j
  BY <1>3 DEF Stop
<1> QED
  BY <1>4 DEF GetPrefixRangeEnd

\* The range end is a byte string.
LEMMA EndIsBytes ==
  ASSUME NEW key \in Bytes
  PROVE  GetPrefixRangeEnd(key) \in Bytes
PROOF
<1>1. CASE Found(key) = {}
  BY <1>1, ByteAssumption DEF GetPrefixRangeEnd, Nul, Bytes, Byte
<1>2. CASE Found(key) # {}
  <2>1. PICK i \in Found(key) : GetPrefixRangeEnd(key) = Incremented(key, i)
    BY <1>2, FirstFound
  <2>2. i \in 0..Len(key)-1 /\ Len(key) \in Nat
    BY <2>1 DEF Found, Bytes
  <2>3. SubSeq(key, 1, i + 1) = [j \in 1..i+1 |-> key[j]]
    BY <2>2 DEF Bytes
  <2>4. /\ MaxByte + 1 \in Nat /\ MaxByte + 1 > 0
        /\ \A j \in 1..i+1 : key[j] \in Byte /\ key[j] + 1 \in Nat
    BY <2>2, ByteAssumption DEF Bytes, Byte
  <2>5. \A a, m \in Nat : m > 0 => a % m \in 0..m-1
    OBVIOUS
  <2>6. (key[i + 1] + 1) % (MaxByte + 1) \in Byte
    <3> DEFINE m == MaxByte + 1
               a == key[i + 1] + 1
    <3>1. a \in Nat /\ m \in Nat /\ m > 0
      BY <2>2, <2>4
    <3>2. 0..m-1 = Byte
      BY ByteAssumption DEF Byte
    <3> HIDE DEF m, a
    <3>3. a % m \in Byte
      BY <2>5, <3>1, <3>2
    <3> QED
      BY <3>3 DEF m, a
  <2>7. Incremented(key, i)
          = [j \in 1..i+1 |-> IF j = i + 1 THEN (key[i + 1] + 1) % (MaxByte + 1) ELSE key[j]]
    BY <2>2, <2>3 DEF Incremented
  <2>8. \A f : f \in [1..i+1 -> Byte] => f \in Seq(Byte)
    BY <2>2
  <2>9. Incremented(key, i) \in [1..i+1 -> Byte]
    BY <2>4, <2>6, <2>7
  <2> QED
    BY <2>1, <2>8, <2>9 DEF Bytes
<1> QED
  BY <1>1, <1>2

\* A key does not come before one of its prefixes.
LEMMA PrefixFirst ==
  ASSUME NEW k \in Bytes, NEW key \in Bytes, HasPrefix(k, key)
  PROVE  ~Before(k, key)
PROOF
<1> SUFFICES ASSUME NEW i \in 1..Len(key), i <= Len(k) => k[i] < key[i]
             PROVE  FALSE
  BY DEF Before
<1>1. i <= Len(k) /\ k[i] = key[i]
  BY DEF HasPrefix, Bytes
<1>2. key[i] \in Int
  BY ByteAssumption DEF Bytes, Byte
<1> QED
  BY <1>1, <1>2

\* What the increment makes of the key: its first chars, the last of them changed.
LEMMA IncrementedBytes ==
  ASSUME NEW key \in Bytes, NEW i \in Found(key)
  PROVE  /\ i \in Nat /\ i + 1 \in 1..Len(key) /\ key[i + 1] \in Byte
         /\ Len(Incremented(key, i)) = i + 1
         /\ \A j \in 1..i : Incremented(key, i)[j] = key[j]
         /\ Incremented(key, i)[i + 1] = (key[i + 1] + 1) % (MaxByte + 1)
PROOF
<1> DEFINE end == Incremented(key, i)
           n == i + 1
<1>1. n \in 1..Len(key) /\ i \in Nat /\ key[n] \in Byte
  BY DEF Found, Bytes
<1>2. SubSeq(key, 1, n) = [j \in 1..n |-> key[j]]
  BY <1>1 DEF Bytes
<1>3. /\ Len(end) = n
      /\ \A j \in 1..i : end[j] = key[j]
      /\ end[n] = (key[n] + 1) % (MaxByte + 1)
  <2> DEFINE s == [j \in 1..n |-> key[j]]
  <2>1. end = [s EXCEPT ![n] = (@ + 1) % (MaxByte + 1)]
    BY <1>2 DEF Incremented
  <2>2. end = [j \in 1..n |-> IF j = n THEN (s[n] + 1) % (MaxByte + 1) ELSE s[j]]
    BY <2>1
  <2> HIDE DEF end
  <2>3. Len(end) = n
    BY <1>1, <2>2
  <2>4. end[n] = (key[n] + 1) % (MaxByte + 1)
    BY <1>1, <2>2
  <2>5. \A j \in 1..i : end[j] = key[j]
    BY <1>1, <2>2
  <2> QED
    BY <2>3, <2>4, <2>5
<1> QED
  BY <1>1, <1>3

\* Every key with the prefix comes before the incremented one, wherever the
\* increment is, as long as the char at that place does not wrap around.
LEMMA IncrementedLast ==
  ASSUME NEW k \in Bytes, NEW key \in Bytes, HasPrefix(k, key),
         NEW i \in Found(key), key[i + 1] # MaxByte
  PROVE  Before(k, Incremented(key, i)) /\ Incremented(key, i) # <<>>
PROOF
<1> DEFINE end == Incremented(key, i)
           n == i + 1
<1>1. n \in 1..Len(key) /\ i \in Nat /\ key[n] \in Byte
  BY IncrementedBytes
<1>2. key[n] \in 0..MaxByte-1 /\ MaxByte \in Nat
  BY <1>1, ByteAssumption DEF Byte
<1>3. /\ Len(end) = n
      /\ \A j \in 1..i : end[j] = key[j]
      /\ end[n] = (key[n] + 1) % (MaxByte + 1)
  BY IncrementedBytes
<1> HIDE DEF end
<1>4. end[n] = key[n] + 1
  <2>1. \A a, m \in Nat : a < m => a % m = a
    OBVIOUS
  <2> QED
    BY <1>2, <1>3, <2>1
<1>5. Len(k) >= Len(key) /\ \A j \in 1..Len(key) : k[j] = key[j]
  BY DEF HasPrefix, Bytes
<1>6. Before(k, end)
  <2>1. n \in 1..Len(end) /\ n <= Len(k) + 1
    BY <1>1, <1>3, <1>5 DEF Bytes
  <2>2. \A j \in 1..n-1 : k[j] = end[j]
    BY <1>1, <1>3, <1>5
  <2>3. k[n] < end[n]
    BY <1>1, <1>2, <1>4, <1>5
  <2> QED
    BY <2>1, <2>2, <2>3 DEF Before
<1> QED
  BY <1>1, <1>3, <1>6 DEF end

\* If the last char is below char(0xff), the loop stops at once and what is left
\* of the key is its first char.
LEMMA FirstByteOnly ==
  ASSUME NEW key \in Bytes, 0 \in Found(key)
  PROVE  GetPrefixRangeEnd(key) = <<(key[1] + 1) % (MaxByte + 1)>>
PROOF
<1>1. Found(key) \subseteq Nat /\ Len(key) \in Nat /\ Len(key) >= 1
  BY DEF Found, Bytes
<1>2. Stop(key) = 0
  BY <1>1, FirstFound
<1>3. GetPrefixRangeEnd(key) = Incremented(key, 0)
  BY <1>2, FirstFound
<1>4. SubSeq(key, 1, 1) = <<key[1]>>
  <2>1. SubSeq(key, 1, 1) \in Seq(Byte) /\ Len(SubSeq(key, 1, 1)) = 1
    BY <1>1 DEF Bytes
  <2>2. SubSeq(key, 1, 1)[1] = key[1]
    BY <1>1 DEF Bytes
  <2>3. \A s \in Seq(Byte) : Len(s) = 1 => s = <<s[1]>>
    OBVIOUS
  <2> QED
    BY <2>1, <2>2, <2>3
<1> QED
  BY <1>3, <1>4 DEF Incremented

\* A char 0xff becomes 0.
LEMMA WrapsToNul == ASSUME NEW b \in Byte, b = MaxByte PROVE (b + 1) % (MaxByte + 1) = 0
PROOF
<1>1. MaxByte + 1 \in Nat /\ MaxByte + 1 > 0
  BY ByteAssumption
<1>2. \A m \in Nat : m > 0 => m % m = 0
  OBVIOUS
<1> QED
  BY <1>1, <1>2

\* If it stands alone, the range has no end.
LEMMA LoneByteWraps ==
  ASSUME NEW key \in Bytes, 0 \in Found(key), key[1] = MaxByte
  PROVE  GetPrefixRangeEnd(key) = Nul
PROOF
<1>1. key[1] \in Byte
  BY IncrementedBytes
<1>2. (key[1] + 1) % (MaxByte + 1) = 0
  BY <1>1, WrapsToNul
<1> QED
  BY <1>2, FirstByteOnly DEF Nul

\* common.cc:13-23 and the branch of WithPrefix for a key that is not empty
\* (kv.h:35, 232; watch.h:34): the range [key, GetPrefixRangeEnd(key)) reaches
\* every key with the prefix, for every prefix whose increment does not wrap.
THEOREM PrefixReached ==
  ASSUME NEW k \in Bytes, NEW key \in Bytes, HasPrefix(k, key), ~Wraps(key)
  PROVE  InRange(k, key, GetPrefixRangeEnd(key))
PROOF
<1>1. ~Before(k, key)
  BY PrefixFirst
<1>2. CASE Found(key) = {}
  BY <1>1, <1>2 DEF GetPrefixRangeEnd, InRange, Nul
<1>3. CASE Found(key) # {} /\ key[Stop(key) + 1] # MaxByte
  BY <1>1, <1>3, FirstFound, IncrementedLast DEF InRange
<1>4. CASE Found(key) # {} /\ key[Stop(key) + 1] = MaxByte
  <2>1. Stop(key) \in Found(key) /\ Stop(key) \in Nat
    BY <1>4, FirstFound DEF Found
  <2>2. Stop(key) = 0
    BY <1>4, <2>1 DEF Wraps
  <2>3. GetPrefixRangeEnd(key) = Nul
    BY <1>4, <2>1, <2>2, LoneByteWraps
  <2> QED
    BY <1>1, <2>3 DEF InRange, Nul
<1> QED
  BY <1>2, <1>3, <1>4

\* common.cc:16-17: if the increment wraps, the range ends before it begins; a
\* request for such a prefix reaches no key.
THEOREM WrappedPrefixReach ==
  ASSUME NEW k \in Bytes, NEW key \in Bytes, Wraps(key)
  PROVE  ~InRange(k, key, GetPrefixRangeEnd(key))
PROOF
<1> DEFINE i == Stop(key)
           end == Incremented(key, i)
<1>1. i \in Found(key) /\ GetPrefixRangeEnd(key) = end
  BY FirstFound DEF Wraps
<1>2. /\ i \in Nat /\ i > 0 /\ i + 1 \in 1..Len(key)
      /\ key[i + 1] \in Byte /\ key[i + 1] = MaxByte
  BY <1>1, IncrementedBytes DEF Wraps
<1>3. Len(end) = i + 1 /\ (\A j \in 1..i : end[j] = key[j]) /\ end[i + 1] = 0
  BY <1>1, <1>2, IncrementedBytes, WrapsToNul
<1> HIDE DEF end
<1>4. end # Nul /\ end # <<>>
  BY <1>2, <1>3 DEF Nul
<1>5. ASSUME Before(k, end) PROVE Before(k, key)
  <2>1. PICK p \in 1..Len(end) : /\ p <= Len(k) + 1
                                 /\ \A j \in 1..p-1 : k[j] = end[j]
                                 /\ p <= Len(k) => k[p] < end[p]
    BY <1>5 DEF Before
  <2>2. p \in 1..Len(key) /\ \A j \in 1..p-1 : j \in 1..i
    BY <1>2, <1>3, <2>1
  <2>3. \A j \in 1..p-1 : k[j] = key[j]
    BY <1>3, <2>1, <2>2
  <2>4. p <= Len(k) => k[p] < key[p]
    <3>1. CASE p \in 1..i
      BY <1>3, <2>1, <3>1
    <3>2. CASE p = i + 1
      <4>1. p <= Len(k) => k[p] \in Byte /\ k[p] < 0
        BY <1>3, <2>1, <3>2 DEF Bytes
      <4> QED
        BY <4>1, ByteAssumption DEF Byte
    <3> QED
      BY <1>2, <1>3, <2>1, <3>1, <3>2
  <2> QED
    BY <2>1, <2>2, <2>3, <2>4 DEF Before
<1> QED
  BY <1>1, <1>4, <1>5 DEF InRange

\* Text never wraps.
LEMMA TextDoesNotWrap == ASSUME NEW key \in Bytes, IsText(key) PROVE ~Wraps(key)
PROOF
<1> SUFFICES ASSUME Wraps(key) PROVE FALSE
  OBVIOUS
<1>1. Stop(key) \in Found(key) /\ key[Stop(key) + 1] = MaxByte
  BY FirstFound DEF Wraps
<1>2. Stop(key) + 1 \in 1..Len(key) /\ key[Stop(key) + 1] \in Byte
  BY <1>1, IncrementedBytes
<1> QED
  BY <1>1, <1>2, ByteAssumption DEF IsText, Byte

-----------------------------------------------------------------------------
(* How far the range goes: substr(0, i+1) takes an index that was counted  *)
(* from the end of the key as a length from its beginning.                 *)

\* A key that is not before one that is not empty has a first byte, and none
\* that is smaller.
LEMMA FirstByteNotBelow ==
  ASSUME NEW k \in Bytes, NEW key \in Bytes, key # <<>>, ~Before(k, key)
  PROVE  k # <<>> /\ k[1] \in Byte /\ key[1] \in Byte /\ key[1] <= k[1]
PROOF
<1>1. Len(key) \in Nat /\ Len(k) \in Nat /\ 1 \in 1..Len(key) /\ key[1] \in Byte
  BY DEF Bytes
<1>2. ~(1 <= Len(k) => k[1] < key[1])
  BY <1>1 DEF Before
<1> QED
  BY <1>1, <1>2, ByteAssumption DEF Bytes, Byte

\* Before a key of one byte come the empty key and those that begin below it.
LEMMA BeforeOneByte ==
  ASSUME NEW k \in Bytes, k # <<>>, NEW b \in Byte
  PROVE  Before(k, <<b>>) <=> k[1] < b
PROOF
<1>1. Len(k) \in Nat /\ 1 <= Len(k) /\ Len(<<b>>) = 1
  BY DEF Bytes
<1> QED
  BY <1>1 DEF Before

\* common.cc:13-23 where char is unsigned: a prefix request for text reaches the
\* keys from its key on that share the key's FIRST byte, however long the prefix.
THEOREM UnsignedPrefixReach ==
  ASSUME ~SignedChar, NEW key \in Bytes, key # <<>>, IsText(key), NEW k \in Bytes
  PROVE  InRange(k, key, GetPrefixRangeEnd(key)) <=> ~Before(k, key) /\ k[1] = key[1]
PROOF
<1>1. Len(key) \in Nat /\ Len(key) >= 1 /\ MaxByte \in Nat
  BY ByteAssumption DEF Bytes
<1>2. \A i \in 1..Len(key) : key[i] \in 0..MaxByte-1
  BY <1>1 DEF IsText, Bytes, Byte
<1>3. 0 \in Found(key)
  BY <1>1, <1>2 DEF Found, Char
<1>4. GetPrefixRangeEnd(key) = <<key[1] + 1>>
  <2>1. \A a, m \in Nat : a < m => a % m = a
    OBVIOUS
  <2>2. (key[1] + 1) % (MaxByte + 1) = key[1] + 1
    BY <1>1, <1>2, <2>1
  <2> QED
    BY <1>3, <2>2, FirstByteOnly
<1>5. key[1] + 1 \in Byte /\ key[1] + 1 # 0
  BY <1>1, <1>2 DEF Byte
<1>6. <<key[1] + 1>> # <<>> /\ <<key[1] + 1>> # Nul
  BY <1>5 DEF Nul
<1>7. CASE Before(k, key)
  BY <1>4, <1>6, <1>7 DEF InRange
<1>8. CASE ~Before(k, key)
  <2>1. k # <<>> /\ k[1] \in Byte /\ key[1] <= k[1]
    BY <1>8, FirstByteNotBelow
  <2>2. Before(k, <<key[1] + 1>>) <=> k[1] = key[1]
    BY <1>1, <1>2, <1>5, <2>1, BeforeOneByte DEF Byte
  <2> QED
    BY <1>4, <1>6, <1>8, <2>2 DEF InRange
<1> QED
  BY <1>7, <1>8

\* There, a prefix of one byte is asked for as kv.h:28 and watch.h:27 say: the
\* range holds the keys with that prefix and no other.
THEOREM OneBytePrefixExact ==
  ASSUME ~SignedChar, NEW key \in Bytes, Len(key) = 1, IsText(key), NEW k \in Bytes
  PROVE  InRange(k, key, GetPrefixRangeEnd(key)) <=> HasPrefix(k, key)
PROOF
<1>1. key # <<>> /\ Len(k) \in Nat
  BY DEF Bytes
<1>2. InRange(k, key, GetPrefixRangeEnd(key)) => HasPrefix(k, key)
  <2> SUFFICES ASSUME InRange(k, key, GetPrefixRangeEnd(key)) PROVE HasPrefix(k, key)
    OBVIOUS
  <2>1. ~Before(k, key) /\ k[1] = key[1]
    BY <1>1, UnsignedPrefixReach
  <2>2. k # <<>>
    BY <1>1, <2>1, FirstByteNotBelow
  <2>3. Len(k) >= 1
    BY <1>1, <2>2 DEF Bytes
  <2> QED
    BY <2>1, <2>3 DEF HasPrefix
<1> QED
  BY <1>2, PrefixReached, TextDoesNotWrap

\* common.cc:14-22 where char is unsigned, for every key that is not empty, also
\* one with bytes 0xff: what the range reaches begins with the key's first byte.
THEOREM UnsignedPrefixNear ==
  ASSUME ~SignedChar, NEW key \in Bytes, key # <<>>, NEW k \in Bytes,
         InRange(k, key, GetPrefixRangeEnd(key))
  PROVE  k # <<>> /\ k[1] = key[1]
PROOF
<1> DEFINE end == GetPrefixRangeEnd(key)
<1>1. MaxByte \in Nat /\ Len(key) \in Nat /\ Len(key) >= 1
  BY ByteAssumption DEF Bytes
<1>2. end # <<>> => ~Before(k, key) /\ (end = Nul \/ Before(k, end))
  BY DEF InRange
<1>3. ASSUME end = Nul \/ Before(k, end), ~Before(k, key)
      PROVE  /\ k # <<>> /\ k[1] \in Byte /\ key[1] \in Byte /\ key[1] <= k[1]
             /\ key[1] = MaxByte => k[1] = key[1]
  <2>1. k # <<>> /\ k[1] \in Byte /\ key[1] \in Byte /\ key[1] <= k[1]
    BY <1>3, FirstByteNotBelow
  <2> QED
    BY <1>1, <2>1 DEF Byte
<1>4. CASE Found(key) = {}
  <2>1. end = Nul
    BY <1>4 DEF GetPrefixRangeEnd
  <2>2. key[Len(key) - (Len(key) - 1)] = key[1] /\ Len(key) - 1 \in 0..Len(key)-1
    BY <1>1
  <2>3. ~(key[1] < MaxByte)
    BY <1>4, <2>2 DEF Found, Char
  <2>4. key[1] = MaxByte
    BY <1>1, <1>2, <1>3, <2>1, <2>3 DEF Byte, Nul
  <2> QED
    BY <1>2, <1>3, <2>1, <2>4 DEF Nul
<1>5. CASE Found(key) # {}
  <2> DEFINE i == Stop(key)
  <2>1. i \in Found(key) /\ end = Incremented(key, i)
    BY <1>5, FirstFound
  <2>2. i \in Nat /\ i + 1 \in 1..Len(key) /\ key[i + 1] \in Byte
    BY <2>1, IncrementedBytes
  <2>3. /\ Len(end) = i + 1 /\ \A j \in 1..i : end[j] = key[j]
        /\ end[i + 1] = (key[i + 1] + 1) % (MaxByte + 1)
    BY <2>1, IncrementedBytes
  <2> HIDE DEF i, end
  <2>4. end # <<>>
    BY <2>2, <2>3
  <2>5. /\ k # <<>> /\ k[1] \in Byte /\ key[1] \in Byte /\ key[1] <= k[1]
        /\ key[1] = MaxByte => k[1] = key[1]
    BY <1>2, <1>3, <2>4
  <2>6. ASSUME key[1] # MaxByte PROVE k[1] <= key[1]
    <3>1. i = 0 => end[1] = key[1] + 1
      <4>1. \A a, m \in Nat : a < m => a % m = a
        OBVIOUS
      <4>2. key[1] + 1 \in Nat /\ MaxByte + 1 \in Nat /\ key[1] + 1 < MaxByte + 1
        BY <1>1, <2>5, <2>6 DEF Byte
      <4> QED
        BY <2>3, <4>1, <4>2
    <3>2. i > 0 => end[1] = key[1]
      BY <2>2, <2>3
    <3>3. end # Nul
      BY <2>2, <2>3, <2>5, <3>1 DEF Nul, Byte
    <3>4. PICK p \in 1..Len(end) : /\ \A j \in 1..p-1 : k[j] = end[j]
                                   /\ p <= Len(k) => k[p] < end[p]
      BY <1>2, <2>4, <3>3 DEF Before
    <3>5. 1 <= Len(k)
      BY <2>5 DEF Bytes
    <3>6. CASE p = 1
      <4>1. k[1] < end[1]
        BY <3>4, <3>5, <3>6
      <4> QED
        BY <2>2, <2>5, <3>1, <3>2, <4>1 DEF Byte
    <3>7. CASE p > 1
      <4>1. i > 0 /\ k[1] = end[1]
        BY <2>2, <2>3, <3>4, <3>7
      <4> QED
        BY <2>5, <3>2, <4>1 DEF Byte
    <3> QED
      BY <2>2, <2>3, <3>6, <3>7
  <2> QED
    BY <2>5, <2>6 DEF Byte
<1> QED
  BY <1>4, <1>5

\* Where char is signed, char(0xff) is -1 and no ASCII char is below it: a prefix
\* request for ASCII text reaches every key from its key on.
THEOREM SignedPrefixReach ==
  ASSUME SignedChar, NEW key \in Bytes, NEW k \in Bytes,
         \A i \in 1..Len(key) : key[i] <= MaxByte \div 2
  PROVE  InRange(k, key, GetPrefixRangeEnd(key)) <=> ~Before(k, key)
PROOF
<1>1. MaxByte \in Nat /\ MaxByte > MaxByte \div 2 /\ Len(key) \in Nat
  BY ByteAssumption DEF Bytes
<1>2. Char(MaxByte) = -1
  BY <1>1 DEF Char
<1>3. \A i \in 1..Len(key) : Char(key[i]) >= 0
  BY <1>1 DEF Char, Bytes, Byte
<1>4. \A i \in 0..Len(key)-1 : Len(key) - i \in 1..Len(key)
  BY <1>1
<1>5. \A i \in 0..Len(key)-1 : ~(Char(key[Len(key) - i]) < Char(MaxByte))
  <2> SUFFICES ASSUME NEW i \in 0..Len(key)-1
               PROVE  ~(Char(key[Len(key) - i]) < Char(MaxByte))
    OBVIOUS
  <2>1. Char(key[Len(key) - i]) \in Int /\ Char(key[Len(key) - i]) >= 0
    BY <1>1, <1>3, <1>4 DEF Char, Bytes, Byte
  <2> QED
    BY <1>2, <2>1
<1>6. Found(key) = {}
  BY <1>5 DEF Found
<1> QED
  BY <1>6 DEF GetPrefixRangeEnd, InRange, Nul
=============================================================================
