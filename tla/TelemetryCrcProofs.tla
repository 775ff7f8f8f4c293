--------------------------- MODULE TelemetryCrcProofs ---------------------------
(***************************************************************************)
(* Theorems about the checksum of a telemetry line: damage confined to two *)
(* neighbouring bytes never goes unnoticed, in frames of any length.       *)
(***************************************************************************)
EXTENDS MCVehicleTelemetry, FiniteSetTheorems, TLAPS

-----------------------------------------------------------------------------
\* Induction over the natural numbers, as a fact about sets of them.

LEMMA LeastNumber ==
    ASSUME NEW T \in SUBSET Nat, T # {}
    PROVE  \E m \in T : \A n \in T : m <= n
<1> DEFINE R == OpToRel(<, Nat)
<1>1. R = {ss \in Nat \X Nat : ss[1] < ss[2]}
  BY DEF OpToRel
<1>2. IsWellFoundedOn(R, Nat)
  BY NatLessThanWellFounded
<1> HIDE DEF R
<1>3. PICK m \in T : \A n \in T : ~ (<<n, m>> \in R)
  BY <1>2, WFMin
<1>4. \A m1, n \in Nat : n < m1 => <<n, m1>> \in R
  BY <1>1
<1>5. \A n \in T : ~ (n < m)
  BY <1>3, <1>4
<1> QED BY <1>5

LEMMA Counting ==
    ASSUME NEW S \in SUBSET Nat, 0 \in S, \A n \in S : n + 1 \in S
    PROVE  S = Nat
<1>1. ASSUME Nat \ S # {} PROVE FALSE
  <2>1. PICK m \in Nat \ S : \A n \in Nat \ S : m <= n
    BY <1>1, LeastNumber
  <2>2. m - 1 \in Nat /\ m - 1 \notin Nat \ S
    BY <2>1
  <2>3. m - 1 \in S /\ (m - 1) + 1 = m
    BY <2>2
  <2> QED BY <2>1, <2>3
<1> QED BY <1>1

-----------------------------------------------------------------------------
\* One bit.

Same(c, d, bits) == \A i \in bits : i \in c <=> i \in d

LEMMA SameWords ==
    ASSUME NEW c \in Words, NEW d \in Words, Same(c, d, 0..15) PROVE c = d
BY DEF Same, Words

LEMMA ShiftIs ==
    ASSUME NEW c \in Words
    PROVE  /\ ShiftBit(c) \in Words
           /\ 0 \in ShiftBit(c) <=> 15 \in c
           /\ \A i \in 1..15 : i \in ShiftBit(c) <=>
                IF 15 \in c /\ i \in {5, 12} THEN i - 1 \notin c ELSE i - 1 \in c
<1> DEFINE left == LeftShift(c)
<1>1. left \in SUBSET (1..15) /\ \A i \in 1..15 : i \in left <=> i - 1 \in c
  <2>1. ASSUME NEW i \in 1..15 PROVE i \in left <=> i - 1 \in c
    <3>1. i - 1 \in c => i - 1 \in c \ {15} /\ (i - 1) + 1 = i
      OBVIOUS
    <3>2. i \in left => \E j \in c \ {15} : i = j + 1
      BY DEF LeftShift
    <3>3. \A j \in c : i = j + 1 => j = i - 1
      BY DEF Words
    <3> QED BY <3>1, <3>2, <3>3 DEF LeftShift
  <2>2. \A j \in c \ {15} : j + 1 \in 1..15
    BY DEF Words
  <2> QED BY <2>1, <2>2 DEF LeftShift
<1> HIDE DEF left
<1>2. ShiftBit(c) = IF 15 \in c THEN SymDiff(left, Polynomial) ELSE left
  BY DEF ShiftBit, left
<1>3. CASE 15 \in c
  <2>1. \A i : i \in ShiftBit(c) <=> (i \in left /\ i \notin {0, 5, 12})
                                      \/ (i \in {0, 5, 12} /\ i \notin left)
    BY <1>2, <1>3 DEF SymDiff, Polynomial
  <2>2. ShiftBit(c) \in Words
    <3>1. \A i \in ShiftBit(c) : i \in left \/ i \in {0, 5, 12}
      BY <2>1
    <3>2. \A i \in 1..15 : i \in 0..15
      OBVIOUS
    <3>3. \A i \in {0, 5, 12} : i \in 0..15
      OBVIOUS
    <3>4. ShiftBit(c) \subseteq 0..15
      BY <1>1, <3>1, <3>2, <3>3
    <3> QED BY <3>4 DEF Words
  <2>3. 0 \in ShiftBit(c)
    BY <1>1, <2>1
  <2> QED BY <1>1, <1>3, <2>1, <2>2, <2>3
<1>4. CASE 15 \notin c
  BY <1>1, <1>2, <1>4 DEF Words
<1> QED BY <1>3, <1>4

LEMMA BackOneBit ==
    ASSUME NEW c \in Words, NEW d \in Words, NEW n \in 0..15,
           Same(ShiftBit(c), ShiftBit(d), 0..n)
    PROVE  (15 \in c <=> 15 \in d) /\ Same(c, d, 0..(n - 1))
<1>1. 15 \in c <=> 15 \in d
  BY ShiftIs DEF Same
<1>2. ASSUME NEW i \in 0..(n - 1) PROVE i \in c <=> i \in d
  <2>1. i + 1 \in 0..n /\ i + 1 \in 1..15 /\ (i + 1) - 1 = i
    OBVIOUS
  <2>2. i + 1 \in ShiftBit(c) <=> i + 1 \in ShiftBit(d)
    BY <2>1 DEF Same
  <2>3. i + 1 \in ShiftBit(c) <=> IF 15 \in c /\ i + 1 \in {5, 12} THEN i \notin c ELSE i \in c
    BY <2>1, ShiftIs
  <2>4. i + 1 \in ShiftBit(d) <=> IF 15 \in d /\ i + 1 \in {5, 12} THEN i \notin d ELSE i \in d
    BY <2>1, ShiftIs
  <2> QED BY <1>1, <2>2, <2>3, <2>4
<1> QED BY <1>1, <1>2 DEF Same

LEMMA OnOneBit ==
    ASSUME NEW c \in Words, NEW d \in Words, NEW n \in 0..14,
           15 \in c <=> 15 \in d, Same(c, d, 0..n)
    PROVE  Same(ShiftBit(c), ShiftBit(d), 0..(n + 1))
<1>1. 0 \in ShiftBit(c) <=> 0 \in ShiftBit(d)
  BY ShiftIs
<1>2. ASSUME NEW i \in 1..(n + 1) PROVE i \in ShiftBit(c) <=> i \in ShiftBit(d)
  <2>1. i \in 1..15 /\ i - 1 \in 0..n
    OBVIOUS
  <2>2. i - 1 \in c <=> i - 1 \in d
    BY <2>1 DEF Same
  <2>3. i \in ShiftBit(c) <=> IF 15 \in c /\ i \in {5, 12} THEN i - 1 \notin c ELSE i - 1 \in c
    BY <2>1, ShiftIs
  <2>4. i \in ShiftBit(d) <=> IF 15 \in d /\ i \in {5, 12} THEN i - 1 \notin d ELSE i - 1 \in d
    BY <2>1, ShiftIs
  <2> QED BY <2>2, <2>3, <2>4
<1>3. \A i \in 0..(n + 1) : i = 0 \/ i \in 1..(n + 1)
  OBVIOUS
<1> QED BY <1>1, <1>2, <1>3 DEF Same

LEMMA ShiftTellsApart ==
    ASSUME NEW c \in Words, NEW d \in Words, ShiftBit(c) = ShiftBit(d) PROVE c = d
<1>1. Same(ShiftBit(c), ShiftBit(d), 0..15)
  BY DEF Same
<1>2. (15 \in c <=> 15 \in d) /\ Same(c, d, 0..14)
  BY <1>1, BackOneBit
<1>3. \A i \in 0..15 : i = 15 \/ i \in 0..14
  OBVIOUS
<1> QED BY <1>2, <1>3, SameWords DEF Same

-----------------------------------------------------------------------------
\* One byte, that is eight bits.

LEMMA ByteIs ==
    ASSUME NEW c \in Words, NEW byte \in Bytes
    PROVE  /\ SymDiff(c, {i + 8 : i \in byte}) \in Words
           /\ \A i \in 0..7 : i \in SymDiff(c, {j + 8 : j \in byte}) <=> i \in c
           /\ \A i \in 8..15 : i \in SymDiff(c, {j + 8 : j \in byte}) <=>
                                 ((i \in c) <=> ~(i - 8 \in byte))
<1> DEFINE high == {i + 8 : i \in byte}
           mix == SymDiff(c, high)
<1>1. high \subseteq 8..15 /\ \A i \in 8..15 : i \in high <=> i - 8 \in byte
  <2>1. \A j \in byte : j + 8 \in 8..15
    BY DEF Bytes
  <2>2. ASSUME NEW i \in 8..15 PROVE i \in high <=> i - 8 \in byte
    <3>1. (i - 8) + 8 = i
      OBVIOUS
    <3>2. \A j \in byte : i = j + 8 => j = i - 8
      BY DEF Bytes
    <3> QED BY <3>1, <3>2
  <2> QED BY <2>1, <2>2
<1> HIDE DEF high
<1>2. \A i : i \in mix <=> (i \in c /\ i \notin high) \/ (i \in high /\ i \notin c)
  BY DEF SymDiff
<1>3. mix \subseteq 0..15
  <2>1. \A i \in 8..15 : i \in 0..15
    OBVIOUS
  <2> QED BY <1>1, <1>2, <2>1 DEF Words
<1> HIDE DEF mix
<1>4. \A i \in 0..7 : i \notin high
  BY <1>1
<1>5. \A i \in 0..7 : i \in mix <=> i \in c
  BY <1>2, <1>4
<1>6. \A i \in 8..15 : i \in mix <=> ((i \in c) <=> ~(i - 8 \in byte))
  BY <1>1, <1>2
<1>7. mix \in Words
  BY <1>3 DEF Words
<1> QED BY <1>5, <1>6, <1>7 DEF mix, high

LEMMA ShiftByteIs ==
    ASSUME NEW c
    PROVE  ShiftByte(c) =
             ShiftBit(ShiftBit(ShiftBit(ShiftBit(ShiftBit(ShiftBit(ShiftBit(ShiftBit(c))))))))
BY DEF ShiftByte

\* What a shift of two words to c1 and d1 says of the words c and d: equal words were
\* equal, low bits that agree show the bits that left and all but the last of the low
\* bits to agree, and if the bits that left agree then one more low bit agrees.
Shifted(c, d, c1, d1) ==
    /\ c1 \in Words /\ d1 \in Words
    /\ c1 = d1 => c = d
    /\ \A n \in 0..15 : Same(c1, d1, 0..n) => (15 \in c <=> 15 \in d) /\ Same(c, d, 0..(n - 1))
    /\ \A n \in 0..14 : (15 \in c <=> 15 \in d) /\ Same(c, d, 0..n) => Same(c1, d1, 0..(n + 1))

LEMMA OneBit ==
    ASSUME NEW c \in Words, NEW d \in Words
    PROVE  Shifted(c, d, ShiftBit(c), ShiftBit(d))
BY ShiftIs, ShiftTellsApart, BackOneBit, OnOneBit DEF Shifted

\* Down the eight shifts the bits that leave are found to agree, up again all low bits.
LEMMA ShiftByteTellsApart ==
    ASSUME NEW c \in Words, NEW d \in Words
    PROVE  /\ ShiftByte(c) \in Words
           /\ ShiftByte(c) = ShiftByte(d) => c = d
           /\ Same(ShiftByte(c), ShiftByte(d), 0..7) /\ Same(c, d, 0..7) => c = d
<1> DEFINE c1 == ShiftBit(c)    d1 == ShiftBit(d)
           c2 == ShiftBit(c1)   d2 == ShiftBit(d1)
           c3 == ShiftBit(c2)   d3 == ShiftBit(d2)
           c4 == ShiftBit(c3)   d4 == ShiftBit(d3)
           c5 == ShiftBit(c4)   d5 == ShiftBit(d4)
           c6 == ShiftBit(c5)   d6 == ShiftBit(d5)
           c7 == ShiftBit(c6)   d7 == ShiftBit(d6)
           c8 == ShiftBit(c7)   d8 == ShiftBit(d7)
<1>0. ShiftByte(c) = c8 /\ ShiftByte(d) = d8
  BY ShiftByteIs
<1>1. Shifted(c, d, c1, d1)
  BY OneBit DEF Shifted
<1> HIDE DEF c1, d1
<1>2. Shifted(c1, d1, c2, d2)
  BY <1>1, OneBit DEF Shifted
<1> HIDE DEF c2, d2
<1>3. Shifted(c2, d2, c3, d3)
  BY <1>2, OneBit DEF Shifted
<1> HIDE DEF c3, d3
<1>4. Shifted(c3, d3, c4, d4)
  BY <1>3, OneBit DEF Shifted
<1> HIDE DEF c4, d4
<1>5. Shifted(c4, d4, c5, d5)
  BY <1>4, OneBit DEF Shifted
<1> HIDE DEF c5, d5
<1>6. Shifted(c5, d5, c6, d6)
  BY <1>5, OneBit DEF Shifted
<1> HIDE DEF c6, d6
<1>7. Shifted(c6, d6, c7, d7)
  BY <1>6, OneBit DEF Shifted
<1> HIDE DEF c7, d7
<1>8. Shifted(c7, d7, c8, d8)
  BY <1>7, OneBit DEF Shifted
<1> HIDE DEF c8, d8
<1>9. c8 = d8 => c = d
  BY <1>1, <1>2, <1>3, <1>4, <1>5, <1>6, <1>7, <1>8 DEF Shifted
<1>10. ASSUME Same(c8, d8, 0..7), Same(c, d, 0..7) PROVE c8 = d8
  <2>1. (15 \in c7 <=> 15 \in d7) /\ Same(c7, d7, 0..6)
    <3>1. 7 \in 0..15 /\ 7 - 1 = 6
      OBVIOUS
    <3> QED BY <1>8, <1>10, <3>1 DEF Shifted
  <2>2. (15 \in c6 <=> 15 \in d6) /\ Same(c6, d6, 0..5)
    <3>1. 6 \in 0..15 /\ 6 - 1 = 5
      OBVIOUS
    <3> QED BY <1>7, <2>1, <3>1 DEF Shifted
  <2>3. (15 \in c5 <=> 15 \in d5) /\ Same(c5, d5, 0..4)
    <3>1. 5 \in 0..15 /\ 5 - 1 = 4
      OBVIOUS
    <3> QED BY <1>6, <2>2, <3>1 DEF Shifted
  <2>4. (15 \in c4 <=> 15 \in d4) /\ Same(c4, d4, 0..3)
    <3>1. 4 \in 0..15 /\ 4 - 1 = 3
      OBVIOUS
    <3> QED BY <1>5, <2>3, <3>1 DEF Shifted
  <2>5. (15 \in c3 <=> 15 \in d3) /\ Same(c3, d3, 0..2)
    <3>1. 3 \in 0..15 /\ 3 - 1 = 2
      OBVIOUS
    <3> QED BY <1>4, <2>4, <3>1 DEF Shifted
  <2>6. (15 \in c2 <=> 15 \in d2) /\ Same(c2, d2, 0..1)
    <3>1. 2 \in 0..15 /\ 2 - 1 = 1
      OBVIOUS
    <3> QED BY <1>3, <2>5, <3>1 DEF Shifted
  <2>7. (15 \in c1 <=> 15 \in d1) /\ Same(c1, d1, 0..0)
    <3>1. 1 \in 0..15 /\ 1 - 1 = 0
      OBVIOUS
    <3> QED BY <1>2, <2>6, <3>1 DEF Shifted
  <2>8. (15 \in c <=> 15 \in d)
    <3>1. 0 \in 0..15 /\ 0 - 1 = -1
      OBVIOUS
    <3> QED BY <1>1, <2>7, <3>1 DEF Shifted
  <2>9. Same(c1, d1, 0..8)
    <3>1. 7 \in 0..14 /\ 7 + 1 = 8
      OBVIOUS
    <3> QED BY <1>1, <2>8, <1>10, <3>1 DEF Shifted
  <2>10. Same(c2, d2, 0..9)
    <3>1. 8 \in 0..14 /\ 8 + 1 = 9
      OBVIOUS
    <3> QED BY <1>2, <2>7, <2>9, <3>1 DEF Shifted
  <2>11. Same(c3, d3, 0..10)
    <3>1. 9 \in 0..14 /\ 9 + 1 = 10
      OBVIOUS
    <3> QED BY <1>3, <2>6, <2>10, <3>1 DEF Shifted
  <2>12. Same(c4, d4, 0..11)
    <3>1. 10 \in 0..14 /\ 10 + 1 = 11
      OBVIOUS
    <3> QED BY <1>4, <2>5, <2>11, <3>1 DEF Shifted
  <2>13. Same(c5, d5, 0..12)
    <3>1. 11 \in 0..14 /\ 11 + 1 = 12
      OBVIOUS
    <3> QED BY <1>5, <2>4, <2>12, <3>1 DEF Shifted
  <2>14. Same(c6, d6, 0..13)
    <3>1. 12 \in 0..14 /\ 12 + 1 = 13
      OBVIOUS
    <3> QED BY <1>6, <2>3, <2>13, <3>1 DEF Shifted
  <2>15. Same(c7, d7, 0..14)
    <3>1. 13 \in 0..14 /\ 13 + 1 = 14
      OBVIOUS
    <3> QED BY <1>7, <2>2, <2>14, <3>1 DEF Shifted
  <2>16. Same(c8, d8, 0..15)
    <3>1. 14 \in 0..14 /\ 14 + 1 = 15
      OBVIOUS
    <3> QED BY <1>8, <2>1, <2>15, <3>1 DEF Shifted
  <2> QED BY <1>8, <2>16, SameWords DEF Shifted
<1>11. c8 \in Words
  BY <1>8 DEF Shifted
<1> QED BY <1>0, <1>9, <1>10, <1>11

LEMMA MixTellsApart ==
    ASSUME NEW c \in Words, NEW a \in Bytes, NEW b \in Bytes,
           SymDiff(c, {i + 8 : i \in a}) = SymDiff(c, {i + 8 : i \in b})
    PROVE  a = b
<1>1. ASSUME NEW i \in 0..7 PROVE i \in a <=> i \in b
  <2>1. i + 8 \in 8..15 /\ (i + 8) - 8 = i
    OBVIOUS
  <2> QED BY <2>1, ByteIs
<1> QED BY <1>1 DEF Bytes

LEMMA EatByteTellsApart ==
    ASSUME NEW c \in Words, NEW d \in Words, NEW byte \in Bytes
    PROVE  /\ EatByte(c, byte) \in Words
           /\ EatByte(c, byte) = EatByte(d, byte) => c = d
<1> DEFINE high == {i + 8 : i \in byte}
<1>1. SymDiff(c, high) \in Words /\ SymDiff(d, high) \in Words
  BY ByteIs
<1>2. SymDiff(c, high) = SymDiff(d, high) => c = d
  BY DEF SymDiff
<1> QED BY <1>1, <1>2, ShiftByteTellsApart DEF EatByte

\* Two bytes leave different checksums unless they are the same two bytes.
LEMMA TwoBytes ==
    ASSUME NEW c \in Words, NEW a \in Bytes, NEW b \in Bytes, NEW a1 \in Bytes, NEW b1 \in Bytes,
           EatByte(EatByte(c, a), b) = EatByte(EatByte(c, a1), b1)
    PROVE  a = a1 /\ b = b1
<1> DEFINE m == SymDiff(c, {i + 8 : i \in a})
           m1 == SymDiff(c, {i + 8 : i \in a1})
           e == ShiftByte(m)
           e1 == ShiftByte(m1)
<1>1. e = EatByte(c, a) /\ e1 = EatByte(c, a1)
  BY DEF EatByte
<1>2. m \in Words /\ m1 \in Words /\ Same(m, m1, 0..7) /\ (m = m1 => a = a1)
  BY ByteIs, MixTellsApart DEF Same
<1> HIDE DEF m, m1
<1>3. e \in Words /\ e1 \in Words /\ (Same(e, e1, 0..7) => m = m1)
  BY <1>2, ShiftByteTellsApart
<1> HIDE DEF e, e1
<1> DEFINE w == SymDiff(e, {i + 8 : i \in b})
           w1 == SymDiff(e1, {i + 8 : i \in b1})
<1>4. w \in Words /\ w1 \in Words
  BY <1>3, ByteIs
<1>5. ShiftByte(w) = ShiftByte(w1)
  BY <1>1 DEF EatByte
<1>6. w = w1
  <2> HIDE DEF w, w1
  <2> QED BY <1>4, <1>5, ShiftByteTellsApart
<1>7. Same(e, e1, 0..7)
  BY <1>3, <1>6, ByteIs DEF Same
<1>8. a = a1
  BY <1>2, <1>3, <1>7
<1>9. e = e1
  BY <1>1, <1>8
<1> QED BY <1>3, <1>6, <1>8, <1>9, MixTellsApart

-----------------------------------------------------------------------------
\* Whole frames.

\* The checksums crc16CcittFalse goes through.
Run(crc, bytes) ==
    /\ crc[0] = 0..15
    /\ \A n \in 1..Len(bytes) : crc[n] = EatByte(crc[n - 1], bytes[n])
    /\ \A n \in 0..Len(bytes) : crc[n] \in Words

LEMMA CrcIs ==
    ASSUME NEW bytes \in Seq(Bytes)
    PROVE  \E crc : Run(crc, bytes) /\ Crc16CcittFalse(bytes) = crc[Len(bytes)]
<1> DEFINE Next1(f, n) == IF n = 0 THEN 0..15 ELSE EatByte(f[n - 1], bytes[n])
           Ends(n) == \E f : f = [i \in 0..n |-> Next1(f, i)]
           S == {n \in Nat : Ends(n)}
<1>1. 0 \in S
  <2>1. [i \in 0..0 |-> 0..15] = [i \in 0..0 |-> Next1([j \in 0..0 |-> 0..15], i)]
    OBVIOUS
  <2> QED BY <2>1
<1>2. ASSUME NEW n \in S PROVE n + 1 \in S
  <2>1. PICK f : f = [i \in 0..n |-> Next1(f, i)]
    OBVIOUS
  <2> DEFINE g == [i \in 0..(n + 1) |-> IF i = n + 1 THEN EatByte(f[n], bytes[n + 1]) ELSE f[i]]
  <2>2. \A i \in 0..n : g[i] = f[i] /\ f[i] = Next1(f, i)
    <3> HIDE DEF Next1
    <3>1. \A i \in 0..n : f[i] = Next1(f, i)
      BY <2>1
    <3>2. \A i \in 0..n : i \in 0..(n + 1) /\ i # n + 1
      OBVIOUS
    <3> QED BY <3>1, <3>2
  <2>3. g[n + 1] = EatByte(f[n], bytes[n + 1])
    OBVIOUS
  <2>4. \A i \in 0..(n + 1) : g[i] = Next1(g, i)
    <3> SUFFICES ASSUME NEW i \in 0..(n + 1) PROVE g[i] = Next1(g, i)
      OBVIOUS
    <3>1. CASE i = 0
      <4>1. 0 \in 0..n
        OBVIOUS
      <4>2. g[0] = f[0] /\ f[0] = 0..15
        BY <2>2, <4>1
      <4> HIDE DEF g
      <4> QED BY <3>1, <4>2
    <3>2. CASE i \in 1..n
      <4>1. i \in 0..n /\ i - 1 \in 0..n /\ i # 0
        BY <3>2
      <4>2. g[i] = f[i] /\ f[i] = Next1(f, i) /\ g[i - 1] = f[i - 1]
        BY <2>2, <4>1
      <4> HIDE DEF g
      <4> QED BY <4>1, <4>2
    <3>3. CASE i = n + 1
      <4>1. n \in 0..n /\ i - 1 = n /\ i # 0
        BY <3>3
      <4>2. g[n] = f[n]
        BY <2>2, <4>1
      <4> HIDE DEF g
      <4> QED BY <2>3, <3>3, <4>1, <4>2
    <3> QED BY <3>1, <3>2, <3>3
  <2>5. g = [i \in 0..(n + 1) |-> g[i]]
    OBVIOUS
  <2> HIDE DEF g
  <2>6. g = [i \in 0..(n + 1) |-> Next1(g, i)]
    BY <2>4, <2>5
  <2> QED BY <2>6
<1>3. S = Nat
  <2> HIDE DEF S
  <2>1. S \in SUBSET Nat
    BY DEF S
  <2> QED BY <1>1, <1>2, <2>1, Counting
<1>4. Ends(Len(bytes))
  <2>1. Len(bytes) \in Nat
    OBVIOUS
  <2>2. Len(bytes) \in S
    <3> HIDE DEF S
    <3> QED BY <1>3, <2>1
  <2> HIDE DEF Ends
  <2> QED BY <2>2
<1> DEFINE crc == CHOOSE f : f = [i \in 0..Len(bytes) |-> Next1(f, i)]
<1>5. crc = [i \in 0..Len(bytes) |-> Next1(crc, i)]
  BY <1>4
<1>6. Crc16CcittFalse(bytes) = crc[Len(bytes)]
  BY DEF Crc16CcittFalse
<1> HIDE DEF crc
<1>7. \A i \in 0..Len(bytes) : crc[i] = Next1(crc, i)
  <2> HIDE DEF Next1
  <2> QED BY <1>5
<1>8. crc[0] = 0..15 /\ \A n \in 1..Len(bytes) : crc[n] = EatByte(crc[n - 1], bytes[n])
  <2>1. Len(bytes) \in Nat
    OBVIOUS
  <2>2. 0 \in 0..Len(bytes) /\ \A n \in 1..Len(bytes) : n \in 0..Len(bytes) /\ n # 0
    BY <2>1
  <2> QED BY <1>7, <2>2
<1> DEFINE W == {n \in Nat : n <= Len(bytes) => crc[n] \in Words}
<1>9. 0 \in W
  BY <1>8 DEF Words
<1>10. ASSUME NEW n \in W PROVE n + 1 \in W
  <2> SUFFICES ASSUME n + 1 <= Len(bytes) PROVE crc[n + 1] \in Words
    OBVIOUS
  <2>1. n + 1 \in 1..Len(bytes) /\ (n + 1) - 1 = n /\ n <= Len(bytes)
    OBVIOUS
  <2>2. crc[n + 1] = EatByte(crc[n], bytes[n + 1]) /\ crc[n] \in Words /\ bytes[n + 1] \in Bytes
    BY <1>8, <2>1
  <2> QED BY <2>2, EatByteTellsApart
<1>11. W = Nat
  <2> HIDE DEF W
  <2>1. W \in SUBSET Nat
    BY DEF W
  <2> QED BY <1>9, <1>10, <2>1, Counting
<1>12. \A n \in 0..Len(bytes) : crc[n] \in Words
  <2>1. \A n \in 0..Len(bytes) : n \in W /\ n <= Len(bytes)
    BY <1>11
  <2> QED BY <2>1
<1> QED BY <1>6, <1>8, <1>12 DEF Run

\* Frames of the same length that differ in two neighbouring bytes at most never have
\* the same checksum, so the damage is always seen
\* (crc16CcittFalse; one damaged byte is such damage, and so is every burst of nine bits).
THEOREM NeighboursTellApart ==
    ASSUME NEW s \in Seq(Bytes), NEW t \in Seq(Bytes), Len(s) = Len(t), s # t,
           NEW k \in Nat, \A i \in (1..Len(s)) \ {k, k + 1} : s[i] = t[i]
    PROVE  Crc16CcittFalse(s) # Crc16CcittFalse(t)
<1> DEFINE len == Len(s)
<1>0. len \in Nat /\ Len(t) = len
  OBVIOUS
<1>1. PICK c : Run(c, s) /\ Crc16CcittFalse(s) = c[len]
  BY CrcIs
<1>2. PICK d : Run(d, t) /\ Crc16CcittFalse(t) = d[len]
  BY CrcIs, <1>0
<1> SUFFICES ASSUME c[len] = d[len] PROVE FALSE
  BY <1>1, <1>2
<1>3. \A i \in 1..len : s[i] \in Bytes /\ t[i] \in Bytes
  BY <1>0
<1>4. /\ c[0] = d[0]
      /\ \A n \in 0..len : c[n] \in Words /\ d[n] \in Words
      /\ \A n \in 1..len : c[n] = EatByte(c[n - 1], s[n]) /\ d[n] = EatByte(d[n - 1], t[n])
  BY <1>0, <1>1, <1>2 DEF Run
<1>5. s = t <=> \A i \in 1..len : s[i] = t[i]
  BY <1>0
<1> HIDE DEF len
\* Where the bytes agree, equal checksums before go with equal checksums after.
<1>6. ASSUME NEW n \in 1..len, s[n] = t[n]
      PROVE  c[n] = d[n] <=> c[n - 1] = d[n - 1]
  <2>1. n - 1 \in 0..len
    BY <1>0
  <2>2. c[n - 1] \in Words /\ d[n - 1] \in Words /\ s[n] \in Bytes
    BY <1>3, <1>4, <2>1
  <2>3. c[n] = EatByte(c[n - 1], s[n]) /\ d[n] = EatByte(d[n - 1], s[n])
    BY <1>4, <1>6
  <2> QED BY <2>2, <2>3, EatByteTellsApart
<1> DEFINE Before == {n \in Nat : n <= len /\ n < k => c[n] = d[n]}
           After == {n \in Nat : n <= len /\ k + 1 <= len - n => c[len - n] = d[len - n]}
<1>7. Before = Nat
  <2>1. 0 \in Before
    BY <1>4
  <2>2. ASSUME NEW n \in Before PROVE n + 1 \in Before
    <3> SUFFICES ASSUME n + 1 <= len, n + 1 < k PROVE c[n + 1] = d[n + 1]
      OBVIOUS
    <3>1. n + 1 \in 1..len /\ n + 1 \notin {k, k + 1} /\ (n + 1) - 1 = n /\ c[n] = d[n]
      BY <1>0
    <3>2. s[n + 1] = t[n + 1]
      BY <3>1 DEF len
    <3> QED BY <1>6, <3>1, <3>2
  <2>3. Before \in SUBSET Nat
    OBVIOUS
  <2> HIDE DEF Before
  <2> QED BY <2>1, <2>2, <2>3, Counting
<1>8. After = Nat
  <2>1. 0 \in After
    BY <1>0
  <2>2. ASSUME NEW n \in After PROVE n + 1 \in After
    <3> SUFFICES ASSUME n + 1 <= len, k + 1 <= len - (n + 1)
                 PROVE  c[len - (n + 1)] = d[len - (n + 1)]
      OBVIOUS
    <3> DEFINE m == len - n
    <3>1. m \in 1..len /\ m \notin {k, k + 1} /\ m - 1 = len - (n + 1) /\ c[m] = d[m]
      BY <1>0
    <3>2. s[m] = t[m]
      BY <3>1 DEF len
    <3> HIDE DEF m
    <3> QED BY <1>6, <3>1, <3>2
  <2>3. After \in SUBSET Nat
    OBVIOUS
  <2> HIDE DEF After
  <2> QED BY <2>1, <2>2, <2>3, Counting
<1>9. \A n \in 0..len : n < k => c[n] = d[n]
  <2>1. \A n \in 0..len : n \in Before /\ n <= len
    BY <1>0, <1>7
  <2> QED BY <2>1
<1>10. \A n \in 0..len : k + 1 <= n => c[n] = d[n]
  <2> SUFFICES ASSUME NEW n \in 0..len, k + 1 <= n PROVE c[n] = d[n]
    OBVIOUS
  <2>1. len - n \in Nat /\ len - (len - n) = n /\ len - n <= len
    BY <1>0
  <2>2. len - n \in After
    <3> HIDE DEF After
    <3> QED BY <1>8, <2>1
  <2> QED BY <2>1, <2>2
<1> HIDE DEF Before, After
\* Both damaged positions are bytes of the frame, one is, or none.
<1>11. CASE k \in 1..len /\ k + 1 \in 1..len
  <2>1. k - 1 \in 0..len /\ k + 1 \in 0..len /\ (k + 1) - 1 = k
    BY <1>0, <1>11
  <2>2. c[k - 1] = d[k - 1] /\ c[k + 1] = d[k + 1] /\ c[k - 1] \in Words
    BY <1>4, <1>9, <1>10, <2>1
  <2>3. c[k + 1] = EatByte(EatByte(c[k - 1], s[k]), s[k + 1])
    BY <1>4, <1>11, <2>1
  <2>4. d[k + 1] = EatByte(EatByte(d[k - 1], t[k]), t[k + 1])
    BY <1>4, <1>11, <2>1
  <2>5. s[k] \in Bytes /\ t[k] \in Bytes /\ s[k + 1] \in Bytes /\ t[k + 1] \in Bytes
    BY <1>3, <1>11
  <2>6. s[k] = t[k] /\ s[k + 1] = t[k + 1]
    <3>1. EatByte(EatByte(c[k - 1], s[k]), s[k + 1]) = EatByte(EatByte(c[k - 1], t[k]), t[k + 1])
      BY <2>2, <2>3, <2>4
    <3> QED BY <2>2, <2>5, <3>1, TwoBytes
  <2> QED BY <1>5, <2>6 DEF len
<1>12. CASE k \in 1..len /\ k = len
  <2>1. k - 1 \in 0..len /\ k \in 0..len /\ k - 1 < k
    BY <1>0, <1>12
  <2>2. c[k - 1] = d[k - 1] /\ c[k] = d[k] /\ c[k - 1] \in Words
    BY <1>4, <1>9, <1>12, <2>1
  <2>3. s[k] \in Bytes /\ t[k] \in Bytes
    BY <1>3, <1>12
  <2>4. c[k] = EatByte(c[k - 1], s[k]) /\ c[k] = EatByte(c[k - 1], t[k])
    BY <1>4, <1>12, <2>2
  <2>5. EatByte(EatByte(c[k - 1], s[k]), {}) = EatByte(EatByte(c[k - 1], t[k]), {})
    BY <2>4
  <2>6. {} \in Bytes
    BY DEF Bytes
  <2>7. s[k] = t[k]
    BY <2>2, <2>3, <2>5, <2>6, TwoBytes
  <2>8. \A i \in 1..len : i # k => i \notin {k, k + 1}
    BY <1>0, <1>12
  <2> QED BY <1>5, <2>7, <2>8 DEF len
<1>13. CASE k = 0 /\ 1 \in 1..len
  <2>1. 0 \in 0..len /\ 1 \in 0..len /\ 1 - 1 = 0 /\ k + 1 = 1
    BY <1>0, <1>13
  <2>2. c[1] = d[1] /\ c[0] = d[0] /\ c[0] \in Words
    BY <1>4, <1>10, <2>1
  <2>3. s[1] \in Bytes /\ t[1] \in Bytes
    BY <1>3, <1>13
  <2>4. c[1] = EatByte(c[0], s[1]) /\ c[1] = EatByte(c[0], t[1])
    BY <1>4, <1>13, <2>1, <2>2
  <2>5. EatByte(EatByte(c[0], s[1]), {}) = EatByte(EatByte(c[0], t[1]), {})
    BY <2>4
  <2>6. {} \in Bytes
    BY DEF Bytes
  <2>7. s[1] = t[1]
    BY <2>2, <2>3, <2>5, <2>6, TwoBytes
  <2>8. \A i \in 1..len : i # 1 => i \notin {k, k + 1}
    BY <1>0, <1>13
  <2> QED BY <1>5, <2>7, <2>8 DEF len
<1>14. CASE \A i \in 1..len : i \notin {k, k + 1}
  BY <1>5, <1>14 DEF len
<1>15. \/ k \in 1..len /\ k + 1 \in 1..len
       \/ k \in 1..len /\ k = len
       \/ k = 0 /\ 1 \in 1..len
       \/ \A i \in 1..len : i \notin {k, k + 1}
  BY <1>0
<1> QED BY <1>11, <1>12, <1>13, <1>14, <1>15

\* Two bytes give different checksums whatever they are (crc16CcittFalse), and no byte
\* that follows makes two checksums equal again.
THEOREM TwoBytesDo == TwoBytesTellApart
<1> DEFINE Sums == {Crc16CcittFalse(<<a, b>>) : a \in Bytes, b \in Bytes}
           Sum == [p \in Bytes \X Bytes |-> Crc16CcittFalse(p)]
           Nexts == {EatByte(crc, {}) : crc \in Words}
           Eat == [crc \in Words |-> EatByte(crc, {})]
<1>1. IsFiniteSet(Bytes) /\ IsFiniteSet(Words)
  <2>1. \A n \in Int : IsFiniteSet(0..n)
    BY FS_Interval
  <2>2. ASSUME NEW S, IsFiniteSet(S) PROVE IsFiniteSet(SUBSET S)
    BY <2>2, FS_SUBSET, Zenon
  <2>3. 7 \in Int /\ 15 \in Int
    OBVIOUS
  <2>4. IsFiniteSet(0..7) /\ IsFiniteSet(0..15)
    BY <2>1, <2>3, Zenon
  <2> QED BY <2>2, <2>4, Zenon DEF Bytes, Words
<1>2. Cardinality(Sums) = Cardinality(Bytes \X Bytes)
  <2>1. IsFiniteSet(Bytes \X Bytes)
    BY <1>1, FS_Product
  <2>2. Sum \in Surjection(Bytes \X Bytes, Sums)
    <3>1. ASSUME NEW p \in Bytes \X Bytes PROVE Sum[p] \in Sums
      <4>1. PICK a \in Bytes, b \in Bytes : p = <<a, b>>
        OBVIOUS
      <4> QED BY <4>1
    <3>2. ASSUME NEW v \in Sums PROVE \E p \in Bytes \X Bytes : Sum[p] = v
      <4>1. PICK a \in Bytes, b \in Bytes : v = Crc16CcittFalse(<<a, b>>)
        OBVIOUS
      <4>2. <<a, b>> \in Bytes \X Bytes
        OBVIOUS
      <4> QED BY <4>1, <4>2
    <3> HIDE DEF Sums
    <3> QED BY <3>1, <3>2 DEF Surjection
  <2>3. Sum \in Injection(Bytes \X Bytes, Sums)
    <3>1. ASSUME NEW p \in Bytes \X Bytes, NEW q \in Bytes \X Bytes, Sum[p] = Sum[q]
          PROVE  p = q
      <4> SUFFICES ASSUME p # q PROVE FALSE
        OBVIOUS
      <4>1. \A r \in Bytes \X Bytes : r \in Seq(Bytes) /\ Len(r) = 2
        <5> SUFFICES ASSUME NEW a \in Bytes, NEW b \in Bytes
                     PROVE  <<a, b>> \in Seq(Bytes) /\ Len(<<a, b>>) = 2
          OBVIOUS
        <5> QED OBVIOUS
      <4>2. \A i \in (1..Len(p)) \ {1, 1 + 1} : p[i] = q[i]
        <5>1. Len(p) = 2
          BY <4>1
        <5> QED BY <5>1
      <4>3. Crc16CcittFalse(p) # Crc16CcittFalse(q)
        BY <4>1, <4>2, NeighboursTellApart
      <4> QED BY <3>1, <4>3
    <3>2. DOMAIN Sum = Bytes \X Bytes
      OBVIOUS
    <3> HIDE DEF Sum, Sums
    <3>3. Sum \in [Bytes \X Bytes -> Sums]
      BY <2>2 DEF Surjection
    <3> QED BY <3>1, <3>2, <3>3 DEF Injection, IsInjective
  <2> HIDE DEF Sum, Sums
  <2> QED BY <2>1, <2>2, <2>3, FS_Surjection
<1>3. Cardinality(Nexts) = Cardinality(Words)
  <2>1. Eat \in Surjection(Words, Nexts)
    BY DEF Surjection
  <2>2. Eat \in Injection(Words, Nexts)
    <3>1. {} \in Bytes
      BY DEF Bytes
    <3>2. \A v, w \in Words : EatByte(v, {}) = EatByte(w, {}) => v = w
      BY <3>1, EatByteTellsApart
    <3>3. Eat \in [Words -> Nexts] /\ DOMAIN Eat = Words
      BY <2>1 DEF Surjection
    <3>4. IsInjective(Eat)
      BY <3>2 DEF IsInjective
    <3> HIDE DEF Eat, Nexts
    <3> QED BY <3>3, <3>4 DEF Injection
  <2> HIDE DEF Eat, Nexts
  <2> QED BY <1>1, <2>1, <2>2, FS_Surjection
<1> QED BY <1>2, <1>3 DEF TwoBytesTellApart

\* Where the reader takes a line for the frame that was sent because the checksum
\* matches, no change of two bytes side by side can have gone unnoticed
\* (crc16CcittFalse).
THEOREM ChecksumAlwaysTellsApart == Spec => []ChecksumTellsApart
<1>1. ChecksumTellsApart
  BY TwoBytesDo DEF ChecksumTellsApart
<1> QED BY <1>1, PTL
=============================================================================
