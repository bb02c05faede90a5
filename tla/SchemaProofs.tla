---------------------------- MODULE SchemaProofs ----------------------------
(***************************************************************************)
(* Proofs about Schema for any width of a FieldOffset, any schemas, values *)
(* and sizes of the buffer that are not so long that a FieldOffset can     *)
(* wrap around to a number which looks right.                              *)
(***************************************************************************)
EXTENDS Schema, FiniteSetTheorems, WellFoundedInduction, TLAPS

-----------------------------------------------------------------------------
(***************************************************************************)
(* Induction, with a set in place of a predicate.                          *)
(***************************************************************************)
LEMMA Least ==
  ASSUME NEW S, S \subseteq Nat, S # {}
  PROVE  \E x \in S : \A y \in S : x <= y
<1> DEFINE R == {ss \in Nat \X Nat : ss[1] < ss[2]}
<1>1. IsWellFoundedOn(R, Nat)
  BY NatLessThanWellFounded, Zenon DEF OpToRel
<1>2. PICK x \in S : \A y \in S : ~(<<y, x>> \in R)
  BY <1>1, WFMin, Zenon
<1>3. ASSUME NEW y \in S PROVE x <= y
  <2>1. <<y, x>> \in Nat \X Nat /\ <<y, x>>[1] = y /\ <<y, x>>[2] = x
    OBVIOUS
  <2>2. ~(y < x)
    BY <1>2, <2>1, Zenon
  <2> QED BY <2>2
<1> QED BY <1>3

LEMMA UpTo ==
  ASSUME NEW n \in Nat, NEW S, 0 \in S, \A k \in 1 .. n : k - 1 \in S => k \in S
  PROVE  \A k \in 0 .. n : k \in S
<1> DEFINE bad == {k \in 0 .. n : k \notin S}
<1>1. CASE bad = {}
  BY <1>1
<1>2. CASE bad # {}
  <2>1. bad \subseteq Nat
    OBVIOUS
  <2>2. PICK x \in bad : \A y \in bad : x <= y
    BY <1>2, <2>1, Least, Zenon
  <2>3. x # 0 /\ x \in 1 .. n /\ x - 1 \in 0 .. n
    BY <2>2
  <2>4. x - 1 \in S
    BY <2>2, <2>3
  <2> QED BY <2>2, <2>3, <2>4
<1> QED BY <1>1, <1>2

-----------------------------------------------------------------------------
(***************************************************************************)
(* FieldOffsets and alignment.                                             *)
(***************************************************************************)
LEMMA Half == MaxOffset \in Nat /\ OffMod = 2 * MaxOffset + 2
BY SchemaAssumption DEF MaxOffset

\* A number in the range of a FieldOffset is kept, one not far above it becomes
\* negative.
LEMMA Keeps ==
  ASSUME NEW n \in Int, 0 - MaxOffset - 1 <= n, n <= MaxOffset
  PROVE  FieldOffset(n) = n
<1> DEFINE x == n + MaxOffset + 1
<1>1. OffMod \div 2 = MaxOffset + 1 /\ OffMod \in Nat /\ OffMod > 0
  BY SchemaAssumption DEF MaxOffset
<1>2. x \in Nat /\ x < OffMod
  BY Half
<1>3. x % OffMod = x
  BY <1>1, <1>2
<1>4. FieldOffset(n) = (x % OffMod) - (MaxOffset + 1)
  <2>1. n + (MaxOffset + 1) = x
    BY Half
  <2> QED BY <1>1, <2>1 DEF FieldOffset
<1> QED BY <1>2, <1>3, <1>4, Half

LEMMA Wraps ==
  ASSUME NEW n \in Int, MaxOffset < n, n <= 3 * MaxOffset + 2
  PROVE  FieldOffset(n) = n - OffMod
<1> DEFINE x == n + MaxOffset + 1
<1>1. OffMod \div 2 = MaxOffset + 1 /\ OffMod \in Nat /\ OffMod > 0
  BY SchemaAssumption DEF MaxOffset
<1>2. x \in Nat /\ OffMod <= x /\ x < 2 * OffMod
  BY Half
<1>3. x % OffMod = x - OffMod
  BY <1>1, <1>2
<1>4. FieldOffset(n) = (x % OffMod) - (MaxOffset + 1)
  <2>1. n + (MaxOffset + 1) = x
    BY Half
  <2> QED BY <1>1, <2>1 DEF FieldOffset
<1> QED BY <1>2, <1>3, <1>4, Half

LEMMA Multiple ==
  ASSUME NEW a \in Nat \ {0}, NEW q \in Int
  PROVE  (q * a) % a = 0
<1> DEFINE r == (q * a) % a
           d == (q * a) \div a
<1>1. r \in 0 .. a - 1 /\ d \in Int /\ q * a = d * a + r
  OBVIOUS
<1> HIDE DEF r, d
<1>2. r = (q - d) * a
  BY <1>1
<1>3. q - d \in Int /\ (q - d >= 1 => (q - d) * a >= a) /\ (q - d <= -1 => (q - d) * a <= -a)
  BY <1>1
<1>4. q - d = 0
  BY <1>1, <1>2, <1>3
<1> QED BY <1>2, <1>4, <1>1 DEF r

LEMMA Aligned ==
  ASSUME NEW a \in Nat \ {0}, NEW n \in Int
  PROVE  /\ AlignUp(a, n) \in Int
         /\ n <= AlignUp(a, n) /\ AlignUp(a, n) <= n + a - 1
         /\ AlignUp(a, n) % a = 0
<1> DEFINE q == (n + a - 1) \div a
<1>1. q \in Int /\ q * a <= n + a - 1 /\ n + a - 1 < q * a + a
  OBVIOUS
<1>2. AlignUp(a, n) = q * a
  BY DEF AlignUp
<1> HIDE DEF q
<1>3. (q * a) % a = 0
  BY <1>1, Multiple
<1> QED BY <1>1, <1>2, <1>3

LEMMA AlignedZero == ASSUME NEW a \in Nat \ {0} PROVE AlignUp(a, 0) = 0
<1>1. AlignUp(a, 0) \in 0 .. a - 1 /\ AlignUp(a, 0) % a = 0
  BY Aligned
<1>2. ASSUME NEW x \in 0 .. a - 1 PROVE x % a = x
  OBVIOUS
<1> QED BY <1>1, <1>2

-----------------------------------------------------------------------------
(***************************************************************************)
(* The fields of a schema.                                                 *)
(***************************************************************************)
L == Len(field)

LEMMA FieldFacts ==
  ASSUME field \in Schemas
  PROVE  /\ L \in Nat /\ L >= 1 /\ FieldIds = 1 .. L
         /\ \A i \in FieldIds : /\ field[i].varlen \in BOOLEAN /\ field[i].nullable \in BOOLEAN
                                /\ field[i].typlen \in Nat /\ field[i].typalign \in Nat \ {0}
<1>1. field \in Seq(Fields) /\ field # <<>>
  BY SchemaAssumption
<1>2. L \in Nat /\ L >= 1 /\ FieldIds = 1 .. L
  BY <1>1 DEF L, FieldIds
<1>3. \A i \in 1 .. L : field[i] \in Fields
  BY <1>1 DEF L
<1> QED BY <1>2, <1>3 DEF Fields

\* Alignment of an offset either stays in range or becomes negative, even with
\* the bytes before the payload added.
LEMMA AlignedOffset ==
  ASSUME NEW a \in Nat \ {0}, NEW off \in 0 .. MaxOffset, a <= MaxOffset + 2
  PROVE  /\ AlignUp(a, off) \in Nat /\ off <= AlignUp(a, off) /\ AlignUp(a, off) % a = 0
         /\ \/ AlignUp(a, off) <= MaxOffset /\ TYPEALIGN(a, off) = AlignUp(a, off)
            \/ /\ AlignUp(a, off) > MaxOffset
               /\ TYPEALIGN(a, off) \in Int /\ TYPEALIGN(a, off) + MaxOffset + 3 <= a
<1> PICK x : x = AlignUp(a, off)
  OBVIOUS
<1>1. x \in Int /\ off <= x /\ x <= off + a - 1 /\ x % a = 0
  BY Aligned, Half
<1>2. CASE x <= MaxOffset
  <2>1. FieldOffset(x) = x
    BY <1>1, <1>2, Keeps, Half
  <2> QED BY <1>1, <1>2, <2>1, Half DEF TYPEALIGN
<1>3. CASE x > MaxOffset
  <2>1. FieldOffset(x) = x - OffMod
    BY <1>1, <1>3, Wraps, Half
  <2> QED BY <1>1, <1>3, <2>1, Half DEF TYPEALIGN
<1> QED BY <1>1, <1>2, <1>3, Half

LEMMA AlignedKept ==
  ASSUME NEW a \in Nat \ {0}, NEW off \in 0 .. MaxOffset, a <= MaxOffset + 2,
         TYPEALIGN(a, off) >= 0
  PROVE  /\ TYPEALIGN(a, off) \in off .. MaxOffset /\ TYPEALIGN(a, off) \in 0 .. MaxOffset
         /\ TYPEALIGN(a, off) = AlignUp(a, off)
         /\ TYPEALIGN(a, off) % a = 0
<1> PICK x : x = TYPEALIGN(a, off)
  OBVIOUS
<1> PICK y : y = AlignUp(a, off)
  OBVIOUS
<1>1. /\ y \in Nat /\ off <= y /\ y % a = 0
      /\ \/ y <= MaxOffset /\ x = y
         \/ x \in Int /\ x + MaxOffset + 3 <= a
  BY AlignedOffset
<1>2. x = y /\ y <= MaxOffset
  BY <1>1, Half
<1> QED BY <1>1, <1>2, Half

LEMMA Added ==
  ASSUME NEW off \in 0 .. MaxOffset, NEW n \in 0 .. MaxOffset
  PROVE  \/ off + n <= MaxOffset /\ AddWithCheck(off, n) = off + n
         \/ off + n > MaxOffset /\ AddWithCheck(off, n) = -1
<1>1. FieldOffset(n) = n
  BY Keeps, Half
<1>2. CASE off + n <= MaxOffset
  <2>1. FieldOffset(off + n) = off + n
    BY <1>2, Keeps, Half
  <2> QED BY <1>1, <1>2, <2>1, Half DEF AddWithCheck
<1>3. CASE off + n > MaxOffset
  BY <1>1, <1>3, Half DEF AddWithCheck
<1> QED BY <1>2, <1>3, Half

-----------------------------------------------------------------------------
(***************************************************************************)
(* The layout.                                                             *)
(***************************************************************************)
\* The recursion that defines FixedEnd has a solution.
LEMMA FixedEndExists ==
  ASSUME field \in Schemas
  PROVE  FixedEnd = [i \in 0 .. L |-> IF i = 0 THEN 0 ELSE AddField(i, FixedEnd[i - 1])]
<1> DEFINE G(n, f) == f = [i \in 0 .. n |-> IF i = 0 THEN 0 ELSE AddField(i, f[i - 1])]
           S == {n \in Nat : \E f : G(n, f)}
<1>1. L \in Nat
  BY FieldFacts
<1>2. 0 \in S
  <2>1. G(0, [i \in 0 .. 0 |-> 0])
    OBVIOUS
  <2> QED BY <2>1
<1>3. ASSUME NEW k \in 1 .. L, k - 1 \in S PROVE k \in S
  <2>1. PICK f : G(k - 1, f)
    BY <1>3
  <2> DEFINE g == [i \in 0 .. k |-> IF i = k THEN AddField(k, f[k - 1]) ELSE f[i]]
  <2>2. ASSUME NEW i \in 0 .. k
        PROVE  g[i] = IF i = 0 THEN 0 ELSE AddField(i, g[i - 1])
    <3>1. CASE i = k
      BY <3>1
    <3>2. CASE i # k
      <4>1. i \in 0 .. k - 1 /\ g[i] = f[i] /\ (i # 0 => g[i - 1] = f[i - 1])
        BY <3>2
      <4>2. f[i] = IF i = 0 THEN 0 ELSE AddField(i, f[i - 1])
        BY <2>1, <4>1
      <4> QED BY <4>1, <4>2
    <3> QED BY <3>1, <3>2
  <2>3. G(k, g)
    BY <2>2
  <2>4. k \in Nat
    BY <1>1
  <2> HIDE DEF g, G
  <2> QED BY <2>3, <2>4
<1>4. L \in S
  <2> HIDE DEF S
  <2>1. \A k \in 0 .. L : k \in S
    BY <1>1, <1>2, <1>3, UpTo
  <2> QED BY <1>1, <2>1
<1>5. \E f : G(L, f)
  BY <1>4
<1>6. G(L, CHOOSE f : G(L, f))
  BY <1>5, Zenon
<1>7. FixedEnd = CHOOSE f : G(L, f)
  BY DEF FixedEnd, L
<1> QED BY <1>6, <1>7, Zenon

LEMMA FixedEndStep ==
  ASSUME field \in Schemas
  PROVE  FixedEnd[0] = 0 /\ \A i \in 1 .. L : FixedEnd[i] = AddField(i, FixedEnd[i - 1])
BY FixedEndExists, FieldFacts

\* One field of the first pass: it begins aligned behind the fields before it.
LEMMA FieldAdded ==
  ASSUME field \in Schemas, LayoutsSmall, NEW i \in 1 .. L, NEW off \in -1 .. MaxOffset
  PROVE  /\ AddField(i, off) \in -1 .. MaxOffset
         /\ off < 0 => AddField(i, off) < 0
         /\ AddField(i, off) >= 0 =>
              /\ off >= 0 /\ off <= AddField(i, off)
              /\ i \in NonNullableFixed =>
                   /\ FixedBegin(i, off) \in Nat /\ off <= FixedBegin(i, off)
                   /\ FixedBegin(i, off) % field[i].typalign = 0
                   /\ AddField(i, off) = FixedBegin(i, off) + field[i].typlen
<1>1. /\ i \in FieldIds /\ field[i].typlen \in 0 .. MaxOffset
      /\ field[i].typalign \in Nat \ {0} /\ field[i].typalign <= MaxOffset + 2
  BY FieldFacts, SchemaAssumption, Half DEF LayoutsSmall, FieldIds
<1>2. CASE i \notin NonNullableFixed \/ off < 0
  BY <1>2, Half DEF AddField
<1>3. CASE i \in NonNullableFixed /\ off >= 0
  <2> DEFINE b == FixedBegin(i, off)
  <2>1. off \in 0 .. MaxOffset
    BY <1>3, Half
  <2>2. b = TYPEALIGN(field[i].typalign, off)
    BY DEF FixedBegin
  <2>3. \/ b \in Int /\ b < 0
        \/ b \in 0 .. MaxOffset /\ off <= b /\ b % field[i].typalign = 0
    BY <1>1, <2>1, <2>2, AlignedOffset, Half
  <2>4. AddField(i, off) = IF b < 0 THEN -1 ELSE AddWithCheck(b, field[i].typlen)
    BY <1>3, <2>1, Half DEF AddField
  <2> HIDE DEF b
  <2>5. CASE b < 0
    BY <2>1, <2>4, <2>5, Half
  <2>6. CASE b \in 0 .. MaxOffset /\ off <= b /\ b % field[i].typalign = 0
    <3>1. \/ b + field[i].typlen <= MaxOffset /\ AddField(i, off) = b + field[i].typlen
          \/ AddField(i, off) = -1
      BY <1>1, <2>4, <2>6, Added, Half
    <3> QED BY <1>1, <2>1, <2>6, <3>1, Half DEF b
  <2> QED BY <2>3, <2>5, <2>6
<1> QED BY <1>2, <1>3, Half

\* After an overflow the end stays negative, before it the ends grow.
LEMMA FixedEndGrows ==
  ASSUME field \in Schemas, LayoutsSmall
  PROVE  \A j \in 0 .. L :
           /\ FixedEnd[j] \in -1 .. MaxOffset
           /\ FixedEnd[j] >= 0 => \A i \in 0 .. j : FixedEnd[i] \in 0 .. FixedEnd[j]
<1> DEFINE S == {j \in 0 .. L :
                   /\ FixedEnd[j] \in -1 .. MaxOffset
                   /\ FixedEnd[j] >= 0 =>
                        \A i \in 0 .. j : FixedEnd[i] \in 0 .. FixedEnd[j]}
<1>1. L \in Nat
  BY FieldFacts
<1>2. 0 \in S
  BY <1>1, FixedEndStep, Half
<1>3. ASSUME NEW k \in 1 .. L, k - 1 \in S PROVE k \in S
  <2>1. /\ FixedEnd[k - 1] \in -1 .. MaxOffset
        /\ FixedEnd[k - 1] >= 0 =>
             \A i \in 0 .. k - 1 : FixedEnd[i] \in 0 .. FixedEnd[k - 1]
    BY <1>3
  <2>2. FixedEnd[k] = AddField(k, FixedEnd[k - 1])
    BY FixedEndStep
  <2>3. /\ FixedEnd[k] \in -1 .. MaxOffset
        /\ FixedEnd[k] >= 0 => FixedEnd[k - 1] >= 0 /\ FixedEnd[k - 1] <= FixedEnd[k]
    BY <2>1, <2>2, FieldAdded
  <2>4. \A i \in 0 .. k : i \in 0 .. k - 1 \/ i = k
    BY <1>1
  <2>5. ASSUME FixedEnd[k] >= 0, NEW i \in 0 .. k
        PROVE  FixedEnd[i] \in 0 .. FixedEnd[k]
    <3>1. CASE i = k
      BY <2>3, <2>5, <3>1, Half
    <3>2. CASE i \in 0 .. k - 1
      <4>1. FixedEnd[i] \in 0 .. FixedEnd[k - 1]
        BY <2>1, <2>3, <2>5, <3>2
      <4> QED BY <2>1, <2>3, <2>5, <4>1, Half
    <3> QED BY <2>4, <3>1, <3>2
  <2>6. k \in 0 .. L
    BY <1>1
  <2> QED BY <2>3, <2>5, <2>6
<1> HIDE DEF S
<1>4. \A k \in 0 .. L : k \in S
  BY <1>1, <1>2, <1>3, UpTo
<1> QED BY <1>4 DEF S

LEMMA Counted ==
  ASSUME field \in Schemas, NEW S \in SUBSET FieldIds
  PROVE  IsFiniteSet(S) /\ Cardinality(S) \in 0 .. L
<1>1. L \in Nat /\ L >= 1 /\ FieldIds = 1 .. L
  BY FieldFacts
<1>2. IsFiniteSet(1 .. L) /\ Cardinality(1 .. L) = L
  BY <1>1, FS_Interval
<1>3. IsFiniteSet(S) /\ Cardinality(S) <= L
  BY <1>1, <1>2, FS_Subset
<1>4. Cardinality(S) \in Nat
  BY <1>3, FS_CardinalityType
<1> QED BY <1>1, <1>3, <1>4

LEMMA Nullables ==
  ASSUME field \in Schemas
  PROVE  /\ Cardinality(NullableFixed) \in Nat /\ Cardinality(NullableVarlen) \in Nat
         /\ NumNullable \in 0 .. L
<1>1. NullableFixed \in SUBSET FieldIds /\ NullableVarlen \in SUBSET FieldIds
  BY DEF NullableFixed, NullableVarlen, Varlen
<1>2. NullableFixed \cap NullableVarlen = {}
  BY DEF NullableFixed, NullableVarlen, Varlen
<1>3. /\ IsFiniteSet(FieldIds) /\ Cardinality(FieldIds) \in 0 .. L
      /\ Cardinality(NullableFixed) \in Nat /\ Cardinality(NullableVarlen) \in Nat
  BY <1>1, Counted
<1>4. ~(Cardinality(NullableFixed) + Cardinality(NullableVarlen) > Cardinality(FieldIds))
  BY <1>1, <1>2, <1>3, FS_MajoritiesIntersect
<1> QED BY <1>3, <1>4, FieldFacts DEF NumNullable

LEMMA HeaderSmall ==
  ASSUME field \in Schemas, LayoutsSmall
  PROVE  BitmapSize \in 0 .. MaxOffset /\ OffsetSize * Cardinality(Varlen) \in 0 .. MaxOffset
<1>1. OffsetSize \in Nat \ {0} /\ ByteBits \in Nat \ {0} /\ L \in Nat
  BY SchemaAssumption, FieldFacts
<1>2. OffsetSize * L <= MaxOffset
  BY DEF LayoutsSmall, L
<1>3. ASSUME NEW c \in 0 .. L PROVE c <= OffsetSize * c /\ OffsetSize * c <= OffsetSize * L
  BY <1>1
<1>4. Cardinality(Varlen) \in 0 .. L
  BY Counted DEF Varlen
<1>5. OffsetSize * Cardinality(Varlen) \in 0 .. MaxOffset
  BY <1>1, <1>2, <1>3, <1>4, Half
<1>6. L <= MaxOffset
  BY <1>1, <1>2, <1>3, Half
<1>7. ASSUME NEW n \in Nat PROVE (n + ByteBits - 1) \div ByteBits \in 0 .. n
  <2> DEFINE q == (n + ByteBits - 1) \div ByteBits
  <2>1. q \in Nat /\ q * ByteBits <= n + ByteBits - 1
    BY <1>1
  <2> HIDE DEF q
  <2>2. ASSUME q >= n + 1 PROVE FALSE
    <3>1. q * ByteBits >= (n + 1) * ByteBits
      BY <1>1, <2>1, <2>2
    <3>2. n * ByteBits >= n /\ (n + 1) * ByteBits = n * ByteBits + ByteBits
      BY <1>1
    <3> QED BY <1>1, <2>1, <3>1, <3>2
  <2> QED BY <2>1, <2>2 DEF q
<1> QED BY <1>5, <1>6, <1>7, Nullables, Half, <1>1 DEF BitmapSize

\* A layout that fits: the fixed-length fields that are not nullable follow each
\* other, and the null bitmap and the end array follow them.
LEMMA LayoutPlaces ==
  ASSUME field \in Schemas, LayoutsSmall, LayoutFits
  PROVE  /\ PayloadBegin \in 0 .. MaxOffset
         /\ BitmapBegin \in 0 .. PayloadBegin
         /\ \A i \in NonNullableFixed :
              /\ FixedBegin(i, FixedEnd[i - 1]) \in Nat
              /\ FixedBegin(i, FixedEnd[i - 1]) % field[i].typalign = 0
              /\ FixedBegin(i, FixedEnd[i - 1]) + field[i].typlen <= BitmapBegin
              /\ \A j \in NonNullableFixed : i < j =>
                   FixedBegin(i, FixedEnd[i - 1]) + field[i].typlen
                     <= FixedBegin(j, FixedEnd[j - 1])
<1>1. L \in Nat /\ L >= 1 /\ FieldIds = 1 .. L
  BY FieldFacts
<1>2. BitmapBegin = FixedEnd[L] /\ BitmapBegin \in 0 .. MaxOffset
  <2>1. BitmapBegin = FixedEnd[L]
    BY DEF BitmapBegin, L
  <2>2. BitmapBegin >= 0
    BY DEF LayoutFits
  <2> QED BY <1>1, <2>1, <2>2, FixedEndGrows, Half
<1>3. \A i \in 0 .. L : FixedEnd[i] \in 0 .. FixedEnd[L]
  BY <1>1, <1>2, FixedEndGrows, Half
<1>4. \A j \in 0 .. L : \A i \in 0 .. j : FixedEnd[i] \in 0 .. FixedEnd[j]
  BY <1>1, <1>3, FixedEndGrows, Half
<1>5. ASSUME NEW i \in NonNullableFixed
      PROVE  /\ i \in 1 .. L /\ field[i].typlen \in Nat
             /\ FixedBegin(i, FixedEnd[i - 1]) \in Nat
             /\ FixedEnd[i - 1] <= FixedBegin(i, FixedEnd[i - 1])
             /\ FixedBegin(i, FixedEnd[i - 1]) % field[i].typalign = 0
             /\ FixedEnd[i] = FixedBegin(i, FixedEnd[i - 1]) + field[i].typlen
  <2>1. i \in 1 .. L /\ i - 1 \in 0 .. L
    BY <1>1 DEF NonNullableFixed
  <2>2. FixedEnd[i] = AddField(i, FixedEnd[i - 1])
    BY <2>1, FixedEndStep
  <2>3. FixedEnd[i - 1] \in -1 .. MaxOffset /\ FixedEnd[i] >= 0
    BY <1>2, <1>3, <2>1, FixedEndGrows
  <2> QED BY <1>1, <2>1, <2>2, <2>3, FieldAdded, FieldFacts
<1>6. ASSUME NEW i \in NonNullableFixed
      PROVE  FixedBegin(i, FixedEnd[i - 1]) + field[i].typlen <= BitmapBegin
  BY <1>2, <1>3, <1>5
<1>7. ASSUME NEW i \in NonNullableFixed, NEW j \in NonNullableFixed, i < j
      PROVE  FixedBegin(i, FixedEnd[i - 1]) + field[i].typlen <= FixedBegin(j, FixedEnd[j - 1])
  <2>1. i \in 0 .. j - 1 /\ j - 1 \in 0 .. L
    BY <1>1, <1>5, <1>7
  <2>2. FixedEnd[i] \in 0 .. FixedEnd[j - 1] /\ FixedEnd[j - 1] \in 0 .. FixedEnd[L]
    BY <1>3, <1>4, <2>1
  <2>3. /\ FixedEnd[j - 1] <= FixedBegin(j, FixedEnd[j - 1])
        /\ FixedBegin(j, FixedEnd[j - 1]) \in Nat
        /\ FixedEnd[i] = FixedBegin(i, FixedEnd[i - 1]) + field[i].typlen
    BY <1>5
  <2> QED BY <1>2, <2>2, <2>3, Half
<1>8. PayloadBegin \in 0 .. MaxOffset /\ BitmapBegin <= PayloadBegin
  <2>1. CASE NonNullableFixed = FieldIds
    <3>1. PayloadBegin = TYPEALIGN(MaxAlignOf, BitmapBegin) /\ PayloadBegin >= 0
      BY <2>1 DEF PayloadBegin, LayoutFits
    <3>2. MaxAlignOf \in Nat \ {0} /\ MaxAlignOf <= MaxOffset + 2
      BY SchemaAssumption DEF LayoutsSmall
    <3> HIDE DEF PayloadBegin, BitmapBegin
    <3> QED BY <1>2, <3>1, <3>2, AlignedKept
  <2>2. CASE NonNullableFixed # FieldIds
    <3>1. /\ PayloadBegin = VarlenBegin
          /\ BitmapEnd >= 0 /\ EndArrayBegin >= 0 /\ VarlenBegin >= 0
      BY <2>2 DEF PayloadBegin, LayoutFits
    <3>2. BitmapSize \in 0 .. MaxOffset /\ OffsetSize * Cardinality(Varlen) \in 0 .. MaxOffset
      BY HeaderSmall
    <3>3. BitmapEnd \in BitmapBegin .. MaxOffset
      BY <1>2, <3>1, <3>2, Added, Half DEF BitmapEnd
    <3>4. EndArrayBegin \in BitmapEnd .. MaxOffset
      <4>1. BitmapEnd \in 0 .. MaxOffset /\ OffsetSize \in Nat \ {0} /\ OffsetSize <= MaxOffset + 2
        BY <1>2, <3>3, SchemaAssumption, Half DEF LayoutsSmall
      <4>2. EndArrayBegin = TYPEALIGN(OffsetSize, BitmapEnd)
        BY DEF EndArrayBegin
      <4> HIDE DEF EndArrayBegin, BitmapEnd
      <4> QED BY <3>1, <4>1, <4>2, AlignedKept
    <3>5. VarlenBegin \in EndArrayBegin .. MaxOffset
      <4>1. EndArrayBegin \in 0 .. MaxOffset
        BY <1>2, <3>3, <3>4, Half
      <4> QED BY <3>1, <3>2, <4>1, Added, Half DEF VarlenBegin
    <3> QED BY <1>2, <3>1, <3>3, <3>4, <3>5, Half
  <2> QED BY <2>1, <2>2
<1> QED BY <1>2, <1>5, <1>6, <1>7, <1>8, Half

-----------------------------------------------------------------------------
(***************************************************************************)
(* The null bits.                                                          *)
(***************************************************************************)
LEMMA IndexGrows ==
  ASSUME field \in Schemas, NEW S \in SUBSET FieldIds, NEW i \in S
  PROVE  /\ IndexIn(S, i) \in Nat /\ IndexIn(S, i) < Cardinality(S)
         /\ \A j \in S : i < j => IndexIn(S, i) < IndexIn(S, j)
<1> DEFINE before(j) == {k \in S : k < j}
<1>1. FieldIds \subseteq Nat
  BY FieldFacts
<1>2. \A j : before(j) \in SUBSET FieldIds /\ before(j) \in SUBSET S
  OBVIOUS
<1>3. /\ \A j : IsFiniteSet(before(j)) /\ Cardinality(before(j)) \in Nat
      /\ IsFiniteSet(S) /\ Cardinality(S) \in Nat
  BY <1>2, Counted
<1>4. \A j : IndexIn(S, j) = Cardinality(before(j))
  BY DEF IndexIn
<1>5. IndexIn(S, i) < Cardinality(S)
  <2>1. i \notin before(i)
    BY <1>1
  <2>2. Cardinality(before(i)) <= Cardinality(S) /\ Cardinality(before(i)) # Cardinality(S)
    BY <1>2, <1>3, <2>1, FS_Subset
  <2> QED BY <1>3, <1>4, <2>2
<1>6. ASSUME NEW j \in S, i < j PROVE IndexIn(S, i) < IndexIn(S, j)
  <2>1. i \in before(j) /\ i \notin before(i)
    BY <1>1, <1>6
  <2>2. before(i) \in SUBSET before(j)
    <3>1. \A k \in S : k \in Nat
      BY <1>1
    <3>2. ASSUME NEW k \in S, k < i PROVE k < j
      BY <1>6, <3>1, <3>2
    <3> QED BY <3>2
  <2>3. Cardinality(before(i)) <= Cardinality(before(j))
        /\ Cardinality(before(i)) # Cardinality(before(j))
    BY <1>3, <2>1, <2>2, FS_Subset
  <2> QED BY <1>3, <1>4, <2>3
<1> QED BY <1>3, <1>4, <1>5, <1>6

\* Where no nullable varlen field comes after one that is not, no two fields
\* have the same null bit, and all bits are in the bitmap.
LEMMA NullBits ==
  ASSUME field \in Schemas, NullableVarlenAhead,
         NEW i \in FieldIds, field[i].nullable
  PROVE  /\ NullbitId(i) \in 0 .. NumNullable - 1
         /\ \A j \in FieldIds : field[j].nullable /\ i # j => NullbitId(i) # NullbitId(j)
<1> DEFINE nv == Cardinality(NullableVarlen)
           nf == Cardinality(NullableFixed)
<1>1. NullableFixed \in SUBSET FieldIds /\ NullableVarlen \in SUBSET FieldIds /\ FieldIds \subseteq Nat
  BY FieldFacts DEF NullableFixed, NullableVarlen, Varlen
<1>2. nv \in Nat /\ nf \in Nat /\ NumNullable = nf + nv
  BY Nullables DEF NumNullable
<1>3. ASSUME NEW j \in FieldIds, field[j].nullable, field[j].varlen
      PROVE  j \in NullableVarlen /\ NullbitId(j) = IndexIn(NullableVarlen, j)
  <2>1. j \in NullableVarlen
    BY <1>3 DEF NullableVarlen, Varlen
  <2>2. \A k \in Varlen : k < j => k \in NullableVarlen
    BY <1>3 DEF NullableVarlenAhead, NullableVarlen, Varlen, FieldIds
  <2>3. {k \in Varlen : k < j} = {k \in NullableVarlen : k < j}
    BY <2>2 DEF NullableVarlen
  <2> QED BY <1>3, <2>1, <2>3 DEF NullbitId, IndexIn
<1>4. ASSUME NEW j \in FieldIds, field[j].nullable, ~field[j].varlen
      PROVE  j \in NullableFixed /\ NullbitId(j) = IndexIn(NullableFixed, j) + nv
  BY <1>4 DEF NullbitId, NullableFixed
<1>5. ASSUME NEW j \in FieldIds, field[j].nullable
      PROVE  IF field[j].varlen THEN NullbitId(j) \in 0 .. nv - 1
                                ELSE NullbitId(j) \in nv .. nf + nv - 1
  <2>1. CASE field[j].varlen
    <3>1. j \in NullableVarlen /\ NullbitId(j) = IndexIn(NullableVarlen, j)
      BY <1>3, <1>5, <2>1
    <3>2. IndexIn(NullableVarlen, j) \in Nat /\ IndexIn(NullableVarlen, j) < nv
      BY <1>1, <3>1, IndexGrows
    <3> QED BY <1>2, <2>1, <3>1, <3>2
  <2>2. CASE ~field[j].varlen
    <3>1. j \in NullableFixed /\ NullbitId(j) = IndexIn(NullableFixed, j) + nv
      BY <1>4, <1>5, <2>2
    <3>2. IndexIn(NullableFixed, j) \in Nat /\ IndexIn(NullableFixed, j) < nf
      BY <1>1, <3>1, IndexGrows
    <3> QED BY <1>2, <2>2, <3>1, <3>2
  <2> QED BY <2>1, <2>2
<1>6. ASSUME NEW j \in FieldIds, NEW k \in FieldIds, field[j].nullable, field[k].nullable, j < k
      PROVE  NullbitId(j) # NullbitId(k)
  <2>1. CASE field[j].varlen /\ field[k].varlen
    <3>1. /\ j \in NullableVarlen /\ NullbitId(j) = IndexIn(NullableVarlen, j)
          /\ k \in NullableVarlen /\ NullbitId(k) = IndexIn(NullableVarlen, k)
      BY <1>3, <1>6, <2>1
    <3>2. /\ IndexIn(NullableVarlen, j) \in Nat /\ IndexIn(NullableVarlen, k) \in Nat
          /\ IndexIn(NullableVarlen, j) < IndexIn(NullableVarlen, k)
      BY <1>1, <1>6, <3>1, IndexGrows
    <3> QED BY <3>1, <3>2
  <2>2. CASE ~field[j].varlen /\ ~field[k].varlen
    <3>1. /\ j \in NullableFixed /\ NullbitId(j) = IndexIn(NullableFixed, j) + nv
          /\ k \in NullableFixed /\ NullbitId(k) = IndexIn(NullableFixed, k) + nv
      BY <1>4, <1>6, <2>2
    <3>2. /\ IndexIn(NullableFixed, j) \in Nat /\ IndexIn(NullableFixed, k) \in Nat
          /\ IndexIn(NullableFixed, j) < IndexIn(NullableFixed, k)
      BY <1>1, <1>6, <3>1, IndexGrows
    <3> QED BY <1>2, <3>1, <3>2
  <2>3. CASE field[j].varlen # field[k].varlen
    <3>1. field[j].varlen \in BOOLEAN /\ field[k].varlen \in BOOLEAN
      BY FieldFacts
    <3>2. \/ NullbitId(j) \in 0 .. nv - 1 /\ NullbitId(k) \in nv .. nf + nv - 1
          \/ NullbitId(k) \in 0 .. nv - 1 /\ NullbitId(j) \in nv .. nf + nv - 1
      BY <1>5, <1>6, <2>3, <3>1, Zenon
    <3> QED BY <1>2, <3>2
  <2> QED BY <2>1, <2>2, <2>3
<1>7. NullbitId(i) \in 0 .. NumNullable - 1
  BY <1>2, <1>5
<1>8. \A j \in FieldIds : i # j => i < j \/ j < i
  BY <1>1
<1> QED BY <1>6, <1>7, <1>8

-----------------------------------------------------------------------------
(***************************************************************************)
(* Writing a record.  A run is the sequence of states after each field of  *)
(* Reorder: Good while the offsets are those of exact arithmetic, Bad when *)
(* an offset has wrapped around, which the next check finds.               *)
(***************************************************************************)
Rest == FieldIds \ NonNullableFixed
PlaceOf(i) == IF i \in Varlen THEN i ELSE L + i

SizeOf(v, i) == IF field[i].varlen THEN v[i] ELSE field[i].typlen

Writes ==
  [ok : BOOLEAN, off : Int, size : Int, begin : [FieldIds -> Int],
   ends : [FieldIds -> Int], nulls : SUBSET Int]

IsRun(W, v, h) ==
  /\ W[0] = WriteFixed(h)
  /\ \A k \in 1 .. 2 * L : W[k] = WriteField(W[k - 1], Reorder[k], v, h)

Bad(w, h) ==
  \/ ~w.ok
  \/ w.off \in (-MaxOffset - 1) .. -1 /\ h + w.off + MaxAlignOf <= 0

\* A record that ComputeLayout() and the check for nulls have let through.
Ready(v, header) ==
  /\ field \in Schemas /\ LayoutFits /\ layout.payload_begin = PayloadBegin
  /\ header \in HeaderSizes /\ v \in RecordsOf(field) /\ ~NullRejected(v)

LEMMA Places ==
  ASSUME field \in Schemas
  PROVE  /\ Rest = Varlen \cup NullableFixed /\ Varlen \cap NullableFixed = {}
         /\ NonNullableFixed \subseteq FieldIds
         /\ \A i \in Rest : PlaceOf(i) \in 1 .. 2 * L /\ Reorder[PlaceOf(i)] = i
         /\ \A k \in 1 .. 2 * L : \/ Reorder[k] = 0 /\ \A i \in Rest : PlaceOf(i) # k
                                  \/ Reorder[k] \in Rest /\ k = PlaceOf(Reorder[k])
         /\ \A i, j \in Rest : PlaceOf(i) = PlaceOf(j) => i = j
<1>1. L \in Nat /\ FieldIds = 1 .. L
  BY FieldFacts
<1>2. /\ Rest = Varlen \cup NullableFixed /\ Varlen \cap NullableFixed = {}
      /\ NonNullableFixed \subseteq FieldIds /\ Rest \subseteq 1 .. L
  BY <1>1, FieldFacts DEF Rest, NonNullableFixed, NullableFixed, Varlen
<1>3. Reorder = [k \in 1 .. 2 * L |->
                   IF k <= L THEN IF k \in Varlen THEN k ELSE 0
                   ELSE IF k - L \in NullableFixed THEN k - L ELSE 0]
  BY DEF Reorder, L
<1>4. ASSUME NEW i \in Rest
      PROVE  /\ PlaceOf(i) \in 1 .. 2 * L /\ Reorder[PlaceOf(i)] = i
             /\ IF i \in Varlen THEN PlaceOf(i) <= L ELSE PlaceOf(i) > L
  BY <1>1, <1>2, <1>3 DEF PlaceOf
<1>5. ASSUME NEW k \in 1 .. 2 * L
      PROVE  \/ Reorder[k] = 0 /\ \A i \in Rest : PlaceOf(i) # k
             \/ Reorder[k] \in Rest /\ k = PlaceOf(Reorder[k])
  <2>1. CASE k <= L
    <3>1. CASE k \in Varlen
      BY <1>1, <1>2, <1>3, <2>1, <3>1 DEF PlaceOf
    <3>2. CASE k \notin Varlen
      BY <1>1, <1>2, <1>3, <2>1, <3>2 DEF PlaceOf
    <3> QED BY <3>1, <3>2
  <2>2. CASE k > L
    <3>1. CASE k - L \in NullableFixed
      <4>1. Reorder[k] = k - L
        BY <1>1, <1>3, <2>2, <3>1
      <4>2. k - L \in Rest /\ k - L \notin Varlen /\ L + (k - L) = k
        BY <1>1, <1>2, <3>1
      <4> QED BY <4>1, <4>2 DEF PlaceOf
    <3>2. CASE k - L \notin NullableFixed
      <4>1. Reorder[k] = 0
        BY <1>1, <1>3, <2>2, <3>2
      <4>2. ASSUME NEW i \in Rest, PlaceOf(i) = k PROVE FALSE
        <5>1. i \notin Varlen /\ i \in Nat
          BY <1>1, <1>2, <1>4, <2>2, <4>2
        <5>2. k = L + i /\ i \in NullableFixed
          BY <1>2, <4>2, <5>1 DEF PlaceOf
        <5> QED BY <1>1, <3>2, <5>1, <5>2
      <4> QED BY <4>1, <4>2
    <3> QED BY <3>1, <3>2
  <2> QED BY <1>1, <2>1, <2>2
<1>6. ASSUME NEW i \in Rest, NEW j \in Rest, PlaceOf(i) = PlaceOf(j) PROVE i = j
  BY <1>4, <1>6, Zenon
<1> QED BY <1>2, <1>4, <1>5, <1>6

\* The recursion that defines Written has a solution.
LEMMA WrittenExists ==
  ASSUME field \in Schemas, NEW v, NEW h
  PROVE  \E W : IsRun(W, v, h) /\ Written(v, h) = W[2 * L]
<1> DEFINE step(w, k) == WriteField(w, Reorder[k], v, h)
           G(n, f) == f = [k \in 0 .. n |-> IF k = 0 THEN WriteFixed(h) ELSE step(f[k - 1], k)]
           S == {n \in Nat : \E f : G(n, f)}
           M == 2 * L
<1>1. L \in Nat /\ M \in Nat
  BY FieldFacts
<1>2. 0 \in S
  <2>1. G(0, [k \in 0 .. 0 |-> WriteFixed(h)])
    OBVIOUS
  <2> QED BY <2>1
<1>3. ASSUME NEW k \in 1 .. M, k - 1 \in S PROVE k \in S
  <2>1. PICK f : G(k - 1, f)
    BY <1>3
  <2> DEFINE g == [i \in 0 .. k |-> IF i = k THEN step(f[k - 1], k) ELSE f[i]]
  <2> HIDE DEF M
  <2>2. ASSUME NEW i \in 0 .. k
        PROVE  g[i] = IF i = 0 THEN WriteFixed(h) ELSE step(g[i - 1], i)
    <3> HIDE DEF step
    <3>1. CASE i = k
      BY <3>1
    <3>2. CASE i # k
      <4>1. i \in 0 .. k - 1 /\ g[i] = f[i] /\ (i # 0 => g[i - 1] = f[i - 1])
        BY <3>2
      <4>2. f[i] = IF i = 0 THEN WriteFixed(h) ELSE step(f[i - 1], i)
        BY <2>1, <4>1
      <4> QED BY <4>1, <4>2
    <3> QED BY <3>1, <3>2
  <2>3. G(k, g)
    <3> HIDE DEF step
    <3> QED BY <2>2
  <2>4. k \in Nat
    BY <1>1
  <2> HIDE DEF g, G
  <2> QED BY <2>3, <2>4
<1>4. M \in S
  <2> HIDE DEF S, M
  <2>1. \A k \in 0 .. M : k \in S
    BY <1>1, <1>2, <1>3, UpTo
  <2> QED BY <1>1, <2>1
<1>5. \E f : G(M, f)
  BY <1>4
<1>6. G(M, CHOOSE f : G(M, f))
  BY <1>5, Zenon
<1> DEFINE W == CHOOSE f : G(M, f)
<1>7. Written(v, h) = W[M]
  BY DEF Written, L
<1> HIDE DEF W
<1>8. W = [k \in 0 .. M |-> IF k = 0 THEN WriteFixed(h) ELSE step(W[k - 1], k)]
  BY <1>6, Zenon DEF W
<1>9. W[0] = WriteFixed(h) /\ \A k \in 1 .. M : W[k] = step(W[k - 1], k)
  <2> HIDE DEF step, M
  <2> QED BY <1>1, <1>8
<1> QED BY <1>7, <1>9 DEF IsRun

\* The payload begins MAXALIGNed behind the bytes in the buffer, and what is
\* written is short.
LEMMA ReadyFacts ==
  ASSUME LayoutsSmall, ValuesShort, NEW v, NEW header, Ready(v, header)
  PROVE  /\ header \in Nat /\ MaxAlignOf \in Nat \ {0}
         /\ AlignUp(MaxAlignOf, header) \in Nat /\ header <= AlignUp(MaxAlignOf, header)
         /\ AlignUp(MaxAlignOf, header) + MaxAlignOf <= MaxOffset + 1
         /\ TYPEALIGN(MaxAlignOf, header) = AlignUp(MaxAlignOf, header)
         /\ \A i \in FieldIds : /\ field[i].typalign \in Nat \ {0}
                                /\ field[i].typalign <= MaxAlignOf
         /\ \A i \in FieldIds : v[i] # Null =>
              /\ SizeOf(v, i) \in Nat /\ Value(v, i) = SizeOf(v, i)
              /\ Short(SizeOf(v, i), header)
<1>1. /\ field \in Schemas /\ header \in HeaderSizes /\ header \in Nat
      /\ v \in RecordsOf(field) /\ MaxAlignOf \in Nat \ {0}
  BY SchemaAssumption DEF Ready
<1>2. L >= 1 /\ FieldIds = 1 .. L /\ 1 \in DOMAIN field
  BY <1>1, FieldFacts DEF FieldIds
<1>3. /\ AlignUp(MaxAlignOf, header) \in Nat /\ header <= AlignUp(MaxAlignOf, header)
  BY <1>1, Aligned
<1>4. \A i \in FieldIds : /\ field[i].typlen \in Nat /\ Short(field[i].typlen, header)
                          /\ field[i].typalign \in Nat \ {0}
                          /\ field[i].typalign <= MaxAlignOf
  BY <1>1, FieldFacts DEF ValuesShort, LayoutsSmall, FieldIds
<1>5. AlignUp(MaxAlignOf, header) + MaxAlignOf <= MaxOffset + 1
  <2>1. field[1].typlen \in Nat /\ Short(field[1].typlen, header)
    BY <1>2, <1>4 DEF FieldIds
  <2> QED BY <1>1, <1>3, <2>1, Half DEF Short
<1>6. TYPEALIGN(MaxAlignOf, header) = AlignUp(MaxAlignOf, header)
  BY <1>1, <1>3, <1>5, Keeps, Half DEF TYPEALIGN
<1>7. ASSUME NEW i \in FieldIds, v[i] # Null
      PROVE  /\ SizeOf(v, i) \in Nat /\ Value(v, i) = SizeOf(v, i)
             /\ Short(SizeOf(v, i), header)
  <2>1. CASE field[i].varlen
    <3>1. v[i] \in Sizes
      BY <1>1, <1>7 DEF RecordsOf, FieldIds
    <3>2. v[i] \in Nat /\ Short(v[i], header)
      BY <1>1, <3>1, SchemaAssumption DEF ValuesShort
    <3>3. v[i] <= MaxOffset
      BY <1>1, <1>3, <3>2, Half DEF Short
    <3>4. FieldOffset(v[i]) = v[i]
      BY <3>2, <3>3, Keeps, Half
    <3> QED BY <2>1, <3>2, <3>4 DEF SizeOf, Value
  <2>2. CASE ~field[i].varlen
    BY <1>4, <2>2 DEF SizeOf, Value
  <2> QED BY <2>1, <2>2
<1> QED BY <1>1, <1>3, <1>4, <1>5, <1>6, <1>7

LEMMA NullbitIsInt ==
  ASSUME field \in Schemas, NEW i \in FieldIds
  PROVE  NullbitId(i) \in Int
<1>1. ASSUME NEW S \in SUBSET FieldIds PROVE IndexIn(S, i) \in Int
  BY <1>1, Counted DEF IndexIn
<1>2. Varlen \in SUBSET FieldIds /\ NullableFixed \in SUBSET FieldIds
  BY DEF Varlen, NullableFixed
<1>3. Cardinality(NullableVarlen) \in Int
  BY Nullables
<1> QED BY <1>1, <1>2, <1>3 DEF NullbitId

\* What one field of Reorder changes when no offset wraps around.
Step(u, w, v, h, i) ==
  /\ w.ok /\ w.off \in u.off .. MaxOffset /\ w.size = h + w.off
  /\ \A j \in FieldIds : j # i => w.begin[j] = u.begin[j] /\ w.ends[j] = u.ends[j]
  /\ i \in Varlen => w.ends[i] = w.off
  /\ IF i = 0 \/ v[i] = Null
       THEN /\ w.off = u.off
            /\ w.nulls = IF i = 0 THEN u.nulls ELSE u.nulls \cup {NullbitId(i)}
       ELSE /\ w.begin[i] = AlignUp(field[i].typalign, u.off)
            /\ w.off = w.begin[i] + SizeOf(v, i)
            /\ w.nulls = u.nulls

TooLong(u, v, i) ==
  i # 0 /\ v[i] # Null /\ AlignUp(field[i].typalign, u.off) + SizeOf(v, i) > MaxOffset

\* One value, from a state whose offset is right: it is put behind the fields
\* before it, or the offset wraps around.
LEMMA ValueWritten ==
  ASSUME LayoutsSmall, ValuesShort, NEW v, NEW header, Ready(v, header),
         NEW h, h = AlignUp(MaxAlignOf, header),
         NEW w \in Writes, w.ok, w.off \in 0 .. MaxOffset, NEW i \in Rest, v[i] # Null,
         NEW w2, w2 = WriteValue(w, i, v, h)
  PROVE  w2 \in Writes /\ (Step(w, w2, v, h, i) \/ (Bad(w2, h) /\ TooLong(w, v, i)))
<1> DEFINE a == field[i].typalign
           n == SizeOf(v, i)
           o == w.off
           b == AlignUp(a, o)
           newoff == TYPEALIGN(a, o)
           end == newoff + n
<1> i \in FieldIds /\ 0 \notin FieldIds
  BY FieldFacts DEF Rest, Ready
<1>1. /\ h \in Nat /\ a \in Nat \ {0} /\ a <= MaxAlignOf /\ n \in Nat /\ MaxAlignOf \in Nat \ {0}
      /\ h + n + MaxAlignOf <= MaxOffset + 1
  BY ReadyFacts DEF Short
<1>2. w2 = IF Overflows(h + newoff) \/ Overflows(h + end)
             THEN [w EXCEPT !.ok = FALSE]
             ELSE [w EXCEPT !.off = FieldOffset(end),
                            !.size = end + h,
                            !.begin = [@ EXCEPT ![i] = newoff],
                            !.ends = IF field[i].varlen
                                       THEN [@ EXCEPT ![i] = FieldOffset(end)] ELSE @]
  BY ReadyFacts DEF WriteValue
<1>3. /\ b \in Nat /\ o <= b /\ b % a = 0
      /\ \/ b <= MaxOffset /\ newoff = b
         \/ /\ b > MaxOffset /\ newoff \in Int /\ newoff + MaxOffset + 3 <= a
  <2>1. a <= MaxOffset + 2
    BY <1>1, Half
  <2> QED BY <1>1, <2>1, AlignedOffset
<1> HIDE DEF a, n, o, b, newoff
<1>4. CASE b > MaxOffset /\ newoff \in Int /\ newoff + MaxOffset + 3 <= a
  <2>1. h + newoff < 0
    BY <1>1, <1>4, Half
  <2>2. w2 = [w EXCEPT !.ok = FALSE]
    BY <1>2, <2>1 DEF Overflows
  <2>3. w2 \in Writes /\ ~w2.ok
    BY <2>2 DEF Writes
  <2>4. b + n > MaxOffset
    BY <1>1, <1>3, <1>4, Half
  <2> QED BY <2>3, <2>4 DEF Bad, TooLong, a, n, o, b
<1>5. CASE b <= MaxOffset /\ newoff = b
  <2>1. end = b + n /\ h + newoff >= 0 /\ h + end >= 0 /\ end \in Int /\ end + h = h + end
    BY <1>1, <1>3, <1>5
  <2> DEFINE e == FieldOffset(end)
             ends2 == IF field[i].varlen THEN [w.ends EXCEPT ![i] = e] ELSE w.ends
  <2>2. w2 = [w EXCEPT !.off = e, !.size = h + end,
                       !.begin = [w.begin EXCEPT ![i] = b], !.ends = ends2]
    <3>1. ~Overflows(h + newoff) /\ ~Overflows(h + end)
      BY <1>1, <1>3, <1>5, <2>1 DEF Overflows
    <3>2. w \in [ok : BOOLEAN, off : Int, size : Int, begin : [FieldIds -> Int],
                 ends : [FieldIds -> Int], nulls : SUBSET Int]
      BY DEF Writes
    <3> HIDE DEF end
    <3> QED BY <1>2, <1>5, <2>1, <3>1, <3>2
  <2>3. e \in Int
    <3>1. CASE end <= MaxOffset
      BY <1>1, <1>3, <2>1, <3>1, Keeps, Half
    <3>2. CASE end > MaxOffset
      BY <1>1, <1>3, <1>5, <2>1, <3>2, Wraps, Half
    <3> QED BY <2>1, <3>1, <3>2, Half
  <2> HIDE DEF e, end
  <2>4. [w.begin EXCEPT ![i] = b] \in [FieldIds -> Int] /\ ends2 \in [FieldIds -> Int]
    BY <1>3, <2>3 DEF Writes
  <2> HIDE DEF ends2
  <2>5. /\ w2 \in Writes /\ w2.ok = w.ok /\ w2.off = e /\ w2.size = h + end /\ w2.nulls = w.nulls
        /\ w2.begin = [w.begin EXCEPT ![i] = b] /\ w2.ends = ends2
    <3>1. h + end \in Int
      BY <1>1, <2>1
    <3> QED BY <2>2, <2>3, <2>4, <3>1 DEF Writes
  <2>6. CASE end <= MaxOffset
    <3>1. e = end
      BY <1>1, <1>3, <2>1, <2>6, Keeps, Half DEF e
    <3>2. /\ w2.begin[i] = b /\ (field[i].varlen => w2.ends[i] = e)
          /\ \A j \in FieldIds : j # i => w2.begin[j] = w.begin[j] /\ w2.ends[j] = w.ends[j]
      BY <2>5 DEF ends2, Writes
    <3>3. w2.off \in w.off .. MaxOffset
      BY <1>1, <1>3, <2>1, <2>5, <2>6, <3>1, Half DEF o, Writes
    <3>4. w2.ok /\ w2.size = h + w2.off /\ i # 0
      BY <2>5, <3>1
    <3>5. i \in Varlen => w2.ends[i] = w2.off
      BY <2>5, <3>2 DEF Varlen
    <3>6. /\ w2.begin[i] = AlignUp(field[i].typalign, w.off)
          /\ w2.off = w2.begin[i] + SizeOf(v, i) /\ w2.nulls = w.nulls
      BY <2>1, <2>5, <3>1, <3>2 DEF a, n, o, b
    <3> QED BY <2>5, <3>2, <3>3, <3>4, <3>5, <3>6 DEF Step
  <2>7. CASE end > MaxOffset
    <3>1. e = end - OffMod
      BY <1>1, <1>3, <1>5, <2>1, <2>7, Wraps, Half DEF e
    <3>2. e \in (-MaxOffset - 1) .. -1 /\ h + e + MaxAlignOf <= 0
      BY <1>1, <1>3, <1>5, <2>1, <2>7, <3>1, Half
    <3> QED BY <2>1, <2>5, <2>7, <3>2 DEF Bad, TooLong, a, n, o, b
  <2> QED BY <2>1, <2>6, <2>7, Half
<1> QED BY <1>3, <1>4, <1>5

LEMMA NullWritten ==
  ASSUME field \in Schemas, NEW w \in Writes, NEW i \in FieldIds,
         NEW w2, w2 = WriteNull(w, i)
  PROVE  /\ w2 \in Writes /\ (w2.ok <=> w.ok) /\ w2.off = w.off /\ w2.size = w.size
         /\ w2.begin = w.begin
         /\ field[i].varlen => w2.ends[i] = w.off
         /\ \A j \in FieldIds : j # i => w2.ends[j] = w.ends[j]
         /\ w2.nulls = w.nulls \cup {NullbitId(i)}
<1> DEFINE ends2 == IF field[i].varlen THEN [w.ends EXCEPT ![i] = w.off] ELSE w.ends
           nulls2 == w.nulls \cup {NullbitId(i)}
<1>1. ends2 \in [FieldIds -> Int] /\ nulls2 \in SUBSET Int
  BY NullbitIsInt DEF Writes
<1>2. w2 = [w EXCEPT !.nulls = nulls2, !.ends = ends2]
  BY DEF WriteNull, Writes
<1> HIDE DEF ends2, nulls2
<1>3. /\ w2 \in Writes /\ (w2.ok <=> w.ok) /\ w2.off = w.off /\ w2.size = w.size
      /\ w2.begin = w.begin /\ w2.ends = ends2 /\ w2.nulls = nulls2
  BY <1>1, <1>2 DEF Writes
<1>4. /\ field[i].varlen => ends2[i] = w.off
      /\ \A j \in FieldIds : j # i => ends2[j] = w.ends[j]
  BY DEF ends2, Writes
<1> QED BY <1>3, <1>4 DEF nulls2

\* Once an offset has wrapped around, nothing more is written.
LEMMA BadStays ==
  ASSUME LayoutsSmall, ValuesShort, NEW v, NEW header, Ready(v, header),
         NEW h, h = AlignUp(MaxAlignOf, header),
         NEW w \in Writes, NEW i \in Rest \cup {0}, Bad(w, h)
  PROVE  WriteField(w, i, v, h) \in Writes /\ Bad(WriteField(w, i, v, h), h)
<1>1. CASE i = 0 \/ ~w.ok
  BY <1>1 DEF WriteField
<1>2. CASE i # 0 /\ w.ok /\ v[i] = Null
  <2>1. WriteField(w, i, v, h) = WriteNull(w, i) /\ i \in FieldIds /\ field \in Schemas
    BY <1>2 DEF WriteField, Rest, Ready
  <2>2. PICK w2 : w2 = WriteNull(w, i)
    OBVIOUS
  <2>3. w2 \in Writes /\ (w2.ok <=> w.ok) /\ w2.off = w.off
    BY <2>1, <2>2, NullWritten
  <2> QED BY <2>1, <2>2, <2>3 DEF Bad
<1>3. CASE i # 0 /\ w.ok /\ v[i] # Null
  <2>1. WriteField(w, i, v, h) = WriteValue(w, i, v, h) /\ i \in FieldIds
    BY <1>3 DEF WriteField, Rest
  <2>2. w.off \in (-MaxOffset - 1) .. -1 /\ h + w.off + MaxAlignOf <= 0
    BY <1>3 DEF Bad
  <2> DEFINE a == field[i].typalign
             x == AlignUp(a, w.off)
  <2>3. h \in Nat /\ MaxAlignOf \in Nat \ {0} /\ a \in Nat \ {0} /\ a <= MaxAlignOf
    BY <2>1, ReadyFacts
  <2>4. w.off \in Int /\ MaxOffset \in Nat
    BY <2>2, Half
  <2>5. x \in Int /\ w.off <= x /\ x <= w.off + a - 1
    BY <2>3, <2>4, Aligned
  <2>6. TYPEALIGN(a, w.off) = FieldOffset(x)
    BY DEF TYPEALIGN
  <2> HIDE DEF x, a
  <2>7. x >= 0 - MaxOffset - 1 /\ x <= MaxOffset /\ h + x < 0
    BY <2>2, <2>3, <2>4, <2>5
  <2>8. TYPEALIGN(a, w.off) = x
    BY <2>5, <2>6, <2>7, Keeps
  <2>9. WriteValue(w, i, v, h) = [w EXCEPT !.ok = FALSE]
    BY <2>7, <2>8 DEF WriteValue, Overflows, a
  <2> QED BY <2>1, <2>9 DEF Bad, Writes
<1> QED BY <1>1, <1>2, <1>3

LEMMA FieldWritten ==
  ASSUME LayoutsSmall, ValuesShort, NEW v, NEW header, Ready(v, header),
         NEW h, h = AlignUp(MaxAlignOf, header),
         NEW u \in Writes, u.ok, u.off \in 0 .. MaxOffset, u.size = h + u.off,
         NEW i \in Rest \cup {0},
         NEW w, w = WriteField(u, i, v, h)
  PROVE  /\ w \in Writes
         /\ \/ Step(u, w, v, h, i)
            \/ Bad(w, h) /\ TooLong(u, v, i)
<1>1. field \in Schemas /\ Rest = Varlen \cup NullableFixed /\ Rest \subseteq FieldIds
  BY Places DEF Ready, Rest
<1>2. 0 \notin FieldIds /\ 0 \notin Rest /\ 0 \notin Varlen
  BY <1>1, FieldFacts DEF Varlen
<1>3. \A j \in Rest : j \in Varlen <=> field[j].varlen
  BY <1>1 DEF Varlen, NullableFixed
<1>4. u.begin \in [FieldIds -> Int] /\ u.ends \in [FieldIds -> Int] /\ u.off \in Int
  BY DEF Writes
<1>5. CASE i = 0
  <2>1. w = u
    BY <1>5 DEF WriteField
  <2> QED BY <1>2, <1>4, <1>5, <2>1, Half DEF Step
<1>6. CASE i # 0 /\ v[i] = Null
  <2>1. w = WriteNull(u, i) /\ i \in FieldIds /\ i \in Rest
    BY <1>1, <1>6 DEF WriteField
  <2>2. /\ w \in Writes /\ w.ok /\ w.off = u.off /\ w.size = u.size
        /\ w.begin = u.begin
        /\ field[i].varlen => w.ends[i] = u.off
        /\ \A j \in FieldIds : j # i => w.ends[j] = u.ends[j]
        /\ w.nulls = u.nulls \cup {NullbitId(i)}
    BY <1>1, <2>1, NullWritten
  <2>3. w.ok /\ w.off \in u.off .. MaxOffset /\ w.size = h + w.off
    BY <1>4, <2>2, Half
  <2>4. \A j \in FieldIds : j # i => w.begin[j] = u.begin[j] /\ w.ends[j] = u.ends[j]
    BY <1>4, <2>1, <2>2
  <2>5. i \in Varlen => w.ends[i] = w.off
    BY <1>3, <1>4, <2>1, <2>2
  <2> QED BY <1>6, <2>2, <2>3, <2>4, <2>5 DEF Step
<1>7. CASE i # 0 /\ v[i] # Null
  <2>1. w = WriteValue(u, i, v, h) /\ i \in FieldIds /\ i \in Rest
    BY <1>1, <1>7 DEF WriteField
  <2> QED BY <1>7, <2>1, ValueWritten
<1> QED BY <1>5, <1>6, <1>7

\* The field i after k steps, by the offsets of the run before and after it.
FieldDone(W, v, k, i) ==
  /\ IF v[i] = Null
       THEN W[PlaceOf(i)].off = W[PlaceOf(i) - 1].off
       ELSE /\ W[k].begin[i] = AlignUp(field[i].typalign, W[PlaceOf(i) - 1].off)
            /\ W[PlaceOf(i)].off = W[k].begin[i] + SizeOf(v, i)
  /\ i \in Varlen => W[k].ends[i] = W[i].off

NullsAt(v, k) == {NullbitId(i) : i \in {j \in Rest : PlaceOf(j) <= k /\ v[j] = Null}}

Good(W, v, h, k) ==
  /\ W[k] \in Writes /\ W[k].ok /\ W[k].size = h + W[k].off
  /\ W[k].off \in layout.payload_begin .. MaxOffset
  /\ \A j \in 0 .. k : \A m \in 0 .. j : W[m].off \in layout.payload_begin .. W[j].off
  /\ \A j \in 1 .. k : Reorder[j] = 0 => W[j].off = W[j - 1].off
  /\ \A i \in NonNullableFixed : W[k].begin[i] = FixedBegin(i, FixedEnd[i - 1])
  /\ \A i \in Rest : PlaceOf(i) <= k => FieldDone(W, v, k, i)
  /\ W[k].nulls = NullsAt(v, k)

LEMMA RunStart ==
  ASSUME LayoutsSmall, ValuesShort, NEW v, NEW header, Ready(v, header),
         NEW h, h = AlignUp(MaxAlignOf, header), NEW W, IsRun(W, v, h)
  PROVE  Good(W, v, h, 0) /\ W[0].off = layout.payload_begin
<1> DEFINE p == layout.payload_begin
<1>1. field \in Schemas /\ LayoutFits /\ p = PayloadBegin /\ h \in Nat
  BY ReadyFacts DEF Ready
<1>2. p \in 0 .. MaxOffset /\ MaxOffset \in Nat
  BY <1>1, LayoutPlaces, Half
<1>3. /\ NonNullableFixed \subseteq FieldIds
      /\ \A i \in NonNullableFixed : FixedBegin(i, FixedEnd[i - 1]) \in Nat
      /\ \A i \in Rest : PlaceOf(i) >= 1
  BY <1>1, LayoutPlaces, Places
<1> DEFINE bs == [i \in FieldIds |-> IF i \in NonNullableFixed
                                       THEN FixedBegin(i, FixedEnd[i - 1]) ELSE 0]
           es == [i \in FieldIds |-> 0]
<1>4. W[0] = [ok |-> ~Overflows(h + p), off |-> p, size |-> h + p,
              begin |-> bs, ends |-> es, nulls |-> {}]
  BY DEF IsRun, WriteFixed
<1>5. ~Overflows(h + p) /\ h + p \in Int /\ p \in Int
  BY <1>1, <1>2 DEF Overflows
<1>6. bs \in [FieldIds -> Int] /\ es \in [FieldIds -> Int]
  BY <1>3
<1>7. \A i \in NonNullableFixed : bs[i] = FixedBegin(i, FixedEnd[i - 1])
  BY <1>3
<1> HIDE DEF bs, es, p
<1>8. /\ p \in Int /\ W[0].off = p /\ W[0].size = h + p /\ W[0].begin = bs /\ W[0].nulls = {}
      /\ W[0].ok /\ W[0] \in Writes
  <2> DEFINE c == ~Overflows(h + p)
  <2>1. c \in BOOLEAN /\ c
    BY <1>5
  <2>2. W[0] = [ok |-> c, off |-> p, size |-> h + p, begin |-> bs, ends |-> es, nulls |-> {}]
    BY <1>4
  <2> HIDE DEF c
  <2> QED BY <1>5, <1>6, <2>1, <2>2 DEF Writes
<1>9. NullsAt(v, 0) = {}
  <2>1. ~\E j \in Rest : PlaceOf(j) <= 0
    <3>1. \A j \in Rest : PlaceOf(j) \in 1 .. 2 * L
      BY <1>1, Places
    <3> QED BY <1>1, <3>1, FieldFacts
  <2> QED BY <2>1 DEF NullsAt
<1>10. \A i \in Rest : ~(PlaceOf(i) <= 0)
  <2>1. \A j \in Rest : PlaceOf(j) \in 1 .. 2 * L
    BY <1>1, Places
  <2> QED BY <1>1, <2>1, FieldFacts
<1>11. \A j \in 0 .. 0 : \A m \in 0 .. j : W[m].off \in p .. W[j].off
  BY <1>8
<1>12. W[0].off \in p .. MaxOffset
  BY <1>2, <1>8
<1> QED BY <1>7, <1>8, <1>9, <1>10, <1>11, <1>12 DEF Good, p

LEMMA RunStep ==
  ASSUME LayoutsSmall, ValuesShort, NEW v, NEW header, Ready(v, header),
         NEW h, h = AlignUp(MaxAlignOf, header), NEW W, IsRun(W, v, h),
         NEW k \in 1 .. 2 * L, Good(W, v, h, k - 1)
  PROVE  \/ Good(W, v, h, k) /\ Step(W[k - 1], W[k], v, h, Reorder[k])
         \/ /\ W[k] \in Writes /\ Bad(W[k], h)
            /\ TooLong(W[k - 1], v, Reorder[k])
<1> DEFINE p == layout.payload_begin
           u == W[k - 1]
           w == W[k]
           i == Reorder[k]
<1>1. /\ field \in Schemas /\ L \in Nat /\ FieldIds = 1 .. L
      /\ p \in 0 .. MaxOffset /\ MaxOffset \in Nat
  BY LayoutPlaces, FieldFacts, Half DEF Ready
<1>2. /\ u \in Writes /\ u.ok /\ u.size = h + u.off
      /\ u.off \in p .. MaxOffset
      /\ \A j \in 0 .. k - 1 : \A m \in 0 .. j : W[m].off \in p .. W[j].off
      /\ \A j \in 1 .. k - 1 : Reorder[j] = 0 => W[j].off = W[j - 1].off
      /\ \A j \in NonNullableFixed : u.begin[j] = FixedBegin(j, FixedEnd[j - 1])
      /\ \A j \in Rest : PlaceOf(j) <= k - 1 => FieldDone(W, v, k - 1, j)
      /\ u.nulls = NullsAt(v, k - 1)
  BY DEF Good
<1>3. w = WriteField(u, i, v, h)
  BY DEF IsRun
<1>4. /\ Rest = Varlen \cup NullableFixed /\ Rest \subseteq FieldIds
      /\ NonNullableFixed \subseteq FieldIds /\ NonNullableFixed \cap Rest = {}
      /\ \A j \in Rest : PlaceOf(j) \in 1 .. 2 * L
      /\ \/ i = 0 /\ \A j \in Rest : PlaceOf(j) # k
         \/ i \in Rest /\ k = PlaceOf(i)
      /\ \A j \in Rest : PlaceOf(j) = k => j = i
  BY <1>1, Places DEF Rest
<1>5. i \in Rest \cup {0} /\ u.off \in 0 .. MaxOffset /\ 0 \notin FieldIds
  BY <1>1, <1>2, <1>4
<1>6. w \in Writes /\ (Step(u, w, v, h, i) \/ (Bad(w, h) /\ TooLong(u, v, i)))
  <2> HIDE DEF u, w, i
  <2> QED BY <1>2, <1>3, <1>5, FieldWritten
<1>7. SUFFICES ASSUME Step(u, w, v, h, i) PROVE Good(W, v, h, k)
  BY <1>6
<1>8. /\ w.ok /\ w.off \in u.off .. MaxOffset /\ w.size = h + w.off
      /\ \A j \in FieldIds : j # i => w.begin[j] = u.begin[j] /\ w.ends[j] = u.ends[j]
      /\ i \in Varlen => w.ends[i] = w.off
      /\ IF i = 0 \/ v[i] = Null
           THEN /\ w.off = u.off
                /\ w.nulls = IF i = 0 THEN u.nulls ELSE u.nulls \cup {NullbitId(i)}
           ELSE /\ w.begin[i] = AlignUp(field[i].typalign, u.off)
                /\ w.off = w.begin[i] + SizeOf(v, i)
                /\ w.nulls = u.nulls
  <2> HIDE DEF u, w, i
  <2> QED BY <1>7 DEF Step
<1>9. /\ k - 1 \in 0 .. 2 * L /\ k \in Nat
      /\ \A j \in 0 .. k : j = k \/ j \in 0 .. k - 1
      /\ \A j \in 1 .. k : j = k \/ j \in 1 .. k - 1
  BY <1>1
<1> HIDE DEF p
<1>10. \A j \in 0 .. k : \A m \in 0 .. j : W[m].off \in p .. W[j].off
  <2>1. w.off \in p .. w.off
    BY <1>1, <1>2, <1>8
  <2>2. ASSUME NEW j \in 0 .. k - 1 PROVE W[j].off \in p .. w.off
    <3>1. k - 1 \in 0 .. k - 1
      BY <1>9
    <3>2. W[j].off \in p .. u.off
      BY <1>2, <3>1
    <3> HIDE DEF u, w
    <3> QED BY <1>1, <1>2, <1>8, <3>2
  <2>3. \A m \in 0 .. k : W[m].off \in p .. W[k].off
    BY <1>9, <2>1, <2>2
  <2> QED BY <1>2, <1>9, <2>3
<1>11. \A j \in 1 .. k : Reorder[j] = 0 => W[j].off = W[j - 1].off
  BY <1>2, <1>8, <1>9
<1>12. \A j \in NonNullableFixed : w.begin[j] = FixedBegin(j, FixedEnd[j - 1])
  <2>1. ASSUME NEW j \in NonNullableFixed PROVE j # i /\ j \in FieldIds
    BY <1>4, <1>5
  <2> HIDE DEF u, w, i
  <2> QED BY <1>2, <1>8, <2>1
<1>13. ASSUME NEW j \in Rest, PlaceOf(j) <= k PROVE FieldDone(W, v, k, j)
  <2>1. CASE PlaceOf(j) = k
    <3>1. j = i /\ i # 0 /\ PlaceOf(i) = k /\ j \in FieldIds
      BY <1>4, <1>5, <2>1
    <3>2. IF v[j] = Null
            THEN W[PlaceOf(j)].off = W[PlaceOf(j) - 1].off
            ELSE /\ W[k].begin[j] = AlignUp(field[j].typalign, W[PlaceOf(j) - 1].off)
                 /\ W[PlaceOf(j)].off = W[k].begin[j] + SizeOf(v, j)
      <4> HIDE DEF i
      <4> QED BY <1>8, <3>1
    <3>3. j \in Varlen => W[k].ends[j] = W[j].off
      <4> HIDE DEF i
      <4> QED BY <1>8, <3>1 DEF PlaceOf
    <3> QED BY <3>2, <3>3 DEF FieldDone
  <2>2. CASE PlaceOf(j) # k
    <3>1. PlaceOf(j) <= k - 1 /\ j \in FieldIds
      BY <1>1, <1>4, <1>9, <1>13, <2>2
    <3>2. j # i
      BY <1>4, <2>2, <1>5
    <3>3. W[k].begin[j] = W[k - 1].begin[j] /\ W[k].ends[j] = W[k - 1].ends[j]
      <4> HIDE DEF i
      <4> QED BY <1>8, <3>1, <3>2
    <3>4. FieldDone(W, v, k - 1, j)
      BY <1>2, <3>1
    <3> QED BY <3>3, <3>4 DEF FieldDone
  <2> QED BY <2>1, <2>2
<1>14. w.nulls = NullsAt(v, k)
  <2> DEFINE N(n) == {j \in Rest : PlaceOf(j) <= n /\ v[j] = Null}
  <2>1. \A j \in Rest : PlaceOf(j) <= k <=> PlaceOf(j) <= k - 1 \/ PlaceOf(j) = k
    BY <1>1, <1>4, <1>9
  <2>2. CASE i = 0 \/ v[i] # Null
    <3>1. \A j \in Rest : PlaceOf(j) = k => v[j] # Null
      BY <1>4, <1>5, <2>2
    <3>2. N(k) = N(k - 1)
      BY <2>1, <3>1
    <3>3. w.nulls = u.nulls
      <4> HIDE DEF u, w, i
      <4> QED BY <1>8, <2>2
    <3> QED BY <1>2, <3>2, <3>3 DEF NullsAt
  <2>3. CASE i # 0 /\ v[i] = Null
    <3>1. i \in Rest /\ k = PlaceOf(i)
      BY <1>4, <2>3
    <3>2. N(k) = N(k - 1) \cup {i}
      <4>1. PlaceOf(i) <= k
        BY <1>9, <3>1
      <4> HIDE DEF i
      <4> QED BY <1>4, <2>1, <2>3, <3>1, <4>1
    <3>3. w.nulls = u.nulls \cup {NullbitId(i)}
      <4> HIDE DEF u, w, i
      <4> QED BY <1>8, <2>3
    <3> HIDE DEF i, w, u
    <3>4. NullsAt(v, k) = NullsAt(v, k - 1) \cup {NullbitId(i)}
      BY <3>2 DEF NullsAt
    <3> QED BY <1>2, <3>3, <3>4
  <2> QED BY <2>2, <2>3
<1>15. w.off \in p .. MaxOffset
  <2> HIDE DEF u, w
  <2> QED BY <1>1, <1>2, <1>8
<1> QED BY <1>6, <1>8, <1>10, <1>11, <1>12, <1>13, <1>14, <1>15 DEF Good, p

LEMMA Run ==
  ASSUME LayoutsSmall, ValuesShort, NEW v, NEW header, Ready(v, header),
         NEW h, h = AlignUp(MaxAlignOf, header), NEW W, IsRun(W, v, h)
  PROVE  \A k \in 0 .. 2 * L : \/ Good(W, v, h, k)
                               \/ W[k] \in Writes /\ Bad(W[k], h)
<1> DEFINE M == 2 * L
           S == {k \in 0 .. M : Good(W, v, h, k) \/ (W[k] \in Writes /\ Bad(W[k], h))}
<1>1. field \in Schemas /\ M \in Nat
  BY FieldFacts DEF Ready
<1>2. 0 \in S
  BY <1>1, RunStart
<1>3. ASSUME NEW k \in 1 .. M, k - 1 \in S PROVE k \in S
  <2>1. k \in 0 .. M
    BY <1>1
  <2>2. CASE Good(W, v, h, k - 1)
    BY <2>1, <2>2, RunStep
  <2>3. CASE W[k - 1] \in Writes /\ Bad(W[k - 1], h)
    <3>1. Reorder[k] \in Rest \cup {0} /\ W[k] = WriteField(W[k - 1], Reorder[k], v, h)
      BY <1>1, Places DEF IsRun
    <3> QED BY <2>1, <2>3, <3>1, BadStays
  <2> QED BY <1>3, <2>2, <2>3
<1>4. \A k \in 0 .. M : k \in S
  <2> HIDE DEF S, M
  <2> QED BY <1>1, <1>2, <1>3, UpTo
<1> QED BY <1>4

\* The returned length, from the offset reached.
LEMMA Returned ==
  ASSUME LayoutsSmall, ValuesShort, NEW v, NEW header, Ready(v, header),
         NEW h, h = AlignUp(MaxAlignOf, header), NEW w \in Writes, w = Written(v, h)
  PROVE  /\ \/ Payload(v, header) = [NothingWritten EXCEPT !.init_len = header]
            \/ /\ w.ok /\ ~Overflows(h + TYPEALIGN(MaxAlignOf, w.off)) /\ header < MaxOffset
               /\ Payload(v, header) =
                    [ret |-> TYPEALIGN(MaxAlignOf, w.off), init_len |-> h,
                     size |-> IF TYPEALIGN(MaxAlignOf, w.off) + h > FieldOffset(w.size)
                                THEN TYPEALIGN(MaxAlignOf, w.off) + h ELSE w.size,
                     begin |-> w.begin, ends |-> w.ends, nulls |-> w.nulls]
         /\ header < MaxOffset /\ w.ok /\ ~Overflows(h + TYPEALIGN(MaxAlignOf, w.off)) =>
              Payload(v, header).ret = TYPEALIGN(MaxAlignOf, w.off)
<1> DEFINE off == TYPEALIGN(MaxAlignOf, w.off)
           size == IF off + h > FieldOffset(w.size) THEN off + h ELSE w.size
           r == [ret |-> off, init_len |-> h, size |-> size,
                 begin |-> w.begin, ends |-> w.ends, nulls |-> w.nulls]
           none == [NothingWritten EXCEPT !.init_len = header]
<1>1. TYPEALIGN(MaxAlignOf, header) = h /\ h \in Nat /\ header \in Nat /\ MaxOffset \in Nat
  BY ReadyFacts, Half
<1>2. Payload(v, header) =
        IF header >= MaxOffset \/ h < 0 \/ ~w.ok \/ Overflows(h + off) THEN none ELSE r
  BY <1>1 DEF Payload
<1> HIDE DEF none
<1>3. r.ret = off
  OBVIOUS
<1> HIDE DEF r
<1>4. ~(h < 0) /\ (header >= MaxOffset <=> ~(header < MaxOffset))
  BY <1>1
<1>5. CASE header >= MaxOffset \/ ~w.ok \/ Overflows(h + off)
  BY <1>2, <1>4, <1>5 DEF none
<1>6. CASE ~(header >= MaxOffset \/ ~w.ok \/ Overflows(h + off))
  BY <1>2, <1>3, <1>4, <1>6 DEF r
<1> QED BY <1>5, <1>6

\* The buffer after the call: either nothing was written, or the run is good and
\* the padding fits too.
Done(b, W, v, h) ==
  LET w == W[2 * L] IN
  /\ Good(W, v, h, 2 * L)
  /\ b.ret = AlignUp(MaxAlignOf, w.off) /\ b.ret \in w.off .. MaxOffset /\ b.ret % MaxAlignOf = 0
  /\ b.init_len = h /\ b.size = h + b.ret
  /\ b.begin = w.begin /\ b.ends = w.ends /\ b.nulls = w.nulls

LEMMA PayloadWritten ==
  ASSUME LayoutsSmall, ValuesShort, NEW v, NEW header, Ready(v, header),
         NEW h, h = AlignUp(MaxAlignOf, header),
         NEW W, IsRun(W, v, h), Written(v, h) = W[2 * L],
         NEW b, b = Payload(v, header)
  PROVE  /\ \/ b = [ret |-> -1, init_len |-> header, size |-> 0]
            \/ Done(b, W, v, h)
         /\ /\ header < MaxOffset /\ Good(W, v, h, 2 * L)
            /\ AlignUp(MaxAlignOf, W[2 * L].off) <= MaxOffset
            => Done(b, W, v, h)
<1>0. PICK w : w = W[2 * L]
  OBVIOUS
<1> DEFINE off == TYPEALIGN(MaxAlignOf, w.off)
           x == AlignUp(MaxAlignOf, w.off)
           p == layout.payload_begin
           none == [ret |-> -1, init_len |-> header, size |-> 0]
<1>1. /\ field \in Schemas /\ L \in Nat /\ h \in Nat /\ MaxAlignOf \in Nat \ {0}
      /\ h + MaxAlignOf <= MaxOffset + 1 /\ header \in Nat
      /\ MaxOffset \in Nat /\ p \in 0 .. MaxOffset
  BY ReadyFacts, FieldFacts, LayoutPlaces, Half DEF Ready
<1>2. Good(W, v, h, 2 * L) \/ (w \in Writes /\ Bad(w, h))
  <2>1. 2 * L \in 0 .. 2 * L
    BY <1>1
  <2> QED BY <1>0, <2>1, Run
<1>3. w \in Writes /\ w.off \in Int
  BY <1>0, <1>2 DEF Good, Writes
<1>4. /\ \/ b = [NothingWritten EXCEPT !.init_len = header]
         \/ /\ w.ok /\ ~Overflows(h + off) /\ header < MaxOffset
            /\ b = [ret |-> off, init_len |-> h,
                    size |-> IF off + h > FieldOffset(w.size) THEN off + h ELSE w.size,
                    begin |-> w.begin, ends |-> w.ends, nulls |-> w.nulls]
      /\ header < MaxOffset /\ w.ok /\ ~Overflows(h + off) => b.ret = off
  BY <1>0, <1>3, Returned
<1>5. [NothingWritten EXCEPT !.init_len = header] = none
  BY DEF NothingWritten
<1>6. CASE Bad(w, h)
  <2>1. ~w.ok \/ Overflows(h + off)
    <3>1. SUFFICES ASSUME w.off \in (-MaxOffset - 1) .. -1, h + w.off + MaxAlignOf <= 0
                   PROVE  Overflows(h + off)
      BY <1>6 DEF Bad
    <3>2. x \in Int /\ w.off <= x /\ x <= w.off + MaxAlignOf - 1
      BY <1>1, <1>3, Aligned
    <3>3. off = FieldOffset(x)
      BY DEF TYPEALIGN
    <3> HIDE DEF off, x
    <3>4. x >= 0 - MaxOffset - 1 /\ x <= MaxOffset /\ h + x < 0
      BY <1>1, <1>3, <3>1, <3>2
    <3>5. off = x
      BY <3>2, <3>3, <3>4, Keeps
    <3> QED BY <3>4, <3>5 DEF Overflows
  <2>2. b = none
    BY <1>4, <1>5, <2>1
  <2>3. ~(Good(W, v, h, 2 * L) /\ x <= MaxOffset)
    <3>1. SUFFICES ASSUME Good(W, v, h, 2 * L) PROVE FALSE
      OBVIOUS
    <3>2. w.ok /\ w.off \in p .. MaxOffset
      BY <1>0, <3>1 DEF Good
    <3> QED BY <1>1, <1>6, <3>2 DEF Bad
  <2> QED BY <1>0, <2>2, <2>3
<1>7. CASE Good(W, v, h, 2 * L)
  <2>1. w.ok /\ w.off \in 0 .. MaxOffset /\ w.size = h + w.off
    BY <1>0, <1>1, <1>7 DEF Good
  <2>2. /\ x \in Nat /\ w.off <= x /\ x % MaxAlignOf = 0
        /\ \/ x <= MaxOffset /\ off = x
           \/ x > MaxOffset /\ off \in Int /\ off + MaxOffset + 3 <= MaxAlignOf
    <3>1. MaxAlignOf <= MaxOffset + 2
      BY <1>1
    <3> QED BY <1>1, <2>1, <3>1, AlignedOffset
  <2> HIDE DEF x, off
  <2>3. CASE x > MaxOffset /\ off \in Int /\ off + MaxOffset + 3 <= MaxAlignOf
    <3>1. Overflows(h + off) /\ ~(x <= MaxOffset)
      BY <1>1, <2>2, <2>3 DEF Overflows
    <3> QED BY <1>0, <1>4, <1>5, <3>1 DEF x
  <2>4. CASE x <= MaxOffset /\ off = x
    <3> DEFINE s == IF off + h > FieldOffset(w.size) THEN off + h ELSE w.size
               r == [ret |-> off, init_len |-> h, size |-> s,
                     begin |-> w.begin, ends |-> w.ends, nulls |-> w.nulls]
    <3>1. s = h + off
      <4>1. CASE w.size <= MaxOffset
        <5>1. FieldOffset(w.size) = w.size
          BY <1>1, <2>1, <4>1, Keeps
        <5> QED BY <1>1, <2>1, <2>2, <2>4, <5>1
      <4>2. CASE w.size > MaxOffset
        <5>1. w.size \in Int /\ w.size <= 3 * MaxOffset + 2
          BY <1>1, <2>1
        <5>2. FieldOffset(w.size) = w.size - OffMod
          BY <4>2, <5>1, Wraps
        <5> QED BY <1>1, <2>1, <2>2, <2>4, <5>2, Half
      <4> QED BY <1>1, <2>1, <4>1, <4>2
    <3> HIDE DEF s
    <3>2. r.ret = off /\ r.init_len = h /\ r.size = s
          /\ r.begin = w.begin /\ r.ends = w.ends /\ r.nulls = w.nulls
      OBVIOUS
    <3>3. none.ret = -1
      OBVIOUS
    <3>4. b = none \/ b = r
      BY <1>4, <1>5 DEF s
    <3>5. header < MaxOffset => b.ret = off
      <4>1. ~Overflows(h + off)
        BY <1>1, <2>2, <2>4 DEF Overflows
      <4> QED BY <1>4, <2>1, <4>1
    <3> HIDE DEF r, none
    <3>6. header < MaxOffset => b = r
      BY <2>2, <2>4, <3>3, <3>4, <3>5
    <3>7. ASSUME b = r PROVE Done(b, W, v, h)
      <4>1. b.ret = x /\ b.ret \in w.off .. MaxOffset /\ b.ret % MaxAlignOf = 0
        BY <1>1, <2>1, <2>2, <2>4, <3>2, <3>7
      <4> QED BY <1>0, <1>7, <2>4, <3>1, <3>2, <3>7, <4>1 DEF Done, x
    <3> QED BY <3>4, <3>6, <3>7 DEF none
  <2> QED BY <2>2, <2>3, <2>4
<1> QED BY <1>2, <1>6, <1>7

-----------------------------------------------------------------------------
(***************************************************************************)
(* The inductive invariant: a computed layout is the one that fits, and    *)
(* the buffer is what the call with the present record returns.            *)
(***************************************************************************)
IInv ==
  /\ field \in Schemas
  /\ layout.computed \in BOOLEAN
  /\ layout.computed => LayoutFits /\ layout.payload_begin = PayloadBegin
  /\ IF data = <<>> THEN buf = NothingWritten
     ELSE /\ layout.computed
          /\ \E header \in HeaderSizes : Ready(data, header) /\ buf = Payload(data, header)

LEMMA SameLayout ==
  ASSUME field' = field
  PROVE  /\ FixedEnd' = FixedEnd /\ LayoutFits' = LayoutFits /\ PayloadBegin' = PayloadBegin
         /\ NonNullableFixed' = NonNullableFixed
<1>1. FixedEnd' = FixedEnd
  BY DEF FixedEnd, AddField, FixedBegin, NonNullableFixed, FieldIds
<1>2. NonNullableFixed' = NonNullableFixed
  BY DEF NonNullableFixed, FieldIds
<1>3. LayoutFits' = LayoutFits /\ PayloadBegin' = PayloadBegin
  BY <1>1 DEF LayoutFits, PayloadBegin, BitmapBegin, BitmapEnd, BitmapSize, EndArrayBegin,
              VarlenBegin, NumNullable, NonNullableFixed, NullableFixed, Varlen,
              NullableVarlen, FieldIds
<1> QED BY <1>1, <1>2, <1>3

LEMMA SamePayload ==
  ASSUME field' = field, layout' = layout, NEW v, NEW header
  PROVE  /\ (Payload(v, header))' = Payload(v, header)
         /\ (Ready(v, header))' = Ready(v, header)
<1>1. FixedEnd' = FixedEnd /\ LayoutFits' = LayoutFits /\ PayloadBegin' = PayloadBegin
      /\ NonNullableFixed' = NonNullableFixed
  BY SameLayout
<1>2. ASSUME NEW h PROVE (Written(v, h))' = Written(v, h)
  BY <1>1 DEF Written, WriteFixed, WriteField, WriteNull, WriteValue, Value, FixedBegin,
              Reorder, NonNullableFixed, NullableFixed, Varlen, NullbitId, IndexIn,
              FieldIds, NullableVarlen
<1>3. (Payload(v, header))' = Payload(v, header)
  BY <1>2 DEF Payload
<1>4. (Ready(v, header))' = Ready(v, header)
  BY <1>1 DEF Ready, NullRejected, RecordsOf
<1> QED BY <1>3, <1>4

LEMMA InvStart == Init => IInv
BY DEF Init, IInv, NoLayout

LEMMA InvStep == IInv /\ [Next]_vars => IInv'
<1> SUFFICES ASSUME IInv, [Next]_vars PROVE IInv'
  OBVIOUS
<1>1. CASE ComputeLayout
  <2>1. /\ field' = field /\ data' = data /\ buf' = buf /\ ~layout.computed
        /\ layout' = [computed |-> LayoutFits, payload_begin |-> PayloadBegin]
    BY <1>1 DEF ComputeLayout
  <2>2. data = <<>> /\ buf = NothingWritten
    BY <2>1 DEF IInv
  <2>3. LayoutFits' = LayoutFits /\ PayloadBegin' = PayloadBegin
    BY <2>1, SameLayout
  <2>4. /\ layout'.computed = LayoutFits /\ layout'.payload_begin = PayloadBegin
        /\ layout'.computed \in BOOLEAN
    BY <2>1 DEF LayoutFits
  <2>5. NothingWritten' = NothingWritten
    BY DEF NothingWritten
  <2> QED BY <2>1, <2>2, <2>3, <2>4, <2>5 DEF IInv
<1>2. ASSUME NEW values \in RecordsOf(field), NEW header \in HeaderSizes,
             WritePayloadToBuffer(values, header)
      PROVE  IInv'
  <2>1. /\ field' = field /\ layout' = layout /\ layout.computed
        /\ data' = values /\ ~NullRejected(values) /\ buf' = Payload(values, header)
    BY <1>2 DEF WritePayloadToBuffer
  <2>2. LayoutFits' = LayoutFits /\ PayloadBegin' = PayloadBegin
    BY <2>1, SameLayout
  <2>3. Ready(values, header)
    BY <2>1 DEF IInv, Ready
  <2>4. /\ (Payload(values, header))' = Payload(values, header)
        /\ (Ready(values, header))' = Ready(values, header)
    BY <2>1, SamePayload
  <2>5. values # <<>>
    BY <1>2, FieldFacts DEF RecordsOf, IInv, FieldIds
  <2>6. (Ready(data, header))' /\ buf' = (Payload(data, header))'
    BY <2>1, <2>3, <2>4
  <2> QED BY <2>1, <2>2, <2>5, <2>6 DEF IInv
<1>3. CASE Clear
  <2>1. field' = field /\ layout' = layout /\ data' = <<>> /\ buf' = NothingWritten
    BY <1>3 DEF Clear
  <2>2. LayoutFits' = LayoutFits /\ PayloadBegin' = PayloadBegin
    BY <2>1, SameLayout
  <2>3. NothingWritten' = NothingWritten
    BY DEF NothingWritten
  <2> QED BY <2>1, <2>2, <2>3 DEF IInv
<1>4. CASE UNCHANGED vars
  <2>1. field' = field /\ layout' = layout /\ data' = data /\ buf' = buf
    BY <1>4 DEF vars
  <2>2. LayoutFits' = LayoutFits /\ PayloadBegin' = PayloadBegin
    BY <2>1, SameLayout
  <2>3. ASSUME NEW header
        PROVE  /\ (Payload(data, header))' = Payload(data, header)
               /\ (Ready(data, header))' = Ready(data, header)
    BY <2>1, SamePayload
  <2> QED BY <2>1, <2>2, <2>3 DEF IInv
<1> QED BY <1>1, <1>2, <1>3, <1>4 DEF Next

\* What a written buffer comes from.
LEMMA WrittenBuffer ==
  ASSUME LayoutsSmall, ValuesShort, IInv, IsWritten
  PROVE  \E header \in HeaderSizes : \E W :
           /\ Ready(data, header) /\ IsRun(W, data, AlignUp(MaxAlignOf, header))
           /\ Done(buf, W, data, AlignUp(MaxAlignOf, header))
<1>1. data # <<>>
  BY DEF IInv, IsWritten, NothingWritten
<1>2. PICK header \in HeaderSizes : Ready(data, header) /\ buf = Payload(data, header)
  BY <1>1 DEF IInv
<1>3. PICK h : h = AlignUp(MaxAlignOf, header)
  OBVIOUS
<1>4. PICK W : IsRun(W, data, h) /\ Written(data, h) = W[2 * L]
  BY <1>2, WrittenExists DEF Ready
<1>5. \/ buf = [ret |-> -1, init_len |-> header, size |-> 0]
      \/ Done(buf, W, data, h)
  BY <1>2, <1>3, <1>4, PayloadWritten
<1>6. Done(buf, W, data, h)
  BY <1>5 DEF IsWritten
<1> QED BY <1>2, <1>3, <1>4, <1>6

\* Where the fields are: those that are not in the fixed part behind it, each
\* behind the ones that Reorder puts before it.
LEMMA FieldPlaces ==
  ASSUME LayoutsSmall, ValuesShort, NEW v, NEW header, Ready(v, header),
         NEW h, h = AlignUp(MaxAlignOf, header), NEW W, IsRun(W, v, h),
         Good(W, v, h, 2 * L), NEW w, w = W[2 * L],
         NEW p, p = layout.payload_begin
  PROVE  /\ \A i \in NonNullableFixed :
              /\ w.begin[i] \in Nat /\ w.begin[i] % field[i].typalign = 0
              /\ SizeOf(v, i) \in Nat
              /\ w.begin[i] + SizeOf(v, i) <= BitmapBegin
              /\ \A j \in NonNullableFixed : i < j => w.begin[i] + SizeOf(v, i) <= w.begin[j]
         /\ \A i \in Rest : v[i] # Null =>
              /\ w.begin[i] \in Nat /\ w.begin[i] % field[i].typalign = 0
              /\ SizeOf(v, i) \in Nat
              /\ p <= w.begin[i] /\ w.begin[i] + SizeOf(v, i) <= w.off
              /\ \A j \in Rest : v[j] # Null /\ PlaceOf(i) < PlaceOf(j) =>
                   w.begin[i] + SizeOf(v, i) <= w.begin[j]
<1>1. /\ field \in Schemas /\ LayoutFits /\ p = PayloadBegin /\ L \in Nat
      /\ p \in 0 .. MaxOffset /\ MaxOffset \in Nat
  BY LayoutPlaces, FieldFacts, Half DEF Ready
<1>2. /\ w \in Writes
      /\ \A j \in 0 .. 2 * L : \A m \in 0 .. j : W[m].off \in p .. W[j].off
      /\ \A i \in NonNullableFixed : w.begin[i] = FixedBegin(i, FixedEnd[i - 1])
      /\ \A i \in Rest : PlaceOf(i) <= 2 * L => FieldDone(W, v, 2 * L, i)
      /\ w.off \in p .. MaxOffset
  BY DEF Good
<1>3. ASSUME NEW i \in NonNullableFixed
      PROVE  /\ w.begin[i] \in Nat /\ w.begin[i] % field[i].typalign = 0
             /\ SizeOf(v, i) \in Nat
             /\ w.begin[i] + SizeOf(v, i) <= BitmapBegin
             /\ \A j \in NonNullableFixed : i < j => w.begin[i] + SizeOf(v, i) <= w.begin[j]
  <2>1. SizeOf(v, i) = field[i].typlen /\ field[i].typlen \in Nat
    BY <1>1, FieldFacts DEF SizeOf, NonNullableFixed
  <2> QED BY <1>1, <1>2, <2>1, LayoutPlaces
<1>4. ASSUME NEW i \in Rest, v[i] # Null
      PROVE  /\ PlaceOf(i) \in 1 .. 2 * L /\ PlaceOf(i) - 1 \in 0 .. 2 * L
             /\ w.begin[i] \in Nat /\ w.begin[i] % field[i].typalign = 0
             /\ SizeOf(v, i) \in Nat
             /\ p <= w.begin[i] /\ W[PlaceOf(i) - 1].off <= w.begin[i]
             /\ W[PlaceOf(i)].off = w.begin[i] + SizeOf(v, i)
             /\ W[PlaceOf(i)].off <= w.off
  <2>1. PlaceOf(i) \in 1 .. 2 * L /\ PlaceOf(i) - 1 \in 0 .. 2 * L /\ i \in FieldIds
    <3>1. PlaceOf(i) \in 1 .. 2 * L /\ i \in FieldIds
      BY <1>1, Places DEF Rest
    <3> QED BY <1>1, <3>1
  <2>2. /\ w.begin[i] = AlignUp(field[i].typalign, W[PlaceOf(i) - 1].off)
        /\ W[PlaceOf(i)].off = w.begin[i] + SizeOf(v, i)
    BY <1>2, <1>4, <2>1 DEF FieldDone
  <2>3. SizeOf(v, i) \in Nat /\ field[i].typalign \in Nat \ {0}
    BY <1>4, <2>1, ReadyFacts
  <2>4. 2 * L \in 0 .. 2 * L
    BY <1>1
  <2>5. /\ W[PlaceOf(i) - 1].off \in p .. w.off
        /\ W[PlaceOf(i)].off \in p .. w.off
    BY <1>2, <2>1, <2>4
  <2>6. PICK o : o = W[PlaceOf(i) - 1].off
    OBVIOUS
  <2>7. o \in Int /\ o \in p .. w.off
    BY <1>1, <1>2, <2>5, <2>6
  <2>8. /\ w.begin[i] \in Int /\ w.begin[i] % field[i].typalign = 0
        /\ o <= w.begin[i]
    <3>1. PICK a \in Nat \ {0} : a = field[i].typalign
      BY <2>3
    <3>2. w.begin[i] = AlignUp(a, o)
      BY <2>2, <2>6, <3>1
    <3>3. AlignUp(a, o) \in Int /\ o <= AlignUp(a, o) /\ AlignUp(a, o) % a = 0
      BY <2>7, Aligned
    <3> QED BY <3>1, <3>2, <3>3
  <2> QED BY <1>1, <1>2, <2>1, <2>2, <2>3, <2>5, <2>6, <2>7, <2>8
<1>5. ASSUME NEW i \in Rest, v[i] # Null, NEW j \in Rest, v[j] # Null, PlaceOf(i) < PlaceOf(j)
      PROVE  w.begin[i] + SizeOf(v, i) <= w.begin[j]
  <2>1. /\ PlaceOf(i) \in 1 .. 2 * L /\ PlaceOf(j) - 1 \in 0 .. 2 * L
        /\ PlaceOf(j) \in 1 .. 2 * L
        /\ W[PlaceOf(i)].off = w.begin[i] + SizeOf(v, i) /\ W[PlaceOf(j) - 1].off <= w.begin[j]
        /\ w.begin[i] \in Nat /\ w.begin[j] \in Nat /\ SizeOf(v, i) \in Nat
    BY <1>4, <1>5
  <2>2. PlaceOf(i) \in 0 .. PlaceOf(j) - 1
    BY <1>1, <1>5, <2>1
  <2>3. W[PlaceOf(i)].off \in p .. W[PlaceOf(j) - 1].off
    BY <1>2, <2>1, <2>2
  <2>4. W[PlaceOf(j) - 1].off \in p .. w.off
    <3>1. 2 * L \in 0 .. 2 * L
      BY <1>1
    <3> QED BY <1>2, <2>1, <3>1
  <2> QED BY <1>1, <1>2, <2>1, <2>3, <2>4
<1>6. ASSUME NEW i \in Rest, v[i] # Null
      PROVE  w.begin[i] + SizeOf(v, i) <= w.off
  BY <1>4, <1>6
<1> QED BY <1>3, <1>4, <1>5, <1>6

LEMMA InvApart == ASSUME LayoutsSmall, ValuesShort, IInv PROVE FieldsApart
<1>1. SUFFICES ASSUME IsWritten PROVE FieldsApart
  BY DEF FieldsApart
<1>0. PICK header \in HeaderSizes :
        \E W : /\ Ready(data, header) /\ IsRun(W, data, AlignUp(MaxAlignOf, header))
               /\ Done(buf, W, data, AlignUp(MaxAlignOf, header))
  BY <1>1, WrittenBuffer
<1>2. PICK W : /\ Ready(data, header) /\ IsRun(W, data, AlignUp(MaxAlignOf, header))
               /\ Done(buf, W, data, AlignUp(MaxAlignOf, header))
  BY <1>0
<1>3. PICK h : h = AlignUp(MaxAlignOf, header)
  OBVIOUS
<1>4. PICK w : w = W[2 * L]
  OBVIOUS
<1>5. PICK p : p = layout.payload_begin
  OBVIOUS
<1>6. /\ Good(W, data, h, 2 * L)
      /\ buf.ret \in w.off .. MaxOffset /\ buf.ret % MaxAlignOf = 0
      /\ buf.size = buf.init_len + buf.ret /\ buf.begin = w.begin
  BY <1>2, <1>3, <1>4 DEF Done
<1>7. /\ field \in Schemas /\ p \in 0 .. MaxOffset /\ BitmapBegin \in 0 .. p
      /\ MaxOffset \in Nat /\ w.off \in p .. MaxOffset
  BY <1>2, <1>4, <1>5, <1>6, LayoutPlaces, Half DEF Ready, Good
<1>8. /\ \A i \in NonNullableFixed :
           /\ w.begin[i] \in Nat /\ w.begin[i] % field[i].typalign = 0
           /\ SizeOf(data, i) \in Nat
           /\ w.begin[i] + SizeOf(data, i) <= BitmapBegin
           /\ \A j \in NonNullableFixed : i < j => w.begin[i] + SizeOf(data, i) <= w.begin[j]
      /\ \A i \in Rest : data[i] # Null =>
           /\ w.begin[i] \in Nat /\ w.begin[i] % field[i].typalign = 0
           /\ SizeOf(data, i) \in Nat
           /\ p <= w.begin[i] /\ w.begin[i] + SizeOf(data, i) <= w.off
           /\ \A j \in Rest : data[j] # Null /\ PlaceOf(i) < PlaceOf(j) =>
                w.begin[i] + SizeOf(data, i) <= w.begin[j]
  BY <1>2, <1>3, <1>4, <1>5, <1>6, FieldPlaces
<1>9. \A i \in FieldIds : TrueSize(i) = SizeOf(data, i) /\ buf.begin[i] = w.begin[i]
  BY <1>6 DEF TrueSize, SizeOf
<1>10. /\ FieldIds = NonNullableFixed \cup Rest /\ FieldIds \subseteq Nat
       /\ \A i \in Rest : PlaceOf(i) \in Nat
       /\ \A i, j \in Rest : PlaceOf(i) = PlaceOf(j) => i = j
  BY <1>7, FieldFacts, Places DEF Rest, NonNullableFixed
<1>11. \A i \in FieldIds : data[i] # Null =>
         /\ buf.begin[i] \in Nat /\ TrueSize(i) \in Nat /\ buf.begin[i] % field[i].typalign = 0
         /\ buf.begin[i] + TrueSize(i) <= buf.ret
         /\ buf.begin[i] + TrueSize(i) <= BitmapBegin \/ p <= buf.begin[i]
  <2>1. ASSUME NEW i \in NonNullableFixed
        PROVE  /\ buf.begin[i] \in Nat /\ TrueSize(i) \in Nat /\ buf.begin[i] % field[i].typalign = 0
               /\ buf.begin[i] + TrueSize(i) <= buf.ret
               /\ buf.begin[i] + TrueSize(i) <= BitmapBegin
    BY <1>6, <1>7, <1>8, <1>9, <1>10
  <2>2. ASSUME NEW i \in Rest, data[i] # Null
        PROVE  /\ buf.begin[i] \in Nat /\ TrueSize(i) \in Nat /\ buf.begin[i] % field[i].typalign = 0
               /\ buf.begin[i] + TrueSize(i) <= buf.ret
               /\ p <= buf.begin[i]
    BY <1>6, <1>7, <1>8, <1>9, <1>10, <2>2
  <2> QED BY <1>10, <2>1, <2>2
<1> DEFINE apart(i, j) == \/ buf.begin[i] + TrueSize(i) <= buf.begin[j]
                          \/ buf.begin[j] + TrueSize(j) <= buf.begin[i]
<1>12. ASSUME NEW i \in FieldIds, NEW j \in FieldIds, data[i] # Null, data[j] # Null, i # j
       PROVE  apart(i, j)
  <2>1. CASE i \in NonNullableFixed /\ j \in NonNullableFixed
    <3>1. i < j \/ j < i
      BY <1>10, <1>12
    <3> QED BY <1>8, <1>9, <1>12, <2>1, <3>1
  <2>2. CASE i \in Rest /\ j \in Rest
    <3>1. PlaceOf(i) < PlaceOf(j) \/ PlaceOf(j) < PlaceOf(i)
      BY <1>10, <1>12, <2>2
    <3> QED BY <1>8, <1>9, <1>12, <2>2, <3>1
  <2>3. ASSUME NEW k \in NonNullableFixed, NEW m \in Rest, data[m] # Null
        PROVE  buf.begin[k] + TrueSize(k) <= buf.begin[m]
    <3>1. /\ w.begin[k] \in Nat /\ SizeOf(data, k) \in Nat
          /\ w.begin[k] + SizeOf(data, k) <= BitmapBegin
          /\ w.begin[m] \in Nat /\ p <= w.begin[m]
      BY <1>8, <2>3
    <3>2. w.begin[k] + SizeOf(data, k) <= w.begin[m]
      BY <1>7, <3>1
    <3> QED BY <1>9, <1>10, <3>2
  <2> QED BY <1>10, <1>12, <2>1, <2>2, <2>3
<1>13. ASSUME NEW i \in FieldIds, NEW j \in FieldIds, data[i] # Null, data[j] # Null, i # j
       PROVE  Region(i) \cap Region(j) = {}
  <2>1. apart(i, j)
    BY <1>12, <1>13
  <2>2. /\ buf.begin[i] \in Nat /\ TrueSize(i) \in Nat
        /\ buf.begin[j] \in Nat /\ TrueSize(j) \in Nat
    BY <1>11, <1>13
  <2> QED BY <2>1, <2>2 DEF Region
<1>14. ASSUME NEW i \in FieldIds, data[i] # Null
       PROVE  /\ Region(i) \cap (BitmapBegin .. p - 1) = {}
              /\ Region(i) \subseteq 0 .. buf.ret - 1
  <2>1. /\ buf.begin[i] \in Nat /\ TrueSize(i) \in Nat /\ buf.ret \in Int
        /\ BitmapBegin \in Int /\ p \in Int
        /\ buf.begin[i] + TrueSize(i) <= buf.ret
        /\ buf.begin[i] + TrueSize(i) <= BitmapBegin \/ p <= buf.begin[i]
    BY <1>6, <1>7, <1>11, <1>14
  <2> QED BY <2>1 DEF Region
<1> QED BY <1>5, <1>6, <1>11, <1>13, <1>14 DEF FieldsApart

-----------------------------------------------------------------------------
(***************************************************************************)
(* Reading: the fields are where GetOffsetAndLength() looks for them.      *)
(***************************************************************************)
LEMMA BeforeStep ==
  ASSUME field \in Schemas
  PROVE  /\ Before(Varlen, 1) = 0
         /\ \A k \in 1 .. L : Before(Varlen, k + 1) =
                                IF k \in Varlen THEN k ELSE Before(Varlen, k)
<1> DEFINE s(n) == {j \in Varlen : j < n}
<1>1. L \in Nat /\ \A j \in Varlen : j \in 1 .. L
  BY FieldFacts DEF Varlen
<1>2. \A n : Before(Varlen, n) = IF s(n) = {} THEN 0 ELSE CHOOSE j \in s(n) : \A k \in s(n) : k <= j
  BY DEF Before
<1>3. s(1) = {}
  <2>1. \A j \in Varlen : ~(j < 1)
    BY <1>1
  <2> QED BY <2>1
<1>4. ASSUME NEW k \in 1 .. L, k \notin Varlen PROVE Before(Varlen, k + 1) = Before(Varlen, k)
  <2>1. \A j \in Varlen : j < k + 1 <=> j < k
    <3>1. \A j \in Varlen : j # k /\ j \in Int
      BY <1>1, <1>4
    <3> QED BY <1>1, <3>1
  <2>2. s(k + 1) = s(k)
    BY <2>1
  <2> HIDE DEF s
  <2> QED BY <1>2, <2>2
<1>5. ASSUME NEW k \in 1 .. L, k \in Varlen PROVE Before(Varlen, k + 1) = k
  <2>1. k \in s(k + 1) /\ \A j \in s(k + 1) : j <= k /\ j \in Nat
    BY <1>1, <1>5
  <2>2. \A j \in s(k + 1) : (\A m \in s(k + 1) : m <= j) => j = k
    BY <1>1, <2>1
  <2> HIDE DEF s
  <2>3. (CHOOSE j \in s(k + 1) : \A m \in s(k + 1) : m <= j) = k
    BY <2>1, <2>2
  <2> QED BY <1>2, <2>1, <2>3
<1> QED BY <1>2, <1>3, <1>4, <1>5

\* Each varlen field begins at the end offset of the one before it.
LEMMA VarlenStart ==
  ASSUME field \in Schemas, NEW W, NEW v, NEW h, Good(W, v, h, 2 * L),
         W[0].off = layout.payload_begin
  PROVE  \A k \in 0 .. L :
           /\ W[k].off = IF Before(Varlen, k + 1) = 0 THEN layout.payload_begin
                         ELSE W[2 * L].ends[Before(Varlen, k + 1)]
           /\ \/ Before(Varlen, k + 1) = 0 /\ \A j \in Varlen : j > k
              \/ Before(Varlen, k + 1) \in Varlen
<1> DEFINE B(k) == Before(Varlen, k + 1)
           S == {k \in 0 .. L :
                   /\ W[k].off = IF B(k) = 0 THEN layout.payload_begin ELSE W[2 * L].ends[B(k)]
                   /\ (B(k) = 0 /\ \A j \in Varlen : j > k) \/ B(k) \in Varlen}
<1>1. L \in Nat /\ Varlen \subseteq 1 .. L
  BY FieldFacts DEF Varlen
<1>2. B(0) = 0 /\ \A k \in 1 .. L : B(k) = IF k \in Varlen THEN k ELSE B(k - 1)
  <2>1. \A k \in 1 .. L : (k - 1) + 1 = k
    BY <1>1
  <2> QED BY <2>1, BeforeStep
<1> HIDE DEF B
<1>3. 0 \in S
  BY <1>1, <1>2
<1>4. ASSUME NEW k \in 1 .. L, k - 1 \in S PROVE k \in S
  <2>1. CASE k \in Varlen
    <3>1. B(k) = k /\ k # 0 /\ PlaceOf(k) = k /\ k <= 2 * L /\ k \in Rest /\ k \in 0 .. L
      BY <1>1, <1>2, <2>1, Places DEF PlaceOf
    <3>2. W[2 * L].ends[k] = W[k].off
      BY <2>1, <3>1 DEF Good, FieldDone
    <3> QED BY <2>1, <3>1, <3>2
  <2>2. CASE k \notin Varlen
    <3>1. B(k) = B(k - 1) /\ k \in 0 .. L /\ k \in 1 .. 2 * L
      BY <1>1, <1>2, <2>2
    <3>2. Reorder[k] = 0
      BY <1>1, <2>2, <3>1 DEF Reorder, L
    <3>3. W[k].off = W[k - 1].off
      BY <3>1, <3>2 DEF Good
    <3>4. (\A j \in Varlen : j > k - 1) => \A j \in Varlen : j > k
      BY <1>1, <2>2
    <3> QED BY <1>4, <3>1, <3>3, <3>4
  <2> QED BY <2>1, <2>2
<1>5. \A k \in 0 .. L : k \in S
  <2> HIDE DEF S
  <2> QED BY <1>1, <1>3, <1>4, UpTo
<1> QED BY <1>5 DEF B

\* The null bits that are set are those of the fields that are null.
LEMMA NullsRight ==
  ASSUME NullableVarlenAhead, ~AnyNulls, NEW v, NEW header, Ready(v, header)
  PROVE  \A i \in FieldIds :
           /\ v[i] = Null => field[i].nullable
           /\ field[i].nullable => (NullbitId(i) \in NullsAt(v, 2 * L) <=> v[i] = Null)
<1>1. /\ field \in Schemas /\ v \in RecordsOf(field)
  BY DEF Ready
<1>2. \A i \in FieldIds : v[i] = Null => field[i].nullable
  BY <1>1 DEF RecordsOf, FieldIds
<1>3. \A i \in FieldIds : field[i].nullable => i \in Rest
  BY DEF Rest, NonNullableFixed
<1>4. \A i \in Rest : PlaceOf(i) <= 2 * L /\ i \in FieldIds
  <2>1. \A i \in Rest : PlaceOf(i) \in 1 .. 2 * L
    BY <1>1, Places
  <2> QED BY <1>1, <2>1, FieldFacts DEF Rest
<1>5. ASSUME NEW i \in FieldIds, field[i].nullable, v[i] = Null
      PROVE  NullbitId(i) \in NullsAt(v, 2 * L)
  BY <1>3, <1>4, <1>5 DEF NullsAt
<1>6. ASSUME NEW i \in FieldIds, field[i].nullable, NullbitId(i) \in NullsAt(v, 2 * L)
      PROVE  v[i] = Null
  <2>1. PICK j \in Rest : v[j] = Null /\ NullbitId(i) = NullbitId(j)
    BY <1>6 DEF NullsAt
  <2>2. j \in FieldIds /\ field[j].nullable
    BY <1>2, <1>4, <2>1
  <2> QED BY <1>1, <1>6, <2>1, <2>2, NullBits
<1> QED BY <1>2, <1>5, <1>6

\* The recursion of NullableFixedEnd has a solution.
LEMMA SkipExists ==
  ASSUME field \in Schemas, NEW i \in FieldIds
  PROVE  \E E : /\ E[0] = VarlenAreaEnd /\ NullableFixedEnd(i) = E[i - 1]
                /\ \A k \in 1 .. i - 1 : E[k] = SkipField(k, E[k - 1])
<1> DEFINE G(n, f) == f = [k \in 0 .. n |-> IF k = 0 THEN VarlenAreaEnd ELSE SkipField(k, f[k - 1])]
           S == {n \in Nat : \E f : G(n, f)}
           M == i - 1
<1>1. M \in Nat
  BY FieldFacts
<1>2. 0 \in S
  <2>1. G(0, [k \in 0 .. 0 |-> VarlenAreaEnd])
    OBVIOUS
  <2> QED BY <2>1
<1>3. ASSUME NEW k \in 1 .. M, k - 1 \in S PROVE k \in S
  <2>1. PICK f : G(k - 1, f)
    BY <1>3
  <2> DEFINE g == [j \in 0 .. k |-> IF j = k THEN SkipField(k, f[k - 1]) ELSE f[j]]
  <2> HIDE DEF M
  <2>2. ASSUME NEW j \in 0 .. k
        PROVE  g[j] = IF j = 0 THEN VarlenAreaEnd ELSE SkipField(j, g[j - 1])
    <3>1. CASE j = k
      BY <3>1
    <3>2. CASE j # k
      <4>1. j \in 0 .. k - 1 /\ g[j] = f[j] /\ (j # 0 => g[j - 1] = f[j - 1])
        BY <3>2
      <4>2. f[j] = IF j = 0 THEN VarlenAreaEnd ELSE SkipField(j, f[j - 1])
        BY <2>1, <4>1
      <4> QED BY <4>1, <4>2
    <3> QED BY <3>1, <3>2
  <2>3. G(k, g)
    BY <2>2
  <2>4. k \in Nat
    BY <1>1
  <2> HIDE DEF g, G
  <2> QED BY <2>3, <2>4
<1>4. M \in S
  <2> HIDE DEF S, M
  <2>1. \A k \in 0 .. M : k \in S
    BY <1>1, <1>2, <1>3, UpTo
  <2> QED BY <1>1, <2>1
<1>5. \E f : G(M, f)
  BY <1>4
<1>6. G(M, CHOOSE f : G(M, f))
  BY <1>5, Zenon
<1> DEFINE E == CHOOSE f : G(M, f)
<1>7. NullableFixedEnd(i) = E[M]
  BY DEF NullableFixedEnd
<1> HIDE DEF E
<1>8. E = [k \in 0 .. M |-> IF k = 0 THEN VarlenAreaEnd ELSE SkipField(k, E[k - 1])]
  BY <1>6, Zenon DEF E
<1>9. E[0] = VarlenAreaEnd /\ \A k \in 1 .. M : E[k] = SkipField(k, E[k - 1])
  <2> HIDE DEF M
  <2> QED BY <1>1, <1>8
<1> QED BY <1>7, <1>9

\* The end of a field that was written fits a FieldOffset: nothing wraps around
\* when it is computed again.
LEMMA AlignedAgain ==
  ASSUME LayoutsSmall, ValuesShort, NEW v, NEW header, Ready(v, header),
         NEW h, h = AlignUp(MaxAlignOf, header), NEW W, IsRun(W, v, h),
         Good(W, v, h, 2 * L), NEW i \in Rest, v[i] # Null,
         NEW o, o = W[PlaceOf(i) - 1].off
  PROVE  /\ TYPEALIGN(field[i].typalign, o) = W[2 * L].begin[i]
         /\ W[2 * L].begin[i] \in Nat /\ SizeOf(v, i) \in Nat
         /\ W[PlaceOf(i)].off = W[2 * L].begin[i] + SizeOf(v, i)
         /\ W[PlaceOf(i)].off \in 0 .. MaxOffset
<1>1. field \in Schemas /\ L \in Nat /\ layout.payload_begin \in 0 .. MaxOffset /\ MaxOffset \in Nat
  BY LayoutPlaces, FieldFacts, Half DEF Ready
<1>2. PlaceOf(i) \in 1 .. 2 * L /\ i \in FieldIds
  BY <1>1, Places DEF Rest
<1>3. /\ W[2 * L].begin[i] = AlignUp(field[i].typalign, o)
      /\ W[PlaceOf(i)].off = W[2 * L].begin[i] + SizeOf(v, i)
  <2>1. PlaceOf(i) <= 2 * L
    BY <1>1, <1>2
  <2> QED BY <2>1 DEF Good, FieldDone
<1>4. o \in 0 .. MaxOffset /\ W[PlaceOf(i)].off \in 0 .. MaxOffset
  <2>1. 2 * L \in 0 .. 2 * L /\ PlaceOf(i) \in 0 .. 2 * L /\ PlaceOf(i) - 1 \in 0 .. 2 * L
    BY <1>1, <1>2
  <2>2. /\ o \in layout.payload_begin .. W[2 * L].off
        /\ W[PlaceOf(i)].off \in layout.payload_begin .. W[2 * L].off
        /\ W[2 * L].off \in layout.payload_begin .. MaxOffset
    BY <2>1 DEF Good
  <2> QED BY <1>1, <2>2
<1>5. /\ SizeOf(v, i) \in Nat /\ field[i].typalign \in Nat \ {0}
      /\ field[i].typalign <= MaxOffset + 2
  <2>1. /\ SizeOf(v, i) \in Nat /\ field[i].typalign \in Nat \ {0}
        /\ field[i].typalign <= MaxAlignOf /\ MaxAlignOf \in Nat
        /\ AlignUp(MaxAlignOf, header) \in Nat
        /\ AlignUp(MaxAlignOf, header) + MaxAlignOf <= MaxOffset + 1
    BY <1>2, ReadyFacts
  <2> QED BY <1>1, <2>1
<1>6. PICK a \in Nat \ {0} : a = field[i].typalign
  BY <1>5
<1>7. /\ AlignUp(a, o) \in Nat
      /\ AlignUp(a, o) <= MaxOffset => TYPEALIGN(a, o) = AlignUp(a, o)
  <2>1. a <= MaxOffset + 2
    BY <1>5, <1>6
  <2>2. /\ AlignUp(a, o) \in Nat
        /\ \/ AlignUp(a, o) <= MaxOffset /\ TYPEALIGN(a, o) = AlignUp(a, o)
           \/ AlignUp(a, o) > MaxOffset
    BY <1>4, <2>1, AlignedOffset
  <2> QED BY <1>1, <2>2
<1>8. AlignUp(a, o) <= MaxOffset
  BY <1>1, <1>3, <1>4, <1>5, <1>6, <1>7
<1> QED BY <1>3, <1>4, <1>5, <1>6, <1>7, <1>8

\* Skipping the nullable fixed-length fields retraces the offsets of the run.
LEMMA SkipRight ==
  ASSUME LayoutsSmall, ValuesShort, NullableVarlenAhead, ~AnyNulls,
         NEW header, Ready(data, header),
         NEW h, h = AlignUp(MaxAlignOf, header), NEW W, IsRun(W, data, h),
         Done(buf, W, data, h), NEW i \in FieldIds
  PROVE  NullableFixedEnd(i) = W[L + i - 1].off
<1>1. /\ field \in Schemas /\ L \in Nat /\ L >= 1 /\ FieldIds = 1 .. L
      /\ Good(W, data, h, 2 * L) /\ buf.ends = W[2 * L].ends
      /\ buf.nulls = NullsAt(data, 2 * L)
  BY FieldFacts DEF Ready, Done, Good
<1>2. PICK E : /\ E[0] = VarlenAreaEnd /\ NullableFixedEnd(i) = E[i - 1]
               /\ \A k \in 1 .. i - 1 : E[k] = SkipField(k, E[k - 1])
  BY <1>1, SkipExists
<1> DEFINE S == {k \in 0 .. i - 1 : E[k] = W[L + k].off}
<1>3. 0 \in S
  <2>1. W[0].off = layout.payload_begin
    BY RunStart
  <2>2. /\ W[L].off = IF Before(Varlen, L + 1) = 0 THEN layout.payload_begin
                      ELSE W[2 * L].ends[Before(Varlen, L + 1)]
        /\ \/ Before(Varlen, L + 1) = 0 /\ \A j \in Varlen : j > L
           \/ Before(Varlen, L + 1) \in Varlen
    <3>1. L \in 0 .. L
      BY <1>1
    <3> QED BY <1>1, <2>1, <3>1, VarlenStart
  <2>3. \A j \in Varlen : j \in 1 .. L
    BY <1>1 DEF Varlen
  <2>4. Varlen = {} <=> Before(Varlen, L + 1) = 0
    <3>1. ASSUME NEW j \in Varlen PROVE ~(j > L) /\ j # 0
      BY <1>1, <2>3
    <3> QED BY <2>2, <3>1
  <2>5. VarlenAreaEnd = W[L].off
    BY <1>1, <2>2, <2>4 DEF VarlenAreaEnd, L
  <2> QED BY <1>1, <1>2, <2>5
<1>4. ASSUME NEW k \in 1 .. i - 1, k - 1 \in S PROVE k \in S
  <2>1. /\ k \in 1 .. L /\ k \in FieldIds /\ L + k \in 1 .. 2 * L /\ L + (k - 1) = L + k - 1
        /\ k \in 0 .. i - 1
    BY <1>1
  <2>2. E[k] = SkipField(k, W[L + k - 1].off)
    BY <1>2, <1>4, <2>1
  <2>3. CASE k \notin NullableFixed
    <3>1. Reorder[L + k] = 0
      <4>1. ~(L + k <= L) /\ (L + k) - L = k
        BY <1>1, <2>1
      <4> QED BY <2>1, <2>3, <4>1 DEF Reorder, L
    <3>2. W[L + k].off = W[L + k - 1].off
      BY <1>1, <2>1, <3>1 DEF Good
    <3> QED BY <2>1, <2>2, <2>3, <3>2 DEF SkipField
  <2>4. CASE k \in NullableFixed
    <3>1. /\ k \in Rest /\ PlaceOf(k) = L + k /\ field[k].nullable /\ ~field[k].varlen
          /\ PlaceOf(k) <= 2 * L
      BY <1>1, <2>1, <2>4, Places DEF PlaceOf, NullableFixed
    <3>2. NullbitId(k) \in buf.nulls <=> data[k] = Null
      BY <1>1, <2>1, <3>1, NullsRight
    <3>3. CASE data[k] = Null
      <4>1. W[L + k].off = W[L + k - 1].off
        BY <1>1, <3>1, <3>3 DEF Good, FieldDone
      <4> QED BY <2>1, <2>2, <3>2, <3>3, <4>1 DEF SkipField, TakesSpace
    <3>4. CASE data[k] # Null
      <4>1. PICK o : o = W[L + k - 1].off
        OBVIOUS
      <4>2. /\ TYPEALIGN(field[k].typalign, o) = W[2 * L].begin[k]
            /\ W[2 * L].begin[k] \in Nat /\ SizeOf(data, k) \in Nat
            /\ W[L + k].off = W[2 * L].begin[k] + SizeOf(data, k)
            /\ W[L + k].off \in 0 .. MaxOffset
        BY <1>1, <3>1, <3>4, <4>1, AlignedAgain
      <4>3. SizeOf(data, k) = field[k].typlen
        BY <3>1 DEF SizeOf
      <4>4. E[k] = FieldOffset(W[L + k].off)
        BY <2>2, <2>4, <3>2, <3>4, <4>1, <4>2, <4>3 DEF SkipField, TakesSpace
      <4>5. FieldOffset(W[L + k].off) = W[L + k].off
        BY <4>2, Keeps, Half
      <4> QED BY <2>1, <4>4, <4>5
    <3> QED BY <3>3, <3>4
  <2> QED BY <2>3, <2>4
<1>5. i - 1 \in Nat /\ i - 1 \in 0 .. i - 1 /\ L + (i - 1) = L + i - 1
  BY <1>1
<1>6. \A k \in 0 .. i - 1 : k \in S
  <2>1. PICK m \in Nat : m = i - 1
    BY <1>5
  <2> HIDE DEF S
  <2> QED BY <1>3, <1>4, <2>1, UpTo
<1>7. E[i - 1] = W[L + (i - 1)].off
  BY <1>5, <1>6
<1> QED BY <1>2, <1>5, <1>7

LEMMA InvRoundTrip ==
  ASSUME LayoutsSmall, ValuesShort, NullableVarlenAhead, ~AnyNulls, IInv
  PROVE  RoundTrip
<1>1. SUFFICES ASSUME IsWritten, NEW i \in FieldIds
               PROVE  IF data[i] = Null THEN FieldIsNull(i)
                      ELSE /\ ~FieldIsNull(i)
                           /\ GetOffsetAndLength(i) = <<buf.begin[i], TrueSize(i)>>
  BY DEF RoundTrip
<1>0. PICK header \in HeaderSizes :
        \E W : /\ Ready(data, header) /\ IsRun(W, data, AlignUp(MaxAlignOf, header))
               /\ Done(buf, W, data, AlignUp(MaxAlignOf, header))
  BY <1>1, WrittenBuffer
<1>2. PICK W : /\ Ready(data, header) /\ IsRun(W, data, AlignUp(MaxAlignOf, header))
               /\ Done(buf, W, data, AlignUp(MaxAlignOf, header))
  BY <1>0
<1>3. PICK h : h = AlignUp(MaxAlignOf, header)
  OBVIOUS
<1>4. /\ field \in Schemas /\ L \in Nat /\ FieldIds = 1 .. L
      /\ Good(W, data, h, 2 * L) /\ buf.begin = W[2 * L].begin /\ buf.ends = W[2 * L].ends
      /\ buf.nulls = NullsAt(data, 2 * L)
  BY <1>2, <1>3, FieldFacts DEF Ready, Done, Good
<1>5. /\ data[i] = Null => field[i].nullable
      /\ field[i].nullable => (NullbitId(i) \in buf.nulls <=> data[i] = Null)
  BY <1>2, <1>4, NullsRight
<1>6. FieldIsNull(i) <=> data[i] = Null
  BY <1>5 DEF FieldIsNull
<1>7. SUFFICES ASSUME data[i] # Null
               PROVE  GetOffsetAndLength(i) = <<buf.begin[i], TrueSize(i)>>
  BY <1>6
<1>8. CASE i \in NonNullableFixed
  <2>1. buf.begin[i] = FixedBegin(i, FixedEnd[i - 1])
    BY <1>4, <1>8 DEF Good
  <2>2. TrueSize(i) = field[i].typlen
    BY <1>8 DEF TrueSize, NonNullableFixed
  <2> QED BY <1>8, <2>1, <2>2 DEF GetOffsetAndLength
<1>9. CASE i \in Rest
  <2>1. PICK o : o = W[PlaceOf(i) - 1].off
    OBVIOUS
  <2>2. /\ TYPEALIGN(field[i].typalign, o) = buf.begin[i]
        /\ buf.begin[i] \in Nat /\ SizeOf(data, i) \in Nat
        /\ W[PlaceOf(i)].off = buf.begin[i] + SizeOf(data, i)
    BY <1>2, <1>3, <1>4, <1>7, <1>9, <2>1, AlignedAgain
  <2>3. TrueSize(i) = SizeOf(data, i) /\ i \notin NonNullableFixed
    BY <1>9 DEF TrueSize, SizeOf, Rest
  <2>4. CASE i \in Varlen
    <3>1. PlaceOf(i) = i /\ i <= 2 * L /\ i - 1 \in 0 .. L /\ (i - 1) + 1 = i
      BY <1>4, <2>4 DEF PlaceOf
    <3>2. W[0].off = layout.payload_begin
      BY <1>2, <1>3, RunStart
    <3>3. o = IF Before(Varlen, i) = 0 THEN layout.payload_begin ELSE buf.ends[Before(Varlen, i)]
      BY <1>4, <2>1, <3>1, <3>2, VarlenStart
    <3>4. buf.ends[i] = W[i].off
      BY <1>4, <1>9, <2>4, <3>1 DEF Good, FieldDone
    <3>5. buf.ends[i] >= buf.begin[i] /\ buf.ends[i] - buf.begin[i] = TrueSize(i)
      BY <2>2, <2>3, <3>1, <3>4
    <3> QED BY <2>2, <2>3, <2>4, <3>3, <3>5 DEF GetOffsetAndLength
  <2>5. CASE i \notin Varlen
    <3>1. PlaceOf(i) = L + i
      BY <2>5 DEF PlaceOf
    <3>2. NullableFixedEnd(i) = o
      <4>1. NullableFixedEnd(i) = W[L + i - 1].off
        <5>1. Ready(data, header) /\ IsRun(W, data, h) /\ Done(buf, W, data, h)
          BY <1>2, <1>3
        <5> QED BY <1>1, <1>3, <5>1, SkipRight, Zenon
      <4> QED BY <1>4, <2>1, <3>1, <4>1
    <3>3. TrueSize(i) = field[i].typlen
      BY <2>5 DEF TrueSize, Varlen
    <3> QED BY <2>2, <2>3, <2>5, <3>2, <3>3 DEF GetOffsetAndLength
  <2> QED BY <2>4, <2>5
<1> QED BY <1>8, <1>9 DEF Rest

-----------------------------------------------------------------------------
(***************************************************************************)
(* The length of a record: the run is good as long as exact arithmetic     *)
(* stays within a FieldOffset.                                             *)
(***************************************************************************)
LEMMA NeededExists ==
  ASSUME field \in Schemas
  PROVE  \E N : /\ N[0] = layout.payload_begin
                /\ \A k \in 1 .. 2 * L : N[k] = Occupied(Reorder[k], N[k - 1])
                /\ \A x : Needed(x) = x + AlignUp(MaxAlignOf, N[2 * L])
<1> DEFINE p == layout.payload_begin
           step(k, n) == Occupied(Reorder[k], n)
           G(n, f) == f = [k \in 0 .. n |-> IF k = 0 THEN p ELSE step(k, f[k - 1])]
           S == {n \in Nat : \E f : G(n, f)}
           M == 2 * L
<1>1. L \in Nat /\ M \in Nat
  BY FieldFacts
<1>2. 0 \in S
  <2>1. G(0, [k \in 0 .. 0 |-> p])
    OBVIOUS
  <2> QED BY <2>1
<1>3. ASSUME NEW k \in 1 .. M, k - 1 \in S PROVE k \in S
  <2>1. PICK f : G(k - 1, f)
    BY <1>3
  <2> DEFINE g == [i \in 0 .. k |-> IF i = k THEN step(k, f[k - 1]) ELSE f[i]]
  <2> HIDE DEF M
  <2>2. ASSUME NEW i \in 0 .. k
        PROVE  g[i] = IF i = 0 THEN p ELSE step(i, g[i - 1])
    <3> HIDE DEF step
    <3>1. CASE i = k
      BY <3>1
    <3>2. CASE i # k
      <4>1. i \in 0 .. k - 1 /\ g[i] = f[i] /\ (i # 0 => g[i - 1] = f[i - 1])
        BY <3>2
      <4>2. f[i] = IF i = 0 THEN p ELSE step(i, f[i - 1])
        BY <2>1, <4>1
      <4> QED BY <4>1, <4>2
    <3> QED BY <3>1, <3>2
  <2>3. G(k, g)
    <3> HIDE DEF step
    <3> QED BY <2>2
  <2>4. k \in Nat
    BY <1>1
  <2> HIDE DEF g, G
  <2> QED BY <2>3, <2>4
<1>4. M \in S
  <2> HIDE DEF S, M
  <2>1. \A k \in 0 .. M : k \in S
    BY <1>1, <1>2, <1>3, UpTo
  <2> QED BY <1>1, <2>1
<1>5. \E f : G(M, f)
  BY <1>4
<1>6. G(M, CHOOSE f : G(M, f))
  BY <1>5, Zenon
<1> DEFINE N == CHOOSE f : G(M, f)
<1>7. \A x : Needed(x) = x + AlignUp(MaxAlignOf, N[M])
  BY DEF Needed, L
<1> HIDE DEF N
<1>8. N = [k \in 0 .. M |-> IF k = 0 THEN p ELSE step(k, N[k - 1])]
  BY <1>6, Zenon DEF N
<1>9. N[0] = p /\ \A k \in 1 .. M : N[k] = step(k, N[k - 1])
  <2> HIDE DEF step, M, p
  <2> QED BY <1>1, <1>8
<1> QED BY <1>7, <1>9

LEMMA NeededRight ==
  ASSUME LayoutsSmall, ValuesShort, NEW header, Ready(data, header),
         NEW h, h = AlignUp(MaxAlignOf, header), NEW W, IsRun(W, data, h),
         NEW N, N[0] = layout.payload_begin,
         \A k \in 1 .. 2 * L : N[k] = Occupied(Reorder[k], N[k - 1])
  PROVE  \A k \in 0 .. 2 * L :
           \/ Good(W, data, h, k) /\ N[k] = W[k].off
           \/ W[k] \in Writes /\ Bad(W[k], h) /\ N[k] \in Int /\ N[k] > MaxOffset
<1> DEFINE M == 2 * L
           S == {k \in 0 .. M :
                   \/ Good(W, data, h, k) /\ N[k] = W[k].off
                   \/ W[k] \in Writes /\ Bad(W[k], h) /\ N[k] \in Int /\ N[k] > MaxOffset}
<1>1. field \in Schemas /\ M \in Nat /\ MaxOffset \in Nat /\ L \in Nat
  BY FieldFacts, Half DEF Ready
<1>2. 0 \in S
  BY <1>1, RunStart
<1>3. ASSUME NEW k \in 1 .. M, k - 1 \in S PROVE k \in S
  <2>1. PICK i : i = Reorder[k]
    OBVIOUS
  <2>2. /\ k \in 0 .. M /\ i \in Rest \cup {0} /\ W[k] = WriteField(W[k - 1], i, data, h)
        /\ N[k] = Occupied(i, N[k - 1]) /\ Rest \subseteq FieldIds
    BY <1>1, <2>1, Places DEF IsRun, Rest
  <2>3. PICK n : n = N[k - 1]
    OBVIOUS
  <2>4. ASSUME i # 0, data[i] # Null, n \in Int
        PROVE  /\ Occupied(i, n) = AlignUp(field[i].typalign, n) + SizeOf(data, i)
               /\ Occupied(i, n) \in Int /\ n <= Occupied(i, n)
    <3>1. i \in FieldIds
      BY <2>2, <2>4
    <3>2. SizeOf(data, i) \in Nat /\ field[i].typalign \in Nat \ {0}
      BY <2>4, <3>1, ReadyFacts
    <3>3. Occupied(i, n) = AlignUp(field[i].typalign, n) + SizeOf(data, i)
      BY <2>4 DEF Occupied, TrueSize, SizeOf
    <3>4. AlignUp(field[i].typalign, n) \in Int /\ n <= AlignUp(field[i].typalign, n)
      <4>1. PICK a \in Nat \ {0} : a = field[i].typalign
        BY <3>2
      <4> QED BY <2>4, <4>1, Aligned
    <3> QED BY <2>4, <3>2, <3>3, <3>4
  <2>5. CASE Good(W, data, h, k - 1) /\ n = W[k - 1].off
    <3>1. n \in Int
      BY <2>5 DEF Good, Writes
    <3>2. CASE Good(W, data, h, k) /\ Step(W[k - 1], W[k], data, h, i)
      <4>1. CASE i = 0 \/ data[i] = Null
        <5>1. W[k].off = n
          BY <2>5, <3>2, <4>1 DEF Step
        <5>2. N[k] = n
          BY <2>2, <2>3, <4>1 DEF Occupied
        <5> QED BY <2>2, <3>2, <5>1, <5>2
      <4>2. CASE i # 0 /\ data[i] # Null
        <5>1. W[k].off = AlignUp(field[i].typalign, n) + SizeOf(data, i)
          BY <2>5, <3>2, <4>2 DEF Step
        <5>2. N[k] = AlignUp(field[i].typalign, n) + SizeOf(data, i)
          BY <2>2, <2>3, <2>4, <3>1, <4>2
        <5> QED BY <2>2, <3>2, <5>1, <5>2
      <4> QED BY <4>1, <4>2
    <3>3. CASE W[k] \in Writes /\ Bad(W[k], h) /\ TooLong(W[k - 1], data, i)
      <4>1. /\ i # 0 /\ data[i] # Null
            /\ AlignUp(field[i].typalign, n) + SizeOf(data, i) > MaxOffset
        BY <2>5, <3>3 DEF TooLong
      <4>2. N[k] \in Int /\ N[k] > MaxOffset
        BY <2>2, <2>3, <2>4, <3>1, <4>1
      <4> QED BY <2>2, <3>3, <4>2
    <3>4. \/ Good(W, data, h, k) /\ Step(W[k - 1], W[k], data, h, i)
          \/ W[k] \in Writes /\ Bad(W[k], h) /\ TooLong(W[k - 1], data, i)
      BY <2>1, <2>5, RunStep
    <3> QED BY <3>2, <3>3, <3>4
  <2>6. CASE W[k - 1] \in Writes /\ Bad(W[k - 1], h) /\ n \in Int /\ n > MaxOffset
    <3>1. W[k] \in Writes /\ Bad(W[k], h)
      BY <2>2, <2>6, BadStays
    <3>2. N[k] \in Int /\ N[k] > MaxOffset
      <4>1. CASE i = 0 \/ data[i] = Null
        BY <2>2, <2>3, <2>6, <4>1 DEF Occupied
      <4>2. CASE i # 0 /\ data[i] # Null
        BY <1>1, <2>2, <2>3, <2>4, <2>6, <4>2
      <4> QED BY <4>1, <4>2
    <3> QED BY <2>2, <3>1, <3>2
  <2> QED BY <1>3, <2>3, <2>5, <2>6
<1>4. \A k \in 0 .. M : k \in S
  <2> HIDE DEF S, M
  <2> QED BY <1>1, <1>2, <1>3, UpTo
<1> QED BY <1>4

LEMMA InvFails ==
  ASSUME LayoutsSmall, ValuesShort, HeaderSizes = {0}, IInv
  PROVE  FailsIffTooLong
<1>1. SUFFICES ASSUME data # <<>>
               PROVE  IsWritten <=> Needed(AlignUp(MaxAlignOf, buf.init_len)) <= MaxOffset
  BY DEF FailsIffTooLong
<1>2. Ready(data, 0) /\ buf = Payload(data, 0)
  BY <1>1 DEF IInv
<1>3. PICK h : h = AlignUp(MaxAlignOf, 0)
  OBVIOUS
<1>4. /\ field \in Schemas /\ L \in Nat /\ L >= 1 /\ MaxAlignOf \in Nat \ {0}
      /\ MaxOffset \in Nat /\ layout.payload_begin \in 0 .. MaxOffset
  BY <1>2, FieldFacts, SchemaAssumption, LayoutPlaces, Half DEF Ready
<1>5. h = 0
  BY <1>3, <1>4, AlignedZero
<1>6. 0 < MaxOffset
  <2>1. OffsetSize * L <= MaxOffset /\ OffsetSize \in Nat \ {0}
    BY <1>4, SchemaAssumption DEF LayoutsSmall, L
  <2>2. OffsetSize * L >= 1
    BY <1>4, <2>1
  <2> QED BY <1>4, <2>1, <2>2
<1>7. PICK W : IsRun(W, data, h) /\ Written(data, h) = W[2 * L]
  BY <1>4, WrittenExists
<1>8. PICK N : /\ N[0] = layout.payload_begin
               /\ \A k \in 1 .. 2 * L : N[k] = Occupied(Reorder[k], N[k - 1])
               /\ \A x : Needed(x) = x + AlignUp(MaxAlignOf, N[2 * L])
  BY <1>4, NeededExists
<1>9. /\ \/ buf = [ret |-> -1, init_len |-> 0, size |-> 0]
         \/ Done(buf, W, data, h)
      /\ /\ Good(W, data, h, 2 * L)
         /\ AlignUp(MaxAlignOf, W[2 * L].off) <= MaxOffset
         => Done(buf, W, data, h)
  BY <1>2, <1>3, <1>6, <1>7, PayloadWritten
<1>10. \/ Good(W, data, h, 2 * L) /\ N[2 * L] = W[2 * L].off
       \/ /\ W[2 * L] \in Writes /\ Bad(W[2 * L], h)
          /\ N[2 * L] \in Int /\ N[2 * L] > MaxOffset
  <2>1. 2 * L \in 0 .. 2 * L
    BY <1>4
  <2> QED BY <1>2, <1>3, <1>7, <1>8, <2>1, NeededRight
<1>11. ASSUME Done(buf, W, data, h) PROVE buf.init_len = 0 /\ buf.ret >= 0 /\ buf.ret \in Int
  <2>1. buf.init_len = h /\ buf.ret \in W[2 * L].off .. MaxOffset /\ Good(W, data, h, 2 * L)
    BY <1>11 DEF Done
  <2>2. W[2 * L].off \in layout.payload_begin .. MaxOffset
    BY <2>1 DEF Good
  <2> QED BY <1>4, <1>5, <2>1, <2>2
<1>12. buf.init_len = 0
  BY <1>9, <1>11
<1>13. PICK n : n = N[2 * L]
  OBVIOUS
<1>14. n \in Int /\ AlignUp(MaxAlignOf, n) \in Int /\ n <= AlignUp(MaxAlignOf, n)
  <2>1. n \in Int
    BY <1>10, <1>13 DEF Good, Writes
  <2> QED BY <1>4, <2>1, Aligned
<1>15. Needed(AlignUp(MaxAlignOf, buf.init_len)) = AlignUp(MaxAlignOf, n)
  BY <1>3, <1>5, <1>8, <1>12, <1>13, <1>14
<1>16. ASSUME IsWritten PROVE AlignUp(MaxAlignOf, n) <= MaxOffset
  <2>1. Done(buf, W, data, h)
    BY <1>9, <1>16 DEF IsWritten
  <2>2. Good(W, data, h, 2 * L) /\ AlignUp(MaxAlignOf, W[2 * L].off) <= MaxOffset
    BY <1>4, <2>1 DEF Done, Good
  <2>3. ~Bad(W[2 * L], h)
    BY <1>4, <2>2 DEF Good, Bad
  <2> QED BY <1>10, <1>13, <2>2, <2>3
<1>17. ASSUME AlignUp(MaxAlignOf, n) <= MaxOffset PROVE IsWritten
  <2>1. ~(n > MaxOffset)
    BY <1>4, <1>14, <1>17
  <2>2. Good(W, data, h, 2 * L) /\ n = W[2 * L].off
    BY <1>10, <1>13, <2>1
  <2>3. Done(buf, W, data, h)
    BY <1>9, <1>17, <2>2
  <2> QED BY <1>11, <2>3 DEF IsWritten
<1> QED BY <1>15, <1>16, <1>17

LEMMA InvTypes == ASSUME LayoutsSmall, ValuesShort, IInv PROVE TypeOK
<1>1. /\ field \in Schemas /\ MaxOffset \in Nat /\ layout.computed \in BOOLEAN
      /\ layout.computed => layout.payload_begin \in 0 .. MaxOffset
  BY LayoutPlaces, Half DEF IInv
<1>2. CASE data = <<>>
  <2>1. buf.ret = -1 /\ buf.size = 0
    BY <1>2 DEF IInv, NothingWritten
  <2> QED BY <1>1, <1>2, <2>1 DEF TypeOK
<1>3. CASE data # <<>>
  <2>1. PICK header \in HeaderSizes : Ready(data, header) /\ buf = Payload(data, header)
    BY <1>3 DEF IInv
  <2>2. PICK h : h = AlignUp(MaxAlignOf, header)
    OBVIOUS
  <2>3. PICK W : IsRun(W, data, h) /\ Written(data, h) = W[2 * L]
    BY <1>1, WrittenExists
  <2>4. \/ buf = [ret |-> -1, init_len |-> header, size |-> 0]
        \/ Done(buf, W, data, h)
    BY <2>1, <2>2, <2>3, PayloadWritten
  <2>5. CASE Done(buf, W, data, h)
    <3>1. /\ buf.size = h + buf.ret /\ buf.ret \in W[2 * L].off .. MaxOffset
          /\ Good(W, data, h, 2 * L)
      BY <2>5 DEF Done
    <3>2. W[2 * L].off \in layout.payload_begin .. MaxOffset
      BY <3>1 DEF Good
    <3>3. layout.payload_begin \in 0 .. MaxOffset /\ h \in Nat
      BY <1>1, <1>3, <2>1, <2>2, ReadyFacts DEF IInv
    <3>4. buf.ret \in -1 .. MaxOffset /\ buf.size \in Nat
      BY <1>1, <3>1, <3>2, <3>3
    <3>5. data \in RecordsOf(field)
      BY <2>1 DEF Ready
    <3> QED BY <1>1, <3>4, <3>5 DEF TypeOK
  <2>6. CASE buf = [ret |-> -1, init_len |-> header, size |-> 0]
    <3>1. buf.ret = -1 /\ buf.size = 0
      BY <2>6
    <3>2. data \in RecordsOf(field)
      BY <2>1 DEF Ready
    <3> QED BY <1>1, <3>1, <3>2 DEF TypeOK
  <2> QED BY <2>4, <2>5, <2>6
<1> QED BY <1>2, <1>3

-----------------------------------------------------------------------------
(***************************************************************************)
(* The theorems.                                                           *)
(***************************************************************************)
\* The offsets of a computed layout and the length WritePayloadToBufferImpl()
\* returns are never those of an overflow.
THEOREM TypeCorrect == ASSUME LayoutsSmall, ValuesShort PROVE Spec => []TypeOK
<1>1. IInv => TypeOK
  BY InvTypes
<1>2. IInv /\ [Next]_vars => IInv'
  BY InvStep
<1>3. Init => IInv
  BY InvStart
<1> QED BY <1>1, <1>2, <1>3, PTL DEF Spec

\* For every schema and every record: the fields that WritePayloadToBufferImpl()
\* writes share no byte with each other, the null bitmap or the end array, are
\* aligned, and end within the payload, whatever is in the buffer before it.
THEOREM ApartAlways == ASSUME LayoutsSmall, ValuesShort PROVE Spec => []FieldsApart
<1>1. IInv => FieldsApart
  BY InvApart
<1>2. IInv /\ [Next]_vars => IInv'
  BY InvStep
<1>3. Init => IInv
  BY InvStart
<1> QED BY <1>1, <1>2, <1>3, PTL DEF Spec

\* GetField() reads back what was written, for every schema in which no nullable
\* varlen field comes after one that is not nullable and for records whose nulls
\* are in nullable fields.  The run bad_null_bits and the README show that
\* neither condition can be left out.
THEOREM ReadsWhatWasWritten ==
  ASSUME LayoutsSmall, ValuesShort, NullableVarlenAhead, ~AnyNulls
  PROVE  Spec => []RoundTrip
<1>1. IInv => RoundTrip
  BY InvRoundTrip
<1>2. IInv /\ [Next]_vars => IInv'
  BY InvStep
<1>3. Init => IInv
  BY InvStart
<1> QED BY <1>1, <1>2, <1>3, PTL DEF Spec

\* With an empty buffer WritePayloadToBufferImpl() returns -1 exactly for the
\* records that are longer than the largest FieldOffset, although its checks are
\* made on offsets that may have wrapped around.
THEOREM RefusesWhatIsTooLong ==
  ASSUME LayoutsSmall, ValuesShort, HeaderSizes = {0}
  PROVE  Spec => []FailsIffTooLong
<1>1. IInv => FailsIffTooLong
  BY InvFails
<1>2. IInv /\ [Next]_vars => IInv'
  BY InvStep
<1>3. Init => IInv
  BY InvStart
<1> QED BY <1>1, <1>2, <1>3, PTL DEF Spec

=============================================================================
