----------------------- MODULE VolatileCatFileProofs -----------------------
(***************************************************************************)
(* Proofs about VolatileCatFile for any width of the indexes, alignment,   *)
(* record lengths and number of iterators: records stay as they were       *)
(* written, the record under an iterator is valid, and an iteration        *)
(* returns every entry there was when it began, and none twice.            *)
(***************************************************************************)
EXTENDS VolatileCatFile, SequenceTheorems, TLAPS

N == Len(m_offsets)
Slots == [id : Nat, rec : Records]
Bytes == Vals \union {Zero}

\* The arrays have the same length, and one index is left for "past the end".
FileTypeOK ==
  /\ m_valid \in Seq(BOOLEAN) /\ Len(m_valid) = N
  /\ m_offsets \in Seq(Nat) /\ N <= Limit
  /\ slot \in Seq(Slots) /\ Len(slot) = N
  /\ m_bytes \in Seq(Bytes)
  /\ MAXALIGN(Len(m_bytes)) = Len(m_bytes)

\* A record ends before every later one begins, and in the file.
Layout ==
  \A i \in 1 .. N :
    /\ m_offsets[i] + slot[i].rec.len <= Len(m_bytes)
    /\ \A j \in 1 .. N : i < j => m_offsets[i] + slot[i].rec.len <= m_offsets[j]

\* An entry is in one valid slot at most; its number is that of its first slot.
OneSlot ==
  /\ \A i \in 1 .. N : slot[i].id <= i
  /\ \A i, j \in 1 .. N : m_valid[i] /\ m_valid[j] /\ slot[i].id = slot[j].id => i = j

FileInv == FileTypeOK /\ Layout /\ RecordsIntact /\ OneSlot

\* The slots that an iteration has still to visit.
Ahead(it) == iter[it].nextidx + 1 .. iter[it].endidx

\* Where an iterator may be.
InRange(it) ==
  /\ iter[it].endidx <= N
  /\ iter[it].nextidx <= iter[it].endidx + 1

\* What has not been returned is ahead, and what has been is not.
Pending(it) ==
  \A e \in start[it] \ seen[it] : \E i \in Ahead(it) : m_valid[i] /\ slot[i].id = e
SeenBehind(it) ==
  \A i \in Ahead(it) : m_valid[i] => slot[i].id \notin seen[it]

OnValid(it) ==
  iter[it].on =>
    /\ iter[it].open
    /\ iter[it].nextidx \in 1 .. iter[it].endidx
    /\ m_valid[iter[it].nextidx]

IterTypeOK ==
  /\ iter \in [Iters -> [open : BOOLEAN, nextidx : 0 .. IdxMod - 1,
                         endidx : 0 .. IdxMod - 1, on : BOOLEAN]]
  /\ start \in [Iters -> SUBSET Nat]
  /\ seen \in [Iters -> SUBSET Nat]

IterInv(it) ==
  /\ OnValid(it)
  /\ iter[it].open => InRange(it) /\ Pending(it) /\ SeenBehind(it)

IInv == FileInv /\ IterTypeOK /\ \A it \in Iters : IterInv(it)

-----------------------------------------------------------------------------
(***************************************************************************)
(* Arithmetic.                                                             *)
(***************************************************************************)
LEMMA AlignUp ==
  ASSUME NEW n \in Nat
  PROVE  MAXALIGN(n) \in Nat /\ MAXALIGN(n) >= n
<1> DEFINE q == (n + Alignment - 1) \div Alignment
<1>1. n + Alignment - 1 \in Nat /\ Alignment \in Nat \ {0}
  BY VolatileCatFileAssumption
<1>2. q \in Nat /\ n + Alignment - 1 < (q + 1) * Alignment
  BY <1>1
<1>3. (q + 1) * Alignment = q * Alignment + Alignment
  BY <1>1, <1>2
<1>4. q * Alignment \in Nat
  BY <1>1, <1>2
<1> HIDE DEF q
<1>5. q * Alignment >= n
  BY <1>1, <1>2, <1>3, <1>4
<1> QED BY <1>4, <1>5 DEF MAXALIGN, q

LEMMA AlignedStays ==
  ASSUME NEW n \in Nat
  PROVE  MAXALIGN(MAXALIGN(n)) = MAXALIGN(n)
<1> DEFINE q == (n + Alignment - 1) \div Alignment
<1>1. n + Alignment - 1 \in Nat /\ Alignment \in Nat \ {0}
  BY VolatileCatFileAssumption
<1>2. q \in Nat
  BY <1>1
<1>3. (q * Alignment + Alignment - 1) \div Alignment = q
  BY <1>1, <1>2
<1> QED BY <1>3 DEF MAXALIGN

\* An index of the file, and the one behind the last, does not wrap.
LEMMA NoWrap ==
  ASSUME NEW n \in 0 .. IdxMod - 1
  PROVE  n % IdxMod = n
BY VolatileCatFileAssumption

-----------------------------------------------------------------------------
(***************************************************************************)
(* The file.                                                               *)
(***************************************************************************)
\* The effect of appending the record, behind slots whose flags are `valid'.
Appended(valid, id, rec) ==
  /\ m_valid' \in Seq(BOOLEAN) /\ Len(m_valid') = N + 1
  /\ \A i \in 1 .. N : m_valid'[i] = valid[i]
  /\ m_valid'[N + 1] = TRUE
  /\ m_offsets' \in Seq(Nat) /\ Len(m_offsets') = N + 1
  /\ \A i \in 1 .. N : m_offsets'[i] = m_offsets[i]
  /\ m_offsets'[N + 1] = Len(m_bytes)
  /\ slot' \in Seq(Slots) /\ Len(slot') = N + 1
  /\ \A i \in 1 .. N : slot'[i] = slot[i]
  /\ slot'[N + 1] = [id |-> id, rec |-> rec]
  /\ m_bytes' \in Seq(Bytes)
  /\ Len(m_bytes') >= Len(m_bytes) + rec.len
  /\ MAXALIGN(Len(m_bytes')) = Len(m_bytes')
  /\ \A b \in 1 .. Len(m_bytes) : m_bytes'[b] = m_bytes[b]
  /\ \A b \in Len(m_bytes) + 1 .. Len(m_bytes) + rec.len : m_bytes'[b] = rec.val

LEMMA AppendSeq ==
  ASSUME NEW S, NEW s \in Seq(S), NEW e \in S, NEW t, t = Append(s, e)
  PROVE  /\ t \in Seq(S) /\ Len(t) = Len(s) + 1
         /\ \A i \in 1 .. Len(s) : t[i] = s[i]
         /\ t[Len(s) + 1] = e
BY AppendProperties

LEMMA AppendEffect ==
  ASSUME FileTypeOK, NEW valid \in Seq(BOOLEAN), Len(valid) = N, NEW id \in Nat,
         NEW rec \in Records, AppendTo(valid, id, rec)
  PROVE  Appended(valid, id, rec)
<1>1. /\ m_valid' \in Seq(BOOLEAN) /\ Len(m_valid') = N + 1
      /\ \A i \in 1 .. N : m_valid'[i] = valid[i]
      /\ m_valid'[N + 1] = TRUE
  <2> DEFINE flag == TRUE
  <2>1. m_valid' = Append(valid, flag) /\ flag \in BOOLEAN
    BY DEF AppendTo
  <2>2. flag = TRUE
    OBVIOUS
  <2> HIDE DEF flag
  <2>3. /\ m_valid' \in Seq(BOOLEAN) /\ Len(m_valid') = Len(valid) + 1
        /\ \A i \in 1 .. Len(valid) : m_valid'[i] = valid[i]
        /\ m_valid'[Len(valid) + 1] = flag
    BY <2>1, AppendSeq
  <2> QED BY <2>2, <2>3
<1>2. /\ m_offsets' \in Seq(Nat) /\ Len(m_offsets') = N + 1
      /\ \A i \in 1 .. N : m_offsets'[i] = m_offsets[i]
      /\ m_offsets'[N + 1] = Len(m_bytes)
  BY AppendProperties DEF AppendTo, FileTypeOK, N
<1>3. /\ slot' \in Seq(Slots) /\ Len(slot') = N + 1
      /\ \A i \in 1 .. N : slot'[i] = slot[i]
      /\ slot'[N + 1] = [id |-> id, rec |-> rec]
  <2>1. [id |-> id, rec |-> rec] \in Slots
    BY DEF Slots
  <2> QED BY <2>1, AppendProperties DEF AppendTo, FileTypeOK
<1> DEFINE size == NewSize(rec)
           old == Len(m_bytes)
<1>4. rec.len \in Nat /\ rec.val \in Bytes /\ old \in Nat
  BY VolatileCatFileAssumption, LenProperties DEF Records, Bytes, FileTypeOK
<1>5. size \in Nat /\ size >= old + rec.len /\ MAXALIGN(size) = size
  BY <1>4, AlignUp, AlignedStays DEF NewSize
<1> HIDE DEF size
<1>6. m_bytes \in [1 .. old -> Bytes]
  BY LenProperties DEF FileTypeOK
<1>7. m_bytes' = [b \in 1 .. size |->
                    IF b \in old + 1 .. old + rec.len THEN rec.val
                    ELSE IF b \in 1 .. old THEN m_bytes[b] ELSE Zero]
  BY <1>4, <1>6 DEF AppendTo, Copied, Resized, size
<1>8. m_bytes' \in [1 .. size -> Bytes]
  BY <1>4, <1>6, <1>7 DEF Bytes
<1>9. m_bytes' \in Seq(Bytes) /\ Len(m_bytes') = size
  BY <1>5, <1>8
<1>10. /\ \A b \in 1 .. old : m_bytes'[b] = m_bytes[b]
       /\ \A b \in old + 1 .. old + rec.len : m_bytes'[b] = rec.val
  BY <1>4, <1>5, <1>7
<1> QED BY <1>1, <1>2, <1>3, <1>4, <1>5, <1>9, <1>10 DEF Appended

\* What the type of the file says about its elements.
LEMMA FileFacts ==
  ASSUME FileTypeOK
  PROVE  /\ N \in Nat /\ Len(m_bytes) \in Nat
         /\ DOMAIN m_offsets = 1 .. N /\ DOMAIN m_valid = 1 .. N /\ DOMAIN slot = 1 .. N
         /\ DOMAIN m_bytes = 1 .. Len(m_bytes)
         /\ \A i \in 1 .. N : /\ m_offsets[i] \in Nat /\ m_valid[i] \in BOOLEAN
                              /\ slot[i].id \in Nat /\ slot[i].rec \in Records
                              /\ slot[i].rec.len \in Nat
<1>1. /\ m_offsets \in Seq(Nat) /\ m_valid \in Seq(BOOLEAN) /\ slot \in Seq(Slots)
      /\ m_bytes \in Seq(Bytes) /\ Len(m_valid) = N /\ Len(slot) = N
  BY DEF FileTypeOK
<1>2. N \in Nat /\ DOMAIN m_offsets = 1 .. N /\ m_offsets \in [1 .. N -> Nat]
  BY <1>1, LenProperties DEF N
<1>3. DOMAIN m_valid = 1 .. N /\ m_valid \in [1 .. N -> BOOLEAN]
  BY <1>1, LenProperties, Zenon
<1>4. DOMAIN slot = 1 .. N /\ slot \in [1 .. N -> Slots]
  BY <1>1, LenProperties, Zenon
<1>5. Len(m_bytes) \in Nat /\ DOMAIN m_bytes = 1 .. Len(m_bytes)
  BY <1>1, LenProperties, Zenon
<1>6. ASSUME NEW x \in Slots
      PROVE  x.id \in Nat /\ x.rec \in Records /\ x.rec.len \in Nat
  BY VolatileCatFileAssumption DEF Slots, Records
<1>7. \A i \in 1 .. N : slot[i] \in Slots /\ m_offsets[i] \in Nat
  BY <1>2, <1>4
<1>8. \A i \in 1 .. N : m_valid[i] \in BOOLEAN
  BY <1>3, Zenon
<1> QED BY <1>2, <1>3, <1>4, <1>5, <1>6, <1>7, <1>8

LEMMA AppendedKeeps ==
  ASSUME FileInv, ~IsFull, NEW valid \in Seq(BOOLEAN), NEW id \in Nat, NEW rec \in Records,
         Appended(valid, id, rec),
         \A i \in 1 .. N : valid[i] => m_valid[i] /\ slot[i].id # id,
         id <= N + 1
  PROVE  FileInv'
<1> DEFINE old == Len(m_bytes)
<1>1. /\ N \in Nat /\ old \in Nat
      /\ DOMAIN m_offsets = 1 .. N /\ DOMAIN m_bytes = 1 .. old
      /\ \A i \in 1 .. N : /\ m_offsets[i] \in Nat
                           /\ slot[i].id \in Nat
                           /\ slot[i].rec.len \in Nat
  BY FileFacts DEF FileInv
<1>2. N' = N + 1 /\ N + 1 <= Limit /\ rec.len \in Nat
  <2>1. N' = N + 1
    BY DEF Appended, N
  <2>2. Limit \in Int /\ ~(N >= Limit)
    BY VolatileCatFileAssumption DEF Limit, IsFull, N
  <2>3. rec.len \in Nat
    BY VolatileCatFileAssumption DEF Records
  <2> QED BY <1>1, <2>1, <2>2, <2>3
<1>3. FileTypeOK'
  BY <1>2 DEF Appended, FileTypeOK
<1>4. slot'[N + 1].rec = rec /\ slot'[N + 1].id = id
  BY DEF Appended
<1>5. /\ Len(m_bytes') \in Nat /\ DOMAIN m_bytes' = 1 .. Len(m_bytes')
      /\ DOMAIN m_offsets' = 1 .. N + 1
  BY <1>2, <1>3, LenProperties DEF FileTypeOK, Appended
<1>6. /\ \A i \in 1 .. N : /\ m_offsets'[i] = m_offsets[i]
                           /\ slot'[i] = slot[i]
                           /\ m_valid'[i] = valid[i]
      /\ m_offsets'[N + 1] = old
      /\ Len(m_bytes') >= old + rec.len
      /\ \A b \in 1 .. old : m_bytes'[b] = m_bytes[b]
      /\ \A b \in old + 1 .. old + rec.len : m_bytes'[b] = rec.val
  BY DEF Appended
<1>7. \A i \in 1 .. N + 1 : i \in 1 .. N \/ i = N + 1
  BY <1>1
<1>8. Layout'
  <2>1. \A i \in 1 .. N :
          /\ m_offsets[i] + slot[i].rec.len <= old
          /\ \A j \in 1 .. N : i < j => m_offsets[i] + slot[i].rec.len <= m_offsets[j]
    BY DEF FileInv, Layout
  <2>2. ASSUME NEW i \in 1 .. N
        PROVE  m_offsets'[i] + slot'[i].rec.len <= Len(m_bytes')
    <3>1. m_offsets'[i] + slot'[i].rec.len = m_offsets[i] + slot[i].rec.len
      BY <1>6
    <3>2. m_offsets[i] + slot[i].rec.len <= old /\ m_offsets[i] + slot[i].rec.len \in Nat
      <4>1. m_offsets[i] + slot[i].rec.len <= old
        BY <2>1, Zenon
      <4>2. m_offsets[i] \in Nat /\ slot[i].rec.len \in Nat
        BY <1>1
      <4> QED BY <4>1, <4>2
    <3>3. old \in Nat /\ Len(m_bytes') \in Nat /\ old <= Len(m_bytes')
      BY <1>1, <1>2, <1>5, <1>6
    <3>4. m_offsets[i] + slot[i].rec.len <= Len(m_bytes')
      BY <3>2, <3>3
    <3> QED BY <3>1, <3>4, Zenon
  <2>3. \A i \in 1 .. N : \A j \in 1 .. N + 1 :
          i < j => m_offsets'[i] + slot'[i].rec.len <= m_offsets'[j]
    BY <1>1, <1>6, <1>7, <2>1
  <2>4. m_offsets'[N + 1] + slot'[N + 1].rec.len <= Len(m_bytes')
    BY <1>4, <1>6
  <2>5. \A j \in 1 .. N + 1 : ~(N + 1 < j)
    BY <1>1
  <2>6. \A i \in 1 .. N + 1 :
          /\ m_offsets'[i] + slot'[i].rec.len <= Len(m_bytes')
          /\ \A j \in 1 .. N + 1 :
               i < j => m_offsets'[i] + slot'[i].rec.len <= m_offsets'[j]
    BY <1>7, <2>2, <2>3, <2>4, <2>5, Zenon
  <2> QED BY <1>2, <2>6 DEF Layout
<1>9. RecordsIntact'
  <2>1. ASSUME NEW i \in 1 .. N, NEW b \in m_offsets[i] + 1 .. m_offsets[i] + slot[i].rec.len
        PROVE  b \in 1 .. old /\ m_bytes[b] = slot[i].rec.val
    BY <1>1 DEF FileInv, RecordsIntact
  <2>2. 1 .. old \subseteq DOMAIN m_bytes'
    BY <1>1, <1>2, <1>5, <1>6
  <2>3. ASSUME NEW i \in 1 .. N,
               NEW b \in m_offsets'[i] + 1 .. m_offsets'[i] + slot'[i].rec.len
        PROVE  b \in DOMAIN m_bytes' /\ m_bytes'[b] = slot'[i].rec.val
    <3>1. b \in m_offsets[i] + 1 .. m_offsets[i] + slot[i].rec.len /\ slot'[i] = slot[i]
      BY <1>6
    <3>2. b \in 1 .. old /\ m_bytes[b] = slot[i].rec.val
      BY <2>1, <3>1
    <3> QED BY <1>6, <2>2, <3>1, <3>2
  <2>4. ASSUME NEW b \in m_offsets'[N + 1] + 1 .. m_offsets'[N + 1] + slot'[N + 1].rec.len
        PROVE  b \in DOMAIN m_bytes' /\ m_bytes'[b] = slot'[N + 1].rec.val
    <3>1. b \in old + 1 .. old + rec.len
      BY <1>4, <1>6
    <3>2. b \in 1 .. Len(m_bytes')
      BY <1>1, <1>2, <1>5, <1>6, <3>1
    <3> QED BY <1>4, <1>5, <1>6, <3>1, <3>2
  <2>5. ASSUME NEW i \in 1 .. N + 1,
               NEW b \in m_offsets'[i] + 1 .. m_offsets'[i] + slot'[i].rec.len
        PROVE  b \in DOMAIN m_bytes' /\ m_bytes'[b] = slot'[i].rec.val
    <3>1. CASE i \in 1 .. N
      BY <2>3, <3>1
    <3>2. CASE i = N + 1
      BY <2>4, <3>2
    <3> QED BY <1>7, <3>1, <3>2
  <2> QED BY <1>5, <2>5 DEF RecordsIntact
<1>10. OneSlot'
  <2>1. \A i \in 1 .. N + 1 : slot'[i].id <= i
    BY <1>1, <1>4, <1>6, <1>7 DEF FileInv, OneSlot
  <2>2. ASSUME NEW i \in 1 .. N + 1, NEW j \in 1 .. N + 1,
               m_valid'[i], m_valid'[j], slot'[i].id = slot'[j].id
        PROVE  i = j
    <3>1. CASE i \in 1 .. N /\ j \in 1 .. N
      BY <1>6, <2>2, <3>1 DEF FileInv, OneSlot
    <3>2. CASE i \in 1 .. N /\ j = N + 1
      BY <1>4, <1>6, <2>2, <3>2
    <3>3. CASE i = N + 1 /\ j \in 1 .. N
      BY <1>4, <1>6, <2>2, <3>3
    <3> QED BY <1>7, <3>1, <3>2, <3>3
  <2> QED BY <1>2, <2>1, <2>2 DEF OneSlot
<1> QED BY <1>3, <1>8, <1>9, <1>10 DEF FileInv

\* What iterators see of a change to the file: the slots there were keep their
\* entries and their flags, the flag of slot `gone' excepted.
Kept(gone) ==
  /\ N' \in Nat /\ N' >= N
  /\ \A k \in 1 .. N : /\ k # gone => m_valid'[k] = m_valid[k]
                       /\ slot'[k].id = slot[k].id

\* A record that fits in the space of its slot reaches into no other record.
LEMMA InPlaceKeeps ==
  ASSUME FileInv, NEW i \in 1 .. N, NEW rec \in Records, UpdateInPlace(i, rec)
  PROVE  FileInv' /\ Kept(0)
<1> DEFINE size == Len(m_bytes)
           over == m_offsets[i] + 1 .. m_offsets[i] + rec.len
<1>1. /\ N \in Nat /\ size \in Nat
      /\ DOMAIN m_offsets = 1 .. N /\ DOMAIN m_bytes = 1 .. size
      /\ \A k \in 1 .. N : /\ m_offsets[k] \in Nat
                           /\ slot[k].id \in Nat
                           /\ slot[k].rec.len \in Nat
  BY FileFacts DEF FileInv
<1>2. rec.len \in Nat /\ rec.val \in Bytes
  BY VolatileCatFileAssumption DEF Records, Bytes
<1>3. \A k \in 1 .. N :
        /\ m_offsets[k] + slot[k].rec.len <= size
        /\ \A j \in 1 .. N : k < j => m_offsets[k] + slot[k].rec.len <= m_offsets[j]
  BY DEF FileInv, Layout
<1>4. /\ m_offsets[i] + rec.len <= size
      /\ \A j \in 1 .. N : i < j => m_offsets[i] + rec.len <= m_offsets[j]
  <2>1. rec.len <= LengthOf(i)
    BY DEF UpdateInPlace
  <2>2. CASE i = N
    <3>1. rec.len <= size - m_offsets[i]
      BY <2>1, <2>2 DEF LengthOf, N
    <3> QED BY <1>1, <1>2, <2>2, <3>1
  <2>3. CASE i # N
    <3>1. rec.len <= m_offsets[i + 1] - m_offsets[i]
      BY <2>1, <2>3 DEF LengthOf, N
    <3>2. i + 1 \in 1 .. N
      BY <1>1, <2>3
    <3>3. m_offsets[i] + rec.len <= m_offsets[i + 1]
      BY <1>1, <1>2, <3>1, <3>2
    <3>4. m_offsets[i + 1] <= size
      <4>1. m_offsets[i + 1] + slot[i + 1].rec.len <= size
        BY <1>3, <3>2
      <4>2. m_offsets[i + 1] \in Nat /\ slot[i + 1].rec.len \in Nat
        BY <1>1, <3>2
      <4> QED BY <1>1, <4>1, <4>2
    <3>5. ASSUME NEW j \in 1 .. N, i < j
          PROVE  m_offsets[i + 1] <= m_offsets[j]
      <4>1. CASE j = i + 1
        BY <1>1, <4>1
      <4>2. CASE j # i + 1
        <5>1. i + 1 < j
          BY <1>1, <3>5, <4>2
        <5>2. m_offsets[i + 1] + slot[i + 1].rec.len <= m_offsets[j]
          BY <1>3, <3>2, <5>1
        <5> QED BY <1>1, <3>2, <5>2
      <4> QED BY <4>1, <4>2
    <3>6. m_offsets[i] + rec.len \in Nat /\ m_offsets[i + 1] \in Nat
      BY <1>1, <1>2, <3>2
    <3>7. m_offsets[i] + rec.len <= size
      BY <1>1, <3>3, <3>4, <3>6
    <3>8. ASSUME NEW j \in 1 .. N, i < j
          PROVE  m_offsets[i] + rec.len <= m_offsets[j]
      <4>1. m_offsets[j] \in Nat /\ m_offsets[i + 1] <= m_offsets[j]
        BY <1>1, <3>5, <3>8
      <4> QED BY <3>3, <3>6, <4>1
    <3> QED BY <3>7, <3>8
  <2> QED BY <2>2, <2>3
<1>5. m_offsets' = m_offsets /\ m_valid' = m_valid /\ N' = N
  BY DEF UpdateInPlace, N
<1>6. slot' = [slot EXCEPT ![i].rec = rec]
  BY DEF UpdateInPlace
<1>7. /\ slot' \in Seq(Slots) /\ Len(slot') = N
      /\ slot'[i].rec = rec
      /\ \A k \in 1 .. N : /\ slot'[k].id = slot[k].id
                           /\ k # i => slot'[k] = slot[k]
  <2>1. slot \in Seq(Slots) /\ Len(slot) = N
    BY DEF FileInv, FileTypeOK
  <2>2. slot \in [1 .. N -> Slots]
    BY <2>1, LenProperties, Zenon
  <2>3. ASSUME NEW x \in Slots
        PROVE  /\ [x EXCEPT !.rec = rec] \in Slots
               /\ [x EXCEPT !.rec = rec].rec = rec
               /\ [x EXCEPT !.rec = rec].id = x.id
    BY DEF Slots
  <2>4. slot[i] \in Slots /\ slot' = [slot EXCEPT ![i] = [slot[i] EXCEPT !.rec = rec]]
    BY <1>6, <2>2
  <2>5. slot' \in [1 .. N -> Slots]
    BY <2>2, <2>3, <2>4
  <2>6. \A k \in 1 .. N : slot'[k] = IF k = i THEN [slot[i] EXCEPT !.rec = rec] ELSE slot[k]
    BY <2>2, <2>4
  <2>7. slot' \in Seq(Slots) /\ Len(slot') = N
    BY <1>1, <2>5
  <2> QED BY <2>3, <2>4, <2>6, <2>7
<1>8. m_bytes' = [b \in 1 .. size |-> IF b \in over THEN rec.val ELSE m_bytes[b]]
  BY <1>1 DEF UpdateInPlace, Copied
<1>9. m_bytes' \in Seq(Bytes) /\ Len(m_bytes') = size
  <2>1. m_bytes \in [1 .. size -> Bytes]
    BY LenProperties DEF FileInv, FileTypeOK
  <2>2. m_bytes' \in [1 .. size -> Bytes]
    BY <1>2, <1>8, <2>1
  <2> QED BY <1>1, <2>2
<1>10. FileTypeOK'
  BY <1>5, <1>7, <1>9 DEF FileInv, FileTypeOK
<1>11. Layout'
  <2>1. ASSUME NEW k \in 1 .. N
        PROVE  /\ m_offsets[k] + slot'[k].rec.len <= size
               /\ \A j \in 1 .. N : k < j => m_offsets[k] + slot'[k].rec.len <= m_offsets[j]
    <3>1. CASE k = i
      BY <1>4, <1>7, <3>1
    <3>2. CASE k # i
      BY <1>3, <1>7, <3>2
    <3> QED BY <3>1, <3>2
  <2> QED BY <1>5, <1>9, <2>1 DEF Layout
<1>12. RecordsIntact'
  <2>1. ASSUME NEW k \in 1 .. N, NEW b \in m_offsets[k] + 1 .. m_offsets[k] + slot'[k].rec.len
        PROVE  b \in 1 .. size /\ m_bytes'[b] = slot'[k].rec.val
    <3>1. CASE k = i
      <4>1. b \in over
        BY <1>7, <3>1
      <4>2. b \in 1 .. size
        BY <1>1, <1>2, <1>4, <4>1
      <4> QED BY <1>7, <1>8, <3>1, <4>1, <4>2
    <3>2. CASE k # i
      <4>1. slot'[k] = slot[k]
        BY <1>7, <3>2
      <4>2. b \in 1 .. size /\ m_bytes[b] = slot[k].rec.val
        BY <1>1, <4>1 DEF FileInv, RecordsIntact
      <4>3. b \notin over
        <5>1. b \in m_offsets[k] + 1 .. m_offsets[k] + slot[k].rec.len
          BY <4>1
        <5>2. m_offsets[k] \in Nat /\ m_offsets[i] \in Nat /\ slot[k].rec.len \in Nat
          BY <1>1
        <5>3. CASE k < i
          <6>1. m_offsets[k] + slot[k].rec.len <= m_offsets[i]
            BY <1>3, <5>3
          <6> QED BY <1>2, <5>1, <5>2, <6>1
        <5>4. CASE i < k
          <6>1. m_offsets[i] + rec.len <= m_offsets[k]
            BY <1>4, <5>4
          <6> QED BY <1>2, <5>1, <5>2, <6>1
        <5> QED BY <1>1, <3>2, <5>3, <5>4
      <4> QED BY <1>8, <4>1, <4>2, <4>3
    <3> QED BY <3>1, <3>2
  <2>2. DOMAIN m_bytes' = 1 .. size
    BY <1>8
  <2> QED BY <1>1, <1>5, <2>1, <2>2 DEF RecordsIntact
<1>13. OneSlot'
  BY <1>5, <1>7 DEF FileInv, OneSlot
<1> QED BY <1>1, <1>5, <1>7, <1>10, <1>11, <1>12, <1>13 DEF FileInv, Kept

LEMMA AppendRecordKeeps ==
  ASSUME FileInv, NEW rec \in Records, AppendRecord(rec)
  PROVE  FileInv' /\ Kept(0)
<1>1. /\ N \in Nat
      /\ \A k \in 1 .. N : slot[k].id \in Nat
  BY FileFacts DEF FileInv
<1>2. m_valid \in Seq(BOOLEAN) /\ Len(m_valid) = N /\ Len(slot) = N
  BY DEF FileInv, FileTypeOK
<1>3. AppendTo(m_valid, N + 1, rec) /\ ~IsFull
  BY <1>2 DEF AppendRecord
<1>4. Appended(m_valid, N + 1, rec)
  BY <1>1, <1>2, <1>3, AppendEffect DEF FileInv
<1>5. \A k \in 1 .. N : slot[k].id # N + 1
  BY <1>1 DEF FileInv, OneSlot
<1>6. FileInv'
  BY <1>1, <1>2, <1>3, <1>4, <1>5, AppendedKeeps
<1>7. N' = N + 1
  BY <1>4 DEF Appended, N
<1>8. Kept(0)
  BY <1>1, <1>4, <1>7 DEF Kept, Appended
<1> QED BY <1>6, <1>8

\* The flags without the one of slot i, as the two other updates leave them.
LEMMA Invalidated ==
  ASSUME FileTypeOK, NEW i \in 1 .. N, NEW valid, valid = [m_valid EXCEPT ![i] = FALSE]
  PROVE  /\ valid \in Seq(BOOLEAN) /\ Len(valid) = N
         /\ ~valid[i]
         /\ \A k \in 1 .. N : k # i => valid[k] = m_valid[k]
<1>1. m_valid \in Seq(BOOLEAN) /\ Len(m_valid) = N /\ N \in Nat
  BY FileFacts DEF FileTypeOK
<1>2. m_valid \in [1 .. N -> BOOLEAN]
  BY <1>1, LenProperties, Zenon
<1>3. valid \in [1 .. N -> BOOLEAN]
  BY <1>2, Zenon
<1>4. ~valid[i] /\ \A k \in 1 .. N : k # i => valid[k] = m_valid[k]
  BY <1>2, Zenon
<1>5. valid \in Seq(BOOLEAN) /\ Len(valid) = N
  BY <1>1, <1>3
<1> QED BY <1>4, <1>5

LEMMA MoveKeeps ==
  ASSUME FileInv, NEW i \in 1 .. N, m_valid[i], NEW rec \in Records, UpdateMoves(i, rec)
  PROVE  /\ FileInv' /\ Kept(i)
         /\ \E k \in 1 .. N' : m_valid'[k] /\ slot'[k].id = slot[i].id
<1> DEFINE valid == [m_valid EXCEPT ![i] = FALSE]
           id == slot[i].id
<1>1. /\ N \in Nat /\ id \in Nat
      /\ \A k \in 1 .. N : slot[k].id \in Nat
  BY FileFacts DEF FileInv
<1>2. AppendTo(valid, id, rec) /\ ~IsFull
  BY DEF UpdateMoves
<1>3. /\ valid \in Seq(BOOLEAN) /\ Len(valid) = N
      /\ ~valid[i]
      /\ \A k \in 1 .. N : k # i => valid[k] = m_valid[k]
  BY Invalidated DEF FileInv
<1> HIDE DEF valid, id
<1>4. Appended(valid, id, rec)
  BY <1>1, <1>2, <1>3, AppendEffect DEF FileInv
<1>5. \A k \in 1 .. N : valid[k] => m_valid[k] /\ slot[k].id # id
  BY <1>3 DEF FileInv, OneSlot, id
<1>6. id <= N + 1
  BY <1>1 DEF FileInv, OneSlot, id
<1>7. FileInv'
  BY <1>1, <1>2, <1>3, <1>4, <1>5, <1>6, AppendedKeeps
<1>8. N' = N + 1
  BY <1>4 DEF Appended, N
<1>9. Kept(i)
  BY <1>1, <1>3, <1>4, <1>8 DEF Kept, Appended
<1>10. N + 1 \in 1 .. N' /\ m_valid'[N + 1] /\ slot'[N + 1].id = slot[i].id
  BY <1>1, <1>4, <1>8 DEF Appended, id
<1> QED BY <1>7, <1>9, <1>10

LEMMA FailKeeps ==
  ASSUME FileInv, NEW i \in 1 .. N, NEW rec \in Records, UpdateFails(i, rec)
  PROVE  FileInv' /\ Kept(i)
<1>1. /\ m_valid' \in Seq(BOOLEAN) /\ Len(m_valid') = N
      /\ ~m_valid'[i]
      /\ \A k \in 1 .. N : k # i => m_valid'[k] = m_valid[k]
  BY Invalidated DEF FileInv, UpdateFails
<1>2. m_offsets' = m_offsets /\ m_bytes' = m_bytes /\ slot' = slot /\ N' = N /\ N \in Nat
  BY FileFacts DEF UpdateFails, N, FileInv
<1>3. FileTypeOK'
  BY <1>1, <1>2 DEF FileInv, FileTypeOK
<1>4. Layout'
  BY <1>2 DEF FileInv, Layout
<1>5. RecordsIntact'
  BY <1>2 DEF FileInv, RecordsIntact
<1>6. OneSlot'
  <2>1. \A k \in 1 .. N : m_valid'[k] => m_valid[k]
    BY <1>1
  <2> QED BY <1>2, <2>1 DEF FileInv, OneSlot
<1>7. Kept(i)
  BY <1>1, <1>2 DEF Kept
<1> QED BY <1>3, <1>4, <1>5, <1>6, <1>7 DEF FileInv

\* Nothing else writes to the file.
LEMMA SameFile ==
  ASSUME FileInv, UNCHANGED file
  PROVE  FileInv' /\ Kept(0)
<1>1. /\ m_offsets' = m_offsets /\ m_bytes' = m_bytes /\ slot' = slot /\ m_valid' = m_valid
      /\ N' = N /\ N \in Nat
  BY FileFacts DEF file, N, FileInv
<1> QED BY <1>1 DEF Kept, FileInv, FileTypeOK, Layout, RecordsIntact, OneSlot

-----------------------------------------------------------------------------
(***************************************************************************)
(* The iterators.                                                          *)
(***************************************************************************)
LEMMA IterFacts ==
  ASSUME IterTypeOK, NEW it \in Iters
  PROVE  /\ iter[it].open \in BOOLEAN /\ iter[it].on \in BOOLEAN
         /\ iter[it].nextidx \in 0 .. IdxMod - 1 /\ iter[it].endidx \in 0 .. IdxMod - 1
         /\ iter[it].nextidx \in Nat /\ iter[it].endidx \in Nat
         /\ start[it] \subseteq Nat /\ seen[it] \subseteq Nat
BY VolatileCatFileAssumption DEF IterTypeOK

\* An iterator that the step leaves where it was, but for its current record,
\* which it may lose and keeps only when the slot's flag is kept.
LEMMA IterKept ==
  ASSUME FileInv, IterTypeOK, NEW it \in Iters, IterInv(it), NEW gone \in Nat, Kept(gone),
         iter'[it].open = iter[it].open, iter'[it].nextidx = iter[it].nextidx,
         iter'[it].endidx = iter[it].endidx, start'[it] = start[it], seen'[it] = seen[it],
         iter'[it].on => iter[it].on /\ iter[it].nextidx # gone,
         iter[it].open => gone \notin Ahead(it)
  PROVE  IterInv(it)'
<1>1. N \in Nat /\ iter[it].nextidx \in Nat /\ iter[it].endidx \in Nat
  BY FileFacts, IterFacts DEF FileInv
<1>2. CASE iter[it].open
  <2>1. InRange(it) /\ Pending(it) /\ SeenBehind(it) /\ OnValid(it)
    BY <1>2 DEF IterInv
  <2>2. Ahead(it)' = Ahead(it)
    BY DEF Ahead
  <2>3. Ahead(it) \subseteq 1 .. N
    BY <1>1, <2>1 DEF Ahead, InRange
  <2>4. \A k \in Ahead(it) : m_valid'[k] = m_valid[k] /\ slot'[k].id = slot[k].id
    BY <1>2, <2>3 DEF Kept
  <2>5. InRange(it)'
    BY <1>1, <2>1 DEF InRange, Kept
  <2>6. Pending(it)'
    BY <2>1, <2>2, <2>4 DEF Pending
  <2>7. SeenBehind(it)'
    BY <2>1, <2>2, <2>4 DEF SeenBehind
  <2>8. OnValid(it)'
    <3>1. ASSUME iter'[it].on
          PROVE  /\ iter'[it].open
                 /\ iter'[it].nextidx \in 1 .. iter'[it].endidx
                 /\ m_valid'[iter'[it].nextidx]
      <4>1. iter[it].on /\ iter[it].nextidx # gone
        BY <3>1
      <4>2. iter[it].nextidx \in 1 .. iter[it].endidx /\ m_valid[iter[it].nextidx]
        BY <2>1, <4>1 DEF OnValid
      <4>3. iter[it].nextidx \in 1 .. N
        BY <1>1, <2>1, <4>2 DEF InRange
      <4> QED BY <1>2, <4>1, <4>2, <4>3 DEF Kept
    <3> QED BY <3>1 DEF OnValid
  <2> QED BY <2>5, <2>6, <2>7, <2>8 DEF IterInv
<1>3. CASE ~iter[it].open
  <2>1. ~iter'[it].on /\ ~iter'[it].open
    BY <1>3 DEF IterInv, OnValid
  <2> QED BY <2>1 DEF IterInv, OnValid
<1> QED BY <1>2, <1>3

\* The iterators that a step does not touch.
LEMMA OthersKept ==
  ASSUME FileInv, IterTypeOK, NEW it \in Iters, IterInv(it), UNCHANGED file,
         iter'[it] = iter[it], start'[it] = start[it], seen'[it] = seen[it]
  PROVE  IterInv(it)'
<1>1. Kept(0)
  BY SameFile
<1>2. iter[it].open => 0 \notin Ahead(it)
  BY IterFacts DEF Ahead
<1>3. iter[it].on => iter[it].nextidx # 0
  BY IterFacts DEF IterInv, OnValid
<1> QED BY <1>1, <1>2, <1>3, IterKept

\* A new iteration: everything it has to return is ahead.
LEMMA StartKeeps ==
  ASSUME IInv, NEW it \in Iters, NEW idx \in 0 .. N, NEW valid, NEW from,
         from = EntriesIn(valid, slot), DOMAIN valid = 1 .. N,
         \A k \in 1 .. N : valid[k] => m_valid[k] /\ k > idx,
         StartAt(it, idx, from)
  PROVE  IInv'
<1> USE DEF IInv
<1>1. /\ N \in Nat /\ N <= IdxMod - 2
      /\ \A k \in 1 .. N : slot[k].id \in Nat
  BY FileFacts DEF FileInv, FileTypeOK, Limit
<1>2. N % IdxMod = N /\ N \in 0 .. IdxMod - 1 /\ idx \in 0 .. IdxMod - 1
  BY <1>1, NoWrap, VolatileCatFileAssumption
<1>3. FileInv' /\ N' = N /\ m_valid' = m_valid /\ slot' = slot /\ UNCHANGED file
  BY SameFile DEF StartAt, file, N
<1>4. from \subseteq Nat /\ \A e \in from : \E k \in idx + 1 .. N : m_valid[k] /\ slot[k].id = e
  <2>1. ASSUME NEW e \in from
        PROVE  \E k \in 1 .. N : valid[k] /\ slot[k].id = e
    BY DEF EntriesIn
  <2>2. \A k \in 1 .. N : k > idx => k \in idx + 1 .. N
    BY <1>1
  <2> QED BY <1>1, <2>1, <2>2
<1>5. iter' = [iter EXCEPT ![it] = [open |-> TRUE, nextidx |-> idx, endidx |-> N, on |-> FALSE]]
  BY <1>2 DEF StartAt, N
<1>6. IterTypeOK'
  BY <1>2, <1>4, <1>5 DEF IterTypeOK, StartAt
<1>7. IterInv(it)'
  <2>1. /\ iter'[it] = [open |-> TRUE, nextidx |-> idx, endidx |-> N, on |-> FALSE]
        /\ start'[it] = from /\ seen'[it] = {}
    BY <1>5 DEF IterTypeOK, StartAt
  <2>2. Ahead(it)' = idx + 1 .. N
    BY <2>1 DEF Ahead
  <2>3. InRange(it)'
    BY <1>1, <1>3, <2>1 DEF InRange
  <2>4. Pending(it)'
    BY <1>3, <1>4, <2>1, <2>2 DEF Pending
  <2>5. SeenBehind(it)'
    BY <2>1 DEF SeenBehind
  <2>6. OnValid(it)'
    BY <2>1 DEF OnValid
  <2> QED BY <2>3, <2>4, <2>5, <2>6 DEF IterInv
<1>8. ASSUME NEW other \in Iters, other # it
      PROVE  IterInv(other)'
  <2>1. iter'[other] = iter[other] /\ start'[other] = start[other] /\ seen'[other] = seen[other]
    BY <1>5, <1>8 DEF IterTypeOK, StartAt
  <2> QED BY <1>3, <2>1, OthersKept
<1> QED BY <1>3, <1>6, <1>7, <1>8

LEMMA IterateKeeps ==
  ASSUME IInv, NEW it \in Iters, IterateCatEntry(it)
  PROVE  IInv'
<1>1. DOMAIN m_valid = 1 .. N /\ N \in Nat
  BY FileFacts DEF IInv, FileInv
<1>2. 0 \in 0 .. N /\ \A k \in 1 .. N : m_valid[k] => m_valid[k] /\ k > 0
  BY <1>1
<1>3. StartAt(it, 0, EntriesIn(m_valid, slot))
  BY DEF IterateCatEntry, FirstIdx
<1> QED BY <1>1, <1>2, <1>3, StartKeeps

LEMMA IterateFromKeeps ==
  ASSUME IInv, NEW it \in Iters, IterateCatEntryFrom(it)
  PROVE  IInv'
<1>1. DOMAIN m_valid = 1 .. N /\ N \in Nat
  BY FileFacts DEF IInv, FileInv
<1>2. PICK sid \in 0 .. N - 1 :
        StartAt(it, sid, EntriesIn([i \in DOMAIN m_valid |-> m_valid[i] /\ i > sid], slot))
  BY DEF IterateCatEntryFrom, N
<1> DEFINE valid == [i \in DOMAIN m_valid |-> m_valid[i] /\ i > sid]
<1>3. DOMAIN valid = 1 .. N /\ \A k \in 1 .. N : valid[k] => m_valid[k] /\ k > sid
  BY <1>1
<1>4. sid \in 0 .. N
  BY <1>1
<1>5. StartAt(it, sid, EntriesIn(valid, slot))
  BY <1>2
<1> HIDE DEF valid
<1> QED BY <1>3, <1>4, <1>5, StartKeeps

\* The record found is the first valid one ahead; the slots before it hold
\* nothing, so what is still to be returned is behind it in the file.
LEMMA FoundKeeps ==
  ASSUME IInv, NEW it \in Iters, iter[it].open, NextFound(it), UNCHANGED <<file, start>>
  PROVE  /\ IInv'
         /\ iter'[it].nextidx \in Ahead(it) /\ m_valid[iter'[it].nextidx]
         /\ \A other \in Iters \ {it} : iter'[other] = iter[other]
<1> USE DEF IInv
<1> DEFINE from == iter[it].nextidx
           end == iter[it].endidx
<1>1. N \in Nat /\ N <= IdxMod - 2 /\ from \in Nat /\ end \in Nat
  BY FileFacts, IterFacts DEF FileInv, FileTypeOK, Limit
<1>2. InRange(it) /\ Pending(it) /\ SeenBehind(it)
  BY DEF IterInv
<1>3. PICK i \in from .. end - 1 :
        /\ IsValid(i)
        /\ \A j \in from .. i - 1 : ~IsValid(j)
        /\ iter' = [iter EXCEPT ![it].nextidx = (i + 1) % IdxMod, ![it].on = TRUE]
        /\ seen' = [seen EXCEPT ![it] = @ \union {slot[i + 1].id}]
  BY DEF NextFound, EndIdx
<1>4. /\ i + 1 \in from + 1 .. end /\ i + 1 \in 1 .. N /\ i + 1 \in 0 .. IdxMod - 1
      /\ m_valid[i + 1]
  BY <1>1, <1>2, <1>3, VolatileCatFileAssumption DEF InRange, IsValid
<1>5. (i + 1) % IdxMod = i + 1
  BY <1>4, NoWrap
<1>6. /\ iter'[it].open = iter[it].open /\ iter'[it].endidx = end
      /\ iter'[it].nextidx = i + 1 /\ iter'[it].on = TRUE
      /\ \A other \in Iters \ {it} : iter'[other] = iter[other]
  BY <1>3, <1>5 DEF IterTypeOK
<1>7. /\ seen'[it] = seen[it] \union {slot[i + 1].id} /\ start' = start
      /\ \A other \in Iters \ {it} : seen'[other] = seen[other]
  BY <1>3 DEF IterTypeOK
<1>8. /\ FileInv' /\ N' = N /\ m_valid' = m_valid /\ slot' = slot /\ UNCHANGED file
      /\ \A k \in 1 .. N : slot[k].id \in Nat
  BY SameFile, FileFacts DEF file, N, FileInv
<1>9. IterTypeOK'
  <2>1. iter' \in [Iters -> [open : BOOLEAN, nextidx : 0 .. IdxMod - 1,
                             endidx : 0 .. IdxMod - 1, on : BOOLEAN]]
    BY <1>3, <1>4, <1>5, ZenonT(30) DEF IterTypeOK
  <2>2. seen' \in [Iters -> SUBSET Nat]
    <3>1. slot[i + 1].id \in Nat
      BY <1>4, <1>8
    <3> QED BY <1>3, <3>1 DEF IterTypeOK
  <2> QED BY <1>7, <2>1, <2>2 DEF IterTypeOK
<1>10. Ahead(it)' = i + 2 .. end /\ Ahead(it) = from + 1 .. end
  BY <1>6, <1>1 DEF Ahead
<1>11. Pending(it)'
  <2>1. ASSUME NEW e \in start[it] \ seen'[it]
        PROVE  \E k \in i + 2 .. end : m_valid[k] /\ slot[k].id = e
    <3>1. e \in start[it] \ seen[it] /\ e # slot[i + 1].id
      BY <1>7
    <3>2. PICK k \in from + 1 .. end : m_valid[k] /\ slot[k].id = e
      BY <1>2, <1>10, <3>1 DEF Pending
    <3>3. k # i + 1
      BY <3>1, <3>2
    <3>4. ~(k < i + 1)
      <4>1. SUFFICES ASSUME k < i + 1 PROVE FALSE
        OBVIOUS
      <4>2. k - 1 \in from .. i - 1 /\ (k - 1) + 1 = k
        BY <1>1, <4>1
      <4> QED BY <1>3, <3>2, <4>2 DEF IsValid
    <3>5. k \in i + 2 .. end
      BY <1>1, <3>3, <3>4
    <3> QED BY <3>2, <3>5
  <2> QED BY <1>7, <1>8, <1>10, <2>1 DEF Pending
<1>12. SeenBehind(it)'
  <2>1. ASSUME NEW k \in i + 2 .. end, m_valid[k]
        PROVE  slot[k].id \notin seen'[it]
    <3>1. k \in Ahead(it) /\ k \in 1 .. N /\ k # i + 1
      BY <1>1, <1>2, <1>10 DEF InRange
    <3>2. slot[k].id \notin seen[it]
      BY <1>2, <2>1, <3>1 DEF SeenBehind
    <3>3. slot[k].id # slot[i + 1].id
      BY <1>4, <2>1, <3>1 DEF FileInv, OneSlot
    <3> QED BY <1>7, <3>2, <3>3
  <2> QED BY <1>8, <1>10, <2>1 DEF SeenBehind
<1>13. InRange(it)' /\ OnValid(it)'
  BY <1>1, <1>2, <1>4, <1>6, <1>8 DEF InRange, OnValid
<1>14. IterInv(it)'
  BY <1>11, <1>12, <1>13 DEF IterInv
<1>15. ASSUME NEW other \in Iters, other # it
       PROVE  IterInv(other)'
  BY <1>6, <1>7, <1>8, <1>15, OthersKept
<1> QED BY <1>4, <1>6, <1>8, <1>9, <1>10, <1>14, <1>15

\* No record is left, and the index behind the end does not wrap to the start.
LEMMA NoneKeeps ==
  ASSUME IInv, NEW it \in Iters, iter[it].open, NextNone(it), UNCHANGED <<file, start>>
  PROVE  IInv' /\ ~iter'[it].on /\ \A other \in Iters \ {it} : iter'[other] = iter[other]
<1> USE DEF IInv
<1> DEFINE from == iter[it].nextidx
           end == iter[it].endidx
<1>1. N \in Nat /\ N <= IdxMod - 2 /\ from \in Nat /\ end \in Nat
  BY FileFacts, IterFacts DEF FileInv, FileTypeOK, Limit
<1>2. InRange(it) /\ Pending(it) /\ SeenBehind(it)
  BY DEF IterInv
<1>3. /\ \A i \in from .. end - 1 : ~IsValid(i)
      /\ iter' = [iter EXCEPT ![it].nextidx = (end + 1) % IdxMod, ![it].on = FALSE]
      /\ seen' = seen
  BY DEF NextNone, EndIdx
<1>4. end + 1 \in 0 .. IdxMod - 1
  BY <1>1, <1>2, VolatileCatFileAssumption DEF InRange
<1>5. (end + 1) % IdxMod = end + 1
  BY <1>4, NoWrap
<1>6. /\ iter'[it].open = iter[it].open /\ iter'[it].endidx = end
      /\ iter'[it].nextidx = end + 1 /\ iter'[it].on = FALSE
      /\ \A other \in Iters \ {it} : iter'[other] = iter[other]
  BY <1>3, <1>5 DEF IterTypeOK
<1>7. FileInv' /\ N' = N /\ m_valid' = m_valid /\ slot' = slot /\ UNCHANGED file /\ start' = start
  BY SameFile DEF file, N
<1>8. IterTypeOK'
  BY <1>3, <1>4, <1>5, <1>7 DEF IterTypeOK
<1>9. Ahead(it)' = {}
  BY <1>1, <1>6 DEF Ahead
<1>10. start[it] \subseteq seen[it]
  <2>1. SUFFICES ASSUME NEW e \in start[it] \ seen[it] PROVE FALSE
    OBVIOUS
  <2>2. PICK k \in from + 1 .. end : m_valid[k]
    BY <1>2 DEF Pending, Ahead
  <2>3. k - 1 \in from .. end - 1 /\ (k - 1) + 1 = k
    BY <1>1
  <2> QED BY <1>3, <2>2, <2>3 DEF IsValid
<1>11. IterInv(it)'
  <2>1. InRange(it)'
    BY <1>1, <1>2, <1>6, <1>7 DEF InRange
  <2> QED BY <1>3, <1>6, <1>7, <1>9, <1>10, <2>1 DEF IterInv, OnValid, Pending, SeenBehind
<1>12. ASSUME NEW other \in Iters, other # it
       PROVE  IterInv(other)'
  BY <1>3, <1>6, <1>7, <1>12, OthersKept
<1> QED BY <1>6, <1>7, <1>8, <1>11, <1>12

LEMMA EndKeeps ==
  ASSUME IInv, NEW it \in Iters, EndIterateCatEntry(it)
  PROVE  IInv' /\ ~iter'[it].on /\ \A other \in Iters \ {it} : iter'[other] = iter[other]
<1> USE DEF IInv
<1>1. /\ iter' = [iter EXCEPT ![it] = NoIter]
      /\ start' = [start EXCEPT ![it] = {}]
      /\ seen' = [seen EXCEPT ![it] = {}]
      /\ UNCHANGED file
  BY DEF EndIterateCatEntry
<1>2. FileInv'
  BY <1>1, SameFile
<1>3. IterTypeOK'
  BY <1>1, VolatileCatFileAssumption DEF IterTypeOK, NoIter
<1>4. /\ ~iter'[it].on /\ ~iter'[it].open
      /\ \A other \in Iters \ {it} : /\ iter'[other] = iter[other]
                                     /\ start'[other] = start[other]
                                     /\ seen'[other] = seen[other]
  BY <1>1 DEF IterTypeOK, NoIter
<1>5. IterInv(it)'
  BY <1>4 DEF IterInv, OnValid
<1>6. ASSUME NEW other \in Iters, other # it
      PROVE  IterInv(other)'
  BY <1>1, <1>4, <1>6, OthersKept
<1> QED BY <1>2, <1>3, <1>4, <1>5, <1>6

LEMMA AppendStep ==
  ASSUME IInv, NEW rec \in Records, AppendRecord(rec)
  PROVE  IInv'
<1> USE DEF IInv
<1>1. FileInv' /\ Kept(0)
  BY AppendRecordKeeps
<1>2. iter' = iter /\ start' = start /\ seen' = seen
  BY DEF AppendRecord
<1>3. IterTypeOK'
  BY <1>2 DEF IterTypeOK
<1>4. ASSUME NEW it \in Iters
      PROVE  IterInv(it)'
  <2>1. iter[it].open => 0 \notin Ahead(it)
    BY IterFacts DEF Ahead
  <2>2. iter[it].on => iter[it].nextidx # 0
    BY IterFacts DEF IterInv, OnValid
  <2> QED BY <1>1, <1>2, <2>1, <2>2, IterKept
<1> QED BY <1>1, <1>3, <1>4

\* The iterator of FinishInitCatalog() loses its current record, and the slot
\* it may invalidate is not ahead of it.
LEMMA UpdateKeeps ==
  ASSUME IInv, NEW it \in Iters, NEW rec \in Records, UpdateCurrentCatEntry(it, rec)
  PROVE  IInv' /\ ~iter'[it].on /\ \A other \in Iters \ {it} : iter'[other] = iter[other]
<1> USE DEF IInv
<1> DEFINE i == iter[it].nextidx
<1>1. N \in Nat /\ i \in Nat /\ iter[it].endidx \in Nat
  BY FileFacts, IterFacts DEF FileInv
<1>2. iter[it].open /\ InRange(it) /\ i \in 1 .. iter[it].endidx /\ m_valid[i]
  BY DEF UpdateCurrentCatEntry, IterInv, OnValid
<1>3. i \in 1 .. N /\ CurIdx(it) + 1 = i /\ i \notin Ahead(it)
  BY <1>1, <1>2 DEF InRange, CurIdx, Ahead
<1>4. UpdateInPlace(i, rec) \/ UpdateMoves(i, rec) \/ UpdateFails(i, rec)
  BY <1>3 DEF UpdateCurrentCatEntry
<1>5. 0 \notin Ahead(it)
  BY <1>1 DEF Ahead
<1>6. FileInv' /\ \E gone \in Nat : Kept(gone) /\ gone \notin Ahead(it)
  <2>1. CASE UpdateInPlace(i, rec)
    BY <1>3, <1>5, <2>1, InPlaceKeeps
  <2>2. CASE UpdateMoves(i, rec)
    BY <1>1, <1>2, <1>3, <2>2, MoveKeeps
  <2>3. CASE UpdateFails(i, rec)
    BY <1>1, <1>3, <2>3, FailKeeps
  <2> QED BY <1>4, <2>1, <2>2, <2>3
<1>7. PICK gone \in Nat : Kept(gone) /\ gone \notin Ahead(it)
  BY <1>6
<1>8. iter' = [iter EXCEPT ![it].on = FALSE] /\ start' = start /\ seen' = seen
  BY DEF UpdateCurrentCatEntry
<1>9. IterTypeOK'
  BY <1>8 DEF IterTypeOK
<1>10. /\ iter'[it].on = FALSE /\ iter'[it].open = iter[it].open /\ iter'[it].nextidx = i
       /\ iter'[it].endidx = iter[it].endidx
       /\ \A other \in Iters \ {it} : iter'[other] = iter[other]
  BY <1>8 DEF IterTypeOK
<1>11. IterInv(it)'
  BY <1>7, <1>8, <1>10, IterKept
<1>12. ASSUME NEW other \in Iters, other # it
       PROVE  IterInv(other)'
  <2>1. ~iter[other].open /\ iter'[other] = iter[other]
    BY <1>10, <1>12 DEF UpdateCurrentCatEntry
  <2> QED BY <2>1 DEF IterInv, OnValid
<1> QED BY <1>6, <1>9, <1>10, <1>11, <1>12

-----------------------------------------------------------------------------
(***************************************************************************)
(* The steps together, and the theorems.                                   *)
(***************************************************************************)
LEMMA InitIInv == Init => IInv
<1> SUFFICES ASSUME Init PROVE IInv
  OBVIOUS
<1> USE DEF Init
<1>1. N = 0 /\ Len(m_valid) = 0 /\ Len(slot) = 0 /\ Len(m_bytes) = 0
  BY DEF N
<1>2. FileTypeOK
  <2>1. MAXALIGN(0) = 0
    <3>1. (0 + Alignment - 1) \div Alignment = 0
      BY VolatileCatFileAssumption
    <3> QED BY <3>1, VolatileCatFileAssumption DEF MAXALIGN
  <2> QED BY <1>1, <2>1, VolatileCatFileAssumption DEF FileTypeOK, Limit
<1>3. FileInv
  BY <1>1, <1>2 DEF FileInv, Layout, RecordsIntact, OneSlot
<1>4. IterTypeOK
  BY VolatileCatFileAssumption DEF IterTypeOK, NoIter
<1>5. \A it \in Iters : IterInv(it)
  BY DEF IterInv, OnValid, NoIter
<1> QED BY <1>3, <1>4, <1>5 DEF IInv

LEMMA NextIInv == IInv /\ [Next]_vars => IInv'
<1> SUFFICES ASSUME IInv, [Next]_vars PROVE IInv'
  OBVIOUS
<1>1. ASSUME NEW rec \in Records, AppendRecord(rec) PROVE IInv'
  BY <1>1, AppendStep
<1>2. ASSUME NEW it \in Iters, IterateCatEntry(it) PROVE IInv'
  BY <1>2, IterateKeeps
<1>3. ASSUME NEW it \in Iters, IterateCatEntryFrom(it) PROVE IInv'
  BY <1>3, IterateFromKeeps
<1>4. ASSUME NEW it \in Iters, NextCatEntry(it) PROVE IInv'
  BY <1>4, FoundKeeps, NoneKeeps DEF NextCatEntry
<1>5. ASSUME NEW it \in Iters, EndIterateCatEntry(it) PROVE IInv'
  BY <1>5, EndKeeps
<1>6. ASSUME NEW it \in Iters, NEW rec \in Records, UpdateCurrentCatEntry(it, rec) PROVE IInv'
  BY <1>6, UpdateKeeps
<1>7. CASE UNCHANGED vars
  <2>1. FileInv' /\ UNCHANGED file
    BY <1>7, SameFile DEF IInv, vars, file
  <2>2. iter' = iter /\ start' = start /\ seen' = seen
    BY <1>7 DEF vars
  <2>3. IterTypeOK'
    BY <2>2 DEF IInv, IterTypeOK
  <2>4. \A it \in Iters : IterInv(it)'
    BY <2>1, <2>2, OthersKept DEF IInv
  <2> QED BY <2>1, <2>3, <2>4 DEF IInv
<1> QED BY <1>1, <1>2, <1>3, <1>4, <1>5, <1>6, <1>7 DEF Next

LEMMA Invariant == Spec => []IInv
BY InitIInv, NextIInv, PTL DEF Spec

\* The three arrays of a file fit together, it ends aligned, and the indexes of
\* every iterator are numbers of 16 bits.
THEOREM TypeCorrect == Spec => []TypeOK
<1>1. IInv => TypeOK
  <2> SUFFICES ASSUME IInv PROVE TypeOK
    OBVIOUS
  <2>1. DOMAIN m_valid = DOMAIN m_offsets /\ DOMAIN slot = DOMAIN m_offsets
    BY FileFacts DEF IInv, FileInv
  <2> QED BY <2>1 DEF IInv, FileInv, FileTypeOK, IterTypeOK, TypeOK, Slots, Bytes
<1> QED BY <1>1, Invariant, PTL

\* A slot holds the bytes that were last written to it: AppendRecord() and
\* UpdateCurrentCatEntry() leave every other record of the file alone.
THEOREM RecordsStayIntact == Spec => []RecordsIntact
<1>1. IInv => RecordsIntact
  BY DEF IInv, FileInv
<1> QED BY <1>1, Invariant, PTL

\* The asserts of GetCurrentCatEntry() hold: after NextCatEntry() has returned
\* true the current record is one of the file, and valid.
THEOREM CurrentStaysValid == Spec => []CurrentIsValid
<1>1. IInv => CurrentIsValid
  <2> SUFFICES ASSUME IInv, NEW it \in Iters, iter[it].on
               PROVE  CurIdx(it) + 1 \in DOMAIN m_valid /\ m_valid[CurIdx(it) + 1]
    BY DEF CurrentIsValid
  <2>1. N \in Nat /\ DOMAIN m_valid = 1 .. N /\ iter[it].endidx \in Nat
        /\ iter[it].nextidx \in Nat
    BY FileFacts, IterFacts DEF IInv, FileInv
  <2>2. /\ iter[it].nextidx \in 1 .. iter[it].endidx /\ m_valid[iter[it].nextidx]
        /\ iter[it].endidx <= N
    BY DEF IInv, IterInv, OnValid, InRange
  <2>3. CurIdx(it) + 1 = iter[it].nextidx
    BY <2>1 DEF CurIdx
  <2> QED BY <2>1, <2>2, <2>3
<1> QED BY <1>1, Invariant, PTL

\* An iteration that has ended has returned every entry there was when it
\* began, whatever was appended and updated in the meantime.
THEOREM ScansComplete == Spec => []ScanComplete
<1>1. IInv => ScanComplete
  <2> SUFFICES ASSUME IInv, NEW it \in Iters, iter[it].open,
                      iter[it].nextidx > iter[it].endidx
               PROVE  start[it] \subseteq seen[it]
    BY DEF ScanComplete
  <2>1. Ahead(it) = {}
    BY IterFacts DEF IInv, Ahead
  <2> QED BY <2>1 DEF IInv, IterInv, Pending
<1> QED BY <1>1, Invariant, PTL

\* NextCatEntry() never returns an entry that this iteration has returned
\* before: FinishInitCatalog() sees no record that it has itself moved.
THEOREM NoEntryReturnedTwice == Spec => NoEntryTwice
<1> DEFINE Fresh == \A it \in Iters :
                      iter'[it].on /\ iter'[it] # iter[it] =>
                        slot[iter'[it].nextidx].id \notin seen[it]
<1>1. ASSUME IInv, [Next]_vars PROVE Fresh
  <2> SUFFICES ASSUME NEW it \in Iters, iter'[it].on, iter'[it] # iter[it]
               PROVE  slot[iter'[it].nextidx].id \notin seen[it]
    OBVIOUS
  <2> USE <1>1
  <2>1. ASSUME NEW rec \in Records, AppendRecord(rec) PROVE FALSE
    BY <2>1 DEF AppendRecord
  <2>2. ASSUME NEW o \in Iters, NEW idx, NEW from, StartAt(o, idx, from) PROVE FALSE
    BY <2>2 DEF StartAt, IInv, IterTypeOK
  <2>3. ASSUME NEW o \in Iters, EndIterateCatEntry(o) PROVE FALSE
    BY <2>3, EndKeeps
  <2>4. ASSUME NEW o \in Iters, NEW rec \in Records, UpdateCurrentCatEntry(o, rec) PROVE FALSE
    BY <2>4, UpdateKeeps
  <2>5. ASSUME NEW o \in Iters, NextCatEntry(o)
        PROVE  slot[iter'[it].nextidx].id \notin seen[it]
    <3>1. CASE NextNone(o)
      BY <2>5, <3>1, NoneKeeps DEF NextCatEntry
    <3>2. CASE NextFound(o)
      <4>1. /\ iter'[o].nextidx \in Ahead(o) /\ m_valid[iter'[o].nextidx]
            /\ \A other \in Iters \ {o} : iter'[other] = iter[other]
        BY <2>5, <3>2, FoundKeeps DEF NextCatEntry
      <4>2. o = it
        BY <4>1
      <4>3. iter[it].open /\ SeenBehind(it)
        BY <2>5, <4>2 DEF NextCatEntry, IInv, IterInv
      <4> QED BY <4>1, <4>2, <4>3 DEF SeenBehind
    <3> QED BY <2>5, <3>1, <3>2 DEF NextCatEntry
  <2>6. CASE UNCHANGED vars
    BY <2>6 DEF vars
  <2> QED BY <2>1, <2>2, <2>3, <2>4, <2>5, <2>6
          DEF Next, IterateCatEntry, IterateCatEntryFrom
<1>2. Spec => [][Fresh]_vars
  BY <1>1, Invariant, PTL DEF Spec
<1> QED BY <1>2 DEF NoEntryTwice

\* An update that finds the file full is the only step that loses an entry.
LostOnlyWhenFull ==
  [][~IsFull => EntriesIn(m_valid, slot) \subseteq EntriesIn(m_valid', slot')]_vars

\* UpdateCurrentCatEntry() keeps the entry it updates, in its slot or in a new
\* one, unless AppendRecord() refuses the new record; no other call loses one.
THEOREM EntriesLostOnlyWhenFull == Spec => LostOnlyWhenFull
<1> DEFINE Keeps == EntriesIn(m_valid, slot) \subseteq EntriesIn(m_valid', slot')
<1>1. ASSUME IInv, IInv', NEW gone, Kept(gone),
             gone \in 1 .. N /\ m_valid[gone] =>
               \E k \in 1 .. N' : m_valid'[k] /\ slot'[k].id = slot[gone].id
      PROVE  Keeps
  <2>1. DOMAIN m_valid = 1 .. N /\ N \in Nat
    BY <1>1, FileFacts DEF IInv, FileInv
  <2>2. DOMAIN m_valid' = 1 .. N' /\ 1 .. N \subseteq 1 .. N'
    BY <1>1, <2>1, LenProperties DEF IInv, FileInv, FileTypeOK, Kept
  <2>3. ASSUME NEW k \in 1 .. N, m_valid[k]
        PROVE  \E j \in 1 .. N' : m_valid'[j] /\ slot'[j].id = slot[k].id
    <3>1. CASE k = gone
      BY <1>1, <2>3, <3>1
    <3>2. CASE k # gone
      BY <1>1, <2>2, <2>3, <3>2 DEF Kept
    <3> QED BY <3>1, <3>2
  <2> QED BY <2>1, <2>2, <2>3 DEF EntriesIn
<1>2. ASSUME IInv, [Next]_vars, ~IsFull PROVE Keeps
  <2>1. IInv' /\ 0 \notin 1 .. N
    BY <1>2, NextIInv, FileFacts DEF IInv, FileInv
  <2>2. ASSUME NEW rec \in Records, AppendRecord(rec) PROVE Keeps
    BY <1>1, <1>2, <2>1, <2>2, AppendRecordKeeps DEF IInv
  <2>3. ASSUME UNCHANGED file PROVE Keeps
    BY <1>1, <1>2, <2>1, <2>3, SameFile DEF IInv
  <2>4. ASSUME NEW it \in Iters, NEW rec \in Records, UpdateCurrentCatEntry(it, rec)
        PROVE  Keeps
    <3> DEFINE i == iter[it].nextidx
    <3>1. /\ i \in 1 .. N /\ m_valid[i] /\ CurIdx(it) + 1 = i /\ N \in Nat
      <4>1. N \in Nat /\ i \in Nat /\ iter[it].endidx \in Nat
        BY <1>2, FileFacts, IterFacts DEF IInv, FileInv
      <4>2. i \in 1 .. iter[it].endidx /\ iter[it].endidx <= N /\ m_valid[i]
        BY <1>2, <2>4 DEF IInv, IterInv, OnValid, InRange, UpdateCurrentCatEntry
      <4> QED BY <4>1, <4>2 DEF CurIdx
    <3>2. UpdateInPlace(i, rec) \/ UpdateMoves(i, rec)
      BY <1>2, <2>4, <3>1 DEF UpdateCurrentCatEntry, UpdateFails
    <3>3. CASE UpdateInPlace(i, rec)
      BY <1>1, <1>2, <2>1, <3>1, <3>3, InPlaceKeeps DEF IInv
    <3>4. CASE UpdateMoves(i, rec)
      BY <1>1, <1>2, <2>1, <3>1, <3>4, MoveKeeps DEF IInv
    <3> QED BY <3>2, <3>3, <3>4
  <2>5. CASE UNCHANGED vars
    BY <2>3, <2>5 DEF vars, file
  <2> QED BY <1>2, <2>2, <2>3, <2>4, <2>5
          DEF Next, IterateCatEntry, IterateCatEntryFrom, StartAt, NextCatEntry,
              EndIterateCatEntry
<1>3. Spec => [][~IsFull => Keeps]_vars
  BY <1>2, Invariant, PTL DEF Spec
<1> QED BY <1>3 DEF LostOnlyWhenFull
=============================================================================
