------------------------------- MODULE Schema -------------------------------
(***************************************************************************)
(* Schema: the layout of a record payload, writing a record into a buffer  *)
(* and finding the fields in it again.  A payload is                       *)
(*                                                                         *)
(*   fixed-length fields that are not nullable | null bitmap               *)
(*   | end offsets of the varlen fields | varlen fields                    *)
(*   | nullable fixed-length fields that are not null                      *)
(*                                                                         *)
(* What the fields hold is left out: the model keeps where each is put,    *)
(* which null bits are set and which end offsets are stored.  FieldOffset  *)
(* is a signed integer modulo OffMod, sums of two of them are C++ ints.    *)
(***************************************************************************)
EXTENDS Integers, Sequences, FiniteSets

CONSTANTS
  Schemas,      \* the sequences of fields
  Sizes,        \* the sizes a varlen value may have
  HeaderSizes,  \* the sizes of the buffer before the payload is appended
  AnyNulls,     \* whether callers pass nulls for fields that are not nullable
  OffMod,       \* 2^16 in the code
  MaxAlignOf,   \* 8 in the code
  ByteBits,     \* 8 in the code
  OffsetSize    \* sizeof(FieldOffset), 2 in the code

Fields == [varlen : BOOLEAN, typlen : Nat, typalign : Nat \ {0}, nullable : BOOLEAN]

ASSUME SchemaAssumption ==
  /\ OffMod \in Nat /\ OffMod > 0 /\ OffMod % 2 = 0
  /\ MaxAlignOf \in Nat \ {0} /\ ByteBits \in Nat \ {0} /\ OffsetSize \in Nat \ {0}
  /\ Sizes \subseteq Nat /\ HeaderSizes \subseteq Nat /\ AnyNulls \in BOOLEAN
  /\ \A s \in Schemas : s # <<>> /\ s \in Seq(Fields)

VARIABLES
  field,    \* the fields of the schema
  layout,   \* what ComputeLayout() has computed
  data,     \* the record last written: a size, or Null, for each field
  buf       \* the buffer it was written to and what was returned

vars == <<field, layout, data, buf>>

Null == -1

MaxOffset == OffMod \div 2 - 1
FieldOffset(n) == ((n + OffMod \div 2) % OffMod) - OffMod \div 2

AlignUp(a, n) == ((n + a - 1) \div a) * a
TYPEALIGN(a, off) == FieldOffset(AlignUp(a, off))

\* AddWithCheck(), which fails with a negative result here.
AddWithCheck(off, n) ==
  IF off > 0 /\ FieldOffset(n) > MaxOffset - off THEN -1
                                                 ELSE FieldOffset(off + n)

-----------------------------------------------------------------------------
\* What the theorems of SchemaProofs assume.  m_typlen is a FieldOffset, types
\* are aligned to MAXALIGN at most, and the end array of a schema is not longer
\* than a FieldOffset can say.
LayoutsSmall ==
  /\ MaxAlignOf <= MaxOffset + 2 /\ OffsetSize <= MaxAlignOf
  /\ \A s \in Schemas :
       /\ OffsetSize * Len(s) <= MaxOffset
       /\ \A i \in DOMAIN s : s[i].typlen <= MaxOffset /\ s[i].typalign <= MaxAlignOf

\* A value of n bytes that is written at the largest offset, behind the header,
\* makes an offset that is still negative when it is aligned.
Short(n, header) == AlignUp(MaxAlignOf, header) + n + MaxAlignOf <= MaxOffset + 1

ValuesShort ==
  \A header \in HeaderSizes :
    /\ \A n \in Sizes : Short(n, header)
    /\ \A s \in Schemas : \A i \in DOMAIN s : Short(s[i].typlen, header)

\* In no schema a nullable varlen field comes after one that is not nullable.
NullableVarlenAhead ==
  \A s \in Schemas : \A i, j \in DOMAIN s :
    i < j /\ s[i].varlen /\ s[j].varlen /\ s[j].nullable => s[i].nullable

-----------------------------------------------------------------------------
FieldIds == DOMAIN field

NonNullableFixed == {i \in FieldIds : ~field[i].varlen /\ ~field[i].nullable}
NullableFixed == {i \in FieldIds : ~field[i].varlen /\ field[i].nullable}
Varlen == {i \in FieldIds : field[i].varlen}
NullableVarlen == {i \in Varlen : field[i].nullable}

\* m_field_reorder_idx: the order of the fields behind the end array.  First the
\* varlen fields, then the nullable fixed-length ones, each in the order of the
\* schema; 0 is a gap.
Reorder ==
  [k \in 1 .. 2 * Len(field) |->
     IF k <= Len(field) THEN IF k \in Varlen THEN k ELSE 0
     ELSE IF k - Len(field) \in NullableFixed THEN k - Len(field) ELSE 0]

\* -m_offset - 1 for a field of S: how many of S come before it.
IndexIn(S, i) == Cardinality({j \in S : j < i})

\* Step 1: the end of the fields up to i, or -1 after an overflow.
NoAlign(i, off) == off                                               \* mutant
FixedBegin(i, off) == TYPEALIGN(field[i].typalign, off)

AddField(i, off) ==
  IF i \notin NonNullableFixed \/ off < 0 THEN off
  ELSE IF FixedBegin(i, off) < 0 THEN -1
  ELSE AddWithCheck(FixedBegin(i, off), field[i].typlen)

FixedEnd[i \in 0 .. Len(field)] == IF i = 0 THEN 0 ELSE AddField(i, FixedEnd[i - 1])

\* Step 2: a varlen field's null bit is its place among all varlen fields, a
\* nullable fixed-length field's follows those of the nullable varlen fields.
\* Fields that are not nullable have none.
NullbitId(i) ==
  IF ~field[i].nullable THEN -1
  ELSE IF field[i].varlen THEN IndexIn(Varlen, i)
       ELSE IndexIn(NullableFixed, i) + Cardinality(NullableVarlen)

NumNullable == Cardinality(NullableFixed) + Cardinality(NullableVarlen)
BitmapSize == (NumNullable + ByteBits - 1) \div ByteBits

\* Steps 3 and 4.
BitmapBegin == FixedEnd[Len(field)]
BitmapEnd == AddWithCheck(BitmapBegin, BitmapSize)
EndArrayBegin == TYPEALIGN(OffsetSize, BitmapEnd)
VarlenBegin == AddWithCheck(EndArrayBegin, OffsetSize * Cardinality(Varlen))

\* Without nullable and varlen fields the payload begins and ends MAXALIGNed.
PayloadBegin ==
  IF NonNullableFixed = FieldIds THEN TYPEALIGN(MaxAlignOf, BitmapBegin)
                                 ELSE VarlenBegin

\* An overflow makes ComputeLayoutImpl() return early.
LayoutFits ==
  IF NonNullableFixed = FieldIds
    THEN BitmapBegin >= 0 /\ PayloadBegin >= 0
    ELSE BitmapBegin >= 0 /\ BitmapEnd >= 0 /\ EndArrayBegin >= 0 /\ VarlenBegin >= 0

NoLayout == [computed |-> FALSE, payload_begin |-> 0]
NothingWritten == [ret |-> -1, init_len |-> 0, size |-> 0]

Init ==
  /\ field \in Schemas
  /\ layout = NoLayout
  /\ data = <<>>
  /\ buf = NothingWritten

ComputeLayout ==
  /\ ~layout.computed
  /\ layout' = [computed |-> LayoutFits, payload_begin |-> PayloadBegin]
  /\ UNCHANGED <<field, data, buf>>

-----------------------------------------------------------------------------
\* WritePayloadToBufferImpl().  W[k] is the state after k fields of Reorder:
\* the offset reached, the size of the buffer, where the fields begin, the null
\* bits and the varlen end offsets; ok is false after a return of -1.
Value(values, i) == IF field[i].varlen THEN FieldOffset(values[i]) ELSE field[i].typlen

BelowPadding(n) == n < 0 \/ n >= MaxOffset - MaxAlignOf             \* mutant
Overflows(n) == n < 0

WriteNull(w, i) ==
  [w EXCEPT !.nulls = @ \union {NullbitId(i)},
            !.ends = IF field[i].varlen THEN [@ EXCEPT ![i] = w.off] ELSE @]

WriteValue(w, i, values, init_len) ==
  LET newoff == TYPEALIGN(field[i].typalign, w.off)
      len == Value(values, i)
      end == newoff + len
  IN IF Overflows(init_len + newoff) \/ Overflows(init_len + end)
       THEN [w EXCEPT !.ok = FALSE]
       ELSE [w EXCEPT !.off = FieldOffset(end),
                      !.size = end + init_len,
                      !.begin = [@ EXCEPT ![i] = newoff],
                      !.ends = IF field[i].varlen
                                 THEN [@ EXCEPT ![i] = FieldOffset(end)] ELSE @]

\* The fixed-length fields that are not nullable have their places already.
WriteFixed(init_len) ==
  [ok |-> ~Overflows(init_len + layout.payload_begin),
   off |-> layout.payload_begin,
   size |-> init_len + layout.payload_begin,
   begin |-> [i \in FieldIds |-> IF i \in NonNullableFixed
                                   THEN FixedBegin(i, FixedEnd[i - 1]) ELSE 0],
   ends |-> [i \in FieldIds |-> 0],
   nulls |-> {}]

WriteField(w, i, values, init_len) ==
  IF i = 0 \/ ~w.ok THEN w
  ELSE IF values[i] = Null THEN WriteNull(w, i)
  ELSE WriteValue(w, i, values, init_len)

Written(values, init_len) ==
  LET W[k \in 0 .. 2 * Len(field)] ==
        IF k = 0 THEN WriteFixed(init_len)
                 ELSE WriteField(W[k - 1], Reorder[k], values, init_len)
  IN W[2 * Len(field)]

\* The values of a record of this schema.
RecordsOf(fields) ==
  {v \in [DOMAIN fields -> Sizes \union {Null}] :
     \A i \in DOMAIN fields :
       /\ v[i] = Null => fields[i].nullable \/ AnyNulls
       /\ ~fields[i].varlen => v[i] \in {Null, 0}}

\* Only fixed-length fields are checked for nulls they must not hold; the call
\* throws then.
NullRejected(values) == \E i \in NonNullableFixed : values[i] = Null

\* The buffer is MAXALIGNed before the payload and padded behind it.
Payload(values, header) ==
  LET init_len == TYPEALIGN(MaxAlignOf, header)
      w == Written(values, init_len)
      off == TYPEALIGN(MaxAlignOf, w.off)
      size == IF off + init_len > FieldOffset(w.size) THEN off + init_len ELSE w.size
  IN IF header >= MaxOffset \/ init_len < 0 \/ ~w.ok \/ Overflows(init_len + off)
       THEN [NothingWritten EXCEPT !.init_len = header]
       ELSE [ret |-> off, init_len |-> init_len, size |-> size,
             begin |-> w.begin, ends |-> w.ends, nulls |-> w.nulls]

WritePayloadToBuffer(values, header) ==
  /\ layout.computed
  /\ data = <<>>
  /\ ~NullRejected(values)
  /\ data' = values
  /\ buf' = Payload(values, header)
  /\ UNCHANGED <<field, layout>>

\* The buffer is used for the next record.
Clear ==
  /\ data # <<>>
  /\ data' = <<>>
  /\ buf' = NothingWritten
  /\ UNCHANGED <<field, layout>>

Next ==
  \/ ComputeLayout
  \/ \E values \in RecordsOf(field), header \in HeaderSizes :
       WritePayloadToBuffer(values, header)
  \/ Clear

Spec == Init /\ [][Next]_vars

-----------------------------------------------------------------------------
IsWritten == buf.ret >= 0

FieldIsNull(i) == field[i].nullable /\ NullbitId(i) \in buf.nulls

\* The last field of S before i, or 0.
Before(S, i) ==
  LET s == {j \in S : j < i}
  IN IF s = {} THEN 0 ELSE CHOOSE j \in s : \A k \in s : k <= j

VarlenAreaEnd ==
  IF Varlen = {} THEN layout.payload_begin
  ELSE buf.ends[Before(Varlen, Len(field) + 1)]

\* Where the nullable fixed-length fields before i end: those that are null
\* take no space.
NullsCounted(j) == TRUE                                              \* mutant
TakesSpace(j) == NullbitId(j) \notin buf.nulls

SkipField(k, off) ==
  IF k \in NullableFixed /\ TakesSpace(k)
    THEN FieldOffset(TYPEALIGN(field[k].typalign, off) + field[k].typlen)
    ELSE off

NullableFixedEnd(i) ==
  LET E[k \in 0 .. i - 1] == IF k = 0 THEN VarlenAreaEnd ELSE SkipField(k, E[k - 1])
  IN E[i - 1]

\* GetOffsetAndLength() of a field that is not null.
GetOffsetAndLength(i) ==
  IF i \in NonNullableFixed
    THEN <<FixedBegin(i, FixedEnd[i - 1]), field[i].typlen>>
  ELSE IF i \in Varlen
    THEN LET prev == Before(Varlen, i)
             begin == TYPEALIGN(field[i].typalign,
                                IF prev = 0 THEN layout.payload_begin
                                            ELSE buf.ends[prev])
         IN <<begin, IF buf.ends[i] >= begin THEN buf.ends[i] - begin ELSE 0>>
  ELSE <<TYPEALIGN(field[i].typalign, NullableFixedEnd(i)), field[i].typlen>>

TrueSize(i) == IF field[i].varlen THEN data[i] ELSE field[i].typlen

Region(i) == buf.begin[i] .. buf.begin[i] + TrueSize(i) - 1

-----------------------------------------------------------------------------
\* A computed layout has offsets that are non-negative FieldOffsets.
TypeOK ==
  /\ field \in Schemas
  /\ layout.computed \in BOOLEAN
  /\ layout.computed => layout.payload_begin \in 0 .. MaxOffset
  /\ data = <<>> \/ data \in RecordsOf(field)
  /\ buf.ret \in -1 .. MaxOffset /\ buf.size \in Nat

\* What is written is read back: GetField() finds a field null exactly when a
\* null was written, and otherwise at the place and with the length it has.
RoundTrip ==
  IsWritten => \A i \in FieldIds :
    IF data[i] = Null THEN FieldIsNull(i)
    ELSE ~FieldIsNull(i) /\ GetOffsetAndLength(i) = <<buf.begin[i], TrueSize(i)>>

\* No two fields share a byte, none lies in the null bitmap or the end array,
\* each is aligned for its type, and all end within the payload returned, whose
\* length is MAXALIGNed.
FieldsApart ==
  IsWritten =>
    LET present == {i \in FieldIds : data[i] # Null}
        header == IF NonNullableFixed = FieldIds THEN {}
                  ELSE BitmapBegin .. layout.payload_begin - 1
    IN /\ \A i, j \in present : i # j => Region(i) \intersect Region(j) = {}
       /\ \A i \in present : /\ Region(i) \intersect header = {}
                             /\ buf.begin[i] % field[i].typalign = 0
                             /\ Region(i) \subseteq 0 .. buf.ret - 1
       /\ buf.ret % MaxAlignOf = 0 /\ buf.size = buf.init_len + buf.ret

\* The length the payload needs, in exact arithmetic.
Occupied(i, off) ==
  IF i = 0 \/ data[i] = Null THEN off
  ELSE AlignUp(field[i].typalign, off) + TrueSize(i)

Needed(init_len) ==
  LET N[k \in 0 .. 2 * Len(field)] ==
        IF k = 0 THEN layout.payload_begin ELSE Occupied(Reorder[k], N[k - 1])
  IN init_len + AlignUp(MaxAlignOf, N[2 * Len(field)])

\* -1 is returned exactly when the buffer would be longer than the largest
\* FieldOffset: no record that fits is refused, and none that does not fit is
\* written with offsets that have wrapped around.
FailsIffTooLong ==
  data # <<>> =>
    (IsWritten <=> Needed(AlignUp(MaxAlignOf, buf.init_len)) <= MaxOffset)

\* Schema.h: WritePayloadToBufferImpl() returns "-1 if the length of the buf
\* exceeds the maximum limit (max FieldOffset)".
LimitKept == IsWritten => Needed(buf.init_len) <= MaxOffset

\* Schema.cpp reports "NULL value passed to non-null field" as an error, so a
\* record that is written has none.
NoForbiddenNull ==
  IsWritten => \A i \in FieldIds : data[i] = Null => field[i].nullable
=============================================================================
