------------------------------ MODULE MCSchema ------------------------------
(* Schema for TLC: all schemas of up to three fields of five types, with a    *)
(* 6-bit FieldOffset.                                                         *)
EXTENDS Schema

\* BOOL, INT4, a CHAR of half the largest offset, and two varlen types.
FieldTypes == {[varlen |-> FALSE, typlen |-> 1, typalign |-> 1],
               [varlen |-> FALSE, typlen |-> 4, typalign |-> 4],
               [varlen |-> FALSE, typlen |-> 15, typalign |-> 1],
               [varlen |-> TRUE, typlen |-> 0, typalign |-> 1],
               [varlen |-> TRUE, typlen |-> 0, typalign |-> 4]}

FieldOf(t, n) ==
  [varlen |-> t.varlen, typlen |-> t.typlen, typalign |-> t.typalign, nullable |-> n]

AllFields == {FieldOf(t, n) : t \in FieldTypes, n \in BOOLEAN}

AllSchemas == UNION {[1 .. n -> AllFields] : n \in 1 .. 3}

\* The schemas in which no nullable varlen field comes after one that is not
\* nullable, as when all fields are nullable or none is.
NullableVarlenFirst ==
  {s \in AllSchemas :
     ~\E i, j \in DOMAIN s : /\ i < j /\ s[i].varlen /\ s[j].varlen
                             /\ ~s[i].nullable /\ s[j].nullable}

\* The instance satisfies what the theorems of SchemaProofs assume.
ASSUME SmallAssumption == LayoutsSmall /\ ValuesShort

OneVarlen == {<<FieldOf([varlen |-> TRUE, typlen |-> 0, typalign |-> 1], FALSE)>>}
=============================================================================
