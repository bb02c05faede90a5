----------------------------- MODULE MCCatalog -----------------------------
(* Catalog for TLC: names with case folding; three types, of which one has   *)
(* operators, one takes more than half of the largest layout and one has a   *)
(* parameter its length function refuses; tables of up to two columns.       *)
EXTENDS Catalog

MCLower(name) == IF name = "T" THEN "t" ELSE name

MCLayout(typid) ==
  CASE \E n \in DOMAIN typid : typid[n] = "CHAR40000" -> "throws"
    [] Cardinality({n \in DOMAIN typid : typid[n] = "CHAR20000"}) > 1 -> "uncomputed"
    [] OTHER -> "computed"

GoodTableArgs == {<<"INT4">>, <<"INT4", "CHAR20000">>}
BadTableArgs == {<<"CHAR40000">>, <<"CHAR20000", "NONE">>, <<"NONE", "INT4", "INT4">>,
                 <<"INT4", "INT4", "INT4", "INT4">>}
TableArgs == GoodTableArgs \union BadTableArgs
LargeLayout == {<<"CHAR20000", "CHAR20000">>}
KeyArgs == {<<1, 0>>, <<-1>>, <<0, 0, 0>>}
NoKey == {<<>>}
=============================================================================
