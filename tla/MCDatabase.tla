----------------------------- MODULE MCDatabase -----------------------------
(* Database for TLC: a well-formed init data file and what can be wrong      *)
(* with one.                                                                 *)
EXTENDS Database

T(t) == [kind |-> "table", tabid |-> t]
TableRow(t) == [kind |-> "data", row |-> [tabid |-> t, tabfid |-> INVALID_FID]]
TypeRow(t) == [kind |-> "data", row |-> [typid |-> t]]
Row(n) == [kind |-> "data", row |-> [any |-> n]]
Bad == [kind |-> "error"]

Tables == <<T("Table"), TableRow("Index"), TableRow("Table"), TableRow("Type"),
            TableRow("Column")>>
TypeSection == <<T("Type"), TypeRow("BOOL"), TypeRow("OID"), TypeRow("CHAR")>>
Columns == <<T("Column"), Row(1), Row(2)>>
Indexes == <<T("Index"), Row(3)>>
MoreColumns == <<T("Column"), Row(8)>>

\* The sections of a file in any order; each may be there, be empty, break off
\* with a line that cannot be parsed, or be missing; some come a second time.
Variants(s) == {s, <<s[1]>>, s \o <<Bad>>, <<>>}
Orders == {<<1, 2, 3, 4, 5>>, <<4, 3, 2, 1, 5>>, <<2, 4, 1, 3, 5>>, <<3, 1, 4, 2, 5>>,
           <<2, 1, 3, 2, 4>>, <<1, 4, 2, 3, 6>>}

\* Fewer tables than there may be sections; a table listed twice, among the first
\* three and after them; a row that has a file ID.
NoColumn == <<T("Table"), TableRow("Type"), TableRow("Table")>>
NoIndexes == <<T("Table"), TableRow("Table"), TableRow("Column"), TableRow("Type")>>
TwiceEarly == <<T("Table"), TableRow("Type"), TableRow("Table"), TableRow("Type"),
                TableRow("Column")>>
TwiceLate == NoIndexes \o <<TableRow("Type")>>
HasFid == NoColumn \o <<[kind |-> "data", row |-> [tabid |-> "Column", tabfid |-> 2]]>>

\* More rows than a file has room for; a needed type that comes twice.
LongColumns == Columns \o <<Row(4), Row(5), Row(6), Row(7)>>
TypeTwice == <<T("Type"), TypeRow("BOOL"), TypeRow("BOOL"), TypeRow("OID")>>

MCInitFiles ==
  {LET v == <<a, b, c, d, <<>>, MoreColumns>>
   IN v[o[1]] \o v[o[2]] \o v[o[3]] \o v[o[4]] \o v[o[5]] :
     a \in Variants(Tables) \union {NoColumn, NoIndexes, TwiceEarly, TwiceLate, HasFid},
     b \in Variants(TypeSection) \union {TypeTwice},
     c \in Variants(Columns) \union {LongColumns}, d \in Variants(Indexes), o \in Orders}
=============================================================================
