--------------------------- MODULE CatalogProofs ---------------------------
(***************************************************************************)
(* Proofs about Catalog for any names, types, argument lists, number of    *)
(* Oids and size of the catalog files: an Oid names one object, a table    *)
(* whose AddTable() call has returned can be used and no other is ever     *)
(* taken for a table, and the same of indexes, which match their tables.   *)
(***************************************************************************)
EXTENDS Catalog, SequenceTheorems, FiniteSetTheorems, WellFoundedInduction, TLAPS

TableRows == [tabid : Oids, tabname : Names, tabncols : Nat]
ColRows == [coltabid : Oids, colid : Nat, coltypid : Types]
IndexRows == [idxid : Oids, idxtabid : Oids, idxname : Names, idxncols : Nat]
IdxColRows ==
  [idxcolidxid : Oids, idxcolid : Nat, idxcoltabcolid : Int, idxcoltypid : Types]

FilesOK ==
  /\ Table \in Seq(TableRows) /\ Len(Table) <= FileLimit
  /\ Column \in Seq(ColRows) /\ Len(Column) <= FileLimit
  /\ Index \in Seq(IndexRows) /\ Len(Index) <= FileLimit
  /\ IndexColumn \in Seq(IdxColRows) /\ Len(IndexColumn) <= FileLimit
  /\ m_next_oid \in FirstOid .. MaxOid + 1

\* The Oids from m_next_oid on have not been used for anything.
Unused ==
  /\ \A i \in DOMAIN Table : Table[i].tabid < m_next_oid
  /\ \A i \in DOMAIN Column : Column[i].coltabid < m_next_oid
  /\ \A i \in DOMAIN Index : Index[i].idxid < m_next_oid
  /\ \A i \in DOMAIN IndexColumn : IndexColumn[i].idxcolidxid < m_next_oid
  /\ \A o \in DOMAIN made : o \in Nat /\ o < m_next_oid

\* The rows of a table in Column are the len rows after row b, in order.
ColBlock(o, b, len) ==
  /\ {k \in DOMAIN Column : Column[k].coltabid = o} = b + 1 .. b + len
  /\ \A n \in 1 .. len : Column[b + n].colid = n - 1

\* All its columns are there exactly if its AddTable() call has returned.
TableInv(i) ==
  \A o : Table[i].tabid = o =>
    \E b, len \in Nat :
      /\ ColBlock(o, b, len)
      /\ len <= Table[i].tabncols
      /\ o \in MadeTables <=> len = Table[i].tabncols
      /\ o \in MadeTables =>
           /\ Len(made[o].typid) = len
           /\ \A n \in 1 .. len : Column[b + n].coltypid = made[o].typid[n]

IdxBlock(o, b, len) ==
  /\ {k \in DOMAIN IndexColumn : IndexColumn[k].idxcolidxid = o} = b + 1 .. b + len
  /\ \A n \in 1 .. len : IndexColumn[b + n].idxcolid = n - 1

\* Its key columns are those of the AddIndex() call, and each that is not
\* negative has the type of a column of the table.
KeyCols(i, o, b, len) ==
  LET on == made[o].on
      keys == made[o].keys
  IN /\ Index[i].idxtabid = on
     /\ keys \in Seq(Int) /\ Len(keys) = len
     /\ on \in MadeTables
     /\ \A n \in 1 .. len :
          /\ IndexColumn[b + n].idxcoltabcolid = keys[n]
          /\ keys[n] >= 0 => /\ keys[n] + 1 \in DOMAIN made[on].typid
                             /\ IndexColumn[b + n].idxcoltypid = made[on].typid[keys[n] + 1]

\* All its key columns are there exactly if its AddIndex() call has returned.
IndexInv(i) ==
  \A o : Index[i].idxid = o =>
    \E b, len \in Nat :
      /\ IdxBlock(o, b, len)
      /\ len <= Index[i].idxncols
      /\ o \in MadeIndexes <=> len = Index[i].idxncols
      /\ o \in MadeIndexes => KeyCols(i, o, b, len)

MadeInv ==
  /\ \A o \in MadeTables : \E i \in DOMAIN Table : Table[i].tabid = o
  /\ \A o \in MadeTables : made[o].typid \in Seq(Types) /\ Len(made[o].typid) > 0
  /\ \A o \in MadeIndexes : \E i \in DOMAIN Index : Index[i].idxid = o

DataInv ==
  /\ FilesOK /\ Unused /\ OneObjectPerOid /\ MadeInv
  /\ \A i \in DOMAIN Table : TableInv(i)
  /\ \A i \in DOMAIN Index : IndexInv(i)

RecidsInFiles ==
  m_recid_lookup_table \subseteq
    ({"Table"} \X DOMAIN Table) \union ({"Index"} \X DOMAIN Index)

\* ComputeLayout() has not thrown for a table whose descriptor is cached.
DescsLaidOut ==
  \A o \in DOMAIN m_table_desc : Layout(m_table_desc[o].typid) # "throws"

IInv == DataInv /\ RecidsInFiles /\ DescsAsMade /\ DescsLaidOut /\ IndexDescsAsMade

-----------------------------------------------------------------------------
(***************************************************************************)
(* Searching.                                                              *)
(***************************************************************************)
\* Every set of natural numbers has a least element.
LEMMA Least ==
  ASSUME NEW S, S \subseteq Nat, S # {}
  PROVE  \E x \in S : \A y \in S : x <= y
<1> DEFINE R == {ss \in Nat \X Nat : ss[1] < ss[2]}
<1>1. IsWellFoundedOn(R, Nat)
  BY NatLessThanWellFounded, Zenon DEF OpToRel
<1>2. PICK x \in S : \A y \in S : ~(<<y, x>> \in R)
  BY <1>1, WFMin, Zenon
<1>3. ASSUME NEW y \in S PROVE x <= y
  <2>1. <<y, x>> \in Nat \X Nat /\ <<y, x>>[1] = y /\ <<y, x>>[2] = x
    OBVIOUS
  <2>2. ~(y < x)
    BY <1>2, <2>1, Zenon
  <2> QED BY <2>2
<1> QED BY <1>3

LEMMA FirstFound ==
  ASSUME NEW hits, hits \subseteq Nat \ {0}
  PROVE  (First(hits) = 0 /\ hits = {}) \/ First(hits) \in hits
<1>1. CASE hits = {}
  BY <1>1 DEF First
<1>2. CASE hits # {}
  <2>1. \E i \in hits : \A j \in hits : i <= j
    BY <1>2, Least
  <2> QED BY <1>2, <2>1 DEF First
<1> QED BY <1>1, <1>2

\* No early end of the search cuts off the rows of a table or an index.
LEMMA BlockFound ==
  ASSUME NEW b \in Nat, NEW len \in Nat, NEW n \in Nat, len <= n
  PROVE  /\ Search(b + 1 .. b + len, n) = b + 1 .. b + len
         /\ Cardinality(b + 1 .. b + len) = len
<1> DEFINE hits == b + 1 .. b + len
<1>1. Cardinality(hits) = len
  BY FS_Interval
<1>2. ASSUME NEW i \in hits
      PROVE  Cardinality({j \in hits : j < i}) < len
  <2>1. {j \in hits : j < i} = b + 1 .. i - 1
    OBVIOUS
  <2>2. Cardinality(b + 1 .. i - 1) = i - 1 - b
    BY FS_Interval
  <2>3. i - 1 - b < len
    OBVIOUS
  <2> QED BY <2>1, <2>2, <2>3
<1>3. ASSUME NEW i \in hits, n # 0
      PROVE  Cardinality({j \in hits : j < i}) < n
  <2>1. Cardinality({j \in hits : j < i}) \in Nat
    <3>1. {j \in hits : j < i} = b + 1 .. i - 1
      OBVIOUS
    <3>2. Cardinality(b + 1 .. i - 1) = i - 1 - b /\ i - 1 - b \in Nat
      BY FS_Interval
    <3> QED BY <3>1, <3>2
  <2> QED BY <1>2, <2>1
<1> QED BY <1>1, <1>3 DEF Search

\* What the types of the files say about their rows.
LEMMA RowFacts ==
  ASSUME FilesOK
  PROVE  /\ m_next_oid \in Nat /\ FirstOid <= m_next_oid
         /\ Len(Table) \in Nat /\ DOMAIN Table = 1 .. Len(Table)
         /\ Len(Column) \in Nat /\ DOMAIN Column = 1 .. Len(Column)
         /\ Len(Index) \in Nat /\ DOMAIN Index = 1 .. Len(Index)
         /\ Len(IndexColumn) \in Nat /\ DOMAIN IndexColumn = 1 .. Len(IndexColumn)
         /\ \A i \in DOMAIN Table : /\ Table[i].tabid \in Nat
                                    /\ Table[i].tabncols \in Nat
         /\ \A i \in DOMAIN Column : /\ Column[i].coltabid \in Nat
                                     /\ Column[i].coltypid \in Types
         /\ \A i \in DOMAIN Index : Index[i].idxid \in Nat /\ Index[i].idxncols \in Nat
         /\ \A i \in DOMAIN IndexColumn : IndexColumn[i].idxcolidxid \in Nat
<1>1. m_next_oid \in Nat /\ FirstOid <= m_next_oid
  BY CatalogAssumption DEF FilesOK
<1>2. Table \in [1 .. Len(Table) -> TableRows] /\ Len(Table) \in Nat
  BY LenProperties DEF FilesOK
<1>3. Column \in [1 .. Len(Column) -> ColRows] /\ Len(Column) \in Nat
  BY LenProperties DEF FilesOK
<1>4. Index \in [1 .. Len(Index) -> IndexRows] /\ Len(Index) \in Nat
  BY LenProperties DEF FilesOK
<1>5. IndexColumn \in [1 .. Len(IndexColumn) -> IdxColRows] /\ Len(IndexColumn) \in Nat
  BY LenProperties DEF FilesOK
<1>6. \A r \in TableRows : r.tabid \in Nat /\ r.tabncols \in Nat
  BY CatalogAssumption DEF TableRows, Oids
<1>7. \A r \in ColRows : r.coltabid \in Nat /\ r.coltypid \in Types
  BY CatalogAssumption DEF ColRows, Oids
<1>8. \A r \in IndexRows : r.idxid \in Nat /\ r.idxncols \in Nat
  BY CatalogAssumption DEF IndexRows, Oids
<1>9. \A r \in IdxColRows : r.idxcolidxid \in Nat
  BY CatalogAssumption DEF IdxColRows, Oids
<1>10. \A i \in 1 .. Len(Table) : Table[i] \in TableRows
  BY <1>2
<1>11. \A i \in 1 .. Len(Column) : Column[i] \in ColRows
  BY <1>3
<1>12. \A i \in 1 .. Len(Index) : Index[i] \in IndexRows
  BY <1>4
<1>13. \A i \in 1 .. Len(IndexColumn) : IndexColumn[i] \in IdxColRows
  BY <1>5
<1> QED BY <1>1, <1>2, <1>3, <1>4, <1>5, <1>6, <1>7, <1>8, <1>9, <1>10, <1>11, <1>12, <1>13

LEMMA TableFound ==
  ASSUME DataInv, NEW o
  PROVE  \/ FindTable(o) = 0 /\ \A i \in DOMAIN Table : Table[i].tabid # o
         \/ FindTable(o) \in DOMAIN Table /\ Table[FindTable(o)].tabid = o
<1> DEFINE hits == {i \in DOMAIN Table : Table[i].tabid = o}
<1>1. hits \subseteq Nat \ {0}
  BY RowFacts DEF DataInv
<1>2. (First(hits) = 0 /\ hits = {}) \/ First(hits) \in hits
  BY <1>1, FirstFound
<1>3. FindTable(o) = First(hits)
  BY DEF FindTable
<1> QED BY <1>2, <1>3

LEMMA IndexFound ==
  ASSUME DataInv, NEW o
  PROVE  \/ FindIndex(o) = 0 /\ \A i \in DOMAIN Index : Index[i].idxid # o
         \/ FindIndex(o) \in DOMAIN Index /\ Index[FindIndex(o)].idxid = o
<1> DEFINE hits == {i \in DOMAIN Index : Index[i].idxid = o}
<1>1. hits \subseteq Nat \ {0}
  BY RowFacts DEF DataInv
<1>2. (First(hits) = 0 /\ hits = {}) \/ First(hits) \in hits
  BY <1>1, FirstFound
<1>3. FindIndex(o) = First(hits)
  BY DEF FindIndex
<1> QED BY <1>2, <1>3

\* The descriptor made from the rows of a table has their types, in order.
LEMMA DescOfBlock ==
  ASSUME DataInv, NEW t, NEW b \in Nat, NEW len \in Nat, ColBlock(t.tabid, b, len),
         t.tabncols \in Nat, len <= t.tabncols
  PROVE  /\ Cardinality(ColumnsOf(t)) = len
         /\ Describable(t, ColumnsOf(t)) <=> len > 0
         /\ NewTableDesc(t, ColumnsOf(t)).typid = [n \in 1 .. len |-> Column[b + n].coltypid]
<1> DEFINE cols == b + 1 .. b + len
<1>1. ColumnsOf(t) = cols /\ Cardinality(cols) = len
  <2>1. {i \in DOMAIN Column : Column[i].coltabid = t.tabid} = cols
    BY DEF ColBlock
  <2>2. Search(cols, t.tabncols) = cols /\ Cardinality(cols) = len
    BY BlockFound
  <2>3. ColumnsOf(t) = Search(cols, t.tabncols)
    BY <2>1 DEF ColumnsOf
  <2> QED BY <2>2, <2>3
<1>2. ASSUME NEW n \in 1 .. len
      PROVE  /\ {k \in cols : Column[k].colid = n - 1} = {b + n}
             /\ (CHOOSE k \in {b + n} : \A j \in {b + n} : j <= k) = b + n
  <2>1. b + n \in cols /\ Column[b + n].colid = n - 1
    BY DEF ColBlock
  <2>2. ASSUME NEW k \in cols, Column[k].colid = n - 1
        PROVE  k = b + n
    <3>1. k - b \in 1 .. len /\ b + (k - b) = k
      OBVIOUS
    <3>2. Column[k].colid = (k - b) - 1
      BY <3>1 DEF ColBlock
    <3> QED BY <2>2, <3>2
  <2>3. {k \in cols : Column[k].colid = n - 1} = {b + n}
    BY <2>1, <2>2
  <2>4. b + n <= b + n
    OBVIOUS
  <2> QED BY <2>3, <2>4
<1> DEFINE of(n) == {k \in cols : Column[k].colid = n - 1}
           field(n) == IF of(n) = {} THEN NoSuchType
                       ELSE Column[CHOOSE k \in of(n) : \A j \in of(n) : j <= k].coltypid
<1>3. NewTableDesc(t, cols).typid = [n \in 1 .. len |-> field(n)]
  BY <1>1 DEF NewTableDesc
<1>4. ASSUME NEW n \in 1 .. len
      PROVE  field(n) = Column[b + n].coltypid
  BY <1>2
<1> HIDE DEF field
<1>5. [n \in 1 .. len |-> field(n)] = [n \in 1 .. len |-> Column[b + n].coltypid]
  BY <1>4
<1>6. Describable(t, cols) <=> len > 0
  <2>1. \A k \in cols : Column[k].coltabid = t.tabid
    BY DEF ColBlock
  <2>2. cols # {} <=> len > 0
    OBVIOUS
  <2> QED BY <2>1, <2>2 DEF Describable
<1> QED BY <1>1, <1>3, <1>5, <1>6

\* FindTableDesc() works for the tables whose AddTable() call has returned and
\* for no others, unless ComputeLayout() throws, and its descriptor is that of
\* the call.
LEMMA OutcomeMade ==
  ASSUME DataInv, DescsAsMade, DescsLaidOut, NEW o
  PROVE  /\ TableDescOutcome(o) = "ok" => o \in MadeTables /\ o \in DOMAIN TableDescsAfter(o)
         /\ o \in MadeTables =>
              TableDescOutcome(o) = IF Layout(made[o].typid) = "throws" THEN "error" ELSE "ok"
         /\ TableDescOutcome(o) \in {"ok", "none", "fatal", "error"}
         /\ \A p \in DOMAIN TableDescsAfter(o) :
              /\ p \in MadeTables /\ TableDescsAfter(o)[p].typid = made[p].typid
              /\ Layout(TableDescsAfter(o)[p].typid) # "throws"
<1>1. CASE o \in DOMAIN m_table_desc
  <2>1. TableDescOutcome(o) = "ok" /\ TableDescsAfter(o) = m_table_desc
    BY <1>1 DEF TableDescOutcome, TableDescsAfter
  <2>2. o \in MadeTables /\ Layout(made[o].typid) # "throws"
    BY <1>1 DEF DescsAsMade, DescsLaidOut
  <2> QED BY <1>1, <2>1, <2>2 DEF DescsAsMade, DescsLaidOut
<1>2. CASE o \notin DOMAIN m_table_desc
  <2> DEFINE i == FindTable(o)
  <2>1. CASE i = 0
    <3>1. o \notin MadeTables
      <4>1. \A k \in DOMAIN Table : Table[k].tabid # o
        BY <2>1, TableFound, RowFacts DEF DataInv
      <4> QED BY <4>1 DEF DataInv, MadeInv
    <3>2. TableDescOutcome(o) = "none"
      BY <1>2, <2>1 DEF TableDescOutcome
    <3>3. TableDescsAfter(o) = m_table_desc
      BY <3>2 DEF TableDescsAfter
    <3> QED BY <3>1, <3>2, <3>3 DEF DescsAsMade, DescsLaidOut
  <2>2. CASE i # 0
    <3> PICK t : t = Table[i]
      OBVIOUS
    <3>1. i \in DOMAIN Table /\ t.tabid = o /\ t.tabncols \in Nat
      BY <2>2, TableFound, RowFacts DEF DataInv
    <3>2. PICK b \in Nat, len \in Nat :
            /\ ColBlock(o, b, len)
            /\ len <= t.tabncols
            /\ o \in MadeTables <=> len = t.tabncols
            /\ o \in MadeTables =>
                 /\ Len(made[o].typid) = len
                 /\ \A n \in 1 .. len : Column[b + n].coltypid = made[o].typid[n]
      <4>1. PICK k \in DOMAIN Table : k = i
        BY <3>1
      <4>2. TableInv(k) /\ Table[k].tabid = o /\ Table[k] = t
        BY <3>1, <4>1 DEF DataInv
      <4> QED BY <4>2 DEF TableInv
    <3> PICK cols : cols = ColumnsOf(t)
      OBVIOUS
    <3> PICK desc : desc = NewTableDesc(t, cols)
      OBVIOUS
    <3>3. /\ Cardinality(cols) = len
          /\ Describable(t, cols) <=> len > 0
          /\ desc.typid = [n \in 1 .. len |-> Column[b + n].coltypid]
      <4>1. ColBlock(t.tabid, b, len) /\ len <= t.tabncols /\ t.tabncols \in Nat
        BY <3>1, <3>2
      <4> QED BY <4>1, DescOfBlock
    <3>4. CountMatches(t, cols) <=> o \in MadeTables
      BY <3>2, <3>3 DEF CountMatches
    <3>5. /\ TableDescOutcome(o) = NewDescOutcome(t, cols)
          /\ TableDescsAfter(o) = IF TableDescOutcome(o) = "ok"
                                    THEN Extend(m_table_desc, o, desc) ELSE m_table_desc
      <4>1. ColumnsOf(Table[i]) = cols /\ NewTableDesc(Table[i], cols) = desc
        BY DEF ColumnsOf, NewTableDesc
      <4>2. TableDescOutcome(o) = NewDescOutcome(t, cols)
        BY <1>2, <2>2, <4>1 DEF TableDescOutcome
      <4> QED BY <1>2, <4>1, <4>2 DEF TableDescsAfter
    <3>6. CASE o \notin MadeTables
      <4>1. TableDescOutcome(o) = "fatal"
        BY <3>4, <3>5, <3>6 DEF NewDescOutcome
      <4>2. TableDescsAfter(o) = m_table_desc
        BY <3>5, <4>1
      <4> QED BY <3>6, <4>1, <4>2 DEF DescsAsMade, DescsLaidOut
    <3>7. CASE o \in MadeTables
      <4>1. made[o].typid \in Seq(Types) /\ Len(made[o].typid) = len /\ len > 0
        BY <3>2, <3>7 DEF DataInv, MadeInv
      <4>2. made[o].typid = [n \in 1 .. len |-> made[o].typid[n]]
        BY <4>1, LenProperties
      <4>3. desc.typid = made[o].typid
        BY <3>2, <3>3, <3>7, <4>2
      <4>4. TableDescOutcome(o) = IF Layout(made[o].typid) = "throws" THEN "error" ELSE "ok"
        BY <3>3, <3>4, <3>5, <3>7, <4>1, <4>3 DEF NewDescOutcome
      <4>5. CASE Layout(made[o].typid) = "throws"
        <5>1. TableDescOutcome(o) = "error" /\ TableDescsAfter(o) = m_table_desc
          BY <3>5, <4>4, <4>5
        <5> QED BY <4>4, <5>1 DEF DescsAsMade, DescsLaidOut
      <4>6. CASE Layout(made[o].typid) # "throws"
        <5>1. TableDescOutcome(o) = "ok" /\ TableDescsAfter(o) = Extend(m_table_desc, o, desc)
          BY <3>5, <4>4, <4>6
        <5>2. /\ DOMAIN Extend(m_table_desc, o, desc) = DOMAIN m_table_desc \union {o}
              /\ Extend(m_table_desc, o, desc)[o] = desc
              /\ \A p \in DOMAIN m_table_desc :
                   p # o => Extend(m_table_desc, o, desc)[p] = m_table_desc[p]
          BY DEF Extend
        <5>3. ASSUME NEW p \in DOMAIN TableDescsAfter(o)
              PROVE  /\ p \in MadeTables /\ TableDescsAfter(o)[p].typid = made[p].typid
                     /\ Layout(TableDescsAfter(o)[p].typid) # "throws"
          <6>1. CASE p = o
            BY <3>7, <4>3, <4>6, <5>1, <5>2, <6>1
          <6>2. CASE p # o
            BY <5>1, <5>2, <6>2 DEF DescsAsMade, DescsLaidOut
          <6> QED BY <6>1, <6>2
        <5> QED BY <3>7, <4>4, <5>1, <5>2, <5>3
      <4> QED BY <4>5, <4>6
    <3> QED BY <3>6, <3>7
  <2> QED BY <2>1, <2>2
<1> QED BY <1>1, <1>2

-----------------------------------------------------------------------------
(***************************************************************************)
(* AddTable() and AddIndex().                                              *)
(***************************************************************************)
\* new is old with the first m rows of data behind it.
Grown(old, new, data, m) ==
  /\ Len(new) = Len(old) + m
  /\ \A i \in 1 .. Len(old) : new[i] = old[i]
  /\ \A n \in 1 .. m : new[Len(old) + n] = data[n]

LEMMA ConcatGrown ==
  ASSUME NEW S, NEW old \in Seq(S), NEW data \in Seq(S), NEW m \in Nat, m <= Len(data),
         NEW new, new = old \o SubSeq(data, 1, m)
  PROVE  new \in Seq(S) /\ Grown(old, new, data, m)
<1>1. Len(old) \in Nat /\ Len(data) \in Nat /\ \A i \in 1 .. Len(data) : data[i] \in S
  BY LenProperties, ElementOfSeq
<1> DEFINE part == SubSeq(data, 1, m)
<1>2. /\ part \in Seq(S) /\ Len(part) = m
      /\ \A i \in 1 .. m : part[i] = data[i]
  BY <1>1, SubSeqProperties
<1> HIDE DEF part
<1>3. /\ new \in Seq(S) /\ Len(new) = Len(old) + m
      /\ \A i \in 1 .. Len(old) + m :
           new[i] = IF i <= Len(old) THEN old[i] ELSE part[i - Len(old)]
  <2>1. new = old \o part
    BY DEF part
  <2> QED BY <1>2, <2>1, ConcatProperties
<1>4. \A i \in 1 .. Len(old) : new[i] = old[i]
  BY <1>1, <1>3
<1>5. ASSUME NEW n \in 1 .. m PROVE new[Len(old) + n] = data[n]
  <2>1. /\ Len(old) + n \in 1 .. Len(old) + m /\ ~(Len(old) + n <= Len(old))
        /\ (Len(old) + n) - Len(old) = n
    BY <1>1
  <2> QED BY <1>2, <1>3, <2>1
<1> QED BY <1>3, <1>4, <1>5 DEF Grown

LEMMA InsertGrown ==
  ASSUME NEW S, NEW old \in Seq(S), Len(old) <= FileLimit, NEW data \in Seq(S), NEW bad
  PROVE  \E m \in Nat :
           /\ m <= Len(data) /\ Len(old) + m <= FileLimit
           /\ Complete(old, data, bad) <=> m = Len(data)
           /\ Inserted(old, data, bad) \in Seq(S)
           /\ Grown(old, Inserted(old, data, bad), data, m)
<1> DEFINE m == Insertable(old, data, bad)
           writable == IF bad \in DOMAIN data THEN bad - 1 ELSE Len(data)
<1>1. /\ Len(old) \in Nat /\ Len(data) \in Nat /\ DOMAIN data = 1 .. Len(data)
      /\ FileLimit \in Nat
  BY LenProperties, CatalogAssumption
<1>2. writable \in Nat /\ writable <= Len(data)
  BY <1>1
<1>3. m = IF writable <= FileLimit - Len(old) THEN writable ELSE FileLimit - Len(old)
  BY DEF Insertable, RoomIn
<1> HIDE DEF writable
<1>4. m \in Nat /\ m <= Len(data) /\ Len(old) + m <= FileLimit
  BY <1>1, <1>2, <1>3
<1>5. Inserted(old, data, bad) = old \o SubSeq(data, 1, m)
  BY DEF Inserted
<1> HIDE DEF m
<1>6. Inserted(old, data, bad) \in Seq(S) /\ Grown(old, Inserted(old, data, bad), data, m)
  BY <1>4, <1>5, ConcatGrown
<1>7. Complete(old, data, bad) <=> m = Len(data)
  BY DEF Complete, m
<1> QED BY <1>4, <1>6, <1>7

\* What AddTable() does to the catalog after it has allocated its Oid: it adds
\* the row in Table and the first m of the rows in Column, all of them if it
\* returns.
TableAdded(name, coltypid, m) ==
  LET o == m_next_oid
      all == m = Len(coltypid)
  IN /\ Table' \in Seq(TableRows) /\ Len(Table') = Len(Table) + 1
     /\ Len(Table') <= FileLimit
     /\ \A i \in 1 .. Len(Table) : Table'[i] = Table[i]
     /\ Table'[Len(Table) + 1] = [tabid |-> o, tabname |-> name, tabncols |-> Len(coltypid)]
     /\ Column' \in Seq(ColRows) /\ Len(Column') = Len(Column) + m
     /\ Len(Column') <= FileLimit
     /\ \A i \in 1 .. Len(Column) : Column'[i] = Column[i]
     /\ \A n \in 1 .. m : Column'[Len(Column) + n] =
                            [coltabid |-> o, colid |-> n - 1, coltypid |-> coltypid[n]]
     /\ m_next_oid <= MaxOid /\ m_next_oid' = m_next_oid + 1
     /\ Index' = Index /\ IndexColumn' = IndexColumn
     /\ Len(coltypid) > 0
     /\ made' = IF all THEN Extend(made, o, [name |-> name, typid |-> coltypid]) ELSE made

\* Or its row was not added, and the Oid is spent.
OidSpent ==
  /\ Table' = Table /\ Column' = Column /\ Index' = Index /\ IndexColumn' = IndexColumn
  /\ made' = made
  /\ m_next_oid <= MaxOid /\ m_next_oid' = m_next_oid + 1

LEMMA AddTableEffect ==
  ASSUME FilesOK, NEW name \in Names, NEW coltypid \in ColumnLists, NEW long, NEW argsOK,
         AddTableInserts(name, coltypid, long, argsOK)
  PROVE  /\ OidSpent \/ \E m \in 0 .. Len(coltypid) : TableAdded(name, coltypid, m)
         /\ coltypid \in Seq(Types)
<1> DEFINE t == <<TableRow(name, coltypid)>>
           c == ColumnRows(coltypid)
           o == m_next_oid
<1>1. /\ o \in Nat /\ o <= MaxOid /\ o \in Oids /\ AllocateOid = o
  BY CatalogAssumption
     DEF AddTableInserts, AddTableAllowed, AllocateOid, FilesOK, Oids, InvalidOid
<1>2. /\ coltypid \in Seq(Types) /\ Len(coltypid) \in Nat /\ Len(coltypid) > 0
      /\ DOMAIN coltypid = 1 .. Len(coltypid)
  <2>1. coltypid \in Seq(Types \union {NoSuchType})
    BY CatalogAssumption
  <2>2. /\ Len(coltypid) \in Nat /\ DOMAIN coltypid = 1 .. Len(coltypid)
        /\ coltypid \in [1 .. Len(coltypid) -> Types \union {NoSuchType}]
    BY <2>1, LenProperties
  <2>3. Len(coltypid) > 0 /\ \A n \in DOMAIN coltypid : coltypid[n] \in Types
    BY CatalogAssumption DEF AddTableInserts, AddTableAllowed
  <2>4. coltypid \in [1 .. Len(coltypid) -> Types]
    BY <2>2, <2>3
  <2> QED BY <2>2, <2>3, <2>4
<1>3. t \in Seq(TableRows) /\ Len(t) = 1
      /\ t[1] = [tabid |-> o, tabname |-> name, tabncols |-> Len(coltypid)]
  BY <1>1, <1>2 DEF TableRow, TableRows
<1>4. /\ c \in Seq(ColRows) /\ Len(c) = Len(coltypid)
      /\ \A n \in 1 .. Len(coltypid) :
           c[n] = [coltabid |-> o, colid |-> n - 1, coltypid |-> coltypid[n]]
  <2>1. c = [n \in 1 .. Len(coltypid) |->
               [coltabid |-> o, colid |-> n - 1, coltypid |-> coltypid[n]]]
    BY <1>1, <1>2 DEF ColumnRows
  <2>2. \A n \in 1 .. Len(coltypid) : coltypid[n] \in Types
    BY <1>2, ElementOfSeq
  <2>3. c \in [1 .. Len(coltypid) -> ColRows]
    BY <1>1, <1>2, <2>1, <2>2 DEF ColRows
  <2> QED BY <1>2, <2>1, <2>3
<1> HIDE DEF t, c
<1>5. /\ Index' = Index /\ IndexColumn' = IndexColumn
      /\ m_next_oid' = m_next_oid + 1
      /\ Table' = Inserted(Table, t, Bad(name))
      /\ \/ /\ Complete(Table, t, Bad(name)) /\ Complete(Column, c, long)
            /\ Column' = Column \o c
            /\ made' = Extend(made, o, [name |-> name, typid |-> coltypid])
         \/ /\ Complete(Table, t, Bad(name)) /\ ~Complete(Column, c, long)
            /\ Column' = Inserted(Column, c, long)
            /\ made' = made
         \/ /\ ~Complete(Table, t, Bad(name))
            /\ Column' = Column /\ made' = made
  BY <1>1 DEF AddTableInserts, Spent, t, c
<1>6. PICK mt \in Nat :
        /\ mt <= 1 /\ Len(Table) + mt <= FileLimit
        /\ Complete(Table, t, Bad(name)) <=> mt = 1
        /\ Table' \in Seq(TableRows) /\ Grown(Table, Table', t, mt)
  <2>1. Table \in Seq(TableRows) /\ Len(Table) <= FileLimit
    BY DEF FilesOK
  <2> QED BY <1>3, <1>5, <2>1, InsertGrown
<1>7. PICK mc \in Nat :
        /\ mc <= Len(coltypid) /\ Len(Column) + mc <= FileLimit
        /\ Complete(Column, c, long) <=> mc = Len(coltypid)
        /\ Inserted(Column, c, long) \in Seq(ColRows)
        /\ Grown(Column, Inserted(Column, c, long), c, mc)
  <2>1. Column \in Seq(ColRows) /\ Len(Column) <= FileLimit
    BY DEF FilesOK
  <2> QED BY <1>4, <2>1, InsertGrown
<1>8. CASE mt = 0
  <2>1. Table' = Table
    BY <1>6, <1>8, SeqEqual DEF FilesOK, Grown
  <2>2. OidSpent
    BY <1>1, <1>5, <1>6, <1>8, <2>1 DEF OidSpent
  <2> QED BY <1>2, <2>2
<1>9. ASSUME mt = 1, Column' \in Seq(ColRows), Grown(Column, Column', c, mc),
             made' = IF mc = Len(coltypid)
                       THEN Extend(made, o, [name |-> name, typid |-> coltypid]) ELSE made
      PROVE  \E m \in 0 .. Len(coltypid) : TableAdded(name, coltypid, m)
  <2>0. mc <= Len(coltypid) /\ Len(Column) + mc <= FileLimit
    BY <1>7, Zenon
  <2>1. mc \in 0 .. Len(coltypid)
    BY <1>2, <2>0
  <2>2. /\ Len(Table') = Len(Table) + 1 /\ Len(Table') <= FileLimit
        /\ \A i \in 1 .. Len(Table) : Table'[i] = Table[i]
        /\ Table'[Len(Table) + 1] =
             [tabid |-> o, tabname |-> name, tabncols |-> Len(coltypid)]
    BY <1>3, <1>6, <1>9 DEF Grown
  <2>3. /\ Len(Column') = Len(Column) + mc /\ Len(Column') <= FileLimit
        /\ \A i \in 1 .. Len(Column) : Column'[i] = Column[i]
        /\ \A n \in 1 .. mc : Column'[Len(Column) + n] =
                                [coltabid |-> o, colid |-> n - 1, coltypid |-> coltypid[n]]
    <3>1. \A n \in 1 .. mc : n \in 1 .. Len(coltypid)
      BY <1>2, <2>0
    <3> QED BY <1>4, <1>9, <2>0, <3>1 DEF Grown
  <2>4. TableAdded(name, coltypid, mc)
    BY <1>1, <1>2, <1>5, <1>6, <1>9, <2>2, <2>3 DEF TableAdded
  <2> QED BY <2>1, <2>4
<1>10. CASE mt = 1 /\ mc = Len(coltypid)
  <2>1. Column' \in Seq(ColRows) /\ Grown(Column, Column', c, mc)
    <3>1. SubSeq(c, 1, Len(c)) = c
      BY <1>4
    <3>2. Column' = Column \o SubSeq(c, 1, mc)
      BY <1>4, <1>5, <1>6, <1>7, <1>10, <3>1
    <3> QED BY <1>4, <1>7, <3>2, ConcatGrown DEF FilesOK
  <2>2. made' = Extend(made, o, [name |-> name, typid |-> coltypid])
    BY <1>5, <1>6, <1>7, <1>10
  <2> QED BY <1>2, <1>9, <1>10, <2>1, <2>2
<1>11. CASE mt = 1 /\ mc # Len(coltypid)
  <2>1. Column' = Inserted(Column, c, long) /\ made' = made
    BY <1>5, <1>6, <1>7, <1>11
  <2> QED BY <1>2, <1>7, <1>9, <1>11, <2>1
<1> QED BY <1>6, <1>8, <1>10, <1>11

\* The history of a call that has returned.
LEMMA MadeTable ==
  ASSUME NEW o, o \notin DOMAIN made, NEW name, NEW types,
         made' = Extend(made, o, [name |-> name, typid |-> types])
  PROVE  /\ DOMAIN made' = DOMAIN made \union {o}
         /\ \A p \in DOMAIN made : made'[p] = made[p]
         /\ MadeTables' = MadeTables \union {o} /\ MadeIndexes' = MadeIndexes
         /\ made'[o].typid = types
<1> DEFINE r == [name |-> name, typid |-> types]
<1>1. "typid" \in DOMAIN r /\ ~("keys" \in DOMAIN r) /\ r.typid = types
  OBVIOUS
<1> HIDE DEF r
<1>2. /\ DOMAIN made' = DOMAIN made \union {o}
      /\ \A p \in DOMAIN made : made'[p] = made[p]
      /\ made'[o] = r
  BY DEF Extend, r
<1>3. \A p \in DOMAIN made : DOMAIN made'[p] = DOMAIN made[p]
  BY <1>2
<1> QED BY <1>1, <1>2, <1>3 DEF MadeTables, MadeIndexes

LEMMA MadeIndex ==
  ASSUME NEW o, o \notin DOMAIN made, NEW name, NEW on, NEW keys,
         made' = Extend(made, o, [name |-> name, on |-> on, keys |-> keys])
  PROVE  /\ DOMAIN made' = DOMAIN made \union {o}
         /\ \A p \in DOMAIN made : made'[p] = made[p]
         /\ MadeTables' = MadeTables /\ MadeIndexes' = MadeIndexes \union {o}
         /\ made'[o].on = on /\ made'[o].keys = keys
<1> DEFINE r == [name |-> name, on |-> on, keys |-> keys]
<1>1. "keys" \in DOMAIN r /\ ~("typid" \in DOMAIN r) /\ r.on = on /\ r.keys = keys
  OBVIOUS
<1> HIDE DEF r
<1>2. /\ DOMAIN made' = DOMAIN made \union {o}
      /\ \A p \in DOMAIN made : made'[p] = made[p]
      /\ made'[o] = r
  BY DEF Extend, r
<1>3. \A p \in DOMAIN made : DOMAIN made'[p] = DOMAIN made[p]
  BY <1>2
<1> QED BY <1>1, <1>2, <1>3 DEF MadeTables, MadeIndexes

\* What is known of a table stays true when the table's own rows, those of
\* Column and its history stay.
LEMMA TableInvKept ==
  ASSUME DataInv, NEW i \in DOMAIN Table, Table'[i] = Table[i],
         NEW o, o = Table[i].tabid,
         {k \in DOMAIN Column' : Column'[k].coltabid = o}
           = {k \in DOMAIN Column : Column[k].coltabid = o},
         \A k \in DOMAIN Column : Column'[k] = Column[k],
         o \in MadeTables' <=> o \in MadeTables,
         o \in MadeTables => made'[o] = made[o]
  PROVE  TableInv(i)'
<1>1. PICK b \in Nat, len \in Nat :
        /\ ColBlock(o, b, len)
        /\ len <= Table[i].tabncols
        /\ o \in MadeTables <=> len = Table[i].tabncols
        /\ o \in MadeTables =>
             /\ Len(made[o].typid) = len
             /\ \A n \in 1 .. len : Column[b + n].coltypid = made[o].typid[n]
  <2>1. TableInv(i)
    BY DEF DataInv
  <2> QED BY <2>1 DEF TableInv, ColBlock
<1>2. \A n \in 1 .. len : Column'[b + n] = Column[b + n]
  <2>1. \A n \in 1 .. len : b + n \in b + 1 .. b + len
    OBVIOUS
  <2>2. b + 1 .. b + len \subseteq DOMAIN Column
    BY <1>1 DEF ColBlock
  <2> QED BY <2>1, <2>2
<1>3. ColBlock(o, b, len)'
  BY <1>1, <1>2 DEF ColBlock
<1>4. \E bb, ll \in Nat :
       /\ ColBlock(o, bb, ll)'
       /\ ll <= Table'[i].tabncols
       /\ o \in MadeTables' <=> ll = Table'[i].tabncols
       /\ o \in MadeTables' =>
            /\ Len(made'[o].typid) = ll
            /\ \A n \in 1 .. ll : Column'[bb + n].coltypid = made'[o].typid[n]
  <2>1. /\ ColBlock(o, b, len)'
        /\ len <= Table'[i].tabncols
        /\ o \in MadeTables' <=> len = Table'[i].tabncols
        /\ o \in MadeTables' =>
            /\ Len(made'[o].typid) = len
            /\ \A n \in 1 .. len : Column'[b + n].coltypid = made'[o].typid[n]
    BY <1>1, <1>2, <1>3
  <2> QED BY <2>1
<1>5. \A p : Table'[i].tabid = p => p = o
  OBVIOUS
<1> QED BY <1>4, <1>5 DEF TableInv

LEMMA IndexInvKept ==
  ASSUME DataInv, NEW i \in DOMAIN Index, Index'[i] = Index[i],
         NEW o, o = Index[i].idxid,
         {k \in DOMAIN IndexColumn' : IndexColumn'[k].idxcolidxid = o}
           = {k \in DOMAIN IndexColumn : IndexColumn[k].idxcolidxid = o},
         \A k \in DOMAIN IndexColumn : IndexColumn'[k] = IndexColumn[k],
         o \in MadeIndexes' <=> o \in MadeIndexes,
         o \in MadeIndexes => made'[o] = made[o],
         \A p \in MadeTables : p \in MadeTables' /\ made'[p] = made[p]
  PROVE  IndexInv(i)'
<1>1. PICK b \in Nat, len \in Nat :
        /\ IdxBlock(o, b, len)
        /\ len <= Index[i].idxncols
        /\ o \in MadeIndexes <=> len = Index[i].idxncols
        /\ o \in MadeIndexes => KeyCols(i, o, b, len)
  <2>1. IndexInv(i)
    BY DEF DataInv
  <2> QED BY <2>1, ZenonT(30) DEF IndexInv
<1>2. \A n \in 1 .. len : IndexColumn'[b + n] = IndexColumn[b + n]
  <2>1. \A n \in 1 .. len : b + n \in b + 1 .. b + len
    OBVIOUS
  <2>2. b + 1 .. b + len \subseteq DOMAIN IndexColumn
    BY <1>1 DEF IdxBlock
  <2> QED BY <2>1, <2>2
<1>3. IdxBlock(o, b, len)'
  BY <1>1, <1>2 DEF IdxBlock
<1>4. ASSUME o \in MadeIndexes PROVE KeyCols(i, o, b, len)'
  <2> PICK on : on = made[o].on
    OBVIOUS
  <2> PICK keys : keys = made[o].keys
    OBVIOUS
  <2>1. /\ Index[i].idxtabid = on
        /\ keys \in Seq(Int) /\ Len(keys) = len
        /\ on \in MadeTables
        /\ \A n \in 1 .. len :
             /\ IndexColumn[b + n].idxcoltabcolid = keys[n]
             /\ keys[n] >= 0 => /\ keys[n] + 1 \in DOMAIN made[on].typid
                                /\ IndexColumn[b + n].idxcoltypid = made[on].typid[keys[n] + 1]
    BY <1>1, <1>4 DEF KeyCols
  <2>2. /\ made'[o].on = on /\ made'[o].keys = keys /\ Index'[i].idxtabid = on
        /\ on \in MadeTables' /\ made'[on] = made[on]
    BY <1>4, <2>1
  <2>3. \A n \in 1 .. len :
          /\ IndexColumn'[b + n].idxcoltabcolid = keys[n]
          /\ keys[n] >= 0 => /\ keys[n] + 1 \in DOMAIN made'[on].typid
                             /\ IndexColumn'[b + n].idxcoltypid = made'[on].typid[keys[n] + 1]
    BY <1>2, <2>1, <2>2
  <2> QED BY <2>1, <2>2, <2>3 DEF KeyCols
<1>5. \E bb, ll \in Nat :
       /\ IdxBlock(o, bb, ll)'
       /\ ll <= Index'[i].idxncols
       /\ o \in MadeIndexes' <=> ll = Index'[i].idxncols
       /\ o \in MadeIndexes' => KeyCols(i, o, bb, ll)'
  <2>1. /\ IdxBlock(o, b, len)'
        /\ len <= Index'[i].idxncols
        /\ o \in MadeIndexes' <=> len = Index'[i].idxncols
        /\ o \in MadeIndexes' => KeyCols(i, o, b, len)'
    BY <1>1, <1>3, <1>4
  <2> QED BY <2>1
<1>6. \A p : Index'[i].idxid = p => p = o
  OBVIOUS
<1> QED BY <1>5, <1>6 DEF IndexInv

LEMMA TableAddedKeeps ==
  ASSUME DataInv, NEW name, NEW coltypid \in Seq(Types), NEW m \in 0 .. Len(coltypid),
         TableAdded(name, coltypid, m)
  PROVE  DataInv'
<1> PICK o : o = m_next_oid
  OBVIOUS
<1> PICK nt : nt = Len(Table)
  OBVIOUS
<1> PICK nc : nc = Len(Column)
  OBVIOUS
<1>1. /\ o \in Nat /\ FirstOid <= o /\ o <= MaxOid /\ nt \in Nat /\ nc \in Nat
      /\ DOMAIN Table = 1 .. nt /\ DOMAIN Column = 1 .. nc
      /\ Len(coltypid) \in Nat /\ m \in Nat /\ m <= Len(coltypid)
  BY RowFacts, LenProperties DEF DataInv, TableAdded
<1>2. /\ \A i \in DOMAIN Table : Table[i].tabid \in Nat /\ Table[i].tabid < o
      /\ \A i \in DOMAIN Column : Column[i].coltabid \in Nat /\ Column[i].coltabid < o
      /\ \A i \in DOMAIN Index : Index[i].idxid \in Nat /\ Index[i].idxid < o
      /\ \A i \in DOMAIN IndexColumn :
           IndexColumn[i].idxcolidxid \in Nat /\ IndexColumn[i].idxcolidxid < o
      /\ \A p \in DOMAIN made : p \in Nat /\ p < o
  BY RowFacts DEF DataInv, Unused
<1>3. /\ DOMAIN Table' = 1 .. nt + 1 /\ DOMAIN Column' = 1 .. nc + m
      /\ \A i \in DOMAIN Table : i \in DOMAIN Table' /\ Table'[i] = Table[i]
      /\ \A i \in DOMAIN Table' : i \in DOMAIN Table \/ i = nt + 1
      /\ nt + 1 \in DOMAIN Table' /\ Table'[nt + 1].tabid = o
      /\ Table'[nt + 1].tabncols = Len(coltypid)
  <2>1. /\ DOMAIN Table' = 1 .. nt + 1 /\ DOMAIN Column' = 1 .. nc + m
    BY <1>1, LenProperties DEF TableAdded
  <2> QED BY <1>1, <2>1 DEF TableAdded
<1>4. /\ \A k \in DOMAIN Column : k \in DOMAIN Column' /\ Column'[k] = Column[k]
      /\ \A n \in 1 .. m : /\ Column'[nc + n].coltabid = o
                           /\ Column'[nc + n].colid = n - 1
                           /\ Column'[nc + n].coltypid = coltypid[n]
      /\ \A k \in DOMAIN Column' : k \in DOMAIN Column \/ (k \in nc + 1 .. nc + m
                                                         /\ Column'[k].coltabid = o)
  <2>1. ASSUME NEW n \in 1 .. m
        PROVE  /\ Column'[nc + n].coltabid = o
               /\ Column'[nc + n].colid = n - 1
               /\ Column'[nc + n].coltypid = coltypid[n]
    <3>1. Column'[nc + n] = [coltabid |-> o, colid |-> n - 1, coltypid |-> coltypid[n]]
      BY DEF TableAdded
    <3> QED BY <3>1
  <2>3. ASSUME NEW k \in nc + 1 .. nc + m
        PROVE  Column'[k].coltabid = o
    <3>1. k - nc \in 1 .. m /\ nc + (k - nc) = k
      BY <1>1
    <3>2. Column'[nc + (k - nc)].coltabid = o
      BY <2>1, <3>1
    <3> QED BY <3>1, <3>2
  <2>4. \A k \in 1 .. nc + m : k \in 1 .. nc \/ k \in nc + 1 .. nc + m
    BY <1>1
  <2>5. \A k \in 1 .. nc : k \in 1 .. nc + m /\ Column'[k] = Column[k]
    BY <1>1 DEF TableAdded
  <2> QED BY <1>1, <1>3, <2>1, <2>3, <2>4, <2>5
<1>5. /\ o \notin DOMAIN made /\ o \notin MadeTables
      /\ MadeIndexes' = MadeIndexes
      /\ DOMAIN made' \subseteq DOMAIN made \union {o}
      /\ \A p \in DOMAIN made : made'[p] = made[p]
      /\ MadeTables' = IF m = Len(coltypid) THEN MadeTables \union {o} ELSE MadeTables
      /\ m = Len(coltypid) => made'[o].typid = coltypid
  <2>1. o \notin DOMAIN made
    BY <1>1, <1>2
  <2>2. CASE m = Len(coltypid)
    <3>1. made' = Extend(made, o, [name |-> name, typid |-> coltypid])
      BY <2>2 DEF TableAdded
    <3> QED BY <2>1, <2>2, <3>1, MadeTable DEF MadeTables
  <2>3. CASE m # Len(coltypid)
    <3>1. made' = made
      BY <2>3 DEF TableAdded
    <3> QED BY <2>1, <2>3, <3>1 DEF MadeTables, MadeIndexes
  <2> QED BY <2>2, <2>3
<1>6. FilesOK'
  BY <1>1, CatalogAssumption DEF DataInv, FilesOK, TableAdded
<1>7. Unused'
  <2>1. m_next_oid' = o + 1 /\ Index' = Index /\ IndexColumn' = IndexColumn
    BY DEF TableAdded
  <2>2. \A i \in DOMAIN Table' : Table'[i].tabid < o + 1
    BY <1>1, <1>2, <1>3
  <2>3. \A i \in DOMAIN Column' : Column'[i].coltabid < o + 1
    BY <1>1, <1>2, <1>4
  <2>4. /\ \A i \in DOMAIN Index : Index[i].idxid < o + 1
        /\ \A i \in DOMAIN IndexColumn : IndexColumn[i].idxcolidxid < o + 1
    BY <1>1, <1>2
  <2>5. \A p \in DOMAIN made' : p \in Nat /\ p < o + 1
    BY <1>1, <1>2, <1>5
  <2> QED BY <2>1, <2>2, <2>3, <2>4, <2>5 DEF Unused
<1>8. OneObjectPerOid'
  <2>1. Index' = Index
    BY DEF TableAdded
  <2>2. /\ \A i \in DOMAIN Table : Table[i].tabid # o
        /\ \A i \in DOMAIN Index : Index[i].idxid # o
    BY <1>1, <1>2
  <2>3. \A i, j \in DOMAIN Table' : Table'[i].tabid = Table'[j].tabid => i = j
    BY <1>3, <2>2 DEF DataInv, OneObjectPerOid
  <2>4. \A i \in DOMAIN Table, j \in DOMAIN Index : Table[i].tabid # Index[j].idxid
    BY DEF DataInv, OneObjectPerOid, Range
  <2>5. \A i \in DOMAIN Table', j \in DOMAIN Index : Table'[i].tabid # Index[j].idxid
    BY <1>3, <2>2, <2>4
  <2> QED BY <2>1, <2>3, <2>5 DEF DataInv, OneObjectPerOid, Range
<1>9. MadeInv'
  <2>1. \A p \in MadeTables : /\ p \in DOMAIN made
                              /\ \E i \in DOMAIN Table : Table[i].tabid = p
                              /\ made[p].typid \in Seq(Types) /\ Len(made[p].typid) > 0
    BY DEF DataInv, MadeInv, MadeTables
  <2>2. \A p \in MadeTables' : \E i \in DOMAIN Table' : Table'[i].tabid = p
    BY <1>3, <1>5, <2>1
  <2>3. \A p \in MadeTables' : made'[p].typid \in Seq(Types) /\ Len(made'[p].typid) > 0
    BY <1>5, <2>1 DEF TableAdded
  <2>4. \A p \in MadeIndexes' : \E i \in DOMAIN Index' : Index'[i].idxid = p
    BY <1>5 DEF DataInv, MadeInv, TableAdded
  <2> QED BY <2>2, <2>3, <2>4 DEF MadeInv
<1>10. ASSUME NEW i \in DOMAIN Table'
       PROVE  TableInv(i)'
  <2>1. CASE i \in DOMAIN Table
    <3> PICK p : p = Table[i].tabid
      OBVIOUS
    <3>1. p # o /\ Table'[i] = Table[i]
      BY <1>1, <1>2, <1>3, <2>1
    <3>2. {k \in DOMAIN Column' : Column'[k].coltabid = p}
            = {k \in DOMAIN Column : Column[k].coltabid = p}
      BY <1>4, <3>1
    <3>3. p \in MadeTables' <=> p \in MadeTables
      BY <1>5, <3>1
    <3>4. p \in MadeTables => made'[p] = made[p]
      BY <1>5 DEF MadeTables
    <3> QED BY <1>4, <2>1, <3>1, <3>2, <3>3, <3>4, TableInvKept
  <2>2. CASE i = nt + 1
    <3>1. {k \in DOMAIN Column' : Column'[k].coltabid = o} = nc + 1 .. nc + m
      <4>1. \A k \in DOMAIN Column : Column'[k].coltabid # o
        BY <1>1, <1>2, <1>4
      <4>2. \A k \in nc + 1 .. nc + m : k \in DOMAIN Column' /\ Column'[k].coltabid = o
        <5>1. \A k \in nc + 1 .. nc + m : k \in 1 .. nc + m /\ k \notin 1 .. nc
          BY <1>1
        <5> QED BY <1>1, <1>3, <1>4, <5>1
      <4> QED BY <1>4, <4>1, <4>2
    <3>2. ColBlock(o, nc, m)'
      <4>1. \A n \in 1 .. m : Column'[nc + n].colid = n - 1
        BY <1>4
      <4> QED BY <3>1, <4>1 DEF ColBlock
    <3>3. o \in MadeTables' <=> m = Table'[i].tabncols
      BY <1>3, <1>5, <2>2
    <3>4. m <= Table'[i].tabncols
      BY <1>1, <1>3, <2>2
    <3>5. o \in MadeTables' =>
            /\ Len(made'[o].typid) = m
            /\ \A n \in 1 .. m : Column'[nc + n].coltypid = made'[o].typid[n]
      BY <1>4, <1>5
    <3>6. \A p : Table'[i].tabid = p => p = o
      BY <1>3, <2>2
    <3> QED BY <1>1, <3>2, <3>3, <3>4, <3>5, <3>6 DEF TableInv
  <2> QED BY <1>3, <2>1, <2>2
<1>11. ASSUME NEW i \in DOMAIN Index'
       PROVE  IndexInv(i)'
  <2> PICK p : p = Index[i].idxid
    OBVIOUS
  <2>1. Index' = Index /\ IndexColumn' = IndexColumn
    BY DEF TableAdded
  <2>2. p \in MadeIndexes => made'[p] = made[p]
    BY <1>5 DEF MadeIndexes
  <2>3. \A q \in MadeTables : q \in MadeTables' /\ made'[q] = made[q]
    BY <1>5 DEF MadeTables
  <2> QED BY <1>5, <2>1, <2>2, <2>3, IndexInvKept
<1> QED BY <1>6, <1>7, <1>8, <1>9, <1>10, <1>11 DEF DataInv

LEMMA OidSpentKeeps ==
  ASSUME DataInv, OidSpent
  PROVE  DataInv'
<1>1. /\ m_next_oid \in Nat
      /\ \A i \in DOMAIN Table : Table[i].tabid \in Nat
      /\ \A i \in DOMAIN Column : Column[i].coltabid \in Nat
      /\ \A i \in DOMAIN Index : Index[i].idxid \in Nat
      /\ \A i \in DOMAIN IndexColumn : IndexColumn[i].idxcolidxid \in Nat
  BY RowFacts DEF DataInv
<1>2. FilesOK'
  BY <1>1, CatalogAssumption DEF DataInv, FilesOK, OidSpent
<1>3. Unused'
  BY <1>1 DEF DataInv, Unused, OidSpent
<1>4. OneObjectPerOid' /\ MadeInv'
  BY DEF DataInv, OneObjectPerOid, MadeInv, MadeTables, MadeIndexes, OidSpent, Range
<1>5. MadeTables' = MadeTables /\ MadeIndexes' = MadeIndexes
  BY DEF OidSpent, MadeTables, MadeIndexes
<1>6. ASSUME NEW i \in DOMAIN Table'
      PROVE  TableInv(i)'
  <2> PICK o : o = Table[i].tabid
    OBVIOUS
  <2> QED BY <1>5, TableInvKept DEF OidSpent
<1>7. ASSUME NEW i \in DOMAIN Index'
      PROVE  IndexInv(i)'
  <2> PICK o : o = Index[i].idxid
    OBVIOUS
  <2> QED BY <1>5, IndexInvKept DEF OidSpent
<1> QED BY <1>2, <1>3, <1>4, <1>6, <1>7 DEF DataInv

\* The key columns AddIndex() accepts are negative or columns of the table, and
\* it has found a type for each.
LEMMA KeysAccepted ==
  ASSUME NEW desc, NEW keys \in Seq(Int), NEW func \in OpFuncs, NEW junk,
         KeysOutcome(desc, keys, func, junk) = "ok", desc.typid \in Seq(Types)
  PROVE  \A n \in 1 .. Len(keys) :
           /\ KeyType(desc, keys[n], junk) \in Types
           /\ keys[n] >= 0 => /\ keys[n] + 1 \in DOMAIN desc.typid
                              /\ KeyType(desc, keys[n], junk) = desc.typid[keys[n] + 1]
<1> DEFINE bad == {n \in DOMAIN keys : KeyOutcome(desc, keys[n], func, junk) # "ok"}
<1>1. /\ Len(keys) \in Nat /\ DOMAIN keys = 1 .. Len(keys)
      /\ \A n \in 1 .. Len(keys) : keys[n] \in Int
      /\ Len(desc.typid) \in Nat /\ DOMAIN desc.typid = 1 .. Len(desc.typid)
      /\ \A n \in 1 .. Len(desc.typid) : desc.typid[n] \in Types
  BY LenProperties, ElementOfSeq
<1>2. bad = {}
  <2>1. SUFFICES ASSUME bad # {} PROVE FALSE
    OBVIOUS
  <2>2. \E n \in bad : \A k \in bad : n <= k
    <3>1. bad \subseteq Nat
      BY <1>1
    <3> HIDE DEF bad
    <3> QED BY <2>1, <3>1, Least
  <2>3. PICK n \in bad : n = CHOOSE j \in bad : \A k \in bad : j <= k
    BY <2>2
  <2>4. KeysOutcome(desc, keys, func, junk) = KeyOutcome(desc, keys[n], func, junk)
    BY <2>1, <2>3 DEF KeysOutcome
  <2> QED BY <2>3, <2>4
<1>3. ASSUME NEW k \in Int, KeyOutcome(desc, k, func, junk) = "ok"
      PROVE  /\ KeyType(desc, k, junk) \in Types
             /\ k >= 0 => /\ k + 1 \in DOMAIN desc.typid
                          /\ KeyType(desc, k, junk) = desc.typid[k + 1]
  <2>1. InBounds(desc, k)
    BY <1>3 DEF KeyOutcome
  <2>2. func \in {"default", "suitable", "unsuitable", "unknown"}
    BY CatalogAssumption DEF OpFuncKinds
  <2>3. KeyType(desc, k, junk) \in Types
    <3>1. PICK typ : typ = KeyType(desc, k, junk)
      OBVIOUS
    <3>2. typ \in Comparable \/ typ \in Types
      BY <1>3, <2>1, <2>2, <3>1 DEF KeyOutcome
    <3> QED BY <3>1, <3>2, CatalogAssumption
  <2>4. ASSUME k >= 0 PROVE k + 1 \in 1 .. Len(desc.typid)
    BY <1>1, <2>1, <2>4 DEF InBounds
  <2> QED BY <1>1, <2>3, <2>4 DEF KeyType
<1>4. ASSUME NEW n \in 1 .. Len(keys)
      PROVE  /\ KeyType(desc, keys[n], junk) \in Types
             /\ keys[n] >= 0 => /\ keys[n] + 1 \in DOMAIN desc.typid
                                /\ KeyType(desc, keys[n], junk) = desc.typid[keys[n] + 1]
  <2> PICK k \in Int : k = keys[n]
    BY <1>1
  <2>1. KeyOutcome(desc, k, func, junk) = "ok"
    BY <1>1, <1>2
  <2> QED BY <1>3, <2>1
<1> QED BY <1>4

\* What AddIndex() does after it has allocated its Oid: it adds the row in
\* Index and the first m of the rows in IndexColumn, with the types it found.
IndexAdded(name, tabid, keys, ktyp, m) ==
  LET o == m_next_oid
      all == m = Len(keys)
      types == made[tabid].typid
  IN /\ Index' \in Seq(IndexRows) /\ Len(Index') = Len(Index) + 1
     /\ Len(Index') <= FileLimit
     /\ \A i \in 1 .. Len(Index) : Index'[i] = Index[i]
     /\ Index'[Len(Index) + 1] =
          [idxid |-> o, idxtabid |-> tabid, idxname |-> name, idxncols |-> Len(keys)]
     /\ IndexColumn' \in Seq(IdxColRows) /\ Len(IndexColumn') = Len(IndexColumn) + m
     /\ Len(IndexColumn') <= FileLimit
     /\ \A i \in 1 .. Len(IndexColumn) : IndexColumn'[i] = IndexColumn[i]
     /\ \A n \in 1 .. m :
          IndexColumn'[Len(IndexColumn) + n] =
            [idxcolidxid |-> o, idxcolid |-> n - 1,
             idxcoltabcolid |-> keys[n], idxcoltypid |-> ktyp[n]]
     /\ m_next_oid <= MaxOid /\ m_next_oid' = m_next_oid + 1
     /\ Table' = Table /\ Column' = Column
     /\ tabid \in MadeTables
     /\ \A n \in 1 .. Len(keys) :
          keys[n] >= 0 => keys[n] + 1 \in DOMAIN types /\ ktyp[n] = types[keys[n] + 1]
     /\ made' = IF all THEN Extend(made, o, [name |-> name, on |-> tabid, keys |-> keys])
                       ELSE made

LEMMA AddIndexEffect ==
  ASSUME DataInv, DescsAsMade, DescsLaidOut,
         NEW name \in Names, NEW tabid \in Oids, NEW keys \in KeyLists,
         NEW func \in OpFuncs, NEW argsOK, NEW junk,
         AddIndexInserts(name, tabid, keys, func, argsOK, junk)
  PROVE  /\ \/ OidSpent
            \/ \E ktyp : \E m \in 0 .. Len(keys) : IndexAdded(name, tabid, keys, ktyp, m)
         /\ keys \in Seq(Int)
<1> DEFINE x == <<IndexRow(name, tabid, keys)>>
           c == IndexColumnRows(TableDescsAfter(tabid)[tabid], keys, junk)
           types == made[tabid].typid
           o == m_next_oid
<1>1. PICK desc : desc = TableDescsAfter(tabid)[tabid]
  OBVIOUS
<1>2. keys \in Seq(Int) /\ Len(keys) \in Nat /\ DOMAIN keys = 1 .. Len(keys)
      /\ \A n \in 1 .. Len(keys) : keys[n] \in Int
  BY CatalogAssumption, LenProperties, ElementOfSeq
<1>3. /\ TableDescOutcome(tabid) = "ok"
      /\ KeysOutcome(TableDescsAfter(tabid)[tabid], keys, func, junk) = "ok"
      /\ AllocateOid # InvalidOid
  <2>1. TableDescOutcome(tabid) \in {"ok", "none", "fatal", "error"}
    BY OutcomeMade
  <2>2. AddIndexOutcome(tabid, keys, func, argsOK, junk) = "ok"
    BY DEF AddIndexInserts
  <2> QED BY <2>1, <2>2 DEF AddIndexOutcome
<1>4. tabid \in MadeTables /\ desc.typid = types /\ types \in Seq(Types)
  BY <1>1, <1>3, OutcomeMade DEF DataInv, MadeInv
<1>5. KeysOutcome(desc, keys, func, junk) = "ok"
  BY <1>1, <1>3
<1> PICK ktyp : ktyp = [n \in 1 .. Len(keys) |-> KeyType(desc, keys[n], junk)]
  OBVIOUS
<1>6. \A n \in 1 .. Len(keys) :
        /\ ktyp[n] \in Types
        /\ keys[n] >= 0 => keys[n] + 1 \in DOMAIN types /\ ktyp[n] = types[keys[n] + 1]
  <2>1. desc.typid \in Seq(Types)
    BY <1>4
  <2>2. \A n \in 1 .. Len(keys) :
           /\ KeyType(desc, keys[n], junk) \in Types
           /\ keys[n] >= 0 => /\ keys[n] + 1 \in DOMAIN desc.typid
                              /\ KeyType(desc, keys[n], junk) = desc.typid[keys[n] + 1]
    BY <1>2, <1>5, <2>1, KeysAccepted
  <2> QED BY <1>4, <2>2
<1>7. /\ o \in Nat /\ o <= MaxOid /\ o \in Oids /\ AllocateOid = o
  BY <1>3, CatalogAssumption DEF AllocateOid, DataInv, FilesOK, Oids, InvalidOid
<1>8. x \in Seq(IndexRows) /\ Len(x) = 1
      /\ x[1] = [idxid |-> o, idxtabid |-> tabid, idxname |-> name, idxncols |-> Len(keys)]
  BY <1>2, <1>7 DEF IndexRow, IndexRows
<1>9. /\ c \in Seq(IdxColRows) /\ Len(c) = Len(keys)
      /\ \A n \in 1 .. Len(keys) :
           c[n] = [idxcolidxid |-> o, idxcolid |-> n - 1,
                   idxcoltabcolid |-> keys[n], idxcoltypid |-> ktyp[n]]
  <2>1. c = [n \in 1 .. Len(keys) |->
               [idxcolidxid |-> o, idxcolid |-> n - 1,
                idxcoltabcolid |-> keys[n], idxcoltypid |-> ktyp[n]]]
    BY <1>1, <1>2, <1>7 DEF IndexColumnRows, KeyType
  <2>2. c \in [1 .. Len(keys) -> IdxColRows]
    BY <1>2, <1>6, <1>7, <2>1 DEF IdxColRows
  <2>3. c \in Seq(IdxColRows) /\ Len(c) = Len(keys)
    <3>1. ASSUME NEW S, NEW k \in Nat, NEW f \in [1 .. k -> S]
          PROVE  f \in Seq(S) /\ Len(f) = k
      OBVIOUS
    <3> HIDE DEF c
    <3> QED BY <1>2, <2>2, <3>1
  <2> HIDE DEF c
  <2> QED BY <2>1, <2>3
<1> HIDE DEF x, c
<1>10. /\ Table' = Table /\ Column' = Column
       /\ m_next_oid' = m_next_oid + 1
       /\ Index' = Inserted(Index, x, Bad(name))
       /\ \/ /\ Complete(Index, x, Bad(name)) /\ Complete(IndexColumn, c, 0)
             /\ IndexColumn' = IndexColumn \o c
             /\ made' = Extend(made, o, [name |-> name, on |-> tabid, keys |-> keys])
          \/ /\ Complete(Index, x, Bad(name)) /\ ~Complete(IndexColumn, c, 0)
             /\ IndexColumn' = Inserted(IndexColumn, c, 0)
             /\ made' = made
          \/ /\ ~Complete(Index, x, Bad(name))
             /\ IndexColumn' = IndexColumn /\ made' = made
  BY <1>7 DEF AddIndexInserts, Spent, x, c
<1>11. PICK mx \in Nat :
        /\ mx <= 1 /\ Len(Index) + mx <= FileLimit
        /\ Complete(Index, x, Bad(name)) <=> mx = 1
        /\ Index' \in Seq(IndexRows) /\ Grown(Index, Index', x, mx)
  <2>1. Index \in Seq(IndexRows) /\ Len(Index) <= FileLimit
    BY DEF DataInv, FilesOK
  <2> QED BY <1>8, <1>10, <2>1, InsertGrown
<1>12. PICK mc \in Nat :
        /\ mc <= Len(keys) /\ Len(IndexColumn) + mc <= FileLimit
        /\ Complete(IndexColumn, c, 0) <=> mc = Len(keys)
        /\ Inserted(IndexColumn, c, 0) \in Seq(IdxColRows)
        /\ Grown(IndexColumn, Inserted(IndexColumn, c, 0), c, mc)
  <2>1. IndexColumn \in Seq(IdxColRows) /\ Len(IndexColumn) <= FileLimit
    BY DEF DataInv, FilesOK
  <2> QED BY <1>9, <2>1, InsertGrown
<1>13. CASE mx = 0
  <2>1. Index' = Index
    BY <1>11, <1>13, SeqEqual DEF DataInv, FilesOK, Grown
  <2>2. OidSpent
    BY <1>7, <1>10, <1>11, <1>13, <2>1 DEF OidSpent
  <2> QED BY <1>2, <2>2
<1>14. ASSUME mx = 1, IndexColumn' \in Seq(IdxColRows),
              Grown(IndexColumn, IndexColumn', c, mc),
              made' = IF mc = Len(keys)
                       THEN Extend(made, o, [name |-> name, on |-> tabid, keys |-> keys])
                       ELSE made
       PROVE  \E m \in 0 .. Len(keys) : IndexAdded(name, tabid, keys, ktyp, m)
  <2>1. mc <= Len(keys) /\ Len(IndexColumn) + mc <= FileLimit
    BY <1>12, Zenon
  <2>2. mc \in 0 .. Len(keys)
    BY <1>2, <2>1
  <2>3. /\ Len(Index') = Len(Index) + 1 /\ Len(Index') <= FileLimit
        /\ \A i \in 1 .. Len(Index) : Index'[i] = Index[i]
        /\ Index'[Len(Index) + 1] =
             [idxid |-> o, idxtabid |-> tabid, idxname |-> name, idxncols |-> Len(keys)]
    BY <1>8, <1>11, <1>14 DEF Grown
  <2>4. /\ Len(IndexColumn') = Len(IndexColumn) + mc /\ Len(IndexColumn') <= FileLimit
        /\ \A i \in 1 .. Len(IndexColumn) : IndexColumn'[i] = IndexColumn[i]
        /\ \A n \in 1 .. mc :
             IndexColumn'[Len(IndexColumn) + n] =
               [idxcolidxid |-> o, idxcolid |-> n - 1,
                idxcoltabcolid |-> keys[n], idxcoltypid |-> ktyp[n]]
    <3>1. \A n \in 1 .. mc : n \in 1 .. Len(keys)
      BY <1>2, <2>1
    <3> QED BY <1>9, <1>14, <2>1, <3>1 DEF Grown
  <2>5. IndexAdded(name, tabid, keys, ktyp, mc)
    BY <1>4, <1>6, <1>7, <1>10, <1>11, <1>14, <2>3, <2>4 DEF IndexAdded
  <2> QED BY <2>2, <2>5
<1>15. CASE mx = 1 /\ mc = Len(keys)
  <2>1. IndexColumn' \in Seq(IdxColRows) /\ Grown(IndexColumn, IndexColumn', c, mc)
    <3>1. SubSeq(c, 1, Len(c)) = c
      BY <1>9
    <3>2. IndexColumn' = IndexColumn \o SubSeq(c, 1, mc)
      BY <1>9, <1>10, <1>11, <1>12, <1>15, <3>1
    <3> QED BY <1>9, <1>12, <3>2, ConcatGrown DEF DataInv, FilesOK
  <2>2. made' = Extend(made, o, [name |-> name, on |-> tabid, keys |-> keys])
    BY <1>10, <1>11, <1>12, <1>15
  <2> QED BY <1>2, <1>14, <1>15, <2>1, <2>2
<1>16. CASE mx = 1 /\ mc # Len(keys)
  <2>1. IndexColumn' = Inserted(IndexColumn, c, 0) /\ made' = made
    BY <1>10, <1>11, <1>12, <1>16
  <2> QED BY <1>2, <1>12, <1>14, <1>16, <2>1
<1> QED BY <1>11, <1>13, <1>15, <1>16

LEMMA IndexAddedKeeps ==
  ASSUME DataInv, NEW name, NEW tabid, NEW keys \in Seq(Int), NEW ktyp,
         NEW m \in 0 .. Len(keys), IndexAdded(name, tabid, keys, ktyp, m)
  PROVE  DataInv'
<1> PICK o : o = m_next_oid
  OBVIOUS
<1> PICK nx : nx = Len(Index)
  OBVIOUS
<1> PICK nc : nc = Len(IndexColumn)
  OBVIOUS
<1> PICK types : types = made[tabid].typid
  OBVIOUS
<1>1. /\ o \in Nat /\ FirstOid <= o /\ o <= MaxOid /\ nx \in Nat /\ nc \in Nat
      /\ DOMAIN Index = 1 .. nx /\ DOMAIN IndexColumn = 1 .. nc
      /\ Len(keys) \in Nat /\ m \in Nat /\ m <= Len(keys)
  BY RowFacts, LenProperties DEF DataInv, IndexAdded
<1>2. /\ \A i \in DOMAIN Table : Table[i].tabid \in Nat /\ Table[i].tabid < o
      /\ \A i \in DOMAIN Column : Column[i].coltabid \in Nat /\ Column[i].coltabid < o
      /\ \A i \in DOMAIN Index : Index[i].idxid \in Nat /\ Index[i].idxid < o
      /\ \A i \in DOMAIN IndexColumn :
           IndexColumn[i].idxcolidxid \in Nat /\ IndexColumn[i].idxcolidxid < o
      /\ \A p \in DOMAIN made : p \in Nat /\ p < o
  BY RowFacts DEF DataInv, Unused
<1>3. /\ DOMAIN Index' = 1 .. nx + 1 /\ DOMAIN IndexColumn' = 1 .. nc + m
      /\ \A i \in DOMAIN Index : i \in DOMAIN Index' /\ Index'[i] = Index[i]
      /\ \A i \in DOMAIN Index' : i \in DOMAIN Index \/ i = nx + 1
      /\ nx + 1 \in DOMAIN Index' /\ Index'[nx + 1].idxid = o
      /\ Index'[nx + 1].idxtabid = tabid /\ Index'[nx + 1].idxncols = Len(keys)
  <2>1. /\ DOMAIN Index' = 1 .. nx + 1 /\ DOMAIN IndexColumn' = 1 .. nc + m
    BY <1>1, LenProperties DEF IndexAdded
  <2>2. \A i \in 1 .. nx : i \in 1 .. nx + 1 /\ Index'[i] = Index[i]
    BY <1>1 DEF IndexAdded
  <2>3. Index'[nx + 1] =
          [idxid |-> o, idxtabid |-> tabid, idxname |-> name, idxncols |-> Len(keys)]
    BY DEF IndexAdded
  <2>4. nx + 1 \in 1 .. nx + 1 /\ \A i \in 1 .. nx + 1 : i \in 1 .. nx \/ i = nx + 1
    BY <1>1
  <2> QED BY <1>1, <2>1, <2>2, <2>3, <2>4
<1>4. /\ \A k \in DOMAIN IndexColumn : /\ k \in DOMAIN IndexColumn'
                                       /\ IndexColumn'[k] = IndexColumn[k]
      /\ \A n \in 1 .. m : /\ IndexColumn'[nc + n].idxcolidxid = o
                           /\ IndexColumn'[nc + n].idxcolid = n - 1
                           /\ IndexColumn'[nc + n].idxcoltabcolid = keys[n]
                           /\ IndexColumn'[nc + n].idxcoltypid = ktyp[n]
      /\ \A k \in DOMAIN IndexColumn' :
           k \in DOMAIN IndexColumn \/ (k \in nc + 1 .. nc + m
                                        /\ IndexColumn'[k].idxcolidxid = o)
  <2>1. ASSUME NEW n \in 1 .. m
        PROVE  /\ IndexColumn'[nc + n].idxcolidxid = o
               /\ IndexColumn'[nc + n].idxcolid = n - 1
               /\ IndexColumn'[nc + n].idxcoltabcolid = keys[n]
               /\ IndexColumn'[nc + n].idxcoltypid = ktyp[n]
    <3>1. IndexColumn'[nc + n] =
            [idxcolidxid |-> o, idxcolid |-> n - 1,
             idxcoltabcolid |-> keys[n], idxcoltypid |-> ktyp[n]]
      BY DEF IndexAdded
    <3> QED BY <3>1
  <2>2. ASSUME NEW k \in nc + 1 .. nc + m
        PROVE  IndexColumn'[k].idxcolidxid = o
    <3>1. k - nc \in 1 .. m /\ nc + (k - nc) = k
      BY <1>1
    <3>2. IndexColumn'[nc + (k - nc)].idxcolidxid = o
      BY <2>1, <3>1
    <3> QED BY <3>1, <3>2
  <2>3. \A k \in 1 .. nc + m : k \in 1 .. nc \/ k \in nc + 1 .. nc + m
    BY <1>1
  <2>4. \A k \in 1 .. nc : k \in 1 .. nc + m /\ IndexColumn'[k] = IndexColumn[k]
    BY <1>1 DEF IndexAdded
  <2> QED BY <1>1, <1>3, <2>1, <2>2, <2>3, <2>4
<1>5. /\ o \notin DOMAIN made /\ Table' = Table /\ Column' = Column
      /\ MadeTables' = MadeTables /\ tabid \in MadeTables
      /\ DOMAIN made' \subseteq DOMAIN made \union {o}
      /\ \A p \in DOMAIN made : made'[p] = made[p]
      /\ MadeIndexes' = IF m = Len(keys) THEN MadeIndexes \union {o} ELSE MadeIndexes
      /\ m = Len(keys) => made'[o].on = tabid /\ made'[o].keys = keys
      /\ \A n \in 1 .. Len(keys) :
           keys[n] >= 0 => keys[n] + 1 \in DOMAIN types /\ ktyp[n] = types[keys[n] + 1]
  <2>1. o \notin DOMAIN made
    BY <1>1, <1>2
  <2>2. /\ Table' = Table /\ Column' = Column /\ tabid \in MadeTables
        /\ \A n \in 1 .. Len(keys) :
             keys[n] >= 0 => keys[n] + 1 \in DOMAIN types /\ ktyp[n] = types[keys[n] + 1]
    BY DEF IndexAdded
  <2>3. CASE m = Len(keys)
    <3>1. made' = Extend(made, o, [name |-> name, on |-> tabid, keys |-> keys])
      BY <2>3 DEF IndexAdded
    <3> QED BY <2>1, <2>2, <2>3, <3>1, MadeIndex, ZenonT(30)
  <2>4. CASE m # Len(keys)
    <3>1. made' = made
      BY <2>4 DEF IndexAdded
    <3> QED BY <2>1, <2>2, <2>4, <3>1 DEF MadeTables, MadeIndexes
  <2> QED BY <2>3, <2>4
<1>6. FilesOK'
  BY <1>1, CatalogAssumption DEF DataInv, FilesOK, IndexAdded
<1>7. Unused'
  <2>1. m_next_oid' = o + 1
    BY DEF IndexAdded
  <2>2. ASSUME NEW i \in DOMAIN Index' PROVE Index'[i].idxid < o + 1
    <3>1. Index'[i].idxid = o \/ (Index'[i].idxid \in Nat /\ Index'[i].idxid < o)
      BY <1>2, <1>3
    <3> QED BY <1>1, <3>1
  <2>3. ASSUME NEW k \in DOMAIN IndexColumn' PROVE IndexColumn'[k].idxcolidxid < o + 1
    <3>1. \/ IndexColumn'[k].idxcolidxid = o
          \/ IndexColumn'[k].idxcolidxid \in Nat /\ IndexColumn'[k].idxcolidxid < o
      BY <1>2, <1>4
    <3> QED BY <1>1, <3>1
  <2>4. /\ \A i \in DOMAIN Table : Table[i].tabid < o + 1
        /\ \A i \in DOMAIN Column : Column[i].coltabid < o + 1
    BY <1>1, <1>2
  <2>5. \A p \in DOMAIN made' : p \in Nat /\ p < o + 1
    BY <1>1, <1>2, <1>5
  <2> QED BY <1>5, <2>1, <2>2, <2>3, <2>4, <2>5 DEF Unused
<1>8. OneObjectPerOid'
  <2>1. /\ \A i \in DOMAIN Table : Table[i].tabid # o
        /\ \A i \in DOMAIN Index : Index[i].idxid # o
    BY <1>1, <1>2
  <2>2. \A i, j \in DOMAIN Index' : Index'[i].idxid = Index'[j].idxid => i = j
    BY <1>3, <2>1 DEF DataInv, OneObjectPerOid
  <2>3. \A i \in DOMAIN Table, j \in DOMAIN Index : Table[i].tabid # Index[j].idxid
    BY DEF DataInv, OneObjectPerOid, Range
  <2>4. \A i \in DOMAIN Table, j \in DOMAIN Index' : Table[i].tabid # Index'[j].idxid
    BY <1>3, <2>1, <2>3
  <2> QED BY <1>5, <2>2, <2>4 DEF DataInv, OneObjectPerOid, Range
<1>9. \A p \in MadeTables : p \in MadeTables' /\ made'[p] = made[p]
  BY <1>5 DEF MadeTables
<1>10. MadeInv'
  <2>1. \A p \in MadeTables' : \E i \in DOMAIN Table' : Table'[i].tabid = p
    BY <1>5 DEF DataInv, MadeInv
  <2>2. \A p \in MadeTables' : made'[p].typid \in Seq(Types) /\ Len(made'[p].typid) > 0
    BY <1>5, <1>9 DEF DataInv, MadeInv
  <2>3. \A p \in MadeIndexes : \E i \in DOMAIN Index : Index[i].idxid = p
    BY DEF DataInv, MadeInv
  <2>4. \A p \in MadeIndexes' : \E i \in DOMAIN Index' : Index'[i].idxid = p
    BY <1>3, <1>5, <2>3
  <2> QED BY <2>1, <2>2, <2>4 DEF MadeInv
<1>11. ASSUME NEW i \in DOMAIN Table'
       PROVE  TableInv(i)'
  <2> PICK p : p = Table[i].tabid
    OBVIOUS
  <2> QED BY <1>5, <1>9, TableInvKept
<1>12. ASSUME NEW i \in DOMAIN Index'
       PROVE  IndexInv(i)'
  <2>1. CASE i \in DOMAIN Index
    <3> PICK p : p = Index[i].idxid
      OBVIOUS
    <3>1. p # o /\ Index'[i] = Index[i]
      BY <1>1, <1>2, <1>3, <2>1
    <3>2. {k \in DOMAIN IndexColumn' : IndexColumn'[k].idxcolidxid = p}
            = {k \in DOMAIN IndexColumn : IndexColumn[k].idxcolidxid = p}
      BY <1>4, <3>1
    <3>3. p \in MadeIndexes' <=> p \in MadeIndexes
      BY <1>5, <3>1
    <3>4. p \in MadeIndexes => made'[p] = made[p]
      BY <1>5 DEF MadeIndexes
    <3> QED BY <1>4, <1>9, <2>1, <3>1, <3>2, <3>3, <3>4, IndexInvKept
  <2>2. CASE i = nx + 1
    <3>1. {k \in DOMAIN IndexColumn' : IndexColumn'[k].idxcolidxid = o} = nc + 1 .. nc + m
      <4>1. \A k \in DOMAIN IndexColumn : IndexColumn'[k].idxcolidxid # o
        BY <1>1, <1>2, <1>4
      <4>2. \A k \in nc + 1 .. nc + m :
              k \in DOMAIN IndexColumn' /\ IndexColumn'[k].idxcolidxid = o
        <5>1. \A k \in nc + 1 .. nc + m : k \in 1 .. nc + m /\ k \notin 1 .. nc
          BY <1>1
        <5> QED BY <1>1, <1>3, <1>4, <5>1
      <4> QED BY <1>4, <4>1, <4>2
    <3>2. IdxBlock(o, nc, m)'
      BY <1>4, <3>1 DEF IdxBlock
    <3>3. o \in MadeIndexes' <=> m = Index'[i].idxncols
      <4>1. o \notin MadeIndexes
        BY <1>5 DEF MadeIndexes
      <4> QED BY <1>3, <1>5, <2>2, <4>1
    <3>4. m <= Index'[i].idxncols
      BY <1>1, <1>3, <2>2
    <3>5. ASSUME m = Len(keys)
          PROVE  KeyCols(i, o, nc, m)'
      <4>1. made'[o].on = tabid /\ made'[o].keys = keys /\ Index'[i].idxtabid = tabid
        BY <1>3, <1>5, <2>2, <3>5
      <4>2. tabid \in MadeTables' /\ made'[tabid].typid = types
        BY <1>5, <1>9
      <4>3. \A n \in 1 .. m :
              /\ IndexColumn'[nc + n].idxcoltabcolid = keys[n]
              /\ keys[n] >= 0 =>
                   /\ keys[n] + 1 \in DOMAIN made'[tabid].typid
                   /\ IndexColumn'[nc + n].idxcoltypid = made'[tabid].typid[keys[n] + 1]
        BY <1>4, <1>5, <3>5, <4>2
      <4> QED BY <3>5, <4>1, <4>2, <4>3 DEF KeyCols
    <3>6. o \in MadeIndexes' => KeyCols(i, o, nc, m)'
      BY <1>3, <2>2, <3>3, <3>5
    <3>7. \A p : Index'[i].idxid = p => p = o
      BY <1>3, <2>2
    <3> QED BY <1>1, <3>2, <3>3, <3>4, <3>6, <3>7 DEF IndexInv
  <2> QED BY <1>3, <2>1, <2>2
<1> QED BY <1>6, <1>7, <1>8, <1>10, <1>11, <1>12 DEF DataInv

-----------------------------------------------------------------------------
(***************************************************************************)
(* The descriptor of an index.                                             *)
(***************************************************************************)
\* Sorting the rows of an index leaves them in the order of the key columns.
LEMMA SortedBlock ==
  ASSUME NEW o, NEW b \in Nat, NEW len \in Nat, IdxBlock(o, b, len), NEW n \in 1 .. len
  PROVE  Sorted(b + 1 .. b + len, n) = b + n
<1> DEFINE cols == b + 1 .. b + len
           before(i) == {j \in cols : IndexColumn[j].idxcolid < IndexColumn[i].idxcolid}
<1>1. ASSUME NEW i \in cols
      PROVE  IndexColumn[i].idxcolid = i - b - 1
  <2>1. i - b \in 1 .. len /\ b + (i - b) = i
    OBVIOUS
  <2>2. IndexColumn[b + (i - b)].idxcolid = (i - b) - 1
    BY <2>1 DEF IdxBlock
  <2> QED BY <2>1, <2>2
<1>2. ASSUME NEW i \in cols
      PROVE  Cardinality(before(i)) = i - b - 1
  <2>1. before(i) = b + 1 .. i - 1
    BY <1>1
  <2>2. Cardinality(b + 1 .. i - 1) = i - b - 1
    BY FS_Interval
  <2> QED BY <2>1, <2>2
<1>3. \A i \in cols : Cardinality(before(i)) = n - 1 <=> i = b + n
  BY <1>2
<1>4. b + n \in cols
  OBVIOUS
<1>5. Sorted(cols, n) = CHOOSE i \in cols : Cardinality(before(i)) = n - 1
  BY DEF Sorted
<1> HIDE DEF before, cols
<1>6. Sorted(cols, n) = b + n
  BY <1>3, <1>4, <1>5
<1> QED BY <1>6 DEF cols

\* FindIndexDesc() passes its check of the count exactly for the indexes whose
\* AddIndex() call has returned, and the descriptor it makes matches the call.
LEMMA DescOfIndex ==
  ASSUME DataInv, NEW i \in DOMAIN Index, NEW o, o = Index[i].idxid
  PROVE  /\ IndexCountMatches(Index[i]) <=> o \in MadeIndexes
         /\ o \in MadeIndexes => MatchesTable(o, NewIndexDesc(Index[i]))
<1>1. PICK b \in Nat, len \in Nat :
        /\ IdxBlock(o, b, len)
        /\ len <= Index[i].idxncols
        /\ o \in MadeIndexes <=> len = Index[i].idxncols
        /\ o \in MadeIndexes => KeyCols(i, o, b, len)
  <2>1. IndexInv(i)
    BY DEF DataInv
  <2> QED BY <2>1, ZenonT(30) DEF IndexInv
<1> PICK x : x = Index[i]
  OBVIOUS
<1> DEFINE cols == b + 1 .. b + len
<1>2. x.idxncols \in Nat
  BY RowFacts DEF DataInv
<1>3. IndexColumnsOf(x) = cols /\ Cardinality(cols) = len
  <2>1. /\ x.idxid = o /\ len <= x.idxncols
        /\ {k \in DOMAIN IndexColumn : IndexColumn[k].idxcolidxid = o} = cols
    BY <1>1 DEF IdxBlock
  <2>2. Search(cols, x.idxncols) = cols /\ Cardinality(cols) = len
    BY <1>2, <2>1, BlockFound
  <2>3. IndexColumnsOf(x)
          = Search({k \in DOMAIN IndexColumn : IndexColumn[k].idxcolidxid = x.idxid}, x.idxncols)
    BY DEF IndexColumnsOf
  <2> HIDE DEF cols
  <2>4. IndexColumnsOf(x) = Search(cols, x.idxncols)
    BY <2>1, <2>3
  <2> QED BY <2>2, <2>4
<1>4. ASSUME NEW n \in 1 .. len
      PROVE  Sorted(cols, n) = b + n
  BY <1>1, SortedBlock
<1> HIDE DEF cols
<1>5. IndexCountMatches(Index[i]) <=> o \in MadeIndexes
  <2>1. IndexCountMatches(x) <=> len = x.idxncols
    BY <1>3 DEF IndexCountMatches
  <2> QED BY <1>1, <2>1 DEF IndexCountMatches, IndexColumnsOf
<1>6. ASSUME o \in MadeIndexes
      PROVE  MatchesTable(o, NewIndexDesc(Index[i]))
  <2> PICK on : on = made[o].on
    OBVIOUS
  <2> PICK keys : keys = made[o].keys
    OBVIOUS
  <2>1. /\ x.idxtabid = on /\ keys \in Seq(Int) /\ Len(keys) = len /\ on \in MadeTables
        /\ \A n \in 1 .. len :
             /\ IndexColumn[b + n].idxcoltabcolid = keys[n]
             /\ keys[n] >= 0 => /\ keys[n] + 1 \in DOMAIN made[on].typid
                                /\ IndexColumn[b + n].idxcoltypid = made[on].typid[keys[n] + 1]
    BY <1>1, <1>6 DEF KeyCols
  <2> PICK d : d = NewIndexDesc(x)
    OBVIOUS
  <2>2. /\ d.on = on
        /\ d.keys = [n \in 1 .. len |-> IndexColumn[Sorted(cols, n)].idxcoltabcolid]
        /\ d.typid = [n \in 1 .. len |-> IndexColumn[Sorted(cols, n)].idxcoltypid]
    BY <1>3, <2>1 DEF NewIndexDesc
  <2>3. \A n \in 1 .. len : /\ IndexColumn[Sorted(cols, n)].idxcoltabcolid = keys[n]
                            /\ IndexColumn[Sorted(cols, n)].idxcoltypid
                                 = IndexColumn[b + n].idxcoltypid
    BY <1>4, <2>1
  <2>4. d.keys = [n \in 1 .. len |-> keys[n]]
    BY <2>2, <2>3
  <2>5. keys = [n \in 1 .. len |-> keys[n]] /\ DOMAIN keys = 1 .. len
    BY <2>1, LenProperties
  <2>6. d.keys = keys
    BY <2>4, <2>5
  <2>7. \A n \in 1 .. len : d.typid[n] = IndexColumn[b + n].idxcoltypid
    BY <2>2, <2>3
  <2>8. \A n \in 1 .. len : keys[n] >= 0 => /\ keys[n] + 1 \in DOMAIN made[on].typid
                                           /\ d.typid[n] = made[on].typid[keys[n] + 1]
    BY <2>1, <2>7
  <2>9. MatchesTable(o, d)
    <3>1. \A n \in DOMAIN d.keys : d.keys[n] >= 0 =>
            /\ d.keys[n] + 1 \in DOMAIN made[d.on].typid
            /\ d.typid[n] = made[d.on].typid[d.keys[n] + 1]
      BY <2>2, <2>5, <2>6, <2>8
    <3>2. d.keys = made[o].keys /\ d.on = made[o].on /\ d.on \in MadeTables
      BY <2>1, <2>2, <2>6
    <3> QED BY <3>1, <3>2, Zenon DEF MatchesTable
  <2>10. NewIndexDesc(Index[i]) = d
    BY DEF NewIndexDesc, IndexColumnsOf
  <2> QED BY <2>9, <2>10
<1> QED BY <1>5, <1>6

LEMMA IndexesMatch == DataInv => IndexesMatchTables
<1> SUFFICES ASSUME DataInv, NEW o \in MadeIndexes
             PROVE  MatchesTable(o, NewIndexDesc(Index[FindIndex(o)]))
  BY DEF IndexesMatchTables
<1>1. \E k \in DOMAIN Index : Index[k].idxid = o
  BY DEF DataInv, MadeInv
<1>2. PICK i : i = FindIndex(o)
  OBVIOUS
<1>3. i \in DOMAIN Index /\ Index[i].idxid = o
  BY <1>1, <1>2, IndexFound
<1>4. MatchesTable(o, NewIndexDesc(Index[i]))
  BY <1>3, DescOfIndex
<1>5. NewIndexDesc(Index[FindIndex(o)]) = NewIndexDesc(Index[i])
  BY <1>2 DEF NewIndexDesc, IndexColumnsOf
<1> QED BY <1>4, <1>5

-----------------------------------------------------------------------------
(***************************************************************************)
(* The invariant.                                                          *)
(***************************************************************************)
\* A step leaves the rows of Table and Index and the returned tables and
\* indexes as they are, and at most adds to them.
FilesGrow ==
  /\ \A i \in DOMAIN Table : i \in DOMAIN Table' /\ Table'[i] = Table[i]
  /\ \A i \in DOMAIN Index : i \in DOMAIN Index' /\ Index'[i] = Index[i]
  /\ \A o \in MadeTables : o \in MadeTables' /\ made'[o] = made[o]
  /\ \A o \in MadeIndexes : o \in MadeIndexes' /\ made'[o] = made[o]

\* Rows that were found, or whose table was found, are added to the caches.
CachesFilled ==
  /\ m_recid_lookup_table' \subseteq
       ({"Table"} \X DOMAIN Table) \union ({"Index"} \X DOMAIN Index)
  /\ \A o \in DOMAIN m_table_desc' :
       /\ o \in MadeTables /\ m_table_desc'[o].typid = made[o].typid
       /\ Layout(m_table_desc'[o].typid) # "throws"
  /\ \A o \in DOMAIN m_index_desc' :
       o \in MadeIndexes /\ MatchesTable(o, m_index_desc'[o])

LEMMA RowsUnchanged ==
  ASSUME DataInv, UNCHANGED <<rows, m_next_oid, made>>
  PROVE  DataInv' /\ FilesGrow
<1>1. /\ Table' = Table /\ Column' = Column /\ Index' = Index
      /\ IndexColumn' = IndexColumn /\ m_next_oid' = m_next_oid /\ made' = made
  BY DEF rows
<1>2. MadeTables' = MadeTables /\ MadeIndexes' = MadeIndexes
  BY <1>1 DEF MadeTables, MadeIndexes
<1>3. FilesOK' /\ Unused'
  BY <1>1 DEF DataInv, FilesOK, Unused
<1>4. OneObjectPerOid'
  BY <1>1 DEF DataInv, OneObjectPerOid
<1>5. MadeInv'
  BY <1>1, <1>2 DEF DataInv, MadeInv
<1>6. ASSUME NEW i \in DOMAIN Table'
      PROVE  TableInv(i)'
  <2> PICK p : p = Table[i].tabid
    OBVIOUS
  <2> QED BY <1>1, <1>2, TableInvKept
<1>7. ASSUME NEW i \in DOMAIN Index'
      PROVE  IndexInv(i)'
  <2> PICK p : p = Index[i].idxid
    OBVIOUS
  <2> QED BY <1>1, <1>2, IndexInvKept
<1> QED BY <1>1, <1>2, <1>3, <1>4, <1>5, <1>6, <1>7 DEF DataInv, FilesGrow

LEMMA OidSpentGrows ==
  ASSUME OidSpent
  PROVE  FilesGrow
BY DEF OidSpent, FilesGrow, MadeTables, MadeIndexes

LEMMA AddTableKeeps ==
  ASSUME DataInv, NEW name \in Names, NEW coltypid \in ColumnLists, NEW long, NEW argsOK,
         AddTableInserts(name, coltypid, long, argsOK)
  PROVE  DataInv' /\ FilesGrow
<1>1. /\ OidSpent \/ \E m \in 0 .. Len(coltypid) : TableAdded(name, coltypid, m)
      /\ coltypid \in Seq(Types)
  BY AddTableEffect DEF DataInv
<1>2. CASE OidSpent
  BY <1>2, OidSpentKeeps, OidSpentGrows
<1>3. ASSUME NEW m \in 0 .. Len(coltypid), TableAdded(name, coltypid, m)
      PROVE  DataInv' /\ FilesGrow
  <2>1. DataInv'
    BY <1>1, <1>3, TableAddedKeeps
  <2>2. /\ DOMAIN Table = 1 .. Len(Table) /\ Len(Table) \in Nat
        /\ DOMAIN Table' = 1 .. Len(Table')
    BY <1>3, RowFacts, LenProperties DEF DataInv, TableAdded
  <2>3. \A i \in DOMAIN Table : i \in DOMAIN Table' /\ Table'[i] = Table[i]
    BY <1>3, <2>2 DEF TableAdded
  <2>4. /\ \A p \in MadeTables : p \in MadeTables' /\ made'[p] = made[p]
        /\ \A p \in MadeIndexes : p \in MadeIndexes' /\ made'[p] = made[p]
    <3> PICK o : o = m_next_oid
      OBVIOUS
    <3>1. o \notin DOMAIN made
      BY RowFacts DEF DataInv, Unused
    <3>2. CASE m = Len(coltypid)
      <4>1. made' = Extend(made, o, [name |-> name, typid |-> coltypid])
        BY <1>3, <3>2 DEF TableAdded
      <4>2. /\ \A p \in DOMAIN made : made'[p] = made[p]
            /\ MadeTables' = MadeTables \union {o} /\ MadeIndexes' = MadeIndexes
        BY <3>1, <4>1, MadeTable
      <4> QED BY <4>2 DEF MadeTables, MadeIndexes
    <3>3. CASE m # Len(coltypid)
      BY <1>3, <3>3 DEF TableAdded, MadeTables, MadeIndexes
    <3> QED BY <3>2, <3>3
  <2> QED BY <1>3, <2>1, <2>3, <2>4 DEF TableAdded, FilesGrow
<1> QED BY <1>1, <1>2, <1>3

LEMMA AddIndexKeeps ==
  ASSUME DataInv, DescsAsMade, DescsLaidOut,
         NEW name \in Names, NEW tabid \in Oids, NEW keys \in KeyLists,
         NEW func \in OpFuncs, NEW argsOK, NEW junk,
         AddIndexInserts(name, tabid, keys, func, argsOK, junk)
  PROVE  DataInv' /\ FilesGrow
<1>1. /\ \/ OidSpent
         \/ \E ktyp : \E m \in 0 .. Len(keys) : IndexAdded(name, tabid, keys, ktyp, m)
      /\ keys \in Seq(Int)
  BY AddIndexEffect
<1>2. CASE OidSpent
  BY <1>2, OidSpentKeeps, OidSpentGrows
<1>3. ASSUME NEW ktyp, NEW m \in 0 .. Len(keys), IndexAdded(name, tabid, keys, ktyp, m)
      PROVE  DataInv' /\ FilesGrow
  <2>1. DataInv'
    BY <1>1, <1>3, IndexAddedKeeps
  <2>2. /\ DOMAIN Index = 1 .. Len(Index) /\ Len(Index) \in Nat
        /\ DOMAIN Index' = 1 .. Len(Index')
    BY <1>3, RowFacts, LenProperties DEF DataInv, IndexAdded
  <2>3. \A i \in DOMAIN Index : i \in DOMAIN Index' /\ Index'[i] = Index[i]
    BY <1>3, <2>2 DEF IndexAdded
  <2>4. /\ \A p \in MadeTables : p \in MadeTables' /\ made'[p] = made[p]
        /\ \A p \in MadeIndexes : p \in MadeIndexes' /\ made'[p] = made[p]
    <3> PICK o : o = m_next_oid
      OBVIOUS
    <3>1. o \notin DOMAIN made
      BY RowFacts DEF DataInv, Unused
    <3>2. CASE m = Len(keys)
      <4>1. made' = Extend(made, o, [name |-> name, on |-> tabid, keys |-> keys])
        BY <1>3, <3>2 DEF IndexAdded
      <4>2. /\ \A p \in DOMAIN made : made'[p] = made[p]
            /\ MadeTables' = MadeTables /\ MadeIndexes' = MadeIndexes \union {o}
        BY <3>1, <4>1, MadeIndex
      <4> QED BY <4>2 DEF MadeTables, MadeIndexes
    <3>3. CASE m # Len(keys)
      BY <1>3, <3>3 DEF IndexAdded, MadeTables, MadeIndexes
    <3> QED BY <3>2, <3>3
  <2> QED BY <1>3, <2>1, <2>3, <2>4 DEF IndexAdded, FilesGrow
<1> QED BY <1>1, <1>2, <1>3

\* What a Find function finds is a row.
LEMMA NameFound ==
  ASSUME DataInv, NEW name
  PROVE  /\ FindTableByName(name) = 0 \/ FindTableByName(name) \in DOMAIN Table
         /\ FindIndexByName(name) = 0 \/ FindIndexByName(name) \in DOMAIN Index
<1>1. ASSUME NEW hits, hits \subseteq DOMAIN Table
      PROVE  First(hits) = 0 \/ First(hits) \in DOMAIN Table
  <2>1. hits \subseteq Nat \ {0}
    BY <1>1, RowFacts DEF DataInv
  <2> QED BY <1>1, <2>1, FirstFound
<1>2. ASSUME NEW hits, hits \subseteq DOMAIN Index
      PROVE  First(hits) = 0 \/ First(hits) \in DOMAIN Index
  <2>1. hits \subseteq Nat \ {0}
    BY <1>2, RowFacts DEF DataInv
  <2> QED BY <1>2, <2>1, FirstFound
<1> QED BY <1>1, <1>2 DEF FindTableByName, FindIndexByName

LEMMA CachedRow ==
  ASSUME RecidsInFiles, NEW file, NEW i,
         \/ i = 0
         \/ file = "Table" /\ i \in DOMAIN Table
         \/ file = "Index" /\ i \in DOMAIN Index
  PROVE  Cached(file, i) \subseteq
           ({"Table"} \X DOMAIN Table) \union ({"Index"} \X DOMAIN Index)
BY DEF RecidsInFiles, Cached

LEMMA FindCallKeeps ==
  ASSUME IInv, NEW op, NEW file, NEW i, NEW oid, FindCall(op, file, i, oid),
         \/ i = 0
         \/ file = "Table" /\ i \in DOMAIN Table
         \/ file = "Index" /\ i \in DOMAIN Index
  PROVE  DataInv' /\ FilesGrow /\ CachesFilled
<1>1. DataInv' /\ FilesGrow
  BY RowsUnchanged DEF IInv, FindCall
<1>2. /\ m_recid_lookup_table' = Cached(file, i)
      /\ m_table_desc' = m_table_desc /\ m_index_desc' = m_index_desc
  BY DEF FindCall, descs
<1>3. m_recid_lookup_table' \subseteq
        ({"Table"} \X DOMAIN Table) \union ({"Index"} \X DOMAIN Index)
  BY <1>2, CachedRow DEF IInv
<1> QED BY <1>1, <1>2, <1>3 DEF IInv, DescsAsMade, DescsLaidOut, IndexDescsAsMade, CachesFilled

\* FindTableDesc(), and the beginning of AddIndex().
LEMMA TableDescFilled ==
  ASSUME IInv, NEW tabid, m_recid_lookup_table' = RecidsAfter(tabid),
         m_table_desc' = TableDescsAfter(tabid), m_index_desc' = m_index_desc
  PROVE  CachesFilled
<1>1. m_recid_lookup_table' \subseteq
        ({"Table"} \X DOMAIN Table) \union ({"Index"} \X DOMAIN Index)
  <2>1. CASE tabid \in DOMAIN m_table_desc
    BY <2>1 DEF RecidsAfter, IInv, RecidsInFiles
  <2>2. CASE tabid \notin DOMAIN m_table_desc
    <3> PICK i : i = FindTable(tabid)
      OBVIOUS
    <3>1. i = 0 \/ i \in DOMAIN Table
      BY TableFound DEF IInv
    <3>2. m_recid_lookup_table' = Cached("Table", i)
      BY <2>2 DEF RecidsAfter, Cached
    <3> QED BY <3>1, <3>2, CachedRow DEF IInv
  <2> QED BY <2>1, <2>2
<1>2. \A p \in DOMAIN m_table_desc' :
        /\ p \in MadeTables /\ m_table_desc'[p].typid = made[p].typid
        /\ Layout(m_table_desc'[p].typid) # "throws"
  BY OutcomeMade DEF IInv
<1> QED BY <1>1, <1>2 DEF IInv, IndexDescsAsMade, CachesFilled

LEMMA FindIndexDescKeeps ==
  ASSUME IInv, NEW idxid \in Oids, FindIndexDesc(idxid)
  PROVE  DataInv' /\ FilesGrow /\ CachesFilled
<1> PICK i : i = FindIndex(idxid)
  OBVIOUS
<1>1. DataInv' /\ FilesGrow
  BY RowsUnchanged DEF IInv, FindIndexDesc
<1>2. \/ i = 0
      \/ i \in DOMAIN Index /\ Index[i].idxid = idxid
  BY IndexFound DEF IInv
<1>3. m_recid_lookup_table' \subseteq
        ({"Table"} \X DOMAIN Table) \union ({"Index"} \X DOMAIN Index)
  <2>1. CASE idxid \in DOMAIN m_index_desc
    BY <2>1 DEF FindIndexDesc, IInv, RecidsInFiles
  <2>2. CASE idxid \notin DOMAIN m_index_desc
    <3>1. m_recid_lookup_table' = Cached("Index", i)
      BY <2>2 DEF FindIndexDesc, Cached
    <3> QED BY <1>2, <3>1, CachedRow DEF IInv
  <2> QED BY <2>1, <2>2
<1>4. \A o \in DOMAIN m_index_desc' :
        o \in MadeIndexes /\ MatchesTable(o, m_index_desc'[o])
  <2>1. CASE IndexDescOutcome(idxid) = "ok" /\ idxid \notin DOMAIN m_index_desc
    <3>1. i # 0 /\ IndexCountMatches(Index[i])
      BY <2>1 DEF IndexDescOutcome, IndexCountMatches, IndexColumnsOf
    <3>2. PICK d : d = NewIndexDesc(Index[i])
      OBVIOUS
    <3>3. idxid \in MadeIndexes /\ MatchesTable(idxid, d)
      BY <1>2, <3>1, <3>2, DescOfIndex DEF IInv
    <3>4. m_index_desc' = Extend(m_index_desc, idxid, d)
      BY <2>1, <3>2 DEF FindIndexDesc, NewIndexDesc, IndexColumnsOf
    <3>5. /\ DOMAIN m_index_desc' = DOMAIN m_index_desc \union {idxid}
          /\ m_index_desc'[idxid] = d
          /\ \A o \in DOMAIN m_index_desc : o # idxid => m_index_desc'[o] = m_index_desc[o]
      BY <3>4 DEF Extend
    <3>6. ASSUME NEW o \in DOMAIN m_index_desc'
          PROVE  o \in MadeIndexes /\ MatchesTable(o, m_index_desc'[o])
      <4>1. CASE o = idxid
        BY <3>3, <3>5, <4>1
      <4>2. CASE o # idxid
        <5>1. o \in DOMAIN m_index_desc /\ m_index_desc'[o] = m_index_desc[o]
          BY <3>5, <4>2
        <5> QED BY <5>1 DEF IInv, IndexDescsAsMade
      <4> QED BY <4>1, <4>2
    <3> QED BY <3>6
  <2>2. CASE ~(IndexDescOutcome(idxid) = "ok" /\ idxid \notin DOMAIN m_index_desc)
    <3>1. m_index_desc' = m_index_desc
      BY <2>2 DEF FindIndexDesc
    <3> QED BY <3>1 DEF IInv, IndexDescsAsMade
  <2> QED BY <2>1, <2>2
<1>5. m_table_desc' = m_table_desc
  BY DEF FindIndexDesc
<1> QED BY <1>1, <1>3, <1>4, <1>5 DEF IInv, DescsAsMade, DescsLaidOut, CachesFilled

LEMMA StepKeeps ==
  ASSUME IInv, [Next]_vars
  PROVE  DataInv' /\ FilesGrow /\ CachesFilled
<1>1. ASSUME NEW name \in Names, LookUpTableByName(name)
      PROVE  DataInv' /\ FilesGrow /\ CachesFilled
  <2> PICK i : i = FindTableByName(name)
    OBVIOUS
  <2> PICK oid : oid = IF i = 0 THEN InvalidOid ELSE Table[i].tabid
    OBVIOUS
  <2>1. FindCall("FindTableByName", "Table", i, oid)
    BY <1>1 DEF LookUpTableByName, FindCall, Cached
  <2>2. i = 0 \/ i \in DOMAIN Table
    BY NameFound DEF IInv
  <2> QED BY <2>1, <2>2, FindCallKeeps
<1>2. ASSUME NEW name \in Names, LookUpIndexByName(name)
      PROVE  DataInv' /\ FilesGrow /\ CachesFilled
  <2> PICK i : i = FindIndexByName(name)
    OBVIOUS
  <2> PICK oid : oid = IF i = 0 THEN InvalidOid ELSE Index[i].idxid
    OBVIOUS
  <2>1. FindCall("FindIndexByName", "Index", i, oid)
    BY <1>2 DEF LookUpIndexByName, FindCall, Cached
  <2>2. i = 0 \/ i \in DOMAIN Index
    BY NameFound DEF IInv
  <2> QED BY <2>1, <2>2, FindCallKeeps
<1>3. ASSUME NEW name \in Names, NEW coltypid \in ColumnLists, NEW long \in LongColumns,
             NEW argsOK \in BOOLEAN, AddTable(name, coltypid, long, argsOK)
      PROVE  DataInv' /\ FilesGrow /\ CachesFilled
  <2>1. DataInv' /\ FilesGrow
    <3>1. CASE AddTableRejected(coltypid, argsOK)
      BY <3>1, RowsUnchanged DEF IInv, AddTableRejected
    <3>2. CASE AddTableInserts(name, coltypid, long, argsOK)
      BY <3>2, AddTableKeeps DEF IInv
    <3>3. CASE AddTableOverflows(coltypid, argsOK)
      <4>1. OidSpent
        <5>1. m_next_oid \in Nat /\ FirstOid <= m_next_oid
          BY RowFacts DEF IInv, DataInv
        <5>2. m_next_oid <= MaxOid
          BY <3>3, <5>1, CatalogAssumption DEF AddTableOverflows, AllocateOid
        <5> QED BY <3>3, <5>2 DEF AddTableOverflows, Spent, OidSpent, rows
      <4> QED BY <4>1, OidSpentKeeps, OidSpentGrows DEF IInv
    <3> QED BY <1>3, <3>1, <3>2, <3>3 DEF AddTable
  <2>2. /\ m_recid_lookup_table' = m_recid_lookup_table
        /\ m_table_desc' = m_table_desc /\ m_index_desc' = m_index_desc
    BY <1>3 DEF AddTable, AddTableRejected, AddTableOverflows, AddTableInserts, descs
  <2> QED BY <2>1, <2>2 DEF IInv, RecidsInFiles, DescsAsMade, DescsLaidOut, IndexDescsAsMade, CachesFilled
<1>4. ASSUME NEW name \in Names, NEW tabid \in Oids, NEW keys \in KeyLists,
             NEW func \in OpFuncs, NEW argsOK \in BOOLEAN, NEW junk \in Junk(keys),
             AddIndex(name, tabid, keys, func, argsOK, junk)
      PROVE  DataInv' /\ FilesGrow /\ CachesFilled
  <2>1. DataInv' /\ FilesGrow
    <3>1. CASE AddIndexRejected(tabid, keys, func, argsOK, junk)
      BY <3>1, RowsUnchanged DEF IInv, AddIndexRejected
    <3>2. CASE AddIndexInserts(name, tabid, keys, func, argsOK, junk)
      BY <3>2, AddIndexKeeps DEF IInv
    <3> QED BY <1>4, <3>1, <3>2 DEF AddIndex
  <2>2. CachesFilled
    BY <1>4, TableDescFilled DEF AddIndex
  <2> QED BY <2>1, <2>2
<1>5. ASSUME NEW oid \in Oids, LookUpTable(oid)
      PROVE  DataInv' /\ FilesGrow /\ CachesFilled
  <2> PICK i : i = FindTable(oid)
    OBVIOUS
  <2>1. FindCall("FindTable", "Table", i, oid)
    BY <1>5 DEF LookUpTable, FindCall, Cached
  <2>2. i = 0 \/ i \in DOMAIN Table
    BY TableFound DEF IInv
  <2> QED BY <2>1, <2>2, FindCallKeeps
<1>6. ASSUME NEW oid \in Oids, LookUpIndex(oid)
      PROVE  DataInv' /\ FilesGrow /\ CachesFilled
  <2> PICK i : i = FindIndex(oid)
    OBVIOUS
  <2>1. FindCall("FindIndex", "Index", i, oid)
    BY <1>6 DEF LookUpIndex, FindCall, Cached
  <2>2. i = 0 \/ i \in DOMAIN Index
    BY IndexFound DEF IInv
  <2> QED BY <2>1, <2>2, FindCallKeeps
<1>7. ASSUME NEW oid \in Oids, FindAllIndexesOfTable(oid)
      PROVE  DataInv' /\ FilesGrow /\ CachesFilled
  <2>1. DataInv' /\ FilesGrow
    BY <1>7, RowsUnchanged DEF IInv, FindAllIndexesOfTable
  <2>2. /\ m_recid_lookup_table' =
             m_recid_lookup_table \union {<<"Index", i>> : i \in IndexesOf(oid)}
        /\ m_table_desc' = m_table_desc /\ m_index_desc' = m_index_desc
    BY <1>7 DEF FindAllIndexesOfTable, descs
  <2>3. {<<"Index", i>> : i \in IndexesOf(oid)} \subseteq {"Index"} \X DOMAIN Index
    BY DEF IndexesOf
  <2> QED BY <2>1, <2>2, <2>3 DEF IInv, RecidsInFiles, DescsAsMade, DescsLaidOut, IndexDescsAsMade, CachesFilled
<1>8. ASSUME NEW oid \in Oids, FindTableDesc(oid)
      PROVE  DataInv' /\ FilesGrow /\ CachesFilled
  <2>1. DataInv' /\ FilesGrow
    BY <1>8, RowsUnchanged DEF IInv, FindTableDesc
  <2>2. CachesFilled
    BY <1>8, TableDescFilled DEF FindTableDesc
  <2> QED BY <2>1, <2>2
<1>9. ASSUME NEW oid \in Oids, FindIndexDesc(oid)
      PROVE  DataInv' /\ FilesGrow /\ CachesFilled
  BY <1>9, FindIndexDescKeeps
<1>10. CASE UNCHANGED vars
  <2>1. DataInv' /\ FilesGrow
    BY <1>10, RowsUnchanged DEF IInv, vars, rows
  <2>2. /\ m_recid_lookup_table' = m_recid_lookup_table
        /\ m_table_desc' = m_table_desc /\ m_index_desc' = m_index_desc
    BY <1>10 DEF vars
  <2> QED BY <2>1, <2>2 DEF IInv, RecidsInFiles, DescsAsMade, DescsLaidOut, IndexDescsAsMade, CachesFilled
<1> QED BY <1>1, <1>2, <1>3, <1>4, <1>5, <1>6, <1>7, <1>8, <1>9, <1>10 DEF Next

LEMMA InitIInv == Init => IInv
<1> SUFFICES ASSUME Init PROVE IInv
  OBVIOUS
<1>1. /\ Table = <<>> /\ Column = <<>> /\ Index = <<>> /\ IndexColumn = <<>>
      /\ m_next_oid = FirstOid /\ m_recid_lookup_table = {}
      /\ DOMAIN made = {} /\ DOMAIN m_table_desc = {} /\ DOMAIN m_index_desc = {}
  BY DEF Init, Empty
<1>2. FilesOK
  <2>1. /\ \A S : <<>> \in Seq(S)
        /\ Len(<<>>) = 0
    OBVIOUS
  <2>2. FirstOid \in FirstOid .. MaxOid + 1 /\ 0 <= FileLimit
    BY CatalogAssumption
  <2> QED BY <1>1, <2>1, <2>2 DEF FilesOK
<1>3. /\ DOMAIN Table = {} /\ DOMAIN Column = {} /\ DOMAIN Index = {}
      /\ DOMAIN IndexColumn = {} /\ MadeTables = {} /\ MadeIndexes = {}
  BY <1>1 DEF MadeTables, MadeIndexes
<1>4. Unused /\ OneObjectPerOid /\ MadeInv
  BY <1>1, <1>3 DEF Unused, OneObjectPerOid, MadeInv, Range
<1> QED BY <1>1, <1>2, <1>3, <1>4
        DEF IInv, DataInv, RecidsInFiles, DescsAsMade, DescsLaidOut, IndexDescsAsMade

LEMMA NextIInv == IInv /\ [Next]_vars => IInv'
<1> SUFFICES ASSUME IInv, [Next]_vars PROVE IInv'
  OBVIOUS
<1>1. DataInv' /\ FilesGrow /\ CachesFilled
  BY StepKeeps
<1>2. RecidsInFiles'
  BY <1>1 DEF FilesGrow, CachesFilled, RecidsInFiles
<1>3. DescsAsMade'
  BY <1>1 DEF FilesGrow, CachesFilled, DescsAsMade
<1>4. DescsLaidOut'
  BY <1>1 DEF CachesFilled, DescsLaidOut
<1>5. IndexDescsAsMade'
  <2>1. ASSUME NEW o \in MadeIndexes, NEW d, MatchesTable(o, d)
        PROVE  o \in MadeIndexes' /\ MatchesTable(o, d)'
    <3>1. /\ o \in MadeIndexes' /\ made'[o] = made[o]
          /\ d.on \in MadeTables' /\ made'[d.on] = made[d.on]
      BY <1>1, <2>1 DEF FilesGrow, MatchesTable
    <3> QED BY <2>1, <3>1 DEF MatchesTable
  <2>2. ASSUME NEW o \in DOMAIN m_index_desc'
        PROVE  o \in MadeIndexes' /\ MatchesTable(o, m_index_desc[o])'
    <3>1. PICK d : d = m_index_desc'[o]
      OBVIOUS
    <3>2. o \in MadeIndexes /\ MatchesTable(o, d)
      BY <1>1, <3>1 DEF CachesFilled
    <3>3. o \in MadeIndexes' /\ MatchesTable(o, d)'
      BY <2>1, <3>2
    <3> QED BY <3>1, <3>3 DEF MatchesTable
  <2> QED BY <2>2 DEF IndexDescsAsMade
<1> QED BY <1>1, <1>2, <1>3, <1>4, <1>5 DEF IInv

LEMMA Invariant == Spec => []IInv
BY InitIInv, NextIInv, PTL DEF Spec

-----------------------------------------------------------------------------
(***************************************************************************)
(* The theorems.                                                           *)
(***************************************************************************)
\* Type correctness: the files hold rows and stay within their limit, and only
\* rows of the files, and descriptors of such rows, are cached.
THEOREM TypeCorrect == Spec => []TypeOK
<1>1. IInv => TypeOK
  <2> SUFFICES ASSUME IInv PROVE TypeOK
    OBVIOUS
  <2>1. \A f \in {Table, Column, Index, IndexColumn} : Len(f) <= FileLimit
    BY DEF IInv, DataInv, FilesOK
  <2>2. /\ Range(Table) \subseteq TableRows /\ Range(Column) \subseteq ColRows
        /\ Range(Index) \subseteq IndexRows /\ Range(IndexColumn) \subseteq IdxColRows
    <3>1. ASSUME NEW S, NEW file \in Seq(S)
          PROVE  Range(file) \subseteq S
      BY LenProperties DEF Range
    <3> QED BY <3>1 DEF IInv, DataInv, FilesOK
  <2>3. m_next_oid \in FirstOid .. MaxOid + 1
    BY DEF IInv, DataInv, FilesOK
  <2>4. DOMAIN m_table_desc \subseteq {t.tabid : t \in Range(Table)}
    <3>1. \A o \in DOMAIN m_table_desc : \E i \in DOMAIN Table : Table[i].tabid = o
      BY DEF IInv, DescsAsMade, DataInv, MadeInv
    <3> QED BY <3>1 DEF Range
  <2>5. DOMAIN m_index_desc \subseteq {x.idxid : x \in Range(Index)}
    <3>1. \A o \in DOMAIN m_index_desc : \E i \in DOMAIN Index : Index[i].idxid = o
      BY DEF IInv, IndexDescsAsMade, DataInv, MadeInv
    <3> QED BY <3>1 DEF Range
  <2> QED BY <2>1, <2>2, <2>3, <2>4, <2>5
          DEF TypeOK, IInv, RecidsInFiles, TableRows, ColRows, IndexRows, IdxColRows
<1> QED BY <1>1, Invariant, PTL

\* An Oid names one object: AllocateOid() never hands out an Oid that a row of
\* Table or Index has, also after AddTable() or AddIndex() has thrown half way.
THEOREM OidsNameOneObject == Spec => []OneObjectPerOid
<1>1. IInv => OneObjectPerOid
  BY DEF IInv, DataInv
<1> QED BY <1>1, Invariant, PTL

\* Every descriptor in the cache is that of a table whose AddTable() call has
\* returned: FindTableDesc() and AddIndex() never take the rows that a call
\* has left when it threw for a table.
THEOREM CachedDescsAsMade == Spec => []DescsAsMade
<1>1. IInv => DescsAsMade
  BY DEF IInv
<1> QED BY <1>1, Invariant, PTL

\* FindTableDesc() finds all columns of a table whose AddTable() call has
\* returned, in order, however many rows were added or left over since; it
\* throws for such a table only if ComputeLayout() throws for its types.
THEOREM TablesStayUsable == Spec => []MadeTablesUsable
<1>1. IInv => MadeTablesUsable
  <2> SUFFICES ASSUME IInv, NEW o \in MadeTables
               PROVE  IF Layout(made[o].typid) = "throws"
                        THEN TableDescOutcome(o) = "error"
                        ELSE /\ TableDescOutcome(o) = "ok"
                             /\ TableDescsAfter(o)[o].typid = made[o].typid
    BY DEF MadeTablesUsable
  <2> QED BY OutcomeMade DEF IInv
<1> QED BY <1>1, Invariant, PTL

\* The descriptor FindIndexDesc() makes of an index whose AddIndex() call has
\* returned has the key columns of the call, in the order given, and those that
\* are not negative have the types of the columns of the table.
THEOREM IndexesStayMatched == Spec => []IndexesMatchTables
<1>1. IInv => IndexesMatchTables
  BY IndexesMatch DEF IInv
<1> QED BY <1>1, Invariant, PTL

\* Every index descriptor in the cache is that of an index whose AddIndex()
\* call has returned, and still matches it and its table: FindIndexDesc() never
\* takes the rows that a call has left when it threw for an index.
THEOREM CachedIndexDescsAsMade == Spec => []IndexDescsAsMade
<1>1. IInv => IndexDescsAsMade
  BY DEF IInv
<1> QED BY <1>1, Invariant, PTL
=============================================================================
