------------------------------ MODULE Catalog ------------------------------
(***************************************************************************)
(* The catalog cache of an initialized database (CatCacheBase): AddTable() *)
(* and AddIndex() append rows to the catalog files Table, Column, Index    *)
(* and IndexColumn, the Find functions search them and keep what they find *)
(* in caches that are never evicted.  Nothing is rolled back: a call that  *)
(* throws half way leaves the rows it has appended.                        *)
(*                                                                         *)
(* The rows of the system tables themselves, which never change after the  *)
(* initialization, are left out, and so are the columns of the catalog     *)
(* rows that are only stored and handed back.                              *)
(***************************************************************************)
EXTENDS Integers, Sequences, FiniteSets, Functions

CONSTANTS
  Names,       \* table and index names
  Lower(_),    \* case folding; names are compared with VARCHAR___STRING_eq_ci
  TooLong,     \* names for which Schema::WritePayloadToBuffer() returns -1
  Types,       \* types of Type, each with a type parameter and nullability
  NoSuchType,  \* a type ID that is not in Type
  Comparable,  \* the types with "=" and "<" operators in Operator
  Layout(_),   \* what Schema::ComputeLayout() does for a sequence of types:
               \* "computed", "uncomputed" (it returns early) or "throws"
  MaxFieldId,  \* the largest FieldId, 0x7fff
  MaxColumns,  \* the limit of AddTable(), 0xffff
  ColumnLists, \* the coltypid arguments of AddTable()
  LongColumns, \* the field of a new table whose name is too long, or 0
  KeyLists,    \* the idxcoltabcolids arguments of AddIndex()
  OpFuncs,     \* the function argument of AddIndex(): see OpFuncsValid
  FirstOid, MaxOid,
  FileLimit,   \* records in a catalog file, see VolatileCatFile
  GrowthSizes  \* the sizes at which flat_hash_map::emplace() moves its slots,
               \* counted without the rows of the system tables

InvalidOid == 0

Oids == FirstOid .. MaxOid

\* AddIndex() gets no function, one that suits the column type, one that does
\* not, or an Oid that is not in Function.
OpFuncKinds == {"default", "suitable", "unsuitable", "unknown"}

ASSUME CatalogAssumption ==
  /\ FirstOid \in Nat /\ MaxOid \in Nat /\ FirstOid > InvalidOid
  /\ FirstOid <= MaxOid + 1
  /\ FileLimit \in Nat
  /\ NoSuchType \notin Types
  /\ Comparable \subseteq Types
  /\ ColumnLists \subseteq Seq(Types \union {NoSuchType})
  /\ MaxFieldId \in Nat /\ MaxColumns \in Nat
  /\ KeyLists \subseteq Seq(Int)
  /\ OpFuncs \subseteq OpFuncKinds

VARIABLES
  Table, Column, Index, IndexColumn,  \* the catalog files
  m_next_oid,
  m_recid_lookup_table,  \* the record IDs of the cached rows
  m_table_desc, m_index_desc,
  ret,                   \* the last call and its outcome
  made                   \* history: what each Oid returned so far stands for

vars == <<Table, Column, Index, IndexColumn, m_next_oid, m_recid_lookup_table,
          m_table_desc, m_index_desc, ret, made>>

rows == <<Table, Column, Index, IndexColumn>>
descs == <<m_table_desc, m_index_desc>>

Empty == [x \in {} |-> x]

Init ==
  /\ Table = <<>> /\ Column = <<>> /\ Index = <<>> /\ IndexColumn = <<>>
  /\ m_next_oid = FirstOid
  /\ m_recid_lookup_table = {}
  /\ m_table_desc = Empty /\ m_index_desc = Empty
  /\ ret = [op |-> "Initialize", out |-> "ok", oid |-> InvalidOid]
  /\ made = Empty

-----------------------------------------------------------------------------
\* SearchForCatalogEntry with expect_unique: of the rows that match, the place
\* of the first, or 0.
First(hits) == IF hits = {} THEN 0 ELSE CHOOSE i \in hits : \A j \in hits : i <= j

\* SearchForCatalogEntry otherwise: of the places of the rows that match, the
\* first expect_n, or all of them when expect_n is 0.
Search(hits, expect_n) ==
  {i \in hits : expect_n # 0 => Cardinality({j \in hits : j < i}) < expect_n}

FindTable(tabid) == First({i \in DOMAIN Table : Table[i].tabid = tabid})
FindTableByName(name) ==
  First({i \in DOMAIN Table : Lower(Table[i].tabname) = Lower(name)})
FindIndex(idxid) == First({i \in DOMAIN Index : Index[i].idxid = idxid})
FindIndexByName(name) ==
  First({i \in DOMAIN Index : Lower(Index[i].idxname) = Lower(name)})

\* GetOrCreateCachedEntry(): a found row is in the cache from then on.
Cached(file, i) ==
  IF i = 0 THEN m_recid_lookup_table
           ELSE m_recid_lookup_table \union {<<file, i>>}

\* A call of a Find function, and its result.
FindCall(op, file, i, oid) ==
  /\ m_recid_lookup_table' = Cached(file, i)
  /\ ret' = [op |-> op, out |-> IF i = 0 THEN "none" ELSE "ok", oid |-> oid]
  /\ UNCHANGED <<rows, m_next_oid, descs, made>>

LookUpTable(tabid) == FindCall("FindTable", "Table", FindTable(tabid), tabid)

LookUpTableByName(name) ==
  LET i == FindTableByName(name)
  IN FindCall("FindTableByName", "Table", i,
              IF i = 0 THEN InvalidOid ELSE Table[i].tabid)

LookUpIndex(idxid) == FindCall("FindIndex", "Index", FindIndex(idxid), idxid)

LookUpIndexByName(name) ==
  LET i == FindIndexByName(name)
  IN FindCall("FindIndexByName", "Index", i,
              IF i = 0 THEN InvalidOid ELSE Index[i].idxid)

\* FindAllIndexesOfTable() collects pointers to cache entries.  An insertion
\* that moves the entries leaves the pointers collected before it dangling.
IndexesOf(tabid) == {i \in DOMAIN Index : Index[i].idxtabid = tabid}

\* How many entries the cache has when the search reaches row i.
CacheSizeAt(tabid, i) ==
  Cardinality(m_recid_lookup_table
              \union {<<"Index", j>> : j \in {k \in IndexesOf(tabid) : k < i}})

PointersMoved(tabid) ==
  \E i \in IndexesOf(tabid) :
    /\ <<"Index", i>> \notin m_recid_lookup_table
    /\ \E j \in IndexesOf(tabid) : j < i
    /\ CacheSizeAt(tabid, i) \in GrowthSizes

FindAllIndexesOfTable(tabid) ==
  /\ m_recid_lookup_table' =
       m_recid_lookup_table \union {<<"Index", i>> : i \in IndexesOf(tabid)}
  /\ ret' = [op |-> "FindAllIndexesOfTable", oid |-> tabid,
             out |-> IF PointersMoved(tabid) THEN "undefined" ELSE "ok"]
  /\ UNCHANGED <<rows, m_next_oid, descs, made>>

-----------------------------------------------------------------------------
\* The places of the columns FindTableDesc() collects for row t of Table.
AllColumns(t) == Search(DOMAIN Column, t.tabncols)                   \* mutant
ColumnsOf(t) ==
  Search({i \in DOMAIN Column : Column[i].coltabid = t.tabid}, t.tabncols)

\* FindTableDesc() fails with a fatal error unless Column has as many rows for
\* the table as the row in Table says.
TakenAsIs(t, cols) == TRUE                                           \* mutant
CountMatches(t, cols) == Cardinality(cols) = t.tabncols

\* TableDesc::Create() returns a null pointer, for FindTableDesc() a fatal
\* error, without columns or with a column of another table.
Describable(t, cols) ==
  cols # {} /\ \A k \in cols : Column[k].coltabid = t.tabid

\* Otherwise field colid of the schema has the type of the last row with that
\* column ID.  ComputeLayout() may throw, or leave the layout uncomputed.
NewTableDesc(t, cols) ==
  LET typid == [n \in 1 .. Cardinality(cols) |->
                  LET of == {k \in cols : Column[k].colid = n - 1}
                  IN IF of = {} THEN NoSuchType
                     ELSE Column[CHOOSE k \in of : \A j \in of : j <= k].coltypid]
  IN [tabid |-> t.tabid, typid |-> typid, computed |-> Layout(typid) = "computed"]

Extend(f, oid, desc) ==
  [o \in DOMAIN f \union {oid} |-> IF o = oid THEN desc ELSE f[o]]

\* What FindTableDesc() does: a cached descriptor, a new one, a null pointer, a
\* fatal error or the error that ComputeLayout() throws.  It is called by
\* AddIndex() too.
NewDescOutcome(t, cols) ==
  IF ~(CountMatches(t, cols) /\ Describable(t, cols)) THEN "fatal"
  ELSE IF Layout(NewTableDesc(t, cols).typid) = "throws" THEN "error" ELSE "ok"

TableDescOutcome(tabid) ==
  LET i == FindTable(tabid)
  IN IF tabid \in DOMAIN m_table_desc THEN "ok"
     ELSE IF i = 0 THEN "none"
     ELSE NewDescOutcome(Table[i], ColumnsOf(Table[i]))

\* The caches after the call, of which an error leaves the row in Table.
TableDescsAfter(tabid) ==
  LET t == Table[FindTable(tabid)]
  IN IF TableDescOutcome(tabid) = "ok" /\ tabid \notin DOMAIN m_table_desc
       THEN Extend(m_table_desc, tabid, NewTableDesc(t, ColumnsOf(t)))
       ELSE m_table_desc

RecidsAfter(tabid) ==
  IF tabid \in DOMAIN m_table_desc THEN m_recid_lookup_table
                                   ELSE Cached("Table", FindTable(tabid))

FindTableDesc(tabid) ==
  /\ m_recid_lookup_table' = RecidsAfter(tabid)
  /\ m_table_desc' = TableDescsAfter(tabid)
  /\ ret' = [op |-> "FindTableDesc", oid |-> tabid, out |-> TableDescOutcome(tabid)]
  /\ UNCHANGED <<rows, m_next_oid, m_index_desc, made>>

-----------------------------------------------------------------------------
\* AllocateOid() without the races of OidAllocator.
AllocateOid == IF m_next_oid > MaxOid THEN InvalidOid ELSE m_next_oid

\* The counter after a call that has allocated an Oid and then failed.
GivenBack == m_next_oid                                              \* mutant
Spent == m_next_oid + 1

\* InsertCatalogEntries() writes and appends the rows one by one and throws at
\* the first that is too long (row bad, or none) or finds the file full.
RoomIn(file) == FileLimit - Len(file)

Insertable(file, data, bad) ==
  LET writable == IF bad \in DOMAIN data THEN bad - 1 ELSE Len(data)
  IN IF writable <= RoomIn(file) THEN writable ELSE RoomIn(file)

Inserted(file, data, bad) == file \o SubSeq(data, 1, Insertable(file, data, bad))

Complete(file, data, bad) == Insertable(file, data, bad) = Len(data)

Bad(name) == IF name \in TooLong THEN 1 ELSE 0

Fail(op, out) == ret' = [op |-> op, out |-> out, oid |-> InvalidOid]

\* The checks of AddTable() up to the allocation of an Oid.  argsOK: a file is
\* given, and the other vectors are empty or as long as coltypid.
AddTableAllowed(coltypid, argsOK) ==
  /\ argsOK /\ Len(coltypid) \in 1 .. MaxFieldId
  /\ \A n \in DOMAIN coltypid : coltypid[n] \in Types
  /\ AllocateOid # InvalidOid

\* More than MaxFieldId columns pass the check against MaxColumns, but
\* num_fields is negative: no type is looked up, and once the Oid is allocated
\* column.reserve() throws.  (The resize() of a vector that is not given throws
\* before it: AddTableRejected.)
AddTableOverflows(coltypid, argsOK) ==
  /\ argsOK /\ Len(coltypid) \in MaxFieldId + 1 .. MaxColumns
  /\ AllocateOid # InvalidOid
  /\ m_next_oid' = Spent
  /\ Fail("AddTable", "error")
  /\ UNCHANGED <<rows, m_recid_lookup_table, descs, made>>

AddTableRejected(coltypid, argsOK) ==
  /\ ~AddTableAllowed(coltypid, argsOK)
  /\ Fail("AddTable", "error")
  /\ UNCHANGED <<rows, m_next_oid, m_recid_lookup_table, descs, made>>

TableRow(name, coltypid) ==
  [tabid |-> AllocateOid, tabname |-> name, tabncols |-> Len(coltypid)]

ColumnRows(coltypid) ==
  [n \in DOMAIN coltypid |->
     [coltabid |-> AllocateOid, colid |-> n - 1, coltypid |-> coltypid[n]]]

\* Table first, then Column: a failure in between leaves a table without, or
\* with some of, its columns.
AddTableInserts(name, coltypid, long, argsOK) ==
  LET t == <<TableRow(name, coltypid)>>
      c == ColumnRows(coltypid)
  IN /\ AddTableAllowed(coltypid, argsOK)
     /\ Table' = Inserted(Table, t, Bad(name))
     /\ \/ /\ Complete(Table, t, Bad(name)) /\ Complete(Column, c, long)
           /\ Column' = Column \o c
           /\ m_next_oid' = m_next_oid + 1
           /\ ret' = [op |-> "AddTable", out |-> "ok", oid |-> AllocateOid]
           /\ made' = Extend(made, AllocateOid,
                             [name |-> name, typid |-> coltypid])
        \/ /\ Complete(Table, t, Bad(name)) /\ ~Complete(Column, c, long)
           /\ Column' = Inserted(Column, c, long)
           /\ m_next_oid' = Spent
           /\ Fail("AddTable", "fatal")
           /\ UNCHANGED made
        \/ /\ ~Complete(Table, t, Bad(name))
           /\ m_next_oid' = Spent
           /\ Fail("AddTable", "fatal")
           /\ UNCHANGED <<Column, made>>
     /\ UNCHANGED <<Index, IndexColumn, m_recid_lookup_table, descs>>

AddTable(name, coltypid, long, argsOK) ==
  \/ AddTableRejected(coltypid, argsOK)
  \/ AddTableOverflows(coltypid, argsOK)
  \/ AddTableInserts(name, coltypid, long, argsOK)

-----------------------------------------------------------------------------
\* The checks of AddIndex() on key column k of the table described by desc.
\* There is none for the lower bound of a FieldId, which is signed.
InBounds(desc, k) == k < Len(desc.typid)

\* A negative key column reads m_field before its beginning: any type, or none.
Junk(keys) == [{k \in Range(keys) : k < 0} -> Types \union {NoSuchType}]

KeyType(desc, k, junk) ==
  IF k < 0 THEN junk[k]
  ELSE IF k + 1 \in DOMAIN desc.typid THEN desc.typid[k + 1] ELSE NoSuchType

\* A function that is not in Function is a null pointer, which the error
\* message dereferences.
KeyOutcome(desc, k, func, junk) ==
  CASE ~InBounds(desc, k) -> "error"
    [] InBounds(desc, k) /\ func = "default" ->
         IF KeyType(desc, k, junk) \in Comparable THEN "ok" ELSE "error"
    [] InBounds(desc, k) /\ func = "suitable" ->
         IF KeyType(desc, k, junk) \in Types THEN "ok" ELSE "error"
    [] InBounds(desc, k) /\ func = "unsuitable" -> "error"
    [] InBounds(desc, k) /\ func = "unknown" -> "crash"

\* The outcome of the loop over the key columns: that of the first one that
\* fails.
KeysOutcome(desc, keys, func, junk) ==
  LET bad == {n \in DOMAIN keys : KeyOutcome(desc, keys[n], func, junk) # "ok"}
  IN IF bad = {} THEN "ok"
     ELSE KeyOutcome(desc, keys[CHOOSE n \in bad : \A m \in bad : n <= m], func, junk)

\* What AddIndex() comes to before it allocates an Oid.  argsOK: the index type
\* is known, and a file is given exactly when that type needs one.
AddIndexOutcome(tabid, keys, func, argsOK, junk) ==
  LET found == TableDescOutcome(tabid)
      keysOutcome == KeysOutcome(TableDescsAfter(tabid)[tabid], keys, func, junk)
  IN CASE found \in {"none", "error"} -> "error"
       [] found = "fatal" -> "fatal"
       [] found = "ok" ->
            IF ~argsOK \/ Len(keys) > MaxFieldId THEN "error"
            ELSE IF keysOutcome # "ok" THEN keysOutcome
            ELSE IF AllocateOid = InvalidOid THEN "error" ELSE "ok"

AddIndexRejected(tabid, keys, func, argsOK, junk) ==
  /\ LET outcome == AddIndexOutcome(tabid, keys, func, argsOK, junk)
     IN outcome # "ok" /\ Fail("AddIndex", outcome)
  /\ UNCHANGED <<rows, m_next_oid, made>>

IndexRow(name, tabid, keys) ==
  [idxid |-> AllocateOid, idxtabid |-> tabid, idxname |-> name,
   idxncols |-> Len(keys)]

TypesByPosition(desc, keys, junk) ==                                 \* mutant
  [n \in DOMAIN keys |->
     [idxcolidxid |-> AllocateOid, idxcolid |-> n - 1,
      idxcoltabcolid |-> keys[n], idxcoltypid |-> KeyType(desc, n - 1, junk)]]
IndexColumnRows(desc, keys, junk) ==
  [n \in DOMAIN keys |->
     [idxcolidxid |-> AllocateOid, idxcolid |-> n - 1,
      idxcoltabcolid |-> keys[n], idxcoltypid |-> KeyType(desc, keys[n], junk)]]

AddIndexInserts(name, tabid, keys, func, argsOK, junk) ==
  LET x == <<IndexRow(name, tabid, keys)>>
      c == IndexColumnRows(TableDescsAfter(tabid)[tabid], keys, junk)
  IN /\ AddIndexOutcome(tabid, keys, func, argsOK, junk) = "ok"
     /\ Index' = Inserted(Index, x, Bad(name))
     /\ \/ /\ Complete(Index, x, Bad(name)) /\ Complete(IndexColumn, c, 0)
           /\ IndexColumn' = IndexColumn \o c
           /\ m_next_oid' = m_next_oid + 1
           /\ ret' = [op |-> "AddIndex", out |-> "ok", oid |-> AllocateOid]
           /\ made' = Extend(made, AllocateOid,
                             [name |-> name, on |-> tabid, keys |-> keys])
        \/ /\ ~(Complete(Index, x, Bad(name)) /\ Complete(IndexColumn, c, 0))
           /\ IndexColumn' = IF Complete(Index, x, Bad(name))
                               THEN Inserted(IndexColumn, c, 0)
                               ELSE IndexColumn
           /\ m_next_oid' = Spent
           /\ Fail("AddIndex", "fatal")
           /\ UNCHANGED made
     /\ UNCHANGED <<Table, Column>>

\* AddIndex() begins with FindTableDesc(), which may fill the caches.
AddIndex(name, tabid, keys, func, argsOK, junk) ==
  /\ m_table_desc' = TableDescsAfter(tabid)
  /\ m_recid_lookup_table' = RecidsAfter(tabid)
  /\ UNCHANGED m_index_desc
  /\ \/ AddIndexRejected(tabid, keys, func, argsOK, junk)
     \/ AddIndexInserts(name, tabid, keys, func, argsOK, junk)

-----------------------------------------------------------------------------
IndexColumnsOf(x) ==
  Search({i \in DOMAIN IndexColumn : IndexColumn[i].idxcolidxid = x.idxid}, x.idxncols)

\* FindIndexDesc() fails with a fatal error unless IndexColumn has as many rows
\* for the index as the row in Index says.
IndexTakenAsIs(x) == TRUE                                            \* mutant
IndexCountMatches(x) == Cardinality(IndexColumnsOf(x)) = x.idxncols

\* The place of row n once the rows at cols are sorted by idxcolid.
Sorted(cols, n) ==
  CHOOSE i \in cols :
    Cardinality({j \in cols : IndexColumn[j].idxcolid < IndexColumn[i].idxcolid}) = n - 1

NewIndexDesc(x) ==
  LET cols == IndexColumnsOf(x)
      fields == 1 .. Cardinality(cols)
  IN [on |-> x.idxtabid,
      keys |-> [n \in fields |-> IndexColumn[Sorted(cols, n)].idxcoltabcolid],
      typid |-> [n \in fields |-> IndexColumn[Sorted(cols, n)].idxcoltypid]]

\* A key schema without fields is a null pointer (Schema::Create()), on which
\* ComputeLayout() is called.
IndexDescOutcome(idxid) ==
  LET i == FindIndex(idxid)
  IN IF idxid \in DOMAIN m_index_desc THEN "ok"
     ELSE IF i = 0 THEN "none"
     ELSE IF ~IndexCountMatches(Index[i]) THEN "fatal"
     ELSE IF IndexColumnsOf(Index[i]) = {} THEN "crash"
     ELSE IF Layout(NewIndexDesc(Index[i]).typid) = "throws" THEN "error" ELSE "ok"

FindIndexDesc(idxid) ==
  LET i == FindIndex(idxid)
  IN /\ m_recid_lookup_table' =
          IF idxid \in DOMAIN m_index_desc THEN m_recid_lookup_table
                                           ELSE Cached("Index", i)
     /\ m_index_desc' =
          IF IndexDescOutcome(idxid) = "ok" /\ idxid \notin DOMAIN m_index_desc
            THEN Extend(m_index_desc, idxid, NewIndexDesc(Index[i]))
            ELSE m_index_desc
     /\ ret' = [op |-> "FindIndexDesc", oid |-> idxid,
                out |-> IndexDescOutcome(idxid)]
     /\ UNCHANGED <<rows, m_next_oid, m_table_desc, made>>

-----------------------------------------------------------------------------
\* Undefined behaviour is the end of a behaviour.
Defined == ret.out \notin {"crash", "undefined"}

Next ==
  /\ Defined
  /\ \/ \E name \in Names :
          \/ LookUpTableByName(name)
          \/ LookUpIndexByName(name)
          \/ \E coltypid \in ColumnLists, long \in LongColumns, argsOK \in BOOLEAN :
               AddTable(name, coltypid, long, argsOK)
          \/ \E tabid \in Oids, keys \in KeyLists, func \in OpFuncs,
                argsOK \in BOOLEAN :
               \E junk \in Junk(keys) :
                 AddIndex(name, tabid, keys, func, argsOK, junk)
     \/ \E oid \in Oids :
          \/ LookUpTable(oid)
          \/ LookUpIndex(oid)
          \/ FindAllIndexesOfTable(oid)
          \/ FindTableDesc(oid)
          \/ FindIndexDesc(oid)

Spec == Init /\ [][Next]_vars

-----------------------------------------------------------------------------
MadeTables == {o \in DOMAIN made : "typid" \in DOMAIN made[o]}
MadeIndexes == {o \in DOMAIN made : "keys" \in DOMAIN made[o]}

\* The files stay within the limit, and only rows of the files are cached.
TypeOK ==
  /\ \A f \in {Table, Column, Index, IndexColumn} : Len(f) <= FileLimit
  /\ Range(Table) \subseteq [tabid : Oids, tabname : Names, tabncols : Nat]
  /\ Range(Column) \subseteq [coltabid : Oids, colid : Nat, coltypid : Types]
  /\ Range(Index) \subseteq
       [idxid : Oids, idxtabid : Oids, idxname : Names, idxncols : Nat]
  /\ Range(IndexColumn) \subseteq
       [idxcolidxid : Oids, idxcolid : Nat, idxcoltabcolid : Int,
        idxcoltypid : Types]
  /\ m_next_oid \in FirstOid .. MaxOid + 1
  /\ m_recid_lookup_table \subseteq
       ({"Table"} \X DOMAIN Table) \union ({"Index"} \X DOMAIN Index)
  /\ DOMAIN m_table_desc \subseteq {t.tabid : t \in Range(Table)}
  /\ DOMAIN m_index_desc \subseteq {x.idxid : x \in Range(Index)}

\* An Oid names one object: no two rows of Table and Index have the same one,
\* also when a call in between has failed after it allocated its Oid.
OneObjectPerOid ==
  /\ \A i, j \in DOMAIN Table : Table[i].tabid = Table[j].tabid => i = j
  /\ \A i, j \in DOMAIN Index : Index[i].idxid = Index[j].idxid => i = j
  /\ \A t \in Range(Table), x \in Range(Index) : t.tabid # x.idxid

\* A descriptor that FindTableDesc() or AddIndex() has put in the cache is that
\* of a table whose AddTable() call has returned, with exactly the columns of
\* that call: the rows a failed call has left are never taken for a table.
DescsAsMade ==
  \A o \in DOMAIN m_table_desc :
    o \in MadeTables /\ m_table_desc[o].typid = made[o].typid

\* The table of an AddTable() call that has returned can be used from then on,
\* whatever fails later: FindTableDesc() finds all its columns.  What is left is
\* the layout of their types, which AddTable() does not try: a table for which
\* ComputeLayout() throws is reported as an error, never as a broken catalog.
MadeTablesUsable ==
  \A o \in MadeTables :
    IF Layout(made[o].typid) = "throws"
      THEN TableDescOutcome(o) = "error"
      ELSE /\ TableDescOutcome(o) = "ok"
           /\ TableDescsAfter(o)[o].typid = made[o].typid

\* Index descriptor desc has the key columns of the AddIndex() call that made
\* index o, in the order given, and each one that is not negative is a column
\* of a table whose AddTable() call has returned, with the same type.
MatchesTable(o, desc) ==
  /\ desc.keys = made[o].keys
  /\ desc.on = made[o].on /\ desc.on \in MadeTables
  /\ \A n \in DOMAIN desc.keys : desc.keys[n] >= 0 =>
       /\ desc.keys[n] + 1 \in DOMAIN made[desc.on].typid
       /\ desc.typid[n] = made[desc.on].typid[desc.keys[n] + 1]

\* The rows of an index whose AddIndex() call has returned make a descriptor
\* that matches the call and the table, also when later calls throw half way.
IndexesMatchTables ==
  \A o \in MadeIndexes : MatchesTable(o, NewIndexDesc(Index[FindIndex(o)]))

\* A descriptor that FindIndexDesc() has put in the cache is that of an index
\* whose AddIndex() call has returned: the rows a failed call has left are
\* never taken for an index, and the cached descriptor does not go stale.
IndexDescsAsMade ==
  \A o \in DOMAIN m_index_desc : o \in MadeIndexes /\ MatchesTable(o, m_index_desc[o])

\* TableDesc.h: GetSchema() "Returns the cached table schema, which we
\* guanrantee `IsLayoutComputed() == true'".
LayoutComputed == \A o \in DOMAIN m_table_desc : m_table_desc[o].computed

\* AddTable() returns only tables that FindTableDesc() can describe.
ReturnedTablesUsable == \A o \in MadeTables : TableDescOutcome(o) = "ok"

\* AddIndex(): "key field ... is out of bound [0, ...)" is an error for every
\* key column that is not one of the table.
KeysInBounds ==
  \A o \in MadeIndexes : \A n \in DOMAIN made[o].keys :
    made[o].keys[n] \in 0 .. Len(made[made[o].on].typid) - 1

\* Table.inc: DEFINE_SYSTABLE_INDEX(Table, true, tabname) makes tabname unique,
\* and SearchForCatalogEntryByName() "assumes there is only one record matching
\* the name".  AddTable() does not look for the name.
TableNamesUnique ==
  \A o, p \in MadeTables : Lower(made[o].name) = Lower(made[p].name) => o = p

\* A table that FindTableByName() finds has a descriptor: FindTableDesc() on it
\* does not meet "the number of entries in Column table does not match
\* tabncols".
NamedTablesUsable ==
  \A name \in Names :
    LET i == FindTableByName(name)
    IN i # 0 => TableDescOutcome(Table[i].tabid) # "fatal"

\* No call dereferences a null pointer: AddIndex() reports a function that is
\* not an operator as an error, and a schema is never created without fields.
NoCrash == ret.out # "crash"

\* Entries of the cache can be used after they are returned: "Currently we do
\* not evict any cached catalog entry".
NoDanglingEntry == ret.out # "undefined"
=============================================================================
