---------------------------- MODULE CatalogInit ----------------------------
(***************************************************************************)
(* InitializeFromInitData() on VolatileCatCache: the catalog files are     *)
(* created from the lines of the init data file, the file IDs that were    *)
(* given to them are filled in in the rows of Table, and the smallest set  *)
(* of descriptors and types that the cache needs is loaded.  Every step    *)
(* may throw; the files made so far stay.  One action handles one line or  *)
(* one record.  Database has the calls that start it and end it.           *)
(*                                                                         *)
(* A line of the init data file is a record with kind "table", "data" or   *)
(* "error", as InitDataFileReader::next() returns it.                      *)
(***************************************************************************)
EXTENDS Integers, Sequences, FiniteSets

CONSTANTS
  InitFiles,   \* the init data files: sequences of lines
  MinTypes,    \* the types of the columns of Table, Type and Column
  MaxRecords,  \* the records an in-memory file has room for
  NoIndex      \* g_test_no_index

INVALID_FID == 0
DBMETA_FID == 1
NoTable == "none"
MinTables == {"Table", "Type", "Column"}

\* A data line comes after a table line, and the rows of Table are those with a
\* file ID.  A table may have any number of sections.
ASSUME InitFilesAssumption ==
  /\ MaxRecords \in Nat \ {0}
  /\ \A f \in InitFiles :
      /\ Len(f) \in Nat /\ DOMAIN f = 1 .. Len(f)
      /\ f # <<>> => f[1].kind # "data"
      /\ \A i \in DOMAIN f : f[i].kind = "table" => f[i].tabid # NoTable
      /\ \A i, j \in DOMAIN f :
           /\ i < j /\ f[i].kind = "table"
           /\ \A k \in i + 1 .. j : f[k].kind = "data"
           => ("tabfid" \in DOMAIN f[j].row <=> f[i].tabid = "Table")

VARIABLES
  init,          \* the init data file
  pc,            \* the step of InitializeFromInitData()
  line,          \* the next line of the reader
  tabid, fid,    \* local variables of LoadInitFile()
  tabid2fid,
  m_systables,   \* the in-memory files; file ID - 1 is the place in this one
  dbmeta,        \* the DB meta page: none, or the file ID of Table in it
  next,          \* the place of the iterator over the file that is scanned
  m_table_desc,  \* tables with a cached descriptor
  types,         \* types in the cache
  m_initialized

catalogVars == <<init, pc, line, tabid, fid, tabid2fid, m_systables, dbmeta, next,
          m_table_desc, types, m_initialized>>

load == <<line, tabid, fid>>
cache == <<m_table_desc, types, m_initialized>>

NoMeta == -1
Empty == [t \in {} |-> INVALID_FID]

CacheInit ==
  /\ init \in InitFiles
  /\ line = 1 /\ tabid = NoTable /\ fid = INVALID_FID
  /\ tabid2fid = Empty
  /\ m_systables = <<>>
  /\ dbmeta = NoMeta
  /\ next = 1
  /\ m_table_desc = {} /\ types = {} /\ m_initialized = FALSE

\* A new cache; and what is left of one that was deleted.
NewCache ==
  /\ line' = 1 /\ tabid' = NoTable /\ fid' = INVALID_FID
  /\ tabid2fid' = Empty
  /\ m_systables' = <<>>
  /\ dbmeta' = NoMeta
  /\ next' = 1
  /\ m_table_desc' = {} /\ types' = {} /\ m_initialized' = FALSE

\* The m_systables place of a file ID, and the file ID of the last file.
File(f) == f - 1
LastFid(files) == Len(files) + 1

Fails == pc' = "failed"

-----------------------------------------------------------------------------
\* CreateDBMeta().  VolatileCatCache has room for one raw file.
AlwaysFree == TRUE                                                   \* mutant
RawFileFree == dbmeta = NoMeta

CreateDBMeta ==
  /\ pc = "meta"
  /\ \/ /\ RawFileFree
        /\ dbmeta' = INVALID_FID
        /\ pc' = "load"
     \/ /\ ~RawFileFree
        /\ Fails
        /\ UNCHANGED dbmeta
  /\ UNCHANGED <<init, load, tabid2fid, m_systables, next, cache>>

\* LoadInitFile(): a table line.  The file of the table before is closed.
ClosedFid == INVALID_FID

NoFileYet == fid = INVALID_FID                                       \* mutant
EmptySection == tabid # NoTable /\ fid = INVALID_FID

LoadTableLine ==
  /\ pc = "load"
  /\ line <= Len(init) /\ init[line].kind = "table"
  /\ \/ /\ ~EmptySection
        /\ tabid' = init[line].tabid
        /\ fid' = ClosedFid
        /\ line' = line + 1
        /\ UNCHANGED pc
     \/ /\ EmptySection
        /\ Fails
        /\ UNCHANGED load
  /\ UNCHANGED <<init, tabid2fid, m_systables, dbmeta, next, cache>>

\* A data line.  The first one after a table line creates a file; the table gets
\* it, unless it has one from a section before.  Every row is then appended,
\* once; a file that is full takes no more.
AppendedTwice(row) == <<row, row>>                                   \* mutant
NewFile(row) == <<row>>

HasRoom == fid # INVALID_FID => Len(m_systables[File(fid)]) < MaxRecords

LoadDataLine ==
  LET row == init[line].row
  IN /\ pc = "load"
     /\ line <= Len(init) /\ init[line].kind = "data"
     /\ HasRoom
     /\ \/ /\ fid = INVALID_FID
           /\ m_systables' = Append(m_systables, NewFile(row))
           /\ fid' = LastFid(m_systables')
           /\ tabid2fid' = [t \in DOMAIN tabid2fid \union {tabid} |->
                              IF t \in DOMAIN tabid2fid THEN tabid2fid[t] ELSE fid']
        \/ /\ fid # INVALID_FID
           /\ m_systables' = [m_systables EXCEPT ![File(fid)] = Append(@, row)]
           /\ UNCHANGED <<fid, tabid2fid>>
     /\ line' = line + 1
     /\ UNCHANGED <<init, pc, tabid, dbmeta, next, cache>>

\* AppendRecord() throws.
LoadFull ==
  /\ pc = "load"
  /\ line <= Len(init) /\ init[line].kind = "data"
  /\ ~HasRoom
  /\ Fails
  /\ UNCHANGED <<init, load, tabid2fid, m_systables, dbmeta, next, cache>>

LoadErrorLine ==
  /\ pc = "load"
  /\ line <= Len(init) /\ init[line].kind = "error"
  /\ Fails
  /\ UNCHANGED <<init, load, tabid2fid, m_systables, dbmeta, next, cache>>

\* The end of the file, and the beginning of FinishInitCatalog().
LoadEof ==
  /\ pc = "load"
  /\ line > Len(init)
  /\ IF "Table" \in DOMAIN tabid2fid THEN pc' = "fix" ELSE Fails
  /\ next' = 1
  /\ UNCHANGED <<init, load, tabid2fid, m_systables, dbmeta, cache>>

-----------------------------------------------------------------------------
\* FinishInitCatalog(), step 1: the next row of Table gets its file ID.  Only a
\* fixed-length field changes, so the record is updated in place.
TableFile == File(tabid2fid["Table"])

FixTabfid ==
  LET row == m_systables[TableFile][next]
  IN /\ pc = "fix"
     /\ next <= Len(m_systables[TableFile])
     /\ \/ /\ row.tabfid = INVALID_FID /\ row.tabid \in DOMAIN tabid2fid
           /\ m_systables' =
                [m_systables EXCEPT ![TableFile][next].tabfid = tabid2fid[row.tabid]]
           /\ next' = next + 1
           /\ UNCHANGED pc
        \/ /\ row.tabfid # INVALID_FID \/ row.tabid \notin DOMAIN tabid2fid
           /\ Fails
           /\ UNCHANGED <<m_systables, next>>
     /\ UNCHANGED <<init, load, tabid2fid, dbmeta, cache>>

\* Step 2.
WriteTableFid ==
  /\ pc = "fix"
  /\ next > Len(m_systables[TableFile])
  /\ dbmeta' = tabid2fid["Table"]
  /\ pc' = "tables"
  /\ next' = 1
  /\ UNCHANGED <<init, load, tabid2fid, m_systables, cache>>

-----------------------------------------------------------------------------
\* LoadMinCache(), step 2: descriptors for Table, Type and Column, from their
\* rows in the file that the meta page names.  It counts rows, not tables: after
\* three of them it stops, whichever tables they are for.
Rows == m_systables[File(dbmeta)]

NumFound(rows, n) == Cardinality({i \in 1 .. n : rows[i].tabid \in MinTables})

ScanTables ==
  /\ pc = "tables"
  /\ next <= Len(Rows) /\ NumFound(Rows, next - 1) < 3
  /\ m_table_desc' = m_table_desc \union ({Rows[next].tabid} \intersect MinTables)
  /\ next' = next + 1
  /\ UNCHANGED <<init, pc, load, tabid2fid, m_systables, dbmeta, types,
                 m_initialized>>

\* Step 3 needs all three descriptors (FindTableDesc() asserts it).
CollectTypes ==
  /\ pc = "tables"
  /\ next > Len(Rows) \/ NumFound(Rows, next - 1) >= 3
  /\ IF m_table_desc = MinTables THEN pc' = "types" ELSE Fails
  /\ next' = 1
  /\ UNCHANGED <<init, load, tabid2fid, m_systables, dbmeta, cache>>

\* Step 4: the rows of the needed types, from the file that the row of Type in
\* Table names (all rows of Type name the same); again as many as are needed,
\* whichever types they are for.
TypeRows ==
  LET i == CHOOSE k \in DOMAIN Rows : Rows[k].tabid = "Type"
  IN m_systables[File(Rows[i].tabfid)]

NumTypesFound ==
  Cardinality({i \in 1 .. next - 1 : TypeRows[i].typid \in MinTypes})

ScanTypes ==
  /\ pc = "types"
  /\ next <= Len(TypeRows) /\ NumTypesFound < Cardinality(MinTypes)
  /\ types' = types \union ({TypeRows[next].typid} \intersect MinTypes)
  /\ next' = next + 1
  /\ UNCHANGED <<init, pc, load, tabid2fid, m_systables, dbmeta, m_table_desc,
                 m_initialized>>

FinishMinCache ==
  /\ pc = "types"
  /\ next > Len(TypeRows) \/ NumTypesFound >= Cardinality(MinTypes)
  /\ m_initialized' = TRUE
  /\ pc' = "indexes"
  /\ UNCHANGED <<init, load, tabid2fid, m_systables, dbmeta, next, m_table_desc,
                 types>>

\* CheckIndexes(): there is no index support.
CheckIndexes ==
  /\ pc = "indexes"
  /\ IF NoIndex THEN pc' = "done" ELSE Fails
  /\ UNCHANGED <<init, load, tabid2fid, m_systables, dbmeta, next, cache>>

\* InitializeFromInitData() is called on a cache on which it was called before.
InitializeAgain ==
  /\ pc' = "meta"
  /\ line' = 1 /\ tabid' = NoTable /\ fid' = INVALID_FID
  /\ tabid2fid' = Empty
  /\ UNCHANGED <<init, m_systables, dbmeta, next, cache>>

Initialize ==
  \/ CreateDBMeta
  \/ LoadTableLine \/ LoadDataLine \/ LoadFull \/ LoadErrorLine \/ LoadEof
  \/ FixTabfid \/ WriteTableFid
  \/ ScanTables \/ CollectTypes \/ ScanTypes \/ FinishMinCache
  \/ CheckIndexes

-----------------------------------------------------------------------------
\* The lines after b up to e are the first rows of the section that begins at b.
InSection(b, e) ==
  /\ b <= e /\ init[b].kind = "table"
  /\ \A j \in b + 1 .. e : init[j].kind = "data"

Sections == {init[i].tabid : i \in {j \in DOMAIN init : init[j].kind = "table"}}

\* The rows that the init data file has for table t, in the first section of t.
FirstLine(b, t) ==
  /\ b \in DOMAIN init /\ init[b].kind = "table" /\ init[b].tabid = t
  /\ \A c \in 1 .. b - 1 : init[c].kind = "table" => init[c].tabid # t

SectionBegin(t) == CHOOSE i \in DOMAIN init : FirstLine(i, t)

SectionOf(t) ==
  LET b == SectionBegin(t)
  IN [k \in 1 .. Cardinality({e \in DOMAIN init : e # b /\ InSection(b, e)}) |->
        init[b + k].row]

TableRows == SectionOf("Table")
Listed == {TableRows[k].tabid : k \in DOMAIN TableRows}

\* What LoadInitFile() and FinishInitCatalog() ask of an init data file: no line
\* that cannot be parsed, no section without rows except at the end, and none
\* that is too long; a section of Table, and one with rows for every table that
\* Table lists, none of which has a file ID yet.
Loadable ==
  /\ \A i \in DOMAIN init :
       /\ init[i].kind # "error"
       /\ init[i].kind = "table" => i = Len(init) \/ init[i + 1].kind = "data"
  /\ \A b, e \in DOMAIN init : InSection(b, e) => e - b <= MaxRecords
  /\ "Table" \in Sections
  /\ Listed \subseteq Sections
  /\ \A t \in Listed : SectionOf(t) # <<>>
  /\ \A k \in DOMAIN TableRows : TableRows[k].tabfid = INVALID_FID

\* The tables among the first three rows that LoadMinCache() finds.
FoundTables(rows) ==
  MinTables \intersect
    {rows[i].tabid : i \in {k \in DOMAIN rows : NumFound(rows, k - 1) < 3}}

WellFormed == Loadable /\ FoundTables(TableRows) = MinTables

\* In an initialized catalog the file that Table names for a table holds the
\* rows of the first section that the init data file has for it, all of them and
\* no others, and the meta page leads to Table.
TabfidsRight ==
  m_initialized =>
    \A r \in {Rows[i] : i \in DOMAIN Rows} :
      IF r.tabid = "Table"
        THEN File(r.tabfid) = File(dbmeta)
        ELSE m_systables[File(r.tabfid)] = SectionOf(r.tabid)

\* Every row of the init data file is in the file that Table names for its table.
EveryRowLoaded ==
  m_initialized =>
    \A b, e \in DOMAIN init, k \in DOMAIN Rows :
      b # e /\ InSection(b, e) /\ init[b].tabid = Rows[k].tabid /\ init[b].tabid # "Table"
        => LET file == m_systables[File(Rows[k].tabfid)]
           IN \E i \in DOMAIN file : file[i] = init[e].row

\* CatCacheBase.h: IsInitialized() "Returns if the catalog cache has been
\* initialized"; a call that has thrown has not initialized it.
InitializedMeansReturned == m_initialized => pc # "failed"
=============================================================================
