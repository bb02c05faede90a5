--------------------------- MODULE DatabaseProofs ---------------------------
(***************************************************************************)
(* Proofs about Database for any init data files: a database that says it  *)
(* is open has a complete catalog, in an initialized catalog the file IDs  *)
(* in Table lead to the rows of the init data file, and no call changes    *)
(* the catalog of a database that stays open.                              *)
(***************************************************************************)
EXTENDS Database, FiniteSetTheorems, TLAPS

TableLine(b, t) == b \in DOMAIN init /\ init[b].kind = "table" /\ init[b].tabid = t

AllData(b, e) == \A j \in b + 1 .. e : init[j].kind = "data"

\* Of the lines before line n, the rows of the first section of table t are those
\* after b up to e.
Section(t, b, e, n) ==
  /\ FirstLine(b, t)
  /\ b <= e /\ e < n /\ AllData(b, e)
  /\ e = n - 1 \/ init[e + 1].kind # "data"

\* The lines before line n have no error, and every table line among them but
\* the last has a row and its table a file.
ReadUpTo(n) ==
  \A i \in 1 .. n - 1 :
    /\ init[i].kind # "error"
    /\ init[i].kind = "table" =>
         i = n - 1 \/ (init[i].tabid \in DOMAIN tabid2fid /\ init[i + 1].kind = "data")

\* No section has more rows before line n than a file has room for.
Fits(n) == \A b, e \in 1 .. n - 1 : InSection(b, e) => e - b <= MaxRecords

\* Every table has a file of its own.
FilesApart ==
  /\ Len(m_systables) \in Nat /\ m_systables = [i \in 1 .. Len(m_systables) |-> m_systables[i]]
  /\ \A t \in DOMAIN tabid2fid : tabid2fid[t] \in 2 .. Len(m_systables) + 1
  /\ \A t, u \in DOMAIN tabid2fid : tabid2fid[t] = tabid2fid[u] => t = u

\* The file of table t has the rows of the lines before line n.
Loaded(t, n) ==
  \E b, e \in 0 .. Len(init) :
    /\ b < e /\ Section(t, b, e, n)
    /\ m_systables[File(tabid2fid[t])] = [k \in 1 .. e - b |-> init[b + k].row]

\* The file that is being filled has the rows of the section at b so far.  It is
\* the file of the table if this is its first section, and of no table if not.
OpenFile(b) ==
  /\ tabid \in DOMAIN tabid2fid
  /\ fid \in 2 .. Len(m_systables) + 1
  /\ FirstLine(b, tabid) <=> fid = tabid2fid[tabid]
  /\ \A t \in DOMAIN tabid2fid : tabid2fid[t] = fid => t = tabid
  /\ m_systables[File(fid)] = [k \in 1 .. (line - 1) - b |-> init[b + k].row]

\* The section that is being read.
Reading ==
  \/ /\ tabid = NoTable /\ line = 1 /\ fid = INVALID_FID
  \/ /\ tabid # NoTable
     /\ \E b \in 1 .. line - 1 :
          /\ TableLine(b, tabid) /\ AllData(b, line - 1)
          /\ fid = INVALID_FID <=> b = line - 1
          /\ fid # INVALID_FID => OpenFile(b)

LoadInv ==
  /\ line \in 1 .. Len(init) + 1
  /\ ReadUpTo(line) /\ Fits(line) /\ FilesApart /\ Reading
  /\ \A t \in DOMAIN tabid2fid : Loaded(t, line)

\* Row k of Table, from line b + k, has the file ID of its table once fixed.
Fixed(row, k, b, fixed) ==
  /\ row.tabid = init[b + k].row.tabid /\ "tabfid" \in DOMAIN row
  /\ fixed => /\ row.tabid \in DOMAIN tabid2fid /\ row.tabfid = tabid2fid[row.tabid]
              /\ init[b + k].row.tabfid = INVALID_FID
  /\ ~fixed => row.tabfid = init[b + k].row.tabfid

TableFixed(n) ==
  \E b, e \in 0 .. Len(init) :
    /\ b < e /\ Section("Table", b, e, Len(init) + 1)
    /\ m_systables[TableFile] = [k \in 1 .. e - b |-> m_systables[TableFile][k]]
    /\ \A k \in 1 .. e - b : Fixed(m_systables[TableFile][k], k, b, k < n)

FixInv ==
  /\ ReadUpTo(Len(init) + 1) /\ Fits(Len(init) + 1) /\ FilesApart
  /\ \A t \in DOMAIN tabid2fid \ {"Table"} : Loaded(t, Len(init) + 1)
  /\ "Table" \in DOMAIN tabid2fid
  /\ TableFixed(next)

\* The meta page leads to Table, and Table to the files of the listed tables.
Filled ==
  /\ Len(Rows) \in Nat /\ DOMAIN Rows = 1 .. Len(Rows) /\ DOMAIN TableRows = DOMAIN Rows
  /\ \A k \in DOMAIN Rows :
       /\ Rows[k].tabid = TableRows[k].tabid
       /\ IF Rows[k].tabid = "Table"
            THEN Rows[k].tabfid = dbmeta
            ELSE m_systables[File(Rows[k].tabfid)] = SectionOf(Rows[k].tabid)

\* The descriptors are those of the rows that were scanned; the scan has found
\* all three tables.
Scanned ==
  m_table_desc = MinTables \intersect
    {Rows[i].tabid : i \in {k \in DOMAIN Rows : k < next /\ NumFound(Rows, k - 1) < 3}}

MinFound == FoundTables(Rows) = MinTables

Fresh ==
  /\ line = 1 /\ tabid = NoTable /\ fid = INVALID_FID
  /\ tabid2fid = Empty /\ m_systables = <<>>
  /\ m_table_desc = {} /\ ~m_initialized

Control ==
  /\ pc \in {"meta", "load", "fix", "tables", "types", "indexes", "done", "failed"}
       => m_catcache
  /\ pc \in {"load", "fix", "tables", "types"} => ~m_initialized
  /\ pc \in {"load", "fix"} => m_table_desc = {}
  /\ pc \in {"indexes", "done"} => m_initialized
  /\ m_catcache /\ pc \notin {"meta", "crashed"} => dbmeta # NoMeta
  /\ dbmeta = NoMeta => Fresh
  /\ is_open /\ ~g_test_no_catcache => m_catcache /\ m_initialized
  /\ g_test_no_catcache => ~m_catcache

IInv ==
  /\ init \in InitFiles /\ next \in Nat \ {0} /\ m_initialized \in BOOLEAN
  /\ Control
  /\ pc = "load" => LoadInv
  /\ pc = "fix" => FixInv
  /\ pc \in {"tables", "types"} \/ m_initialized => Filled /\ Loadable
  /\ pc = "tables" => Scanned
  /\ pc = "types" \/ m_initialized => m_table_desc = MinTables /\ MinFound

-----------------------------------------------------------------------------
(***************************************************************************)
(* The init data file.                                                     *)
(***************************************************************************)
LEMMA LineFacts ==
  ASSUME init \in InitFiles
  PROVE  /\ Len(init) \in Nat /\ DOMAIN init = 1 .. Len(init)
         /\ 1 \in DOMAIN init => init[1].kind # "data"
         /\ \A i \in DOMAIN init : init[i].kind = "table" => init[i].tabid # NoTable
         /\ \A i, j \in DOMAIN init :
              i < j /\ init[i].kind = "table" /\ AllData(i, j)
                => ("tabfid" \in DOMAIN init[j].row <=> init[i].tabid = "Table")
<1> PICK f \in InitFiles : f = init
  OBVIOUS
<1>1. 1 \in DOMAIN f => f # <<>>
  OBVIOUS
<1> QED BY <1>1, InitFilesAssumption DEF AllData

LEMMA OneFirstLine ==
  ASSUME init \in InitFiles, NEW t, NEW b, NEW c, FirstLine(b, t), FirstLine(c, t)
  PROVE  b = c
<1>1. b \in Nat /\ c \in Nat /\ 1 <= b /\ 1 <= c
  BY LineFacts DEF FirstLine
<1>2. b < c => b \in 1 .. c - 1
  BY <1>1
<1>3. c < b => c \in 1 .. b - 1
  BY <1>1
<1> QED BY <1>1, <1>2, <1>3 DEF FirstLine

\* Two sections that reach the same row are one.
LEMMA OneSection ==
  ASSUME NEW b \in Nat, NEW c \in Nat, NEW e \in Nat, b < e, c < e,
         init[b].kind = "table", init[c].kind = "table", AllData(b, e), AllData(c, e)
  PROVE  b = c
<1>1. b < c => c \in b + 1 .. e
  OBVIOUS
<1>2. c < b => b \in c + 1 .. e
  OBVIOUS
<1> QED BY <1>1, <1>2 DEF AllData

\* The rows between two lines of a section are all of the section.
LEMMA SectionRows ==
  ASSUME init \in InitFiles, NEW t, NEW b \in Nat, NEW e \in Nat,
         Section(t, b, e, Len(init) + 1)
  PROVE  /\ SectionOf(t) = [k \in 1 .. e - b |-> init[b + k].row]
         /\ t \in Sections
<1> DEFINE In(i) == i # b /\ InSection(b, i)
           all == {i \in DOMAIN init : In(i)}
<1>1. PICK n \in Nat : n = Len(init) /\ DOMAIN init = 1 .. n
  BY LineFacts
<1>2. /\ FirstLine(b, t) /\ b <= e /\ e <= n
      /\ \A j \in b + 1 .. e : init[j].kind = "data"
      /\ e = n \/ init[e + 1].kind # "data"
  <2>1. /\ FirstLine(b, t) /\ b <= e /\ e < n + 1
        /\ \A j \in b + 1 .. e : init[j].kind = "data"
        /\ e = (n + 1) - 1 \/ init[e + 1].kind # "data"
    BY <1>1 DEF Section, AllData
  <2> QED BY <2>1
<1>3. SectionBegin(t) = b
  <2>1. b \in DOMAIN init
    BY <1>2 DEF FirstLine
  <2>2. \A i \in DOMAIN init : FirstLine(i, t) => i = b
    BY <1>2, OneFirstLine
  <2> QED BY <1>2, <2>1, <2>2 DEF SectionBegin
<1>4. all = b + 1 .. e
  <2>1. ASSUME NEW i \in b + 1 .. e PROVE i \in all
    <3>1. /\ \A j \in b + 1 .. i : j \in b + 1 .. e
          /\ i > b /\ i \in 1 .. n
      BY <1>2
    <3>2. In(i)
      BY <1>2, <3>1 DEF FirstLine, InSection
    <3> QED BY <1>1, <3>1, <3>2
  <2>2. ASSUME NEW i \in 1 .. n, In(i) PROVE i \in b + 1 .. e
    <3>0. b < i /\ \A j \in b + 1 .. i : init[j].kind = "data"
      BY <2>2 DEF InSection
    <3>1. SUFFICES ASSUME i > e PROVE FALSE
      BY <3>0
    <3>2. e + 1 \in b + 1 .. i /\ e # n
      BY <1>2, <3>1
    <3> QED BY <1>2, <3>0, <3>2
  <2> HIDE DEF In
  <2> QED BY <1>1, <2>1, <2>2
<1>5. Cardinality(b + 1 .. e) = e - b
  <2>1. Cardinality(b + 1 .. e) = IF b + 1 <= e THEN e - (b + 1) + 1 ELSE 0
    BY FS_Interval
  <2> QED BY <1>2, <2>1
<1>6. SectionOf(t) = [k \in 1 .. Cardinality(all) |-> init[b + k].row]
  BY <1>3 DEF SectionOf
<1> HIDE DEF all
<1>7. SectionOf(t) = [k \in 1 .. e - b |-> init[b + k].row]
  BY <1>4, <1>5, <1>6
<1>8. t \in Sections
  BY <1>2 DEF FirstLine, Sections
<1> QED BY <1>7, <1>8

LEMMA AppendRow ==
  ASSUME NEW s, NEW n \in Nat, s = [i \in 1 .. n |-> s[i]], NEW x
  PROVE  /\ Len(s) = n /\ Len(Append(s, x)) = n + 1
         /\ Append(s, x) = [i \in 1 .. n + 1 |-> IF i <= n THEN s[i] ELSE x]
         /\ Append(s, x) = [i \in 1 .. n + 1 |-> Append(s, x)[i]]
<1> DEFINE S == {s[i] : i \in 1 .. n} \union {x}
<1>1. s \in [1 .. n -> S]
  OBVIOUS
<1> HIDE DEF S
<1>2. s \in Seq(S) /\ Len(s) = n /\ x \in S
  BY <1>1 DEF S
<1>3. Append(s, x) = [i \in 1 .. n + 1 |-> IF i <= n THEN s[i] ELSE x]
  BY <1>2
<1> QED BY <1>2, <1>3

-----------------------------------------------------------------------------
(***************************************************************************)
(* LoadInitFile().                                                         *)
(***************************************************************************)
LEMMA LoadTableLineKeeps ==
  ASSUME init \in InitFiles, LoadInv, LoadTableLine, pc' = "load"
  PROVE  LoadInv'
<1>1. /\ init' = init /\ tabid2fid' = tabid2fid /\ m_systables' = m_systables
      /\ line' = line + 1 /\ tabid' = init[line].tabid /\ fid' = INVALID_FID
      /\ line <= Len(init) /\ init[line].kind = "table" /\ ~EmptySection
  BY DEF LoadTableLine, Fails, load, ClosedFid
<1>2. Len(init) \in Nat /\ DOMAIN init = 1 .. Len(init) /\ line \in 1 .. Len(init)
  BY <1>1, LineFacts DEF LoadInv
<1>3. FilesApart'
  BY <1>1 DEF LoadInv, FilesApart
<1>4. ASSUME NEW i \in 1 .. line - 1, init[i].kind = "table"
      PROVE  init[i].tabid \in DOMAIN tabid2fid /\ init[i + 1].kind = "data"
  <2>1. CASE i = line - 1
    <3>1. line # 1
      BY <1>2
    <3>2. PICK b \in 1 .. line - 1 :
            /\ TableLine(b, tabid) /\ AllData(b, line - 1)
            /\ fid = INVALID_FID <=> b = line - 1
      BY <3>1 DEF LoadInv, Reading
    <3>3. b = line - 1
      <4>1. b < line - 1 => line - 1 \in b + 1 .. line - 1
        BY <1>2
      <4> QED BY <1>2, <1>4, <2>1, <3>2, <4>1 DEF AllData
    <3>4. EmptySection
      BY <3>1, <3>2, <3>3 DEF EmptySection, LoadInv, Reading
    <3> QED BY <1>1, <3>4
  <2>2. CASE i # line - 1
    BY <1>4, <2>2 DEF LoadInv, ReadUpTo
  <2> QED BY <2>1, <2>2
<1>5. ReadUpTo(line)'
  <2>1. \A i \in 1 .. line - 1 : init[i].kind # "error"
    BY DEF LoadInv, ReadUpTo
  <2>2. \A i \in 1 .. line : i \in 1 .. line - 1 \/ i = line
    BY <1>2
  <2>3. \A i \in 1 .. line :
          /\ init[i].kind # "error"
          /\ init[i].kind = "table" =>
               i = line \/ (init[i].tabid \in DOMAIN tabid2fid /\ init[i + 1].kind = "data")
    BY <1>1, <1>4, <2>1, <2>2
  <2>4. (line + 1) - 1 = line
    BY <1>2
  <2>5. ReadUpTo(line + 1)
    BY <2>3, <2>4 DEF ReadUpTo
  <2> QED BY <1>1, <2>5 DEF ReadUpTo
<1>6. Fits(line)'
  <2> SUFFICES ASSUME NEW b \in 1 .. line, NEW e \in 1 .. line, InSection(b, e)
               PROVE  e - b <= MaxRecords
    <3>1. line' - 1 = line
      BY <1>1, <1>2
    <3> QED BY <1>1, <3>1 DEF Fits, InSection
  <2>1. CASE e = line
    <3>1. b < e => e \in b + 1 .. e
      BY <1>2
    <3>2. b = e
      BY <1>1, <1>2, <2>1, <3>1 DEF InSection
    <3> QED BY <1>2, <3>2, InitFilesAssumption
  <2>2. CASE e # line
    <3>1. b \in 1 .. line - 1 /\ e \in 1 .. line - 1
      BY <1>2, <2>2 DEF InSection
    <3> QED BY <3>1 DEF LoadInv, Fits
  <2> QED BY <2>1, <2>2
<1>7. Reading'
  <2>1. TableLine(line, init[line].tabid) /\ init[line].tabid # NoTable
    BY <1>1, <1>2, LineFacts DEF TableLine
  <2>2. line + 1 - 1 = line /\ line \in 1 .. line + 1 - 1 /\ line + 1 .. line = {}
    BY <1>2
  <2>3. AllData(line, line + 1 - 1)
    BY <2>2 DEF AllData
  <2> QED BY <1>1, <2>1, <2>2, <2>3 DEF Reading, TableLine, AllData
<1>8. ASSUME NEW t \in DOMAIN tabid2fid
      PROVE  Loaded(t, line)'
  <2>1. PICK b \in 0 .. Len(init), e \in 0 .. Len(init) :
          /\ b < e /\ Section(t, b, e, line)
          /\ m_systables[File(tabid2fid[t])] = [k \in 1 .. e - b |-> init[b + k].row]
    BY DEF LoadInv, Loaded
  <2>2. Section(t, b, e, line + 1)
    <3>1. e = line - 1 => init[e + 1].kind # "data"
      BY <1>1, <1>2
    <3> QED BY <1>2, <2>1, <3>1 DEF Section
  <2>3. Section(t, b, e, line)'
    BY <1>1, <2>2 DEF Section, FirstLine, AllData
  <2> QED BY <1>1, <2>1, <2>3 DEF Loaded
<1> QED BY <1>1, <1>2, <1>3, <1>5, <1>6, <1>7, <1>8 DEF LoadInv

\* What a data line does to ReadUpTo and Reading, whichever file gets the row.
LEMMA DataLineRead ==
  ASSUME init \in InitFiles, LoadInv, init' = init, line' = line + 1, tabid' = tabid,
         line \in DOMAIN init, init[line].kind = "data",
         NEW b \in 1 .. line - 1, TableLine(b, tabid), AllData(b, line - 1),
         line - b <= MaxRecords,
         \A t \in DOMAIN tabid2fid : t \in DOMAIN tabid2fid',
         OpenFile(b)', fid' # INVALID_FID
  PROVE  line' \in 1 .. Len(init') + 1 /\ ReadUpTo(line)' /\ Fits(line)' /\ Reading'
<1> PICK l : l = line
  OBVIOUS
<1>1. Len(init) \in Nat /\ DOMAIN init = 1 .. Len(init) /\ l \in 1 .. Len(init)
      /\ l \in Nat /\ b \in Nat /\ b <= l - 1 /\ 1 <= b
  BY LineFacts
<1>2. AllData(b, l) /\ b \in 1 .. l - 1 /\ b \in 1 .. (l + 1) - 1
  <2>1. \A j \in b + 1 .. l : j \in b + 1 .. l - 1 \/ j = l
    BY <1>1
  <2> QED BY <1>1, <2>1 DEF AllData
<1>3. ASSUME NEW i \in 1 .. l
      PROVE  /\ init[i].kind # "error"
             /\ init[i].kind = "table" =>
                  init[i].tabid \in DOMAIN tabid2fid' /\ init[i + 1].kind = "data"
  <2>1. CASE i = l
    BY <2>1
  <2>2. CASE i # l
    <3>1. i \in 1 .. l - 1 /\ (l - 1) + 1 = l
      BY <1>1, <2>2
    <3>2. init[i].kind = "table" /\ i = l - 1 => i = b
      <4>1. b < l - 1 => l - 1 \in b + 1 .. l - 1
        BY <1>1
      <4> QED BY <1>1, <4>1 DEF AllData
    <3>3. init[b].tabid \in DOMAIN tabid2fid'
      BY DEF TableLine, OpenFile
    <3>4. /\ init[i].kind # "error"
          /\ init[i].kind = "table" =>
               i = l - 1 \/ (init[i].tabid \in DOMAIN tabid2fid /\ init[i + 1].kind = "data")
      BY <3>1 DEF LoadInv, ReadUpTo
    <3> QED BY <3>1, <3>2, <3>3, <3>4
  <2> QED BY <2>1, <2>2
<1>4. (l + 1) - 1 = l /\ line' - 1 = l /\ l + 1 \in 1 .. Len(init) + 1
  BY <1>1
<1>5. ReadUpTo(line)'
  BY <1>3, <1>4 DEF ReadUpTo
<1>6. Fits(line)'
  <2> SUFFICES ASSUME NEW c \in 1 .. l, NEW e \in 1 .. l, InSection(c, e)
               PROVE  e - c <= MaxRecords
    BY <1>4 DEF Fits, InSection
  <2>1. CASE e = l
    <3>1. c < l
      BY <1>1, <2>1 DEF InSection
    <3>2. AllData(c, l) /\ init[c].kind = "table" /\ c \in Nat
      BY <2>1 DEF InSection, AllData
    <3>3. c = b
      <4>1. b < l /\ init[b].kind = "table"
        BY <1>1 DEF TableLine
      <4> QED BY <1>1, <1>2, <3>1, <3>2, <4>1, OneSection
    <3> QED BY <2>1, <3>3
  <2>2. CASE e # l
    <3>1. c \in 1 .. l - 1 /\ e \in 1 .. l - 1
      BY <1>1, <2>2 DEF InSection
    <3> QED BY <3>1 DEF LoadInv, Fits
  <2> QED BY <2>1, <2>2
<1>7. Reading'
  <2>1. TableLine(b, tabid)' /\ AllData(b, line - 1)'
    BY <1>2, <1>4 DEF TableLine, AllData
  <2>2. tabid # NoTable
    BY LineFacts DEF TableLine
  <2>3. b # line' - 1 /\ b \in 1 .. line' - 1
    BY <1>1, <1>4
  <2> QED BY <2>1, <2>2, <2>3, Zenon DEF Reading
<1> QED BY <1>4, <1>5, <1>6, <1>7

\* The first row of a section: a file is created, for the table if it has none.
LEMMA FirstRowKeeps ==
  ASSUME init \in InitFiles, LoadInv, LoadDataLine, fid = INVALID_FID
  PROVE  LoadInv'
<1> PICK l : l = line
  OBVIOUS
<1> PICK n : n = Len(m_systables)
  OBVIOUS
<1> PICK row : row = init[line].row
  OBVIOUS
<1>1. /\ init' = init /\ line' = line + 1 /\ tabid' = tabid
      /\ line <= Len(init) /\ init[line].kind = "data"
      /\ m_systables' = Append(m_systables, <<row>>)
      /\ fid' = Len(m_systables') + 1
      /\ tabid2fid' = [t \in DOMAIN tabid2fid \union {tabid} |->
                         IF t \in DOMAIN tabid2fid THEN tabid2fid[t] ELSE fid']
  BY DEF LoadDataLine, NewFile, LastFid
<1>2. /\ Len(init) \in Nat /\ DOMAIN init = 1 .. Len(init) /\ l \in 1 .. Len(init)
      /\ l \in Nat /\ n \in Nat
  BY <1>1, LineFacts DEF LoadInv, FilesApart
<1>3. /\ l - 1 \in 1 .. l - 1 /\ TableLine(l - 1, tabid) /\ AllData(l - 1, l - 1)
  <2>1. tabid # NoTable
    BY <1>1, <1>2, LineFacts DEF LoadInv, Reading
  <2> QED BY <1>2, <2>1 DEF LoadInv, Reading
<1>4. FirstLine(l - 1, tabid) <=> tabid \notin DOMAIN tabid2fid
  <2>1. ASSUME tabid \in DOMAIN tabid2fid, FirstLine(l - 1, tabid)
        PROVE  FALSE
    <3>1. PICK b \in 0 .. Len(init), e \in 0 .. Len(init) : b < e /\ Section(tabid, b, e, l)
      BY <2>1 DEF LoadInv, Loaded
    <3>2. b = l - 1
      BY <2>1, <3>1, OneFirstLine DEF Section
    <3> QED BY <1>2, <3>1, <3>2 DEF Section
  <2>2. ASSUME tabid \notin DOMAIN tabid2fid
        PROVE  FirstLine(l - 1, tabid)
    <3>1. ASSUME NEW c \in 1 .. (l - 1) - 1, init[c].kind = "table"
          PROVE  init[c].tabid # tabid
      <4>1. c \in 1 .. l - 1 /\ c # l - 1
        BY <1>2
      <4>2. init[c].tabid \in DOMAIN tabid2fid
        BY <3>1, <4>1 DEF LoadInv, ReadUpTo
      <4> QED BY <2>2, <4>2
    <3> QED BY <1>3, <3>1 DEF FirstLine, TableLine
  <2> QED BY <2>1, <2>2
<1>5. /\ Len(m_systables') = n + 1
      /\ m_systables' = [i \in 1 .. n + 1 |-> m_systables'[i]]
      /\ \A i \in 1 .. n : m_systables'[i] = m_systables[i]
      /\ m_systables'[n + 1] = <<row>>
  <2>1. m_systables = [i \in 1 .. n |-> m_systables[i]]
    BY DEF LoadInv, FilesApart
  <2> PICK s : s = m_systables
    OBVIOUS
  <2>2. /\ Len(Append(s, <<row>>)) = n + 1
        /\ Append(s, <<row>>) = [i \in 1 .. n + 1 |-> IF i <= n THEN s[i] ELSE <<row>>]
    BY <1>2, <2>1, AppendRow
  <2>3. m_systables' = Append(s, <<row>>)
    BY <1>1
  <2> QED BY <1>2, <2>2, <2>3
<1>6. /\ DOMAIN tabid2fid' = DOMAIN tabid2fid \union {tabid}
      /\ \A t \in DOMAIN tabid2fid : tabid2fid'[t] = tabid2fid[t]
      /\ tabid \notin DOMAIN tabid2fid => tabid2fid'[tabid] = n + 2
      /\ fid' = n + 2 /\ n + 2 # INVALID_FID
  BY <1>1, <1>2, <1>5 DEF INVALID_FID
<1>7. \A t \in DOMAIN tabid2fid : tabid2fid[t] \in 2 .. n + 1 /\ tabid2fid[t] # n + 2
  <2>1. \A t \in DOMAIN tabid2fid : tabid2fid[t] \in 2 .. n + 1
    BY DEF LoadInv, FilesApart
  <2> QED BY <1>2, <2>1
<1>8. FilesApart'
  <2>1. \A t \in DOMAIN tabid2fid' : tabid2fid'[t] \in 2 .. (n + 1) + 1
    BY <1>2, <1>6, <1>7
  <2>2. \A t, u \in DOMAIN tabid2fid' : tabid2fid'[t] = tabid2fid'[u] => t = u
    <3>1. \A t, u \in DOMAIN tabid2fid : tabid2fid[t] = tabid2fid[u] => t = u
      BY DEF LoadInv, FilesApart
    <3> QED BY <1>6, <1>7, <3>1
  <2> QED BY <1>2, <1>5, <2>1, <2>2 DEF FilesApart
<1>9. m_systables'[n + 1] = [k \in 1 .. l - (l - 1) |-> init[(l - 1) + k].row]
  <2>1. 1 .. l - (l - 1) = {1} /\ (l - 1) + 1 = l
    BY <1>2
  <2>2. [k \in {1} |-> init[(l - 1) + k].row] = [k \in {1} |-> row]
    BY <2>1
  <2>3. <<row>> = [k \in {1} |-> row]
    OBVIOUS
  <2> QED BY <1>5, <2>1, <2>2, <2>3
<1>10. line' \in 1 .. Len(init') + 1 /\ ReadUpTo(line)' /\ Fits(line)' /\ Reading'
  <2>1. \A t \in DOMAIN tabid2fid : t \in DOMAIN tabid2fid'
    BY <1>6
  <2>2. OpenFile(l - 1)'
    <3>1. (FirstLine(l - 1, tabid) <=> fid = tabid2fid[tabid])'
      <4>1. fid' = tabid2fid'[tabid] <=> tabid \notin DOMAIN tabid2fid
        BY <1>6, <1>7
      <4>2. FirstLine(l - 1, tabid)' <=> FirstLine(l - 1, tabid)
        BY <1>1 DEF FirstLine
      <4> QED BY <1>1, <1>4, <4>1, <4>2
    <3>2. \A t \in DOMAIN tabid2fid' : tabid2fid'[t] = fid' => t = tabid'
      BY <1>1, <1>6, <1>7
    <3>3. tabid' \in DOMAIN tabid2fid' /\ fid' \in 2 .. Len(m_systables') + 1
      BY <1>1, <1>2, <1>5, <1>6
    <3>4. m_systables'[File(fid')] = [k \in 1 .. (line' - 1) - (l - 1) |-> init'[(l - 1) + k].row]
      <4>1. File(fid') = n + 1 /\ line' - 1 = l
        BY <1>1, <1>2, <1>6 DEF File
      <4> QED BY <1>1, <1>9, <4>1
    <3> QED BY <3>1, <3>2, <3>3, <3>4 DEF OpenFile
  <2>3. line \in DOMAIN init /\ line - (l - 1) <= MaxRecords
    BY <1>2, InitFilesAssumption
  <2> QED BY <1>1, <1>3, <1>6, <2>1, <2>2, <2>3, DataLineRead
<1>11. ASSUME NEW t \in DOMAIN tabid2fid
       PROVE  Loaded(t, line)'
  <2>1. PICK b \in 0 .. Len(init), e \in 0 .. Len(init) :
          /\ b < e /\ Section(t, b, e, l)
          /\ m_systables[File(tabid2fid[t])] = [k \in 1 .. e - b |-> init[b + k].row]
    BY DEF LoadInv, Loaded
  <2>2. Section(t, b, e, l + 1)
    <3>1. e = l - 1 => FALSE
      <4>1. e \in b + 1 .. e
        BY <2>1
      <4> QED BY <1>3, <2>1, <4>1 DEF Section, AllData, TableLine
    <3> QED BY <1>2, <2>1, <3>1 DEF Section
  <2>3. Section(t, b, e, line)'
    BY <1>1, <2>2 DEF Section, FirstLine, AllData
  <2>4. m_systables'[File(tabid2fid'[t])] = m_systables[File(tabid2fid[t])]
    BY <1>2, <1>5, <1>6, <1>7 DEF File
  <2>5. m_systables'[File(tabid2fid'[t])] = [k \in 1 .. e - b |-> init'[b + k].row]
    BY <1>1, <2>1, <2>4
  <2>6. b \in 0 .. Len(init') /\ e \in 0 .. Len(init') /\ b < e
    BY <1>1, <2>1
  <2> QED BY <2>3, <2>5, <2>6, Zenon DEF Loaded
<1>12. ASSUME tabid \notin DOMAIN tabid2fid
       PROVE  Loaded(tabid, line)'
  <2>1. Section(tabid, l - 1, l, l + 1)
    <3>1. \A j \in (l - 1) + 1 .. l : j = l
      BY <1>2
    <3> QED BY <1>1, <1>2, <1>4, <1>12, <3>1 DEF Section, AllData
  <2>2. Section(tabid, l - 1, l, line)'
    BY <1>1, <2>1 DEF Section, FirstLine, AllData
  <2>3. m_systables'[File(tabid2fid'[tabid])] = [k \in 1 .. l - (l - 1) |-> init[(l - 1) + k].row]
    <3>1. (n + 2) - 1 = n + 1
      BY <1>2
    <3> QED BY <1>6, <1>9, <1>12, <3>1 DEF File
  <2>4. l - 1 \in 0 .. Len(init) /\ l \in 0 .. Len(init) /\ l - 1 < l
    BY <1>2
  <2>5. /\ l - 1 \in 0 .. Len(init') /\ l \in 0 .. Len(init') /\ l - 1 < l
        /\ m_systables'[File(tabid2fid'[tabid'])]
             = [k \in 1 .. l - (l - 1) |-> init'[(l - 1) + k].row]
        /\ Section(tabid, l - 1, l, line)'
    BY <1>1, <2>2, <2>3, <2>4
  <2> QED BY <2>5, Zenon DEF Loaded
<1>13. ASSUME NEW t \in DOMAIN tabid2fid'
       PROVE  Loaded(t, line)'
  <2>1. CASE t \in DOMAIN tabid2fid
    BY <1>11, <2>1
  <2>2. CASE t \notin DOMAIN tabid2fid
    <3>1. t = tabid /\ tabid' = tabid
      BY <1>1, <1>6, <2>2
    <3>2. Loaded(tabid, line)'
      BY <1>12, <2>2, <3>1
    <3> QED BY <3>1, <3>2 DEF Loaded, Section, FirstLine, AllData
  <2> QED BY <2>1, <2>2
<1> QED BY <1>8, <1>10, <1>13 DEF LoadInv

\* A further row of the section: it is appended to its file, and to no other.
LEMMA NextRowKeeps ==
  ASSUME init \in InitFiles, LoadInv, LoadDataLine, fid # INVALID_FID
  PROVE  LoadInv'
<1> PICK l : l = line
  OBVIOUS
<1> PICK n : n = Len(m_systables)
  OBVIOUS
<1> PICK row : row = init[line].row
  OBVIOUS
<1> PICK p : p = File(fid)
  OBVIOUS
<1>1. /\ init' = init /\ line' = line + 1 /\ tabid' = tabid
      /\ line <= Len(init) /\ init[line].kind = "data"
      /\ m_systables' = [m_systables EXCEPT ![p] = Append(m_systables[p], row)]
      /\ fid' = fid /\ tabid2fid' = tabid2fid
      /\ Len(m_systables[p]) < MaxRecords
  BY DEF LoadDataLine, HasRoom
<1>2. /\ Len(init) \in Nat /\ DOMAIN init = 1 .. Len(init) /\ l \in 1 .. Len(init)
      /\ l \in Nat /\ n \in Nat
  BY <1>1, LineFacts DEF LoadInv, FilesApart
<1>3. PICK c \in 1 .. l - 1 :
        TableLine(c, tabid) /\ AllData(c, l - 1) /\ c # l - 1 /\ OpenFile(c)
  BY DEF LoadInv, Reading
<1>4. /\ p \in 1 .. n /\ p = fid - 1 /\ fid \in 2 .. n + 1
      /\ \A t \in DOMAIN tabid2fid : tabid2fid[t] \in 2 .. n + 1
      /\ m_systables = [i \in 1 .. n |-> m_systables[i]] /\ DOMAIN m_systables = 1 .. n
  <2>1. /\ \A t \in DOMAIN tabid2fid : tabid2fid[t] \in 2 .. n + 1
        /\ m_systables = [i \in 1 .. n |-> m_systables[i]]
    BY DEF LoadInv, FilesApart
  <2>2. p = fid - 1 /\ fid \in 2 .. n + 1
    BY <1>3 DEF File, OpenFile
  <2> QED BY <1>2, <2>1, <2>2
<1>5. /\ m_systables' = [i \in 1 .. n |-> m_systables'[i]] /\ Len(m_systables') = n
      /\ \A i \in 1 .. n : i # p => m_systables'[i] = m_systables[i]
      /\ m_systables'[p] = Append(m_systables[p], row)
  <2> DEFINE new == Append(m_systables[p], row)
  <2>1. m_systables' = [i \in 1 .. n |-> IF i = p THEN new ELSE m_systables[i]]
    BY <1>1, <1>4
  <2> HIDE DEF new
  <2>2. /\ m_systables' = [i \in 1 .. n |-> m_systables'[i]]
        /\ \A i \in 1 .. n : i # p => m_systables'[i] = m_systables[i]
        /\ m_systables'[p] = new
    BY <1>4, <2>1
  <2> PICK s : s = m_systables'
    OBVIOUS
  <2>3. s = [i \in 1 .. n |-> s[i]]
    BY <2>2
  <2>4. Len(s) = n
    BY <1>2, <2>3, AppendRow
  <2> QED BY <2>2, <2>4 DEF new
<1>6. FilesApart'
  BY <1>1, <1>2, <1>4, <1>5 DEF LoadInv, FilesApart
\* The file has one row more, and there was room for it.
<1>7. /\ m_systables'[p] = [k \in 1 .. l - c |-> init[c + k].row]
      /\ l - c <= MaxRecords
  <2>0. PICK s, m : s = m_systables[p] /\ m = (l - 1) - c
    OBVIOUS
  <2>1. s = [k \in 1 .. m |-> init[c + k].row]
    BY <1>3, <2>0 DEF OpenFile
  <2>2. m \in Nat /\ s = [i \in 1 .. m |-> s[i]] /\ m + 1 = l - c /\ c + (m + 1) = l
    BY <1>2, <1>3, <2>0, <2>1
  <2>3. /\ Append(s, row) = [i \in 1 .. m + 1 |-> IF i <= m THEN s[i] ELSE row]
        /\ Len(s) = m
    BY <2>2, AppendRow
  <2>4. ASSUME NEW k \in 1 .. m + 1
        PROVE  (IF k <= m THEN s[k] ELSE row) = init[c + k].row
    <3>1. CASE k <= m
      BY <2>1, <2>2, <3>1
    <3>2. CASE ~(k <= m)
      <4>1. c + k = l
        BY <2>2, <3>2
      <4> QED BY <3>2, <4>1
    <3> QED BY <3>1, <3>2
  <2>5. Append(s, row) = [k \in 1 .. l - c |-> init[c + k].row]
    BY <2>2, <2>3, <2>4
  <2>6. l - c <= MaxRecords
    BY <1>1, <2>0, <2>2, <2>3, InitFilesAssumption
  <2> QED BY <1>5, <2>0, <2>5, <2>6
<1>8. line' \in 1 .. Len(init') + 1 /\ ReadUpTo(line)' /\ Fits(line)' /\ Reading'
  <2>1. /\ line \in DOMAIN init /\ c \in 1 .. line - 1 /\ AllData(c, line - 1)
        /\ line - c <= MaxRecords
    BY <1>2, <1>3, <1>7
  <2>2. OpenFile(c)'
    <3>1. FirstLine(c, tabid)' <=> FirstLine(c, tabid)
      BY <1>1 DEF FirstLine
    <3>2. m_systables'[File(fid')] = [k \in 1 .. (line' - 1) - c |-> init'[c + k].row]
      <4>1. line' - 1 = l /\ File(fid') = p
        BY <1>1, <1>2
      <4> QED BY <1>1, <1>7, <4>1
    <3> QED BY <1>1, <1>3, <1>5, <3>1, <3>2 DEF OpenFile
  <2> QED BY <1>1, <1>3, <2>1, <2>2, DataLineRead
<1>9. ASSUME NEW t \in DOMAIN tabid2fid
      PROVE  Loaded(t, line)'
  <2>1. PICK b \in 0 .. Len(init), e \in 0 .. Len(init) :
          /\ b < e /\ Section(t, b, e, l)
          /\ m_systables[File(tabid2fid[t])] = [k \in 1 .. e - b |-> init[b + k].row]
    BY DEF LoadInv, Loaded
  <2>2. CASE tabid2fid[t] # fid
    <3>1. e = l - 1 => FALSE
      <4> SUFFICES ASSUME e = l - 1 PROVE FALSE
        OBVIOUS
      <4>1. /\ init[b].kind = "table" /\ init[c].kind = "table"
            /\ AllData(b, e) /\ AllData(c, e) /\ c < e
            /\ b \in Nat /\ c \in Nat /\ e \in Nat
        <5>1. AllData(c, e)
          BY <1>3 DEF AllData
        <5>2. init[b].kind = "table" /\ AllData(b, e)
          BY <2>1 DEF Section, FirstLine
        <5>3. init[c].kind = "table"
          BY <1>3 DEF TableLine
        <5>4. c < e /\ b \in Nat /\ c \in Nat /\ e \in Nat
          BY <1>2, <1>3
        <5> QED BY <5>1, <5>2, <5>3, <5>4
      <4>2. b = c
        BY <2>1, <4>1, OneSection
      <4>3. t = tabid /\ FirstLine(c, tabid)
        BY <1>3, <2>1, <4>2 DEF Section, FirstLine, TableLine
      <4> QED BY <1>3, <2>2, <4>3 DEF OpenFile
    <3>2. Section(t, b, e, line)'
      <4>1. Section(t, b, e, l + 1)
        BY <1>2, <2>1, <3>1 DEF Section
      <4> QED BY <1>1, <4>1 DEF Section, FirstLine, AllData
    <3>3. m_systables'[File(tabid2fid'[t])] = m_systables[File(tabid2fid[t])]
      <4>1. tabid2fid[t] - 1 \in 1 .. n /\ tabid2fid[t] - 1 # p
        BY <1>2, <1>4, <2>2
      <4> QED BY <1>1, <1>5, <4>1, SMTT(30) DEF File
    <3>4. m_systables'[File(tabid2fid'[t])] = [k \in 1 .. e - b |-> init'[b + k].row]
      BY <1>1, <2>1, <3>3
    <3>5. b \in 0 .. Len(init') /\ e \in 0 .. Len(init') /\ b < e
      BY <1>1, <2>1
    <3> QED BY <3>2, <3>4, <3>5, Zenon DEF Loaded
  <2>3. CASE tabid2fid[t] = fid
    <3>1. t = tabid /\ FirstLine(c, t)
      BY <1>3, <2>3 DEF OpenFile
    <3>2. Section(t, c, l, l + 1)
      <4>1. \A j \in c + 1 .. l : j \in c + 1 .. l - 1 \/ j = l
        BY <1>2
      <4> QED BY <1>1, <1>2, <1>3, <3>1, <4>1 DEF Section, AllData
    <3>3. Section(t, c, l, line)'
      BY <1>1, <3>2 DEF Section, FirstLine, AllData
    <3>4. m_systables'[File(tabid2fid'[t])] = [k \in 1 .. l - c |-> init'[c + k].row]
      BY <1>1, <1>7, <2>3
    <3>5. c \in 0 .. Len(init') /\ l \in 0 .. Len(init') /\ c < l
      BY <1>1, <1>2, <1>3
    <3> QED BY <3>3, <3>4, <3>5, Zenon DEF Loaded
  <2> QED BY <2>2, <2>3
<1> QED BY <1>1, <1>6, <1>8, <1>9 DEF LoadInv

\* The file is read, and no row of Table has its file ID yet.
LEMMA LoadEofKeeps ==
  ASSUME init \in InitFiles, LoadInv, LoadEof, pc' = "fix"
  PROVE  FixInv'
<1>1. /\ init' = init /\ tabid2fid' = tabid2fid /\ m_systables' = m_systables
      /\ line > Len(init) /\ "Table" \in DOMAIN tabid2fid /\ next' = 1
  BY DEF LoadEof, Fails
<1>2. Len(init) \in Nat /\ DOMAIN init = 1 .. Len(init) /\ line = Len(init) + 1
  BY <1>1, LineFacts DEF LoadInv
<1>3. ReadUpTo(Len(init) + 1)' /\ Fits(Len(init) + 1)' /\ FilesApart'
  BY <1>1, <1>2 DEF LoadInv, ReadUpTo, Fits, InSection, FilesApart
<1>4. ASSUME NEW t \in DOMAIN tabid2fid
      PROVE  Loaded(t, Len(init) + 1)'
  <2>1. PICK b \in 0 .. Len(init), e \in 0 .. Len(init) :
          /\ b < e /\ Section(t, b, e, Len(init) + 1)
          /\ m_systables[File(tabid2fid[t])] = [k \in 1 .. e - b |-> init[b + k].row]
    BY <1>2 DEF LoadInv, Loaded
  <2>2. Section(t, b, e, Len(init) + 1)'
    BY <1>1, <2>1 DEF Section, FirstLine, AllData
  <2>3. /\ b \in 0 .. Len(init') /\ e \in 0 .. Len(init') /\ b < e
        /\ m_systables'[File(tabid2fid'[t])] = [k \in 1 .. e - b |-> init'[b + k].row]
    BY <1>1, <2>1
  <2> QED BY <2>2, <2>3, Zenon DEF Loaded
<1>5. TableFixed(next)'
  <2>1. PICK b \in 0 .. Len(init), e \in 0 .. Len(init) :
          /\ b < e /\ Section("Table", b, e, Len(init) + 1)
          /\ m_systables[TableFile] = [k \in 1 .. e - b |-> init[b + k].row]
    BY <1>1, <1>2 DEF LoadInv, Loaded, TableFile
  <2>2. ASSUME NEW k \in 1 .. e - b
        PROVE  Fixed(init[b + k].row, k, b, FALSE)
    <3>1. /\ b \in DOMAIN init /\ init[b].kind = "table" /\ init[b].tabid = "Table"
          /\ e < Len(init) + 1 /\ AllData(b, e)
      BY <2>1 DEF Section, FirstLine
    <3>2. b + k \in DOMAIN init /\ b < b + k
      BY <1>2, <3>1
    <3>3. AllData(b, b + k)
      <4>1. \A j \in b + 1 .. b + k : j \in b + 1 .. e
        OBVIOUS
      <4> QED BY <3>1, <4>1 DEF AllData
    <3>4. "tabfid" \in DOMAIN init[b + k].row
      BY <3>1, <3>2, <3>3, LineFacts
    <3> QED BY <3>4 DEF Fixed
  <2> PICK file : file = m_systables[TableFile]
    OBVIOUS
  <2>3. file = [k \in 1 .. e - b |-> file[k]]
    BY <2>1
  <2>4. ASSUME NEW k \in 1 .. e - b
        PROVE  Fixed(file[k], k, b, k < 1)
    <3>1. ~(k < 1)
      OBVIOUS
    <3>2. file[k] = init[b + k].row
      BY <2>1
    <3> QED BY <2>2, <3>1, <3>2 DEF Fixed
  <2>5. m_systables'[TableFile'] = file
    BY <1>1 DEF TableFile
  <2>6. ASSUME NEW k \in 1 .. e - b
        PROVE  Fixed(m_systables[TableFile][k], k, b, k < next)'
    BY <1>1, <2>4, <2>5 DEF Fixed
  <2>7. m_systables'[TableFile'] = [k \in 1 .. e - b |-> m_systables'[TableFile'][k]]
    BY <2>3, <2>5
  <2>8. /\ b \in 0 .. Len(init') /\ e \in 0 .. Len(init') /\ b < e
        /\ Section("Table", b, e, Len(init) + 1)'
    BY <1>1, <2>1 DEF Section, FirstLine, AllData
  <2> QED BY <2>6, <2>7, <2>8, Zenon DEF TableFixed
<1> QED BY <1>1, <1>3, <1>4, <1>5 DEF FixInv

-----------------------------------------------------------------------------
(***************************************************************************)
(* FinishInitCatalog().                                                    *)
(***************************************************************************)
\* A row of Table gets its file ID, and no other row changes.
LEMMA FixTabfidKeeps ==
  ASSUME init \in InitFiles, next \in Nat \ {0}, FixInv, FixTabfid, pc' = "fix"
  PROVE  FixInv'
<1>0. PICK p, n, x, file, new :
        /\ p = TableFile /\ n = Len(m_systables) /\ x = next /\ file = m_systables[p]
        /\ new = [file[x] EXCEPT !.tabfid = tabid2fid[file[x].tabid]]
  OBVIOUS
<1>1. /\ init' = init /\ tabid2fid' = tabid2fid /\ x <= Len(file)
      /\ file[x].tabid \in DOMAIN tabid2fid /\ file[x].tabfid = INVALID_FID
      /\ m_systables' = [m_systables EXCEPT ![p] = [file EXCEPT ![x] = new]]
      /\ next' = x + 1 /\ x \in Nat \ {0} /\ TableFile' = TableFile
  BY <1>0 DEF FixTabfid, Fails, TableFile
<1>2. /\ n \in Nat /\ p \in 1 .. n /\ p = tabid2fid["Table"] - 1
      /\ \A t \in DOMAIN tabid2fid : tabid2fid[t] \in 2 .. n + 1
      /\ m_systables = [i \in 1 .. n |-> m_systables[i]] /\ DOMAIN m_systables = 1 .. n
  <2>1. /\ \A t \in DOMAIN tabid2fid : tabid2fid[t] \in 2 .. n + 1
        /\ n \in Nat /\ m_systables = [i \in 1 .. n |-> m_systables[i]]
        /\ "Table" \in DOMAIN tabid2fid
    BY <1>0 DEF FixInv, FilesApart
  <2>2. p = tabid2fid["Table"] - 1
    BY <1>0 DEF TableFile, File
  <2> QED BY <2>1, <2>2
<1>3. /\ m_systables' = [i \in 1 .. n |-> m_systables'[i]] /\ Len(m_systables') = n
      /\ \A i \in 1 .. n : i # p => m_systables'[i] = m_systables[i]
      /\ m_systables'[p] = [file EXCEPT ![x] = new]
  <2> DEFINE fixed == [file EXCEPT ![x] = new]
  <2>1. m_systables' = [i \in 1 .. n |-> IF i = p THEN fixed ELSE m_systables[i]]
    BY <1>1, <1>2
  <2> HIDE DEF fixed
  <2>2. /\ m_systables' = [i \in 1 .. n |-> m_systables'[i]]
        /\ \A i \in 1 .. n : i # p => m_systables'[i] = m_systables[i]
        /\ m_systables'[p] = fixed
    BY <1>2, <2>1
  <2>3. PICK s : s = m_systables'
    OBVIOUS
  <2>4. s = [i \in 1 .. n |-> s[i]]
    BY <2>2, <2>3
  <2>5. Len(s) = n
    BY <1>2, <2>4, AppendRow
  <2> QED BY <2>2, <2>3, <2>5 DEF fixed
<1>4. ReadUpTo(Len(init) + 1)' /\ Fits(Len(init) + 1)' /\ FilesApart'
  <2>1. ReadUpTo(Len(init) + 1)' /\ Fits(Len(init) + 1)'
    BY <1>1 DEF FixInv, ReadUpTo, Fits, InSection
  <2>2. FilesApart'
    BY <1>0, <1>1, <1>2, <1>3 DEF FixInv, FilesApart
  <2> QED BY <2>1, <2>2
<1>5. ASSUME NEW t \in DOMAIN tabid2fid \ {"Table"}
      PROVE  Loaded(t, Len(init) + 1)'
  <2>1. PICK b \in 0 .. Len(init), e \in 0 .. Len(init) :
          /\ b < e /\ Section(t, b, e, Len(init) + 1)
          /\ m_systables[File(tabid2fid[t])] = [k \in 1 .. e - b |-> init[b + k].row]
    BY DEF FixInv, Loaded
  <2>2. Section(t, b, e, Len(init) + 1)'
    BY <1>1, <2>1 DEF Section, FirstLine, AllData
  <2>3. m_systables'[File(tabid2fid'[t])] = m_systables[File(tabid2fid[t])]
    <3>1. tabid2fid[t] # tabid2fid["Table"]
      BY DEF FixInv, FilesApart
    <3>2. tabid2fid["Table"] \in 2 .. n + 1
      BY <1>2 DEF FixInv
    <3>3. tabid2fid[t] - 1 \in 1 .. n /\ tabid2fid[t] - 1 # p
      BY <1>2, <3>1, <3>2
    <3> QED BY <1>1, <1>3, <3>3 DEF File
  <2>4. /\ b \in 0 .. Len(init') /\ e \in 0 .. Len(init') /\ b < e
        /\ m_systables'[File(tabid2fid'[t])] = [k \in 1 .. e - b |-> init'[b + k].row]
    BY <1>1, <2>1, <2>3
  <2> QED BY <2>2, <2>4, Zenon DEF Loaded
<1>6. TableFixed(next)'
  <2>1. PICK b \in 0 .. Len(init), e \in 0 .. Len(init) :
          /\ b < e /\ Section("Table", b, e, Len(init) + 1)
          /\ file = [k \in 1 .. e - b |-> file[k]]
          /\ \A k \in 1 .. e - b : Fixed(file[k], k, b, k < x)
    BY <1>0 DEF FixInv, TableFixed, Fixed
  <2>2. e - b \in Nat
    BY <2>1
  <2>3. Len(file) = e - b /\ x \in 1 .. e - b /\ DOMAIN file = 1 .. e - b
    <3>1. PICK m \in Nat : m = e - b
      BY <2>2
    <3>2. file = [i \in 1 .. m |-> file[i]]
      BY <2>1, <3>1
    <3>3. Len(file) = m
      BY <3>2, AppendRow
    <3> QED BY <1>1, <2>1, <3>1, <3>3
  <2>4. PICK after : after = [file EXCEPT ![x] = new]
    OBVIOUS
  <2>5. /\ after = [k \in 1 .. e - b |-> after[k]] /\ after[x] = new
        /\ \A k \in 1 .. e - b : k # x => after[k] = file[k]
    BY <2>3, <2>4
  <2>6. /\ "tabfid" \in DOMAIN file[x] /\ file[x].tabid = init[b + x].row.tabid
        /\ init[b + x].row.tabfid = INVALID_FID
    <3>1. ~(x < x)
      BY <1>1
    <3> QED BY <1>1, <2>1, <2>3, <3>1 DEF Fixed
  <2>7. /\ new.tabid = file[x].tabid /\ "tabfid" \in DOMAIN new
        /\ new.tabfid = tabid2fid[file[x].tabid]
    <3>1. "tabid" # "tabfid"
      OBVIOUS
    <3> QED BY <1>0, <2>6, <3>1
  <2>8. ASSUME NEW k \in 1 .. e - b
        PROVE  Fixed(after[k], k, b, k < x + 1)
    <3>1. CASE k = x
      <4>1. after[k] = new /\ b + k = b + x /\ k < x + 1
        BY <1>1, <2>5, <3>1
      <4> QED BY <1>1, <2>6, <2>7, <3>1, <4>1 DEF Fixed
    <3>2. CASE k # x
      <4>1. after[k] = file[k] /\ (k < x + 1 <=> k < x)
        BY <1>1, <2>5, <3>2
      <4>2. Fixed(file[k], k, b, k < x)
        BY <2>1
      <4> QED BY <4>1, <4>2 DEF Fixed
    <3> QED BY <3>1, <3>2
  <2>9. m_systables'[TableFile'] = after
    BY <1>0, <1>1, <1>3, <2>4
  <2>10. ASSUME NEW k \in 1 .. e - b
         PROVE  Fixed(m_systables[TableFile][k], k, b, k < next)'
    BY <1>1, <2>8, <2>9 DEF Fixed
  <2>11. m_systables'[TableFile'] = [k \in 1 .. e - b |-> m_systables'[TableFile'][k]]
    BY <2>5, <2>9
  <2>12. /\ b \in 0 .. Len(init') /\ e \in 0 .. Len(init') /\ b < e
         /\ Section("Table", b, e, Len(init) + 1)'
    BY <1>1, <2>1 DEF Section, FirstLine, AllData
  <2> QED BY <2>10, <2>11, <2>12, Zenon DEF TableFixed
<1> QED BY <1>1, <1>4, <1>5, <1>6 DEF FixInv

\* What the init data file asks for stays what it is.
LEMMA SameFile ==
  ASSUME init' = init
  PROVE  /\ \A t : SectionOf(t)' = SectionOf(t)
         /\ TableRows' = TableRows /\ Listed' = Listed
         /\ Loadable => Loadable'
<1>1. \A t : SectionOf(t)' = SectionOf(t)
  BY DEF SectionOf, SectionBegin, FirstLine, InSection
<1>2. TableRows' = TableRows
  BY DEF TableRows, SectionOf, SectionBegin, FirstLine, InSection
<1>3. Listed' = Listed /\ Sections' = Sections
  BY <1>2 DEF Listed, Sections
<1>4. \A b, e \in DOMAIN init : InSection(b, e)' <=> InSection(b, e)
  BY DEF InSection
<1> QED BY <1>1, <1>2, <1>3, <1>4 DEF Loadable

\* When all rows of Table have their file IDs, the meta page leads to them, and
\* the init data file has turned out to be complete.
LEMMA WriteTableFidFills ==
  ASSUME init \in InitFiles, next \in Nat \ {0}, FixInv, WriteTableFid
  PROVE  Filled' /\ Loadable'
<1>0. PICK file : file = m_systables[TableFile]
  OBVIOUS
<1>1. /\ init' = init /\ m_systables' = m_systables
      /\ dbmeta' = tabid2fid["Table"] /\ next > Len(file)
  BY <1>0 DEF WriteTableFid
<1>2. Rows' = file
  BY <1>0, <1>1 DEF Rows, TableFile
<1>3. PICK L \in Nat : L = Len(init) /\ DOMAIN init = 1 .. L
  BY LineFacts
<1>4. PICK b \in 0 .. L, e \in 0 .. L :
        /\ b < e /\ Section("Table", b, e, L + 1)
        /\ file = [k \in 1 .. e - b |-> file[k]]
        /\ \A k \in 1 .. e - b : Fixed(file[k], k, b, k < next)
  <2>1. PICK b \in 0 .. Len(init), e \in 0 .. Len(init) :
          /\ b < e /\ Section("Table", b, e, Len(init) + 1)
          /\ m_systables[TableFile] = [k \in 1 .. e - b |-> m_systables[TableFile][k]]
          /\ \A k \in 1 .. e - b : Fixed(m_systables[TableFile][k], k, b, k < next)
    BY DEF FixInv, TableFixed
  <2>2. file = [k \in 1 .. e - b |-> file[k]]
    BY <1>0, <2>1
  <2>3. \A k \in 1 .. e - b : Fixed(file[k], k, b, k < next)
    BY <1>0, <2>1 DEF Fixed
  <2>4. Section("Table", b, e, L + 1) /\ b \in 0 .. L /\ e \in 0 .. L
    BY <1>3, <2>1 DEF Section
  <2> QED BY <2>1, <2>2, <2>3, <2>4
<1>5. Len(file) = e - b /\ e - b \in Nat /\ DOMAIN file = 1 .. e - b
  <2>1. PICK m \in Nat : m = e - b
    BY <1>4
  <2>2. file = [i \in 1 .. m |-> file[i]]
    BY <1>4, <2>1
  <2>3. Len(file) = m
    BY <2>2, AppendRow
  <2> QED BY <1>4, <2>1, <2>3
<1>6. /\ TableRows = [k \in 1 .. e - b |-> init[b + k].row]
      /\ "Table" \in Sections
  <2>1. Section("Table", b, e, Len(init) + 1) /\ b \in Nat /\ e \in Nat
    BY <1>3, <1>4 DEF Section
  <2> QED BY <2>1, SectionRows DEF TableRows
<1>7. ASSUME NEW k \in 1 .. e - b
      PROVE  /\ file[k].tabid = init[b + k].row.tabid
             /\ file[k].tabid \in DOMAIN tabid2fid
             /\ file[k].tabfid = tabid2fid[file[k].tabid]
             /\ init[b + k].row.tabfid = INVALID_FID
  <2>1. k < next
    BY <1>1, <1>5
  <2> QED BY <1>4, <2>1 DEF Fixed
\* The tables with a file have a section with rows, and their file has them.
<1>8. ASSUME NEW t \in DOMAIN tabid2fid
      PROVE  /\ t \in Sections /\ SectionOf(t) # <<>>
             /\ t # "Table" => m_systables[File(tabid2fid[t])] = SectionOf(t)
  <2>1. ASSUME NEW c \in 0 .. L, NEW d \in 0 .. L, c < d, Section(t, c, d, L + 1)
        PROVE  /\ t \in Sections /\ SectionOf(t) # <<>>
               /\ SectionOf(t) = [k \in 1 .. d - c |-> init[c + k].row]
    <3>1. /\ t \in Sections
          /\ SectionOf(t) = [k \in 1 .. d - c |-> init[c + k].row]
      <4>1. Section(t, c, d, Len(init) + 1)
        BY <1>3, <2>1 DEF Section
      <4>2. c \in Nat /\ d \in Nat
        BY <2>1
      <4> QED BY <4>1, <4>2, SectionRows
    <3>2. 1 \in DOMAIN SectionOf(t)
      BY <2>1, <3>1
    <3> QED BY <3>1, <3>2
  <2>2. CASE t = "Table"
    BY <1>4, <2>1, <2>2
  <2>3. CASE t # "Table"
    <3>1. PICK c \in 0 .. L, d \in 0 .. L :
            /\ c < d /\ Section(t, c, d, L + 1)
            /\ m_systables[File(tabid2fid[t])] = [k \in 1 .. d - c |-> init[c + k].row]
      <4>1. Loaded(t, Len(init) + 1)
        BY <2>3 DEF FixInv
      <4>2. PICK c \in 0 .. Len(init), d \in 0 .. Len(init) :
              /\ c < d /\ Section(t, c, d, Len(init) + 1)
              /\ m_systables[File(tabid2fid[t])] = [k \in 1 .. d - c |-> init[c + k].row]
        BY <4>1 DEF Loaded
      <4>3. Section(t, c, d, L + 1)
        BY <1>3, <4>2 DEF Section
      <4> QED BY <1>3, <4>2, <4>3, Zenon
    <3> QED BY <2>1, <3>1
  <2> QED BY <2>2, <2>3
<1>9. /\ \A k \in 1 .. e - b : file[k].tabid = TableRows[k].tabid
      /\ \A k \in DOMAIN TableRows : TableRows[k].tabfid = INVALID_FID
      /\ DOMAIN TableRows = 1 .. e - b
      /\ Listed \subseteq DOMAIN tabid2fid
  <2>1. \A k \in 1 .. e - b : TableRows[k] = init[b + k].row
    BY <1>6
  <2>2. DOMAIN TableRows = 1 .. e - b
    BY <1>6
  <2> HIDE DEF TableRows
  <2> QED BY <1>7, <2>1, <2>2 DEF Listed
<1>10. /\ \A i \in DOMAIN init :
            /\ init[i].kind # "error"
            /\ init[i].kind = "table" => i = Len(init) \/ init[i + 1].kind = "data"
       /\ \A c, d \in DOMAIN init : InSection(c, d) => d - c <= MaxRecords
  <2>1. (L + 1) - 1 = L
    OBVIOUS
  <2>2. ReadUpTo(L + 1) /\ Fits(L + 1)
    BY <1>3 DEF FixInv
  <2> QED BY <1>3, <2>1, <2>2 DEF ReadUpTo, Fits
<1>11. Loadable
  BY <1>6, <1>8, <1>9, <1>10 DEF Loadable
<1>12. /\ Listed' = Listed /\ TableRows' = TableRows
       /\ \A t : SectionOf(t)' = SectionOf(t)
  BY <1>1, SameFile
<1>13. Loadable'
  BY <1>1, <1>11, SameFile
<1>15. ASSUME NEW k \in 1 .. e - b
       PROVE  IF file[k].tabid = "Table" THEN file[k].tabfid = dbmeta'
              ELSE m_systables[File(file[k].tabfid)] = SectionOf(file[k].tabid)
  BY <1>1, <1>7, <1>8
<1>16. Filled'
  <2>1. /\ Len(Rows') \in Nat /\ DOMAIN Rows' = 1 .. Len(Rows')
        /\ DOMAIN TableRows' = DOMAIN Rows'
    BY <1>2, <1>5, <1>9, <1>12
  <2>2. ASSUME NEW k \in DOMAIN Rows'
        PROVE  /\ Rows'[k].tabid = TableRows'[k].tabid
               /\ IF Rows'[k].tabid = "Table" THEN Rows'[k].tabfid = dbmeta'
                  ELSE m_systables'[File(Rows'[k].tabfid)] = SectionOf(Rows[k].tabid)'
    <3>1. PICK r : r = file[k].tabid
      OBVIOUS
    <3>2. SectionOf(Rows[k].tabid)' = SectionOf(r)
      BY <1>1, <1>2, <3>1 DEF SectionOf, SectionBegin, FirstLine, InSection
    <3>3. SectionOf(file[k].tabid) = SectionOf(r)
      BY <3>1 DEF SectionOf, SectionBegin, FirstLine, InSection
    <3> QED BY <1>1, <1>2, <1>5, <1>9, <1>12, <1>15, <3>2, <3>3
  <2> QED BY <2>1, <2>2 DEF Filled
<1> QED BY <1>13, <1>16

-----------------------------------------------------------------------------
(***************************************************************************)
(* The invariant.                                                          *)
(***************************************************************************)
LEMMA SameRows ==
  ASSUME init' = init, m_systables' = m_systables, dbmeta' = dbmeta
  PROVE  /\ Rows' = Rows
         /\ Filled => Filled'
         /\ MinFound => MinFound'
         /\ m_table_desc' = m_table_desc /\ next' = next => (Scanned => Scanned')
<1>1. Rows' = Rows /\ TableRows' = TableRows
  BY SameFile DEF Rows
<1>2. ASSUME NEW k \in DOMAIN Rows
      PROVE  SectionOf(Rows[k].tabid)' = SectionOf(Rows[k].tabid)
  BY <1>1 DEF SectionOf, SectionBegin, FirstLine, InSection
<1>3. Filled => Filled'
  BY <1>1, <1>2 DEF Filled
<1>4. MinFound => MinFound'
  BY <1>1 DEF MinFound, FoundTables, NumFound
<1>5. m_table_desc' = m_table_desc /\ next' = next => (Scanned => Scanned')
  BY <1>1 DEF Scanned, NumFound
<1> QED BY <1>1, <1>3, <1>4, <1>5

\* A step that leaves the catalog files alone.
LEMMA QuietStep ==
  ASSUME IInv, init' = init, m_systables' = m_systables, dbmeta' = dbmeta,
         next' \in Nat \ {0}, m_initialized' \in BOOLEAN, Control',
         pc' # "load", pc' # "fix",
         pc' \in {"tables", "types"} \/ m_initialized' => Filled /\ Loadable,
         pc' = "tables" => Scanned',
         pc' = "types" \/ m_initialized' => m_table_desc' = MinTables /\ MinFound
  PROVE  IInv'
<1>1. Loadable => Loadable'
  BY SameFile
<1>2. (Filled => Filled') /\ (MinFound => MinFound')
  BY SameRows
<1> QED BY <1>1, <1>2 DEF IInv

\* A step after which the cache is a new one, or there is none.
LEMMA NewCacheStep ==
  ASSUME IInv, NewCache, init' = init, ~is_open', pc' \notin {"load", "fix", "tables", "types"},
         pc' \in {"meta", "failed"} => m_catcache', pc' \notin {"indexes", "done"},
         g_test_no_catcache' => ~m_catcache',
         m_catcache' => pc' \in {"meta", "crashed"}
  PROVE  IInv'
<1>1. /\ line' = 1 /\ tabid' = NoTable /\ fid' = INVALID_FID /\ tabid2fid' = Empty
      /\ m_systables' = <<>> /\ dbmeta' = NoMeta /\ next' = 1
      /\ m_table_desc' = {} /\ m_initialized' = FALSE
  BY DEF NewCache
<1>2. Control'
  BY <1>1 DEF Control, Fresh, Empty
<1>3. next' \in Nat \ {0}
  BY <1>1
<1>4. m_initialized' \in BOOLEAN /\ ~m_initialized' /\ init' \in InitFiles
  BY <1>1 DEF IInv
<1> QED BY <1>2, <1>3, <1>4, Zenon DEF IInv

LEMMA LoadStep ==
  ASSUME IInv, LoadTableLine \/ LoadDataLine \/ LoadFull \/ LoadErrorLine \/ LoadEof,
         UNCHANGED dbVars
  PROVE  IInv'
<1>1. /\ pc = "load" /\ init' = init /\ dbmeta' = dbmeta /\ dbmeta # NoMeta
      /\ m_table_desc = {} /\ m_table_desc' = {}
      /\ ~m_initialized /\ m_initialized' = m_initialized
      /\ m_catcache /\ m_catcache' = m_catcache /\ is_open' = is_open
      /\ g_test_no_catcache' = g_test_no_catcache
      /\ pc' \in {"load", "fix", "failed"} /\ next' \in Nat \ {0}
  <2>1. pc = "load"
    BY DEF LoadTableLine, LoadDataLine, LoadFull, LoadErrorLine, LoadEof
  <2>2. /\ dbmeta # NoMeta /\ ~m_initialized /\ m_catcache /\ next \in Nat \ {0}
        /\ m_table_desc = {}
    BY <2>1 DEF IInv, Control
  <2> QED BY <2>1, <2>2
          DEF LoadTableLine, LoadDataLine, LoadFull, LoadErrorLine, LoadEof, Fails, cache, dbVars
<1>2. Control'
  BY <1>1 DEF IInv, Control
<1>3. pc' = "load" => LoadInv'
  <2>1. init \in InitFiles /\ LoadInv
    BY <1>1 DEF IInv
  <2>2. CASE LoadTableLine
    BY <2>1, <2>2, LoadTableLineKeeps
  <2>3. CASE LoadDataLine
    BY <2>1, <2>3, FirstRowKeeps, NextRowKeeps
  <2>4. CASE LoadFull \/ LoadErrorLine \/ LoadEof
    BY <2>4 DEF LoadFull, LoadErrorLine, LoadEof, Fails
  <2> QED BY <2>2, <2>3, <2>4
<1>4. pc' = "fix" => FixInv'
  <2>1. init \in InitFiles /\ LoadInv
    BY <1>1 DEF IInv
  <2>2. pc' = "fix" => LoadEof
    BY <1>1 DEF LoadTableLine, LoadDataLine, LoadFull, LoadErrorLine, Fails
  <2> QED BY <2>1, <2>2, LoadEofKeeps
<1> QED BY <1>1, <1>2, <1>3, <1>4 DEF IInv

LEMMA FixStep ==
  ASSUME IInv, FixTabfid \/ WriteTableFid, UNCHANGED dbVars
  PROVE  IInv'
<1>1. /\ pc = "fix" /\ init' = init /\ dbmeta # NoMeta
      /\ m_table_desc = {} /\ m_table_desc' = {}
      /\ ~m_initialized /\ m_initialized' = m_initialized
      /\ m_catcache /\ m_catcache' = m_catcache /\ is_open' = is_open
      /\ g_test_no_catcache' = g_test_no_catcache
      /\ pc' \in {"fix", "tables", "failed"} /\ next' \in Nat \ {0}
      /\ init \in InitFiles /\ FixInv /\ next \in Nat \ {0}
  <2>1. pc = "fix"
    BY DEF FixTabfid, WriteTableFid
  <2>2. /\ dbmeta # NoMeta /\ ~m_initialized /\ m_catcache /\ next \in Nat \ {0} /\ FixInv
        /\ init \in InitFiles /\ m_table_desc = {}
    BY <2>1 DEF IInv, Control
  <2> QED BY <2>1, <2>2 DEF FixTabfid, WriteTableFid, Fails, cache, dbVars
<1>2. dbmeta' # NoMeta
  <2>1. tabid2fid["Table"] \in 2 .. Len(m_systables) + 1 /\ Len(m_systables) \in Nat
    BY <1>1 DEF FixInv, FilesApart
  <2>2. tabid2fid["Table"] # NoMeta
    BY <2>1 DEF NoMeta
  <2> QED BY <1>1, <2>2 DEF FixTabfid, WriteTableFid
<1>3. Control'
  BY <1>1, <1>2 DEF IInv, Control
<1>4. pc' = "fix" => FixInv'
  <2>1. pc' = "fix" => FixTabfid
    BY DEF WriteTableFid
  <2> QED BY <1>1, <2>1, FixTabfidKeeps
<1>5. pc' = "tables" => Filled' /\ Loadable'
  <2>1. pc' = "tables" => WriteTableFid
    BY <1>1 DEF FixTabfid, Fails
  <2> QED BY <1>1, <2>1, WriteTableFidFills
<1>6. pc' = "tables" => Scanned'
  <2>1. pc' = "tables" => next' = 1
    BY <1>1 DEF FixTabfid, WriteTableFid, Fails
  <2>2. pc' = "tables" => DOMAIN Rows' \subseteq Nat \ {0}
    BY <1>5 DEF Filled
  <2> QED BY <1>1, <2>1, <2>2 DEF Scanned
<1> QED BY <1>1, <1>3, <1>4, <1>5, <1>6 DEF IInv

LEMMA ScanStep ==
  ASSUME IInv, ScanTables \/ CollectTypes \/ ScanTypes \/ FinishMinCache \/ CheckIndexes,
         UNCHANGED dbVars
  PROVE  IInv'
<1>1. /\ init' = init /\ m_systables' = m_systables /\ dbmeta' = dbmeta
      /\ m_catcache' = m_catcache /\ is_open' = is_open
      /\ g_test_no_catcache' = g_test_no_catcache
      /\ pc \in {"tables", "types", "indexes"}
  BY DEF ScanTables, CollectTypes, ScanTypes, FinishMinCache, CheckIndexes, dbVars
<1>2. /\ m_catcache /\ dbmeta # NoMeta /\ Filled /\ Loadable
      /\ next \in Nat \ {0} /\ m_initialized \in BOOLEAN
      /\ pc \in {"tables", "types"} => ~m_initialized
      /\ pc = "indexes" => m_initialized
      /\ pc = "tables" => Scanned
      /\ pc = "types" \/ m_initialized => m_table_desc = MinTables /\ MinFound
      /\ is_open /\ ~g_test_no_catcache => m_initialized
      /\ ~g_test_no_catcache
  BY <1>1 DEF IInv, Control
<1>3. CASE ScanTables
  <2>1. /\ pc = "tables" /\ pc' = pc /\ m_initialized' = m_initialized /\ next' = next + 1
        /\ next <= Len(Rows)
        /\ m_table_desc' = m_table_desc \union ({Rows[next].tabid} \intersect MinTables)
    BY <1>3 DEF ScanTables
  <2>2. Scanned'
    <3>1. PICK r, x : r = Rows /\ x = next
      OBVIOUS
    <3>2. Rows' = r
      BY <1>1, <3>1, SameRows
    <3>3. x \in DOMAIN r /\ NumFound(r, x - 1) < 3
      BY <1>2, <1>3, <2>1, <3>1 DEF ScanTables, Filled
    <3>4. \A k \in DOMAIN r : k < x + 1 <=> (k < x \/ k = x)
      BY <1>2, <3>1 DEF Filled
    <3>5. m_table_desc = MinTables \intersect
            {r[i].tabid : i \in {k \in DOMAIN r : k < x /\ NumFound(r, k - 1) < 3}}
      BY <1>2, <2>1, <3>1 DEF Scanned
    <3>6. m_table_desc' = MinTables \intersect
            {r[i].tabid : i \in {k \in DOMAIN r : k < x + 1 /\ NumFound(r, k - 1) < 3}}
      BY <2>1, <3>1, <3>3, <3>4, <3>5
    <3> QED BY <2>1, <3>1, <3>2, <3>6, Zenon DEF Scanned
  <2>3. Control'
    BY <1>1, <1>2, <2>1 DEF Control
  <2> QED BY <1>1, <1>2, <2>1, <2>2, <2>3, QuietStep
<1>4. CASE CollectTypes
  <2>1. /\ pc = "tables" /\ m_initialized' = m_initialized /\ next' = 1
        /\ m_table_desc' = m_table_desc
        /\ (pc' = "types" /\ m_table_desc = MinTables) \/ pc' = "failed"
        /\ next > Len(Rows) \/ NumFound(Rows, next - 1) >= 3
    BY <1>4 DEF CollectTypes, Fails, cache
  <2>2. Control'
    BY <1>1, <1>2, <2>1 DEF Control
  <2>3. ASSUME m_table_desc = MinTables
        PROVE  MinFound
    <3>1. PICK r, x : r = Rows /\ x = next
      OBVIOUS
    <3>2. /\ Len(r) \in Nat /\ DOMAIN r = 1 .. Len(r) /\ x \in Nat \ {0}
          /\ x > Len(r) \/ NumFound(r, x - 1) >= 3
      BY <1>2, <2>1, <3>1 DEF Filled
    <3>3. MinTables = MinTables \intersect
            {r[i].tabid : i \in {k \in DOMAIN r : k < x /\ NumFound(r, k - 1) < 3}}
      BY <1>2, <2>1, <2>3, <3>1 DEF Scanned
    <3>4. FoundTables(r) = MinTables
      BY <3>3 DEF FoundTables
    <3> QED BY <3>1, <3>4 DEF MinFound
  <2> QED BY <1>1, <1>2, <2>1, <2>2, <2>3, QuietStep
<1>5. CASE ScanTypes
  <2>1. /\ pc = "types" /\ pc' = pc /\ m_initialized' = m_initialized /\ next' = next + 1
        /\ m_table_desc' = m_table_desc
    BY <1>5 DEF ScanTypes
  <2>2. Control'
    BY <1>1, <1>2, <2>1 DEF Control
  <2> QED BY <1>1, <1>2, <2>1, <2>2, QuietStep
<1>6. CASE FinishMinCache
  <2>1. /\ pc = "types" /\ pc' = "indexes" /\ m_initialized' = TRUE /\ next' = next
        /\ m_table_desc' = m_table_desc
    BY <1>6 DEF FinishMinCache
  <2>2. Control'
    BY <1>1, <1>2, <2>1 DEF Control
  <2> QED BY <1>1, <1>2, <2>1, <2>2, QuietStep
<1>7. CASE CheckIndexes
  <2>1. /\ pc = "indexes" /\ pc' \in {"done", "failed"} /\ m_initialized' = m_initialized
        /\ next' = next /\ m_table_desc' = m_table_desc
    BY <1>7 DEF CheckIndexes, Fails, cache
  <2>2. Control'
    BY <1>1, <1>2, <2>1 DEF Control
  <2> QED BY <1>1, <1>2, <2>1, <2>2, QuietStep
<1> QED BY <1>3, <1>4, <1>5, <1>6, <1>7

LEMMA MetaStep ==
  ASSUME IInv, CreateDBMeta, UNCHANGED dbVars
  PROVE  IInv'
<1>1. /\ pc = "meta" /\ init' = init /\ line' = line /\ tabid' = tabid /\ fid' = fid
      /\ tabid2fid' = tabid2fid /\ m_systables' = m_systables /\ next' = next
      /\ m_table_desc' = m_table_desc /\ m_initialized' = m_initialized
      /\ m_catcache' = m_catcache /\ is_open' = is_open
      /\ g_test_no_catcache' = g_test_no_catcache
  BY DEF CreateDBMeta, load, cache, dbVars
<1>2. /\ m_catcache /\ next \in Nat \ {0} /\ m_initialized \in BOOLEAN /\ init \in InitFiles
      /\ dbmeta = NoMeta => Fresh
      /\ m_initialized => Filled /\ Loadable /\ m_table_desc = MinTables /\ MinFound
      /\ is_open /\ ~g_test_no_catcache => m_initialized
      /\ ~g_test_no_catcache
  BY <1>1 DEF IInv, Control
<1>3. CASE RawFileFree
  <2>1. dbmeta = NoMeta /\ dbmeta' = INVALID_FID /\ pc' = "load" /\ Fresh /\ INVALID_FID # NoMeta
    BY <1>2, <1>3 DEF CreateDBMeta, RawFileFree, INVALID_FID, NoMeta
  <2>2. /\ line' = 1 /\ tabid' = NoTable /\ fid' = INVALID_FID /\ DOMAIN tabid2fid' = {}
        /\ m_systables' = <<>> /\ m_table_desc' = {} /\ ~m_initialized'
    BY <1>1, <2>1 DEF Fresh, Empty
  <2>3. Control'
    BY <1>1, <1>2, <2>1, <2>2 DEF Control
  <2>4. LoadInv'
    <3>1. Len(init) \in Nat
      BY <1>2, LineFacts
    <3>2. ReadUpTo(line)' /\ Fits(line)'
      BY <2>2 DEF ReadUpTo, Fits
    <3>3. FilesApart'
      <4>1. Len(<<>>) = 0 /\ 1 .. 0 = {}
        OBVIOUS
      <4>2. PICK s : s = m_systables'
        OBVIOUS
      <4>3. Len(s) \in Nat /\ s = [i \in 1 .. Len(s) |-> s[i]]
        BY <2>2, <4>1, <4>2
      <4> QED BY <2>2, <4>2, <4>3 DEF FilesApart
    <3>4. Reading'
      BY <2>2 DEF Reading
    <3> QED BY <1>1, <2>2, <3>1, <3>2, <3>3, <3>4 DEF LoadInv
  <2> QED BY <1>1, <1>2, <2>1, <2>2, <2>3, <2>4 DEF IInv
<1>4. CASE ~RawFileFree
  <2>1. dbmeta # NoMeta /\ dbmeta' = dbmeta /\ pc' = "failed"
    BY <1>4 DEF CreateDBMeta, RawFileFree, Fails
  <2>2. Control'
    BY <1>1, <1>2, <2>1 DEF Control
  <2> QED BY <1>1, <1>2, <2>1, <2>2, QuietStep
<1> QED BY <1>3, <1>4

\* Steps between the calls: the catalog is left as it is.
LEMMA CallStep ==
  ASSUME IInv, init_global \/ (\E path \in Paths : OpenNoCatCache(path))
                 \/ OpenReturn \/ OpenThrow \/ Reinitialize
  PROVE  IInv'
<1>1. /\ init' = init /\ m_systables' = m_systables /\ dbmeta' = dbmeta /\ next' = next
      /\ m_table_desc' = m_table_desc /\ m_initialized' = m_initialized
      /\ m_catcache' = m_catcache /\ g_test_no_catcache' = g_test_no_catcache
      /\ pc \in {"idle", "done", "failed"}
      /\ pc' \in {"idle", "meta"} /\ (pc' = "meta" => m_catcache)
      /\ is_open' = is_open \/ g_test_no_catcache \/ pc = "done"
  <2>1. CASE init_global
    BY <2>1 DEF init_global, catalogVars
  <2>2. CASE \E path \in Paths : OpenNoCatCache(path)
    BY <2>2 DEF OpenNoCatCache, CanOpen, catalogVars
  <2>3. CASE OpenReturn
    BY <2>3 DEF OpenReturn, cache
  <2>4. CASE OpenThrow
    BY <2>4 DEF OpenThrow, cache, dbVars
  <2>5. CASE Reinitialize
    BY <2>5 DEF Reinitialize, InitializeAgain, cache, dbVars
  <2> QED BY <2>1, <2>2, <2>3, <2>4, <2>5
<1>2. /\ next \in Nat \ {0} /\ m_initialized \in BOOLEAN
      /\ m_initialized => Filled /\ Loadable /\ m_table_desc = MinTables /\ MinFound
      /\ pc = "done" => m_catcache /\ m_initialized
      /\ m_catcache => dbmeta # NoMeta
      /\ dbmeta = NoMeta => Fresh
      /\ is_open /\ ~g_test_no_catcache => m_catcache /\ m_initialized
      /\ g_test_no_catcache => ~m_catcache
  BY <1>1 DEF IInv, Control
<1>3. dbmeta' = NoMeta => Fresh'
  <2>1. CASE Reinitialize
    BY <1>1, <1>2, <2>1 DEF Reinitialize
  <2>2. CASE ~Reinitialize
    <3>1. line' = line /\ tabid' = tabid /\ fid' = fid /\ tabid2fid' = tabid2fid
      BY <2>2 DEF init_global, OpenNoCatCache, OpenReturn, OpenThrow, catalogVars, load
    <3> QED BY <1>1, <1>2, <3>1 DEF Fresh
  <2> QED BY <2>1, <2>2
<1>4. Control'
  BY <1>1, <1>2, <1>3 DEF Control
<1> QED BY <1>1, <1>2, <1>4, QuietStep

LEMMA CacheStep ==
  ASSUME IInv, (\E path \in Paths, create \in BOOLEAN : OpenCatCache(path, create))
                 \/ close \/ Destructor
  PROVE  IInv'
<1>1. CASE \E path \in Paths, create \in BOOLEAN : OpenCatCache(path, create)
  <2>1. /\ NewCache /\ init' = init /\ ~is_open' /\ m_catcache'
        /\ pc' \in {"meta", "crashed"} /\ ~g_test_no_catcache'
    BY <1>1 DEF OpenCatCache, OpenUntilReturn
  <2> QED BY <2>1, NewCacheStep
<1>2. CASE close \/ Destructor
  <2>1. /\ NewCache /\ init' = init /\ ~is_open' /\ ~m_catcache'
        /\ pc' \in {"idle", "exited"}
    BY <1>2 DEF close, Destructor, CloseEffect
  <2> QED BY <2>1, NewCacheStep
<1> QED BY <1>1, <1>2

LEMMA Stutter ==
  ASSUME IInv, UNCHANGED vars
  PROVE  IInv'
<1>1. /\ init' = init /\ pc' = pc /\ line' = line /\ tabid' = tabid /\ fid' = fid
      /\ tabid2fid' = tabid2fid /\ m_systables' = m_systables /\ dbmeta' = dbmeta
      /\ next' = next /\ m_table_desc' = m_table_desc /\ m_initialized' = m_initialized
      /\ g_test_no_catcache' = g_test_no_catcache /\ is_open' = is_open
      /\ m_catcache' = m_catcache
  BY DEF vars, catalogVars, dbVars
<1>2. Control'
  BY <1>1 DEF IInv, Control, Fresh
<1>3. /\ Filled => Filled'
      /\ Loadable => Loadable'
      /\ Scanned => Scanned'
      /\ MinFound => MinFound'
  BY <1>1, SameFile, SameRows
<1>4. FilesApart => FilesApart'
  BY <1>1 DEF FilesApart
<1>5. ASSUME NEW n
      PROVE  /\ ReadUpTo(n) => ReadUpTo(n)'
             /\ Fits(n) => Fits(n)'
             /\ \A t : Loaded(t, n) => Loaded(t, n)'
             /\ TableFixed(n) => TableFixed(n)'
  <2>1. (ReadUpTo(n) => ReadUpTo(n)') /\ (Fits(n) => Fits(n)')
    BY <1>1 DEF ReadUpTo, Fits, InSection
  <2>2. ASSUME NEW t, Loaded(t, n)
        PROVE  Loaded(t, n)'
    <3>1. PICK b \in 0 .. Len(init), e \in 0 .. Len(init) :
            /\ b < e /\ Section(t, b, e, n)
            /\ m_systables[File(tabid2fid[t])] = [k \in 1 .. e - b |-> init[b + k].row]
      BY <2>2 DEF Loaded
    <3>2. Section(t, b, e, n)'
      BY <1>1, <3>1 DEF Section, FirstLine, AllData
    <3>3. /\ b \in 0 .. Len(init') /\ e \in 0 .. Len(init') /\ b < e
          /\ m_systables'[File(tabid2fid'[t])] = [k \in 1 .. e - b |-> init'[b + k].row]
      BY <1>1, <3>1
    <3> QED BY <3>2, <3>3, Zenon DEF Loaded
  <2>3. ASSUME TableFixed(n)
        PROVE  TableFixed(n)'
    <3>1. PICK file : file = m_systables[TableFile]
      OBVIOUS
    <3>2. PICK b \in 0 .. Len(init), e \in 0 .. Len(init) :
            /\ b < e /\ Section("Table", b, e, Len(init) + 1)
            /\ file = [k \in 1 .. e - b |-> file[k]]
            /\ \A k \in 1 .. e - b : Fixed(file[k], k, b, k < n)
      BY <2>3, <3>1 DEF TableFixed, Fixed
    <3>3. m_systables'[TableFile'] = file
      BY <1>1, <3>1 DEF TableFile
    <3>4. \A k \in 1 .. e - b : Fixed(m_systables[TableFile][k], k, b, k < n)'
      BY <1>1, <3>2, <3>3 DEF Fixed
    <3>5. m_systables'[TableFile'] = [k \in 1 .. e - b |-> m_systables'[TableFile'][k]]
      BY <3>2, <3>3
    <3>6. /\ b \in 0 .. Len(init') /\ e \in 0 .. Len(init') /\ b < e
          /\ Section("Table", b, e, Len(init) + 1)'
      BY <1>1, <3>2 DEF Section, FirstLine, AllData
    <3> QED BY <3>4, <3>5, <3>6, Zenon DEF TableFixed
  <2> QED BY <2>1, <2>2, <2>3
<1>6. Reading => Reading'
  <2>1. ASSUME NEW b
        PROVE  OpenFile(b) => OpenFile(b)'
    BY <1>1 DEF OpenFile, FirstLine
  <2> QED BY <1>1, <2>1 DEF Reading, TableLine, AllData
<1>7. LoadInv => LoadInv'
  <2> SUFFICES ASSUME LoadInv PROVE LoadInv'
    OBVIOUS
  <2>1. PICK n : n = line
    OBVIOUS
  <2>2. ReadUpTo(n) /\ Fits(n) /\ \A t \in DOMAIN tabid2fid : Loaded(t, n)
    BY <2>1 DEF LoadInv
  <2>3. ReadUpTo(n)' /\ Fits(n)' /\ \A t \in DOMAIN tabid2fid : Loaded(t, n)'
    BY <1>5, <2>2
  <2>4. ReadUpTo(line)' /\ Fits(line)' /\ \A t \in DOMAIN tabid2fid' : Loaded(t, line)'
    BY <1>1, <2>1, <2>3
  <2> QED BY <1>1, <1>4, <1>6, <2>4 DEF LoadInv
<1>8. FixInv => FixInv'
  <2> SUFFICES ASSUME FixInv PROVE FixInv'
    OBVIOUS
  <2>1. PICK n, x : n = Len(init) + 1 /\ x = next
    OBVIOUS
  <2>2. /\ ReadUpTo(n) /\ Fits(n) /\ TableFixed(x)
        /\ \A t \in DOMAIN tabid2fid \ {"Table"} : Loaded(t, n)
    BY <2>1 DEF FixInv
  <2>3. /\ ReadUpTo(n)' /\ Fits(n)' /\ TableFixed(x)'
        /\ \A t \in DOMAIN tabid2fid \ {"Table"} : Loaded(t, n)'
    BY <1>5, <2>2
  <2>4. /\ ReadUpTo(Len(init) + 1)' /\ Fits(Len(init) + 1)' /\ TableFixed(next)'
        /\ \A t \in DOMAIN tabid2fid' \ {"Table"} : Loaded(t, Len(init) + 1)'
    BY <1>1, <2>1, <2>3
  <2> QED BY <1>1, <1>4, <2>4 DEF FixInv
<1> QED BY <1>1, <1>2, <1>3, <1>7, <1>8 DEF IInv

LEMMA InitIInv == Init => IInv
<1> SUFFICES ASSUME Init PROVE IInv
  OBVIOUS
<1>1. /\ init \in InitFiles /\ pc = "idle" /\ next \in Nat \ {0}
      /\ m_table_desc = {} /\ is_open = FALSE /\ m_catcache = FALSE
  BY DEF Init, CacheInit
<1>2. Fresh /\ ~m_initialized /\ m_initialized \in BOOLEAN
  BY Zenon DEF Init, CacheInit, Fresh
<1>3. Control
  BY <1>1, <1>2 DEF Control
<1> QED BY <1>1, <1>2, <1>3 DEF IInv

LEMMA NextIInv == IInv /\ [Next]_vars => IInv'
<1> SUFFICES ASSUME IInv, [Next]_vars PROVE IInv'
  OBVIOUS
<1>1. CASE Initialize /\ UNCHANGED dbVars
  BY <1>1, MetaStep, LoadStep, FixStep, ScanStep DEF Initialize
<1>2. CASE Gone \/ UNCHANGED vars
  BY <1>2, Stutter DEF Gone
<1> QED BY <1>1, <1>2, CallStep, CacheStep DEF Next

LEMMA Invariant == Spec => []IInv
BY InitIInv, NextIInv, PTL DEF Spec

-----------------------------------------------------------------------------
(***************************************************************************)
(* The theorems.                                                           *)
(***************************************************************************)
\* A database that says it is open has a catalog that was initialized to the
\* end, with the descriptors it needs, from a complete init data file: no call
\* of open() that threw, and no second InitializeFromInitData(), is taken for
\* one that has returned.
THEOREM OpenComplete == Spec => []OpenIsComplete
<1>1. IInv => OpenIsComplete
  <2> SUFFICES ASSUME IInv, is_open, ~g_test_no_catcache
               PROVE  /\ m_catcache /\ m_initialized
                      /\ m_table_desc = MinTables /\ WellFormed
    BY DEF OpenIsComplete
  <2>1. m_catcache /\ m_initialized
    BY DEF IInv, Control
  <2>2. m_table_desc = MinTables /\ Loadable /\ MinFound /\ Filled
    BY <2>1 DEF IInv
  <2>3. FoundTables(TableRows) = MinTables
    <3>1. PICK r, s : r = Rows /\ s = TableRows
      OBVIOUS
    <3>2. /\ DOMAIN r = 1 .. Len(r) /\ Len(r) \in Nat /\ DOMAIN s = DOMAIN r
          /\ \A k \in DOMAIN r : r[k].tabid = s[k].tabid
      BY <2>2, <3>1 DEF Filled
    <3>3. ASSUME NEW k \in DOMAIN r
          PROVE  NumFound(s, k - 1) = NumFound(r, k - 1)
      <4>1. \A i \in 1 .. k - 1 : s[i].tabid = r[i].tabid
        BY <3>2
      <4>2. {i \in 1 .. k - 1 : s[i].tabid \in MinTables}
              = {i \in 1 .. k - 1 : r[i].tabid \in MinTables}
        BY <4>1
      <4> QED BY <4>2 DEF NumFound
    <3>4. FoundTables(s) = FoundTables(r)
      BY <3>2, <3>3 DEF FoundTables
    <3> QED BY <2>2, <3>1, <3>4 DEF MinFound
  <2> QED BY <2>1, <2>2, <2>3 DEF WellFormed
<1> QED BY <1>1, Invariant, PTL

\* In an initialized catalog the file IDs that FinishInitCatalog() has put into
\* the rows of Table lead to the rows LoadInitFile() has read for the tables.
THEOREM TabfidsLeadToRows == Spec => []TabfidsRight
<1>1. IInv => TabfidsRight
  <2> SUFFICES ASSUME IInv, m_initialized, NEW k \in DOMAIN Rows
               PROVE  IF Rows[k].tabid = "Table"
                        THEN File(Rows[k].tabfid) = File(dbmeta)
                        ELSE m_systables[File(Rows[k].tabfid)] = SectionOf(Rows[k].tabid)
    <3>1. ASSUME \A k \in DOMAIN Rows :
                   IF Rows[k].tabid = "Table"
                        THEN File(Rows[k].tabfid) = File(dbmeta)
                        ELSE m_systables[File(Rows[k].tabfid)] = SectionOf(Rows[k].tabid),
                 NEW r \in {Rows[i] : i \in DOMAIN Rows}
          PROVE  IF r.tabid = "Table"
                        THEN File(r.tabfid) = File(dbmeta)
                        ELSE m_systables[File(r.tabfid)] = SectionOf(r.tabid)
      <4>1. PICK k \in DOMAIN Rows : r = Rows[k]
        OBVIOUS
      <4>2. SectionOf(r.tabid) = SectionOf(Rows[k].tabid)
        BY <4>1 DEF SectionOf, SectionBegin, FirstLine, InSection
      <4> QED BY <3>1, <4>1, <4>2
    <3> QED BY <3>1 DEF TabfidsRight
  <2>1. Filled
    BY DEF IInv
  <2> QED BY <2>1 DEF Filled
<1> QED BY <1>1, Invariant, PTL

\* No call changes the catalog of a database that stays open: the steps of
\* InitializeFromInitData() that write come after CreateDBMeta(), which throws
\* on a cache that has a meta page.
THEOREM OpenCatalogStays == Spec => OpenCatalogKept
<1> DEFINE Same == UNCHANGED <<m_systables, dbmeta, m_table_desc, types, m_initialized>>
<1>1. ASSUME IInv, [Next]_vars, is_open, is_open'
      PROVE  Same
  <2>1. CASE init_global \/ (\E path \in Paths : OpenNoCatCache(path))
               \/ OpenReturn \/ OpenThrow \/ Reinitialize
    BY <2>1 DEF init_global, OpenNoCatCache, OpenReturn, OpenThrow, Reinitialize,
                InitializeAgain, catalogVars, cache
  <2>2. CASE (\E path \in Paths, create \in BOOLEAN : OpenCatCache(path, create))
               \/ close \/ Destructor
    BY <1>1, <2>2 DEF OpenCatCache, OpenUntilReturn, close, Destructor, CloseEffect
  <2>3. CASE Initialize /\ UNCHANGED dbVars
    <3>1. pc \in {"meta", "load", "fix", "tables", "types", "indexes"}
      BY <2>3 DEF Initialize, CreateDBMeta, LoadTableLine, LoadDataLine, LoadFull,
                  LoadErrorLine, LoadEof, FixTabfid, WriteTableFid, ScanTables,
                  CollectTypes, ScanTypes, FinishMinCache, CheckIndexes
    <3>2. m_initialized
      BY <1>1, <3>1 DEF IInv, Control
    <3>3. pc \in {"meta", "indexes"} /\ dbmeta # NoMeta
      BY <1>1, <3>1, <3>2 DEF IInv, Control, Fresh
    <3>4. CreateDBMeta \/ CheckIndexes
      BY <2>3, <3>3 DEF Initialize, LoadTableLine, LoadDataLine, LoadFull,
                  LoadErrorLine, LoadEof, FixTabfid, WriteTableFid, ScanTables,
                  CollectTypes, ScanTypes, FinishMinCache
    <3> QED BY <3>3, <3>4 DEF CreateDBMeta, RawFileFree, CheckIndexes, cache
  <2>4. CASE Gone \/ UNCHANGED vars
    BY <2>4 DEF Gone, vars, catalogVars
  <2> QED BY <1>1, <2>1, <2>2, <2>3, <2>4 DEF Next
<1>2. IInv /\ [Next]_vars => [is_open /\ is_open' => Same]_vars
  BY <1>1
<1> QED BY <1>2, Invariant, PTL DEF Spec, OpenCatalogKept
=============================================================================
