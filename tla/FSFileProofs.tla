---------------------------- MODULE FSFileProofs ----------------------------
(***************************************************************************)
(* Proofs about FSFile for any number of objects, paths, inodes and        *)
(* descriptors and any file size: an open object has a descriptor of its   *)
(* own and FileHandles is implemented; while the file is smaller than 2^31 *)
(* bytes the cached size is never more than its size and no read passes    *)
(* its end; Allocate() loses no data of a file smaller than 2^32 bytes.    *)
(***************************************************************************)
EXTENDS FSFile, TLAPS

\* An FSFile that exists has a descriptor number and a path.
LiveOK ==
  \A f \in Files :
    /\ file[f].live => file[f].fd \in Fds /\ file[f].file_path \in Paths
    /\ file[f].is_file_open => file[f].live

TypeInv == TypeOK /\ LiveOK

\* What the calls have in common: those that change nothing but ret, ...
Quiet ==
  /\ UNCHANGED <<file, usable, fdt, inode>>
  /\ fallocate_works' => fallocate_works

\* ... those that attach f to inode i with the free descriptor d, ...
Opens(f, d, i, r) ==
  /\ d \in Fds /\ fdt[d] = None
  /\ i \in Inodes /\ i[1] = r.file_path
  /\ NotOpenElsewhere(f, r.file_path)
  /\ r.live /\ r.is_file_open /\ r.fd = d
  /\ r.size = SIZE_MAX \/ r.size = inode'[i].size
  /\ file' = [file EXCEPT ![f] = r]
  /\ fdt' = [fdt EXCEPT ![d] = i]
  /\ inode' = inode \/ inode' = [inode EXCEPT ![i] = Empty]
  /\ usable' = usable \union {f}
  /\ fallocate_works' = fallocate_works

\* ... those that leave r of f, and close its descriptor if it is open, ...
Closes(f, r) ==
  /\ file' = [file EXCEPT ![f] = r]
  /\ \/ file[f].is_file_open /\ fdt' = [fdt EXCEPT ![file[f].fd] = None]
     \/ ~file[f].is_file_open /\ ~r.is_file_open /\ fdt' = fdt
  /\ r.is_file_open => r = file[f] /\ (CloseMayFail \/ fdt[file[f].fd] = None)
  /\ inode' = inode
  /\ fallocate_works' = fallocate_works
  /\ \/ usable' = usable \ {f}
     \/ UseAfterDelete /\ usable' = usable /\ r.fd = file[f].fd

\* ... and those that store node in the file that f's descriptor refers to.
Stores(f, node, size) ==
  /\ f \in usable /\ file[f].live /\ Node(f) # None
  /\ inode' = [inode EXCEPT ![Node(f)] = node]
  /\ file' = [file EXCEPT ![f] = [@ EXCEPT !.size = size]]
  /\ UNCHANGED <<usable, fdt>>
  /\ fallocate_works' => fallocate_works

Nodes == [size : 0 .. MaxSize, data : SUBSET Units]

\* What Allocate() makes of the old contents of the file, if it starts at s.
Allocated(old, node, s) ==
  /\ old.size <= node.size
  /\ old.data \subseteq 0 .. old.size - 1 => node.data \subseteq 0 .. node.size - 1
  /\ s < IntMod => \A b \in old.data : b < s => b \in node.data

\* ... and of the cached size.
Recached(f, node, size) ==
  \/ size = file[f].size /\ node.data \subseteq inode[Node(f)].data
  \/ ~fallocate_works' /\ (size <= node.size \/ node.size > MaxInt)

-----------------------------------------------------------------------------
(***************************************************************************)
(* The int: it holds every size up to MaxInt, is never more than the size, *)
(* and negative for the sizes from 2^31 to 2^32 - 1.                       *)
(***************************************************************************)
LEMMA IntRange ==
  ASSUME NEW n \in Nat
  PROVE  ToInt(n) \in -HalfInt .. MaxInt /\ ToInt(n) <= n
<1> DEFINE m == IntMod   x == n + HalfInt
<1>1. m \in Nat /\ m > 0 /\ x \in Nat
  BY SizeAssumption DEF IntMod
<1> HIDE DEF m, x
<1>2. x % m \in 0 .. m - 1
  BY <1>1
<1>3. x % m <= x
  <2>1. x = m * (x \div m) + (x % m) /\ x \div m \in Nat /\ x % m \in Nat
    BY <1>1
  <2>2. m * (x \div m) >= 0
    <3> DEFINE k == x \div m
    <3>1. k \in Nat
      BY <2>1
    <3> HIDE DEF k
    <3>2. m * k >= 0
      BY <1>1, <3>1
    <3> QED BY <3>2 DEF k
  <2>3. m * (x \div m) \in Int
    BY <1>1, <2>1
  <2> QED BY <1>1, <2>1, <2>2, <2>3
<1> QED BY <1>1, <1>2, <1>3, SizeAssumption DEF ToInt, MaxInt, IntMod, m, x

LEMMA NoSize == SIZE_MAX \in 0 .. SIZE_MAX
BY SizeAssumption DEF SIZE_MAX, IntMod

LEMMA IntSmall ==
  ASSUME NEW n \in 0 .. MaxInt
  PROVE  ToInt(n) = n
<1>1. (n + HalfInt) % IntMod = n + HalfInt
  BY SizeAssumption DEF MaxInt, IntMod
<1> QED BY <1>1, SizeAssumption DEF ToInt, MaxInt, IntMod

LEMMA IntLarge ==
  ASSUME NEW n \in HalfInt .. IntMod - 1
  PROVE  ToInt(n) < 0
<1> DEFINE m == IntMod   x == n + HalfInt
<1>1. m \in Nat /\ m > 0 /\ x \in Nat /\ m <= x /\ x < 2 * m
  BY SizeAssumption DEF IntMod
<1> HIDE DEF m, x
<1>2. x % m = x - m
  BY <1>1
<1> QED BY <1>2, SizeAssumption DEF ToInt, IntMod, m, x

\* The size that a slow Allocate() caches.
LEMMA CachedInt ==
  ASSUME NEW n \in 0 .. MaxSize
  PROVE  /\ SizeT(ToInt(n)) \in 0 .. SIZE_MAX
         /\ SizeT(ToInt(n)) <= n \/ n > MaxInt
<1>1. SizeT(ToInt(n)) \in 0 .. SIZE_MAX
  BY IntRange, SizeAssumption DEF SizeT, SIZE_MAX, MaxInt, IntMod
<1>2. CASE n <= MaxInt
  BY <1>1, <1>2, IntSmall, SizeAssumption DEF SizeT, MaxInt
<1> QED BY <1>1, <1>2, SizeAssumption DEF MaxInt

-----------------------------------------------------------------------------
LEMMA InitType == ASSUME Init PROVE TypeInv
<1>1. inode \in [Inodes -> [size : 0 .. MaxSize, data : SUBSET Units]]
  <2>1. PICK n \in [Inodes -> 0 .. MaxSize] :
          inode = [i \in Inodes |-> [size |-> n[i], data |-> 0 .. n[i] - 1]]
    BY DEF Init
  <2>2. \A i \in Inodes : 0 .. n[i] - 1 \subseteq Units
    BY SizeAssumption DEF Units
  <2> QED BY <2>1, <2>2
<1>3. NoFile \in FileRec /\ ~NoFile.live /\ ~NoFile.is_file_open
  BY NoSize DEF NoFile, FileRec
<1> QED BY <1>1, <1>3, FSFileAssumption
        DEF Init, TypeInv, TypeOK, LiveOK, Ops, Outcomes

LEMMA NodeType ==
  ASSUME TypeInv, NEW f \in Files, file[f].live
  PROVE  /\ file[f].fd \in Fds
         /\ Node(f) \in Inodes \union {None}
         /\ Node(f) # None => Node(f) \in Inodes /\ inode[Node(f)].size \in 0 .. MaxSize
BY DEF TypeInv, TypeOK, LiveOK, Node

LEMMA SizeType ==
  ASSUME TypeInv, NEW f \in Files, file[f].live, Node(f) # None
  PROVE  SizeOf(f) \in Nat
BY NodeType DEF TypeInv, TypeOK, FileRec, SizeOf

LEMMA StoredIs ==
  ASSUME NEW node \in [size : 0 .. MaxSize, data : SUBSET Units],
         NEW lo \in Nat, NEW hi \in 0 .. MaxSize
  PROVE  /\ Stored(node, lo, hi) \in [size : 0 .. MaxSize, data : SUBSET Units]
         /\ Zeroed(node, lo, hi) \in [size : 0 .. MaxSize, data : SUBSET Units]
         /\ node.size <= Stored(node, lo, hi).size
         /\ node.size <= Zeroed(node, lo, hi).size
         /\ hi > lo => hi <= Stored(node, lo, hi).size /\ hi <= Zeroed(node, lo, hi).size
BY SizeAssumption DEF Stored, Zeroed, Units

LEMMA StoredData ==
  ASSUME NEW node, NEW lo, NEW hi
  PROVE  /\ Stored(node, lo, hi).data = node.data \union (lo .. hi - 1)
         /\ Zeroed(node, lo, hi).data = node.data \ (lo .. hi - 1)
BY DEF Stored, Zeroed

-----------------------------------------------------------------------------
(***************************************************************************)
(* Each call is of one of the four kinds.                                  *)
(***************************************************************************)
LEMMA OpenOpens ==
  ASSUME TypeInv, NEW f \in Files, NEW p \in Paths,
         NEW o_trunc \in BOOLEAN, NEW o_creat \in BOOLEAN, Open(f, p, o_trunc, o_creat)
  PROVE  \E d, i, r : Opens(f, d, i, r)
<1>1. PICK d \in Fds, i \in Inodes :
        /\ open2(p, d, i, o_trunc, o_creat)
        /\ file' = [file EXCEPT ![f] =
                      [live |-> TRUE, is_file_open |-> TRUE, fd |-> d,
                       file_path |-> p, size |-> SizeAtOpen(i)]]
  BY DEF Open
<1> DEFINE r == [live |-> TRUE, is_file_open |-> TRUE, fd |-> d,
                 file_path |-> p, size |-> SizeAtOpen(i)]
<1>2. Opens(f, d, i, r)
  BY <1>1 DEF Open, Opens, open2, FreeFds, SizeAtOpen
<1> QED BY <1>2

LEMMA ReopenOpens ==
  ASSUME TypeInv, NEW f \in Files, Reopen(f)
  PROVE  \E d, i, r : Opens(f, d, i, r)
<1>1. PICK d \in Fds, i \in Inodes :
        /\ open2(file[f].file_path, d, i, FALSE, FALSE)
        /\ file' = [file EXCEPT ![f] = Reopened(@, d)]
  BY DEF Reopen
<1> DEFINE r == Reopened(file[f], d)
<1>2. /\ r.live = file[f].live /\ r.is_file_open /\ r.fd = d
      /\ r.file_path = file[f].file_path /\ r.size = SIZE_MAX
  BY DEF Reopened, TypeInv, TypeOK, FileRec
<1>3. file' = [file EXCEPT ![f] = r]
  BY <1>1 DEF TypeInv, TypeOK
<1> HIDE DEF r
<1>4. Opens(f, d, i, r)
  BY <1>1, <1>2, <1>3 DEF Reopen, Opens, open2, FreeFds
<1> QED BY <1>4

LEMMA CloseFileCloses ==
  ASSUME TypeInv, NEW f \in Files, NEW out, CloseFile(f, out)
  PROVE  \E r : /\ file' = [file EXCEPT ![f] = r] /\ r \in FileRec
                /\ \/ file[f].is_file_open /\ fdt' = [fdt EXCEPT ![file[f].fd] = None]
                   \/ ~file[f].is_file_open /\ ~r.is_file_open /\ fdt' = fdt
                /\ r.is_file_open => r = file[f] /\ (CloseMayFail \/ fdt[file[f].fd] = None)
                /\ r.fd = file[f].fd /\ r.live = file[f].live
                /\ r.file_path = file[f].file_path
<1> DEFINE c == Closed(file[f])
<1>1. /\ c \in FileRec /\ ~c.is_file_open /\ c.fd = file[f].fd
      /\ c.live = file[f].live /\ c.file_path = file[f].file_path
  BY NoSize DEF Closed, TypeInv, TypeOK, FileRec
<1>2. file[f] \in FileRec /\ file = [file EXCEPT ![f] = file[f]]
  BY DEF TypeInv, TypeOK
<1>3. CASE ~file[f].is_file_open /\ UNCHANGED <<file, fdt>>
  BY <1>2, <1>3
<1>4. CASE file[f].is_file_open /\ close2(file[f].fd, TRUE)
           /\ file' = [file EXCEPT ![f] = Closed(@)]
  <2>1. file' = [file EXCEPT ![f] = c]
    BY <1>4 DEF TypeInv, TypeOK
  <2> HIDE DEF c
  <2> QED BY <1>1, <1>4, <2>1 DEF close2
<1>5. CASE file[f].is_file_open /\ close2(file[f].fd, FALSE) /\ UNCHANGED file
  BY <1>2, <1>5 DEF close2
<1> QED BY <1>3, <1>4, <1>5 DEF CloseFile

LEMMA ClosingCloses ==
  ASSUME TypeInv, NEW f \in Files, Close(f) \/ Delete(f) \/ Destroy(f)
  PROVE  \E r : Closes(f, r)
<1>1. CASE Close(f)
  BY <1>1, CloseFileCloses DEF Close, Closes
<1>2. CASE Delete(f)
  BY <1>2, CloseFileCloses DEF Delete, Closes
<1>3. CASE Destroy(f)
  <2>1. ~NoFile.is_file_open
    BY DEF NoFile
  <2>2. Closes(f, NoFile)
    BY <1>3, <2>1 DEF Destroy, Closes, close2
  <2> QED BY <2>2
<1> QED BY <1>1, <1>2, <1>3

\* A record with its own size is itself.
LEMMA SameSize ==
  ASSUME TypeInv, NEW f \in Files
  PROVE  file = [file EXCEPT ![f] = [@ EXCEPT !.size = file[f].size]]
BY DEF TypeInv, TypeOK, FileRec

LEMMA TransfersUpTo ==
  ASSUME NEW count \in Nat, NEW n \in Transfers(count) PROVE n \in 0 .. count
BY DEF Transfers

LEMMA WriteStores ==
  ASSUME TypeInv, NEW f \in Files, NEW count \in Counts, NEW offset \in Offsets,
         Write(f, count, offset)
  PROVE  \E n \in 0 .. count :
           Stores(f, Stored(inode[Node(f)], offset, offset + n), file[f].size)
<1>1. PICK n \in Transfers(count) :
        inode' = [inode EXCEPT ![Node(f)] = Stored(@, offset, offset + n)]
  BY DEF Write
<1>2. inode' = [inode EXCEPT ![Node(f)] = Stored(inode[Node(f)], offset, offset + n)]
  BY <1>1 DEF TypeInv, TypeOK
<1>3. n \in 0 .. count
  BY TransfersUpTo DEF Counts
<1> QED BY <1>2, <1>3, SameSize DEF Write, Stores, Usable, MayUse

LEMMA FastStores ==
  ASSUME TypeInv, NEW f \in Files, NEW count \in Counts, AllocateFast(f, count)
  PROVE  Stores(f, Extended(f, count), file[f].size)
BY SameSize DEF AllocateFast, Fallocates, Stores, Usable, MayUse

LEMMA SlowStores ==
  ASSUME TypeInv, NEW f \in Files, NEW count \in Counts, AllocateSlow(f, count), ~Quiet
  PROVE  /\ ~fallocate_works'
         /\ ToInt(SizeOf(f)) >= 0
         /\ \E n \in 0 .. count :
              \E junk \in SUBSET (ToInt(SizeOf(f)) + ZeroBuf .. ToInt(SizeOf(f)) + n - 1) :
                LET node == WrittenFromZeroBuf(inode[Node(f)], ToInt(SizeOf(f)), n, junk)
                IN  Stores(f, node, SizeT(ToInt(node.size)))
<1>1. CASE UNCHANGED <<file, inode>>
  BY <1>1 DEF AllocateSlow, Quiet
<1>2. CASE ~UNCHANGED <<file, inode>>
  <2> DEFINE lo == ToInt(SizeOf(f))
  <2>1. PICK n \in Transfers(count) :
          /\ lo >= 0
          /\ \E junk \in SUBSET (lo + ZeroBuf .. lo + n - 1) :
               inode' = [inode EXCEPT ![Node(f)] = WrittenFromZeroBuf(@, lo, n, junk)]
          /\ file' = [file EXCEPT ![f] = Refreshed(@, inode'[Node(f)].size)]
    BY <1>2 DEF AllocateSlow, AllocateAt
  <2>2. PICK junk \in SUBSET (lo + ZeroBuf .. lo + n - 1) :
          inode' = [inode EXCEPT ![Node(f)] = WrittenFromZeroBuf(@, lo, n, junk)]
    BY <2>1
  <2>3. n \in 0 .. count
    BY TransfersUpTo DEF Counts
  <2>4. /\ f \in usable /\ file[f].live /\ Node(f) # None /\ Node(f) \in Inodes
        /\ UNCHANGED <<usable, fdt>> /\ ~fallocate_works'
    BY NodeType DEF AllocateSlow, Fallocates, Usable, MayUse
  <2> DEFINE node == WrittenFromZeroBuf(inode[Node(f)], lo, n, junk)
  <2>5. inode' = [inode EXCEPT ![Node(f)] = node] /\ inode'[Node(f)] = node
    BY <2>2, <2>4 DEF TypeInv, TypeOK
  <2>6. file' = [file EXCEPT ![f] = [@ EXCEPT !.size = SizeT(ToInt(node.size))]]
    <3> HIDE DEF node
    <3> QED BY <2>1, <2>5 DEF Refreshed
  <2>7. Stores(f, node, SizeT(ToInt(node.size)))
    <3> HIDE DEF node
    <3> QED BY <2>4, <2>5, <2>6 DEF Stores
  <2> QED BY <2>1, <2>3, <2>4, <2>7
<1> QED BY <1>1, <1>2

-----------------------------------------------------------------------------
(***************************************************************************)
(* Types.                                                                  *)
(***************************************************************************)
LEMMA TypeFrom ==
  ASSUME TypeInv, NEW f \in Files, NEW r \in FileRec,
         file' = [file EXCEPT ![f] = r],
         r.live => r.fd \in Fds /\ r.file_path \in Paths,
         r.is_file_open => r.live,
         usable' \in SUBSET Files, fdt' \in [Fds -> Inodes \union {None}],
         dir' \in [Paths -> Inodes \union {None}], inode' \in [Inodes -> Nodes],
         fallocate_works' \in BOOLEAN,
         ret' \in [by : Files \union {None}, op : Ops, out : Outcomes]
  PROVE  TypeInv'
<1>1. TypeOK'
  BY DEF TypeInv, TypeOK, Nodes
<1>2. LiveOK'
  BY DEF TypeInv, TypeOK, LiveOK
<1> QED BY <1>1, <1>2 DEF TypeInv

\* The same for a call that leaves the FSFiles alone.
LEMMA TypeFromSameFiles ==
  ASSUME TypeInv, file' = file,
         usable' \in SUBSET Files, fdt' \in [Fds -> Inodes \union {None}],
         dir' \in [Paths -> Inodes \union {None}], inode' \in [Inodes -> Nodes],
         fallocate_works' \in BOOLEAN,
         ret' \in [by : Files \union {None}, op : Ops, out : Outcomes]
  PROVE  TypeInv'
BY DEF TypeInv, TypeOK, LiveOK, Nodes

LEMMA EmptyNode == Empty \in Nodes
BY SizeAssumption DEF Empty, Nodes

LEMMA ReturnType ==
  ASSUME NEW f \in Files, NEW op \in Ops, NEW out \in Outcomes, Return(f, op, out)
  PROVE  ret' \in [by : Files \union {None}, op : Ops, out : Outcomes]
BY DEF Return

LEMMA OpenType ==
  ASSUME TypeInv, NEW f \in Files, NEW p \in Paths, NEW d \in Fds, NEW i \in Inodes,
         NEW trunc, NEW creat, open2(p, d, i, trunc, creat)
  PROVE  /\ fdt' \in [Fds -> Inodes \union {None}]
         /\ dir' \in [Paths -> Inodes \union {None}]
         /\ inode' \in [Inodes -> Nodes]
BY EmptyNode DEF open2, TypeInv, TypeOK, Nodes

LEMMA LifecycleTypes ==
  ASSUME TypeInv, NEW f \in Files, Lifecycle(f)
  PROVE  TypeInv'
<1> USE DEF Ops, Outcomes
<1>1. ASSUME NEW p \in Paths, NEW o_trunc \in BOOLEAN, NEW o_creat \in BOOLEAN,
             Open(f, p, o_trunc, o_creat)
      PROVE  TypeInv'
  <2>1. PICK d \in Fds, i \in Inodes :
          /\ open2(p, d, i, o_trunc, o_creat)
          /\ file' = [file EXCEPT ![f] =
                        [live |-> TRUE, is_file_open |-> TRUE, fd |-> d,
                         file_path |-> p, size |-> SizeAtOpen(i)]]
    BY <1>1 DEF Open
  <2> DEFINE r == [live |-> TRUE, is_file_open |-> TRUE, fd |-> d,
                   file_path |-> p, size |-> SizeAtOpen(i)]
  <2>2. /\ fdt' \in [Fds -> Inodes \union {None}]
        /\ dir' \in [Paths -> Inodes \union {None}]
        /\ inode' \in [Inodes -> Nodes]
    BY <2>1, OpenType
  <2>3. r \in FileRec
    <3>1. inode'[i].size \in 0 .. SIZE_MAX
      BY <2>2, SizeAssumption DEF Nodes, SIZE_MAX, IntMod
    <3> QED BY <3>1 DEF FileRec, SizeAtOpen
  <2>4. r.fd \in Fds /\ r.file_path \in Paths /\ r.live
    OBVIOUS
  <2>5. file' = [file EXCEPT ![f] = r]
    BY <2>1
  <2>6. usable' \in SUBSET Files /\ fallocate_works' \in BOOLEAN
    BY <1>1 DEF Open, TypeInv, TypeOK
  <2>7. ret' \in [by : Files \union {None}, op : Ops, out : Outcomes]
    BY <1>1, ReturnType DEF Open
  <2> HIDE DEF r
  <2> QED BY <2>2, <2>3, <2>4, <2>5, <2>6, <2>7, TypeFrom
<1>2. ASSUME OpenFails(f) \/ ReopenFails(f) PROVE TypeInv'
  BY <1>2, TypeFromSameFiles, ReturnType
     DEF OpenFails, ReopenFails, kernel, TypeInv, TypeOK, Nodes
<1>3. ASSUME Reopen(f) PROVE TypeInv'
  <2>1. PICK d \in Fds, i \in Inodes :
          /\ open2(file[f].file_path, d, i, FALSE, FALSE)
          /\ file' = [file EXCEPT ![f] = Reopened(@, d)]
    BY <1>3 DEF Reopen
  <2>2. file[f].file_path \in Paths /\ file[f].live
    BY <1>3 DEF Reopen, TypeInv, LiveOK
  <2>3. /\ fdt' \in [Fds -> Inodes \union {None}]
        /\ dir' \in [Paths -> Inodes \union {None}]
        /\ inode' \in [Inodes -> Nodes]
    BY <2>1, <2>2, OpenType
  <2> DEFINE r == Reopened(file[f], d)
  <2>4. r \in FileRec /\ r.fd \in Fds /\ r.file_path \in Paths /\ r.live
    <3>1. PICK q \in FileRec : q = file[f]
      BY DEF TypeInv, TypeOK
    <3>2. /\ Reopened(q, d) \in FileRec /\ Reopened(q, d).fd = d
          /\ Reopened(q, d).file_path = q.file_path /\ Reopened(q, d).live = q.live
      BY NoSize DEF Reopened, FileRec
    <3> QED BY <2>2, <3>1, <3>2
  <2>5. file' = [file EXCEPT ![f] = r]
    BY <2>1 DEF TypeInv, TypeOK
  <2>6. usable' \in SUBSET Files /\ fallocate_works' \in BOOLEAN
    BY <1>3 DEF Reopen, TypeInv, TypeOK
  <2>7. ret' \in [by : Files \union {None}, op : Ops, out : Outcomes]
    BY <1>3, ReturnType DEF Reopen
  <2> HIDE DEF r
  <2> QED BY <2>3, <2>4, <2>5, <2>6, <2>7, TypeFrom
<1>4. ASSUME Close(f) \/ Delete(f) PROVE TypeInv'
  <2>1. PICK out : CloseFile(f, out)
    BY <1>4 DEF Close, Delete
  <2>2. PICK r \in FileRec :
          /\ file' = [file EXCEPT ![f] = r]
          /\ \/ file[f].is_file_open /\ fdt' = [fdt EXCEPT ![file[f].fd] = None]
             \/ fdt' = fdt
          /\ r.is_file_open => r = file[f]
          /\ r.fd = file[f].fd /\ r.live = file[f].live
          /\ r.file_path = file[f].file_path
    BY <2>1, CloseFileCloses
  <2>3. fdt' \in [Fds -> Inodes \union {None}]
    BY <2>2 DEF TypeInv, TypeOK
  <2>4. /\ dir' \in [Paths -> Inodes \union {None}] /\ inode' \in [Inodes -> Nodes]
        /\ usable' \in SUBSET Files /\ fallocate_works' \in BOOLEAN
    BY <1>4 DEF Close, Delete, TypeInv, TypeOK, Nodes
  <2>5. ret' \in [by : Files \union {None}, op : Ops, out : Outcomes]
    BY <1>4, ReturnType DEF Close, Delete
  <2>6. /\ r.live => r.fd \in Fds /\ r.file_path \in Paths
        /\ r.is_file_open => r.live
    BY <2>2 DEF TypeInv, LiveOK
  <2> QED BY <2>2, <2>3, <2>4, <2>5, <2>6, TypeFrom
<1>5. ASSUME Destroy(f) PROVE TypeInv'
  <2>1. NoFile \in FileRec /\ ~NoFile.live /\ ~NoFile.is_file_open
    BY NoSize DEF NoFile, FileRec
  <2>2. /\ fdt' \in [Fds -> Inodes \union {None}]
        /\ dir' \in [Paths -> Inodes \union {None}] /\ inode' \in [Inodes -> Nodes]
        /\ usable' \in SUBSET Files /\ fallocate_works' \in BOOLEAN
    BY <1>5 DEF Destroy, close2, TypeInv, TypeOK, Nodes
  <2>3. ret' \in [by : Files \union {None}, op : Ops, out : Outcomes]
    BY <1>5, ReturnType DEF Destroy
  <2> QED BY <1>5, <2>1, <2>2, <2>3, TypeFrom DEF Destroy
<1> QED BY <1>1, <1>2, <1>3, <1>4, <1>5 DEF Lifecycle

LEMMA StoresType ==
  ASSUME TypeInv, NEW f \in Files, NEW node \in Nodes,
         NEW size \in 0 .. SIZE_MAX, Stores(f, node, size),
         dir' = dir, fallocate_works' \in BOOLEAN,
         ret' \in [by : Files \union {None}, op : Ops, out : Outcomes]
  PROVE  TypeInv'
<1> DEFINE r == [file[f] EXCEPT !.size = size]
<1>1. /\ r \in FileRec /\ r.live = file[f].live /\ r.is_file_open = file[f].is_file_open
      /\ r.fd = file[f].fd /\ r.file_path = file[f].file_path
  BY DEF TypeInv, TypeOK, FileRec
<1>2. file' = [file EXCEPT ![f] = r]
  BY DEF Stores, TypeInv, TypeOK
<1>3. inode' \in [Inodes -> Nodes]
  BY DEF Stores, TypeInv, TypeOK, Nodes
<1>4. usable' \in SUBSET Files /\ fdt' \in [Fds -> Inodes \union {None}]
      /\ dir' \in [Paths -> Inodes \union {None}]
  BY DEF Stores, TypeInv, TypeOK
<1>5. /\ r.live => r.fd \in Fds /\ r.file_path \in Paths
      /\ r.is_file_open => r.live
  BY <1>1 DEF TypeInv, LiveOK
<1> HIDE DEF r
<1> QED BY <1>1, <1>2, <1>3, <1>4, <1>5, TypeFrom

\* What a fast and a slow Allocate() make of the file.
LEMMA FastAllocates ==
  ASSUME TypeInv, NEW f \in Files, file[f].live, Node(f) # None, NEW n \in Nat,
         SizeOf(f) + n <= MaxSize
  PROVE  /\ Extended(f, n) \in Nodes
         /\ Extended(f, n).data \subseteq inode[Node(f)].data
         /\ Allocated(inode[Node(f)], Extended(f, n), SizeOf(f))
<1>1. SizeOf(f) \in Nat /\ SizeOf(f) + n \in 0 .. MaxSize
  BY SizeType, SizeAssumption
<1>2. inode[Node(f)] \in Nodes
  BY NodeType DEF TypeInv, TypeOK, Nodes
<1>3. Extended(f, n) \in Nodes /\ inode[Node(f)].size <= Extended(f, n).size
  BY <1>1, <1>2, StoredIs DEF Extended, AllocateAt, Nodes
<1>4. Extended(f, n).data = inode[Node(f)].data \ (SizeOf(f) .. SizeOf(f) + n - 1)
  BY <1>1, StoredData DEF Extended, AllocateAt
<1>5. inode[Node(f)].data \subseteq Int /\ inode[Node(f)].size \in Nat
  BY <1>2, SizeAssumption DEF Nodes, Units
<1> QED BY <1>1, <1>3, <1>4, <1>5, SizeAssumption DEF Allocated, Nodes

LEMMA SlowAllocates ==
  ASSUME NEW old \in Nodes, NEW s \in Nat, NEW n \in Nat, s + n <= MaxSize,
         ToInt(s) >= 0, NEW junk \in SUBSET (ToInt(s) + ZeroBuf .. ToInt(s) + n - 1)
  PROVE  LET node == WrittenFromZeroBuf(old, ToInt(s), n, junk)
         IN  node \in Nodes /\ Allocated(old, node, s)
<1> DEFINE lo == ToInt(s)
           z == Zeroed(old, lo, lo + n)
           node == WrittenFromZeroBuf(old, lo, n, junk)
<1>1. lo \in Nat /\ lo <= s
  BY IntRange, SizeAssumption DEF MaxInt
<1>2. lo + n \in 0 .. MaxSize
  BY <1>1, SizeAssumption
<1>3. z \in Nodes /\ old.size <= z.size /\ (n > 0 => lo + n <= z.size)
  <2>1. lo + n > lo <=> n > 0
    BY <1>1
  <2> QED BY <1>1, <1>2, <2>1, StoredIs DEF Nodes
<1>4. z.data = old.data \ (lo .. lo + n - 1)
  <2>1. Zeroed(old, lo, lo + n).data = old.data \ (lo .. (lo + n) - 1)
    BY StoredData, Zenon
  <2> QED BY <1>1, <2>1
<1>5. node.size = z.size /\ node.data = z.data \union junk
  BY <1>3 DEF WrittenFromZeroBuf, Nodes
<1>6. junk \subseteq lo .. lo + n - 1 /\ junk \subseteq Units
  BY <1>1, <1>2, FSFileAssumption, SizeAssumption DEF Units
<1>7. node \in Nodes
  <2>1. node = [z EXCEPT !.data = z.data \union junk]
    BY <1>3 DEF WrittenFromZeroBuf, Nodes
  <2> QED BY <1>3, <1>6, <2>1 DEF Nodes
<1>8. ASSUME old.data \subseteq 0 .. old.size - 1 PROVE node.data \subseteq 0 .. node.size - 1
  <2>1. old.size \in Nat /\ z.size \in Nat
    BY <1>3 DEF Nodes
  <2>2. junk \subseteq 0 .. z.size - 1
    BY <1>1, <1>3, <1>6, <2>1
  <2>3. z.data \subseteq 0 .. z.size - 1
    BY <1>3, <1>4, <1>8, <2>1
  <2> QED BY <1>5, <2>2, <2>3
<1>9. ASSUME s < IntMod, NEW b \in old.data, b < s PROVE b \in node.data
  <2>1. lo = s
    <3>1. ~(s \in HalfInt .. IntMod - 1)
      BY <1>1, IntLarge
    <3>2. s \in 0 .. MaxInt
      BY <1>9, <3>1, SizeAssumption DEF MaxInt, IntMod
    <3> QED BY <3>2, IntSmall
  <2>2. b \in Int
    BY SizeAssumption DEF Nodes, Units
  <2> QED BY <1>1, <1>4, <1>5, <1>9, <2>1, <2>2
<1> QED BY <1>3, <1>5, <1>7, <1>8, <1>9 DEF Allocated

LEMMA AllocateStores ==
  ASSUME TypeInv, NEW f \in Files, NEW count \in Counts,
         AllocateFast(f, count) \/ AllocateSlow(f, count), ~Quiet
  PROVE  \E node \in Nodes, size \in 0 .. SIZE_MAX :
           /\ Stores(f, node, size)
           /\ Allocated(inode[Node(f)], node, SizeOf(f))
           /\ Recached(f, node, size)
<1>1. file[f].live /\ Node(f) # None /\ SizeOf(f) + count <= MaxSize
  BY DEF AllocateFast, AllocateSlow, Fallocates, Usable, MayUse
<1>2. SizeOf(f) \in Nat /\ inode[Node(f)] \in Nodes
  BY <1>1, SizeType, NodeType DEF TypeInv, TypeOK, Nodes
<1>3. CASE AllocateFast(f, count)
  <2>1. Stores(f, Extended(f, count), file[f].size)
    BY <1>3, FastStores
  <2>2. file[f].size \in 0 .. SIZE_MAX
    BY DEF TypeInv, TypeOK, FileRec
  <2> QED BY <1>1, <2>1, <2>2, FastAllocates DEF Counts, Recached
<1>4. CASE AllocateSlow(f, count)
  <2> DEFINE lo == ToInt(SizeOf(f))
  <2>1. ~fallocate_works' /\ lo >= 0
    BY <1>4, SlowStores
  <2>2. PICK n \in 0 .. count : \E junk \in SUBSET (lo + ZeroBuf .. lo + n - 1) :
          LET node == WrittenFromZeroBuf(inode[Node(f)], lo, n, junk)
          IN  Stores(f, node, SizeT(ToInt(node.size)))
    BY <1>4, SlowStores
  <2>3. PICK junk \in SUBSET (lo + ZeroBuf .. lo + n - 1) :
          LET node == WrittenFromZeroBuf(inode[Node(f)], lo, n, junk)
          IN  Stores(f, node, SizeT(ToInt(node.size)))
    BY <2>2
  <2> DEFINE node == WrittenFromZeroBuf(inode[Node(f)], lo, n, junk)
  <2>4. n \in Nat /\ SizeOf(f) + n <= MaxSize
    BY <1>1, <1>2, SizeAssumption DEF Counts
  <2>5. node \in Nodes /\ Allocated(inode[Node(f)], node, SizeOf(f))
    BY <1>2, <2>1, <2>4, SlowAllocates
  <2>6. Stores(f, node, SizeT(ToInt(node.size)))
    BY <2>3
  <2> HIDE DEF node
  <2>7. /\ SizeT(ToInt(node.size)) \in 0 .. SIZE_MAX
        /\ SizeT(ToInt(node.size)) <= node.size \/ node.size > MaxInt
    BY <2>5, CachedInt DEF Nodes
  <2> QED BY <2>1, <2>5, <2>6, <2>7 DEF Recached
<1> QED BY <1>3, <1>4

LEMMA DataAccessTypes ==
  ASSUME TypeInv, NEW f \in Files, DataAccess(f)
  PROVE  TypeInv'
<1> USE DEF Ops, Outcomes
<1>1. ASSUME \/ Size(f) \/ SizeTerminates(f) \/ AllocateNothing(f) \/ Flush(f)
             \/ (\E op \in {"Read", "Write"} : AccessFails(f, op))
             \/ (\E count \in Counts, offset \in Offsets : Read(f, count, offset))
      PROVE  TypeInv'
  <2>1. UNCHANGED <<file, usable, fallocate_works, fdt, dir, inode>>
    BY <1>1 DEF Size, SizeTerminates, AllocateNothing, Flush, AccessFails, Read, kernel
  <2>2. ret' \in [by : Files \union {None}, op : Ops, out : Outcomes]
    BY <1>1, ReturnType
       DEF Size, SizeTerminates, AllocateNothing, Flush, AccessFails, Read
  <2> QED BY <2>1, <2>2, TypeFromSameFiles DEF TypeInv, TypeOK, Nodes
<1>2. ASSUME NEW count \in Counts, NEW offset \in Offsets, Write(f, count, offset)
      PROVE  TypeInv'
  <2>1. PICK n \in 0 .. count :
          Stores(f, Stored(inode[Node(f)], offset, offset + n), file[f].size)
    BY <1>2, WriteStores
  <2>2. offset \in Nat /\ offset + n \in 0 .. MaxSize
    BY <1>2, SizeAssumption DEF Write, Offsets, Counts
  <2>3. inode[Node(f)] \in Nodes
    BY <2>1, NodeType DEF Stores, TypeInv, TypeOK, Nodes
  <2>4. Stored(inode[Node(f)], offset, offset + n) \in Nodes
    BY <2>2, <2>3, StoredIs DEF Nodes
  <2>5. file[f].size \in 0 .. SIZE_MAX
    BY DEF TypeInv, TypeOK, FileRec
  <2>6. ret' \in [by : Files \union {None}, op : Ops, out : Outcomes]
    BY <1>2, ReturnType DEF Write
  <2>7. dir' = dir /\ fallocate_works' \in BOOLEAN
    BY <1>2 DEF Write, TypeInv, TypeOK
  <2> QED BY <2>1, <2>4, <2>5, <2>6, <2>7, StoresType
<1>3. ASSUME NEW count \in Counts, AllocateFast(f, count) \/ AllocateSlow(f, count)
      PROVE  TypeInv'
  <2>1. ret' \in [by : Files \union {None}, op : Ops, out : Outcomes]
    BY <1>3, ReturnType DEF AllocateFast, AllocateSlow, AllocateReturns
  <2>2. dir' = dir /\ fallocate_works' \in BOOLEAN
    BY <1>3 DEF AllocateFast, AllocateSlow, TypeInv, TypeOK
  <2>3. CASE Quiet
    BY <2>1, <2>2, <2>3, TypeFromSameFiles DEF Quiet, TypeInv, TypeOK, Nodes
  <2> QED BY <1>3, <2>1, <2>2, <2>3, AllocateStores, StoresType
<1> QED BY <1>1, <1>2, <1>3 DEF DataAccess

LEMMA TypeKept == ASSUME TypeInv, [Next]_vars PROVE TypeInv'
<1>1. CASE UNCHANGED vars
  BY <1>1 DEF vars, TypeInv, TypeOK, LiveOK
<1> QED BY <1>1, LifecycleTypes, DataAccessTypes DEF Next

-----------------------------------------------------------------------------
(***************************************************************************)
(* The inductive invariant.  Its parts are about the FSFiles that are open *)
(* and not only about those that the client may still use.                 *)
(***************************************************************************)
IsOpen(f) == file[f].is_file_open

\* There is a single FSFile: then nobody can take a descriptor away from it.
OneFile == \A f, g \in Files : f = g

CloseReliable == ~CloseMayFail \/ OneFile
UseReliable == ~UseAfterDelete \/ OneFile

\* The descriptor of an open FSFile refers to a file of its path, or to nothing
\* after a close(2) that failed.
OwnPath ==
  \A f \in Files : IsOpen(f) =>
    /\ Node(f) # None => Node(f)[1] = file[f].file_path
    /\ ~CloseMayFail => Node(f) # None

\* Two open FSFiles have different descriptors and different paths.
Apart ==
  \A f, g \in Files : IsOpen(f) /\ IsOpen(g) /\ f # g =>
    file[f].fd # file[g].fd /\ file[f].file_path # file[g].file_path

\* An FSFile that is used after its Delete() has no descriptor.
UsedIsOpen ==
  /\ ~UseAfterDelete => \A f \in usable : IsOpen(f)
  /\ UseReliable => \A f \in usable : IsOpen(f) \/ Node(f) = None

\* A size that is cached is in the file, or has been through an int that could
\* not hold it; then there is no Allocate() any more.
SizesBounded ==
  \A f \in Files : IsOpen(f) /\ Node(f) # None /\ file[f].size # SIZE_MAX =>
    \/ file[f].size <= inode[Node(f)].size
    \/ ~fallocate_works /\ inode[Node(f)].size > MaxInt

DataInFile == \A i \in Inodes : inode[i].data \subseteq 0 .. inode[i].size - 1

\* All data is below the cached size, if callers write only there and until
\* zeros have been written from a wrong place or from beyond g_zerobuf.
DataBelowCached ==
  UseReliable /\ WritesInRange /\ fallocate_works =>
    \A f \in Files : IsOpen(f) /\ Node(f) # None /\ file[f].size # SIZE_MAX =>
      inode[Node(f)].data \subseteq 0 .. file[f].size - 1

IInv ==
  /\ TypeInv
  /\ OwnPath /\ Apart /\ UsedIsOpen
  /\ SizesBounded /\ DataInFile /\ DataBelowCached

LEMMA InitInv == ASSUME Init PROVE IInv
<1>1. TypeInv
  BY InitType
<1>2. \A f \in Files : ~IsOpen(f)
  BY DEF Init, NoFile, IsOpen
<1>3. DataInFile /\ usable = {}
  <2>1. PICK n \in [Inodes -> 0 .. MaxSize] :
          inode = [i \in Inodes |-> [size |-> n[i], data |-> 0 .. n[i] - 1]]
    BY DEF Init
  <2> QED BY <2>1 DEF Init, DataInFile
<1> QED BY <1>1, <1>2, <1>3
        DEF IInv, OwnPath, Apart, UsedIsOpen, SizesBounded, DataBelowCached

LEMMA QuietKeeps == ASSUME IInv, TypeInv', Quiet PROVE IInv'
BY DEF IInv, Quiet, OwnPath, Apart, UsedIsOpen, SizesBounded, DataInFile,
       DataBelowCached, IsOpen, Node

LEMMA OpensKeeps ==
  ASSUME CloseReliable, IInv, TypeInv', NEW f \in Files, NEW d, NEW i, NEW r,
         Opens(f, d, i, r)
  PROVE  IInv'
<1>1. /\ file'[f] = r /\ IsOpen(f)'
      /\ \A g \in Files \ {f} : file'[g] = file[g] /\ IsOpen(g)' = IsOpen(g)
  BY DEF Opens, IInv, TypeInv, TypeOK, IsOpen
<1>2. Node(f)' = i /\ i \in Inodes /\ i # None /\ i[1] = r.file_path
  BY <1>1, FSFileAssumption DEF Opens, Node, IInv, TypeInv, TypeOK
<1>3. ASSUME NEW g \in Files \ {f}, IsOpen(g)
      PROVE  /\ file[g].fd # d /\ Node(g)' = Node(g)
             /\ file[g].file_path # r.file_path
             /\ Node(g) # None /\ Node(g) # i /\ Node(g) \in Inodes
  <2>1. Node(g) # None /\ file[g].fd \in Fds /\ Node(g)[1] = file[g].file_path
        /\ Node(g) \in Inodes
    BY <1>3, NodeType DEF CloseReliable, OneFile, IInv, OwnPath, TypeInv, LiveOK, IsOpen
  <2>2. file[g].fd # d
    BY <2>1 DEF Opens, Node
  <2>3. Node(g)' = Node(g)
    BY <1>1, <2>1, <2>2 DEF Opens, Node, IInv, TypeInv, TypeOK
  <2>4. file[g].file_path # r.file_path
    BY <1>3 DEF Opens, NotOpenElsewhere, IsOpen
  <2> QED BY <1>2, <2>1, <2>2, <2>3, <2>4
<1>4. OwnPath'
  BY <1>1, <1>2, <1>3 DEF IInv, OwnPath
<1>5. Apart'
  BY <1>1, <1>3 DEF IInv, Apart, Opens
<1>6. UsedIsOpen'
  <2>1. ~UseAfterDelete => \A g \in usable' : IsOpen(g)'
    BY <1>1 DEF IInv, UsedIsOpen, Opens, TypeInv, TypeOK
  <2>2. ASSUME UseReliable, NEW g \in usable' PROVE IsOpen(g)' \/ Node(g)' = None
    BY <1>1, <2>1, <2>2 DEF UseReliable, OneFile, TypeInv, TypeOK
  <2> QED BY <2>1, <2>2 DEF UsedIsOpen
<1>7. \A g \in Files \ {f} : IsOpen(g) => inode'[Node(g)] = inode[Node(g)]
  BY <1>2, <1>3 DEF Opens, IInv, TypeInv, TypeOK
<1>8. r.size = SIZE_MAX \/ r.size = inode'[i].size
  BY DEF Opens
<1>0. fallocate_works' = fallocate_works
  BY DEF Opens
<1>9. SizesBounded'
  <2>1. r.size # SIZE_MAX => r.size <= inode'[i].size
    BY <1>2, <1>8 DEF TypeInv, TypeOK
  <2> QED BY <1>0, <1>1, <1>2, <1>3, <1>7, <2>1 DEF IInv, SizesBounded
<1>10. DataInFile'
  BY <1>2 DEF IInv, DataInFile, Opens, Empty, TypeInv, TypeOK
<1>11. DataBelowCached'
  BY <1>0, <1>1, <1>2, <1>3, <1>7, <1>8, <1>10 DEF IInv, DataBelowCached, DataInFile
<1> QED BY <1>4, <1>5, <1>6, <1>9, <1>10, <1>11 DEF IInv

LEMMA ClosesKeeps ==
  ASSUME IInv, TypeInv', NEW f \in Files, NEW r, Closes(f, r)
  PROVE  IInv'
<1>1. /\ file'[f] = r /\ IsOpen(f)' = r.is_file_open
      /\ \A g \in Files \ {f} : file'[g] = file[g] /\ IsOpen(g)' = IsOpen(g)
  BY DEF Closes, IInv, TypeInv, TypeOK, IsOpen
<1>2. ASSUME IsOpen(f)'
      PROVE  /\ IsOpen(f) /\ r = file[f] /\ CloseMayFail /\ Node(f)' = None
  <2>1. IsOpen(f) /\ r = file[f] /\ (CloseMayFail \/ Node(f) = None)
    BY <1>1, <1>2 DEF Closes, IsOpen, Node
  <2>2. CloseMayFail
    BY <2>1 DEF IInv, OwnPath
  <2>3. file[f].fd \in Fds
    BY <2>1 DEF IInv, TypeInv, LiveOK, IsOpen
  <2>4. Node(f)' = None
    BY <1>1, <1>2, <2>1, <2>3 DEF Closes, Node, IsOpen, IInv, TypeInv, TypeOK
  <2> QED BY <2>1, <2>2, <2>4
<1>3. ASSUME NEW g \in Files \ {f}, IsOpen(g) PROVE Node(g)' = Node(g)
  BY <1>1, <1>3 DEF Closes, Node, IInv, Apart, IsOpen, TypeInv, TypeOK, LiveOK
<1>4. OwnPath'
  BY <1>1, <1>2, <1>3 DEF IInv, OwnPath
<1>5. Apart'
  BY <1>1, <1>2 DEF IInv, Apart
<1>6. UsedIsOpen'
  <2>1. ASSUME ~UseAfterDelete, NEW g \in usable' PROVE IsOpen(g)'
    BY <1>1, <2>1 DEF IInv, UsedIsOpen, Closes, TypeInv, TypeOK
  <2>2. ASSUME UseReliable, UseAfterDelete, NEW g \in usable'
        PROVE  IsOpen(g)' \/ Node(g)' = None
    <3>1. g = f /\ f \in usable /\ r.fd = file[f].fd
      BY <2>2 DEF UseReliable, OneFile, Closes, IInv, TypeInv, TypeOK
    <3>2. CASE IsOpen(f)
      BY <1>1, <3>1, <3>2 DEF Closes, Node, IsOpen, IInv, TypeInv, TypeOK, LiveOK
    <3>3. CASE ~IsOpen(f)
      BY <1>1, <2>2, <3>1, <3>3 DEF Closes, Node, IsOpen, IInv, UsedIsOpen
    <3> QED BY <3>2, <3>3
  <2> QED BY <2>1, <2>2, FSFileAssumption DEF UsedIsOpen
<1>7. inode' = inode /\ fallocate_works' = fallocate_works
  BY DEF Closes
<1>8. SizesBounded'
  BY <1>1, <1>2, <1>3, <1>7 DEF IInv, SizesBounded
<1>9. DataInFile' /\ DataBelowCached'
  BY <1>1, <1>2, <1>3, <1>7 DEF IInv, DataInFile, DataBelowCached
<1> QED BY <1>4, <1>5, <1>6, <1>8, <1>9 DEF IInv

LEMMA StoresKeeps ==
  ASSUME IInv, TypeInv', NEW f \in Files, NEW node \in Nodes,
         NEW size \in 0 .. SIZE_MAX, Stores(f, node, size),
         inode[Node(f)].size <= node.size,
         node.data \subseteq 0 .. node.size - 1,
         \/ size = file[f].size
         \/ ~fallocate_works' /\ (size <= node.size \/ node.size > MaxInt),
         UseReliable /\ WritesInRange /\ fallocate_works' /\ IsOpen(f) /\ size # SIZE_MAX =>
           node.data \subseteq 0 .. size - 1
  PROVE  IInv'
<1>1. /\ \A g \in Files : /\ file'[g].fd = file[g].fd
                          /\ file'[g].file_path = file[g].file_path
                          /\ IsOpen(g)' = IsOpen(g)
      /\ file'[f].size = size
      /\ \A g \in Files \ {f} : file'[g].size = file[g].size
  BY DEF Stores, IInv, TypeInv, TypeOK, FileRec, IsOpen
<1>2. \A g \in Files : Node(g)' = Node(g)
  BY <1>1 DEF Stores, Node
<1>3. Node(f) # None /\ Node(f) \in Inodes
  BY NodeType DEF Stores, IInv
<1>4. /\ inode'[Node(f)] = node
      /\ \A i \in Inodes \ {Node(f)} : inode'[i] = inode[i]
  BY <1>3 DEF Stores, IInv, TypeInv, TypeOK
<1>5. \A g \in Files : IsOpen(g) /\ Node(g) # None => Node(g) \in Inodes
  BY NodeType DEF IInv, TypeInv, LiveOK, IsOpen
<1>6. OwnPath' /\ Apart'
  BY <1>1, <1>2 DEF IInv, OwnPath, Apart
<1>7. UsedIsOpen'
  BY <1>1, <1>2 DEF IInv, UsedIsOpen, Stores, TypeInv, TypeOK
<1>8. SizesBounded'
  <2>1. SUFFICES ASSUME NEW g \in Files, IsOpen(g), Node(g) # None, file'[g].size # SIZE_MAX
                 PROVE  \/ file'[g].size <= inode'[Node(g)].size
                        \/ ~fallocate_works' /\ inode'[Node(g)].size > MaxInt
    BY <1>1, <1>2 DEF SizesBounded
  <2>2. Node(g) \in Inodes /\ MaxInt \in Int
    BY <1>5, <2>1, SizeAssumption DEF MaxInt
  <2>3. inode[Node(g)].size <= inode'[Node(g)].size
    BY <1>4, <2>2 DEF IInv, TypeInv, TypeOK
  <2>4. /\ inode[Node(g)].size \in Nat /\ inode'[Node(g)].size \in Nat
        /\ fallocate_works' => fallocate_works
    BY <2>2 DEF IInv, TypeInv, TypeOK, Stores
  <2>5. CASE file'[g].size = file[g].size
    <3>1. \/ file[g].size <= inode[Node(g)].size
          \/ ~fallocate_works /\ inode[Node(g)].size > MaxInt
      BY <2>1, <2>5 DEF IInv, SizesBounded
    <3>2. file[g].size \in Nat
      BY DEF IInv, TypeInv, TypeOK, FileRec
    <3> QED BY <2>2, <2>3, <2>4, <2>5, <3>1, <3>2
  <2>6. CASE file'[g].size # file[g].size
    <3>1. g = f /\ ~fallocate_works' /\ (size <= node.size \/ node.size > MaxInt)
      BY <1>1, <2>6
    <3> QED BY <1>1, <1>4, <3>1
  <2> QED BY <2>5, <2>6
<1>9. DataInFile'
  BY <1>4 DEF IInv, DataInFile
<1>10. DataBelowCached'
  <2>1. SUFFICES ASSUME UseReliable, WritesInRange, fallocate_works', NEW g \in Files,
                        IsOpen(g), Node(g) # None, file'[g].size # SIZE_MAX
                 PROVE  inode'[Node(g)].data \subseteq 0 .. file'[g].size - 1
    BY <1>1, <1>2 DEF DataBelowCached
  <2>2. IsOpen(f)
    BY <1>3, <2>1 DEF IInv, UsedIsOpen, Stores
  <2>3. CASE g = f
    BY <1>1, <1>4, <2>1, <2>2, <2>3
  <2>4. CASE g # f
    <3>1. Node(g) # Node(f) /\ Node(g) \in Inodes
      BY <1>3, <1>5, <2>1, <2>2, <2>4 DEF IInv, OwnPath, Apart
    <3> QED BY <1>1, <1>4, <2>1, <2>4, <3>1 DEF IInv, DataBelowCached, Stores
  <2> QED BY <2>3, <2>4
<1> QED BY <1>6, <1>7, <1>8, <1>9, <1>10 DEF IInv

LEMMA WriteKeeps ==
  ASSUME IInv, TypeInv', NEW f \in Files, NEW count \in Counts, NEW offset \in Offsets,
         Write(f, count, offset)
  PROVE  IInv'
<1>1. PICK n \in 0 .. count :
        Stores(f, Stored(inode[Node(f)], offset, offset + n), file[f].size)
  BY WriteStores DEF IInv
<1> DEFINE old == inode[Node(f)]
           node == Stored(old, offset, offset + n)
<1>2. file[f].live /\ Node(f) # None /\ Node(f) \in Inodes
  BY <1>1, NodeType DEF Stores, IInv
<1>3. offset \in Nat /\ n \in Nat /\ count \in Nat /\ offset + n \in 0 .. MaxSize
  BY SizeAssumption DEF Write, Offsets, Counts
<1>4. old \in Nodes
  BY <1>2 DEF IInv, TypeInv, TypeOK, Nodes
<1>5. node \in Nodes /\ old.size <= node.size /\ (n > 0 => offset + n <= node.size)
  <2>1. offset + n > offset <=> n > 0
    BY <1>3
  <2> QED BY <1>3, <1>4, <2>1, StoredIs DEF Nodes
<1>6. node.data = old.data \union (offset .. offset + n - 1)
  BY <1>3, StoredData
<1>7. old.data \subseteq 0 .. old.size - 1
  BY <1>2 DEF IInv, DataInFile
<1>8. node.data \subseteq 0 .. node.size - 1
  BY <1>3, <1>4, <1>5, <1>6, <1>7 DEF Nodes
<1>9. ASSUME UseReliable, WritesInRange, fallocate_works', IsOpen(f), file[f].size # SIZE_MAX
      PROVE  node.data \subseteq 0 .. file[f].size - 1
  <2>1. offset + count <= file[f].size /\ file[f].size \in Nat
    BY <1>9 DEF Write, SizeOf, IInv, TypeInv, TypeOK, FileRec
  <2>2. old.data \subseteq 0 .. file[f].size - 1
    BY <1>1, <1>2, <1>9 DEF IInv, DataBelowCached, Stores
  <2> QED BY <1>3, <1>6, <2>1, <2>2
<1>10. file[f].size \in 0 .. SIZE_MAX
  BY DEF IInv, TypeInv, TypeOK, FileRec
<1> HIDE DEF node
<1> QED BY <1>1, <1>5, <1>8, <1>9, <1>10, StoresKeeps DEF node

LEMMA AllocateKeeps ==
  ASSUME IInv, TypeInv', NEW f \in Files, NEW count \in Counts,
         AllocateFast(f, count) \/ AllocateSlow(f, count)
  PROVE  IInv'
<1>1. CASE Quiet
  BY <1>1, QuietKeeps
<1>2. CASE ~Quiet
  <2>1. PICK node \in Nodes, size \in 0 .. SIZE_MAX :
          /\ Stores(f, node, size)
          /\ Allocated(inode[Node(f)], node, SizeOf(f))
          /\ Recached(f, node, size)
    BY <1>2, AllocateStores DEF IInv
  <2>2. Node(f) # None /\ Node(f) \in Inodes
    BY <2>1, NodeType DEF Stores, IInv
  <2>3. inode[Node(f)].size <= node.size /\ node.data \subseteq 0 .. node.size - 1
    BY <2>1, <2>2 DEF Allocated, IInv, DataInFile
  <2>4. ASSUME UseReliable, WritesInRange, fallocate_works', IsOpen(f), size # SIZE_MAX
        PROVE  node.data \subseteq 0 .. size - 1
    <3>1. size = file[f].size /\ node.data \subseteq inode[Node(f)].data
      BY <2>1, <2>4 DEF Recached
    <3> QED BY <2>1, <2>2, <2>4, <3>1 DEF Stores, IInv, DataBelowCached
  <2> QED BY <2>1, <2>3, <2>4, StoresKeeps DEF Recached
<1> QED BY <1>1, <1>2

LEMMA InvKept == ASSUME CloseReliable, IInv, [Next]_vars PROVE IInv'
<1>1. TypeInv'
  BY TypeKept DEF IInv
<1>2. CASE UNCHANGED vars
  BY <1>1, <1>2, QuietKeeps DEF vars, Quiet
<1>3. ASSUME NEW f \in Files, Lifecycle(f) PROVE IInv'
  <2>1. OpenFails(f) \/ ReopenFails(f) => Quiet
    BY DEF OpenFails, ReopenFails, kernel, Quiet
  <2> QED BY <1>1, <1>3, <2>1, QuietKeeps, OpensKeeps, ClosesKeeps, OpenOpens,
             ReopenOpens, ClosingCloses DEF Lifecycle, IInv
<1>4. ASSUME NEW f \in Files, DataAccess(f) PROVE IInv'
  <2>1. ASSUME \/ Size(f) \/ SizeTerminates(f) \/ AllocateNothing(f) \/ Flush(f)
               \/ (\E op \in {"Read", "Write"} : AccessFails(f, op))
               \/ (\E count \in Counts, offset \in Offsets : Read(f, count, offset))
        PROVE  Quiet
    BY <2>1 DEF Size, SizeTerminates, AllocateNothing, Flush, AccessFails, Read,
                kernel, Quiet
  <2> QED BY <1>1, <1>4, <2>1, QuietKeeps, WriteKeeps, AllocateKeeps DEF DataAccess
<1> QED BY <1>2, <1>3, <1>4 DEF Next

-----------------------------------------------------------------------------
\* Every variable keeps its type, whatever fails and whatever the callers do:
\* no call reaches beyond MaxSize or uses a descriptor number that is none.
THEOREM TypeCorrect == Spec => []TypeOK
<1>1. Init => TypeInv
  BY InitType
<1>2. TypeInv /\ [Next]_vars => TypeInv'
  BY TypeKept
<1>3. TypeInv => TypeOK
  BY DEF TypeInv
<1> QED BY <1>1, <1>2, <1>3, PTL DEF Spec

LEMMA Invariance == ASSUME CloseReliable PROVE Spec => []IInv
<1>1. Init => IInv
  BY InitInv
<1>2. IInv /\ [Next]_vars => IInv'
  BY InvKept
<1> QED BY <1>1, <1>2, PTL DEF Spec

\* As long as close(2) works, an FSFile that is open has a descriptor of a file
\* of its own path, which no Close() or ~FSFile() of another can take away.
THEOREM DescriptorsOwn == ASSUME ~CloseMayFail PROVE Spec => []OwnDescriptor
<1>1. CloseReliable
  BY DEF CloseReliable
<1>2. IInv => OwnDescriptor
  BY DEF IInv, OwnPath, Apart, IsOpen, OwnDescriptor, TypeInv, TypeOK
<1> QED BY <1>1, <1>2, Invariance, PTL

\* A size that an open FSFile has cached is at most the size of a file smaller
\* than 2^31 bytes, after any sequence of calls, also those that fail half way and
\* those on a file that was Delete()d; close(2) may fail if there is no other
\* FSFile object.
THEOREM CachedSizesBounded == ASSUME CloseReliable PROVE Spec => []CachedSizeBound
<1>1. ASSUME IInv PROVE CachedSizeBound
  <2> SUFFICES ASSUME NEW f \in usable, file[f].is_file_open, file[f].size # SIZE_MAX,
                      Node(f) # None, inode[Node(f)].size <= MaxInt
               PROVE  file[f].size <= inode[Node(f)].size
    BY DEF CachedSizeBound
  <2>1. f \in Files /\ file[f].live
    BY <1>1 DEF IInv, TypeInv, TypeOK, LiveOK
  <2>2. inode[Node(f)].size \in Int /\ MaxInt \in Int
    BY <1>1, <2>1, NodeType, SizeAssumption DEF IInv, MaxInt
  <2> QED BY <1>1, <2>1, <2>2 DEF IInv, SizesBounded, IsOpen
<1> QED BY <1>1, Invariance, PTL

LEMMA LifecycleReturns ==
  ASSUME NEW f \in Files, Lifecycle(f)
  PROVE  ret'.op \notin {"Read", "Allocate"} /\ ret'.out # "terminate"
<1>1. ASSUME NEW p \in Paths, NEW o_trunc \in BOOLEAN, NEW o_creat \in BOOLEAN,
             Open(f, p, o_trunc, o_creat)
      PROVE  Return(f, "Open", "ok")
  BY <1>1 DEF Open
<1>2. Reopen(f) => Return(f, "Reopen", "ok")
  BY DEF Reopen
<1>3. OpenFails(f) \/ ReopenFails(f) =>
        Return(f, "Open", "null") \/ Return(f, "Reopen", "false")
  BY DEF OpenFails, ReopenFails
<1>4. Close(f) \/ Delete(f) \/ Destroy(f) =>
        \E op \in {"Close", "Delete", "Destroy"}, out \in {"ok", "warning"} :
          Return(f, op, out)
  BY DEF Close, Delete, Destroy
<1> QED BY <1>1, <1>2, <1>3, <1>4 DEF Lifecycle, Return

LEMMA ReadIsInside ==
  ASSUME UseReliable, IInv, NEW f \in Files, NEW count \in Counts, NEW offset \in Offsets,
         Read(f, count, offset)
  PROVE  offset + count <= inode[Node(f)].size \/ inode[Node(f)].size > MaxInt
<1>1. f \in usable /\ file[f].live /\ Node(f) # None /\ count + offset <= SizeOf(f)
  BY DEF Read, Usable, MayUse, ReadInFile
<1>2. IsOpen(f)
  BY <1>1 DEF IInv, UsedIsOpen
<1>3. inode[Node(f)].size \in Nat /\ SizeOf(f) \in Nat
  BY <1>1, NodeType, SizeType DEF IInv
<1>4. SizeOf(f) <= inode[Node(f)].size \/ inode[Node(f)].size > MaxInt
  BY <1>1, <1>2, <1>3 DEF IInv, SizesBounded, SizeOf
<1> QED BY <1>1, <1>3, <1>4 DEF Counts, Offsets

\* A Read() of a range beyond the end of a file smaller than 2^31 bytes never
\* returns.
THEOREM ReadsInRange ==
  ASSUME CloseReliable, UseReliable PROVE Spec => []ReadInRange
<1>1. Init => ReadInRange
  BY DEF Init, ReadInRange
<1>2. ReadInRange /\ IInv /\ [Next]_vars => ReadInRange'
  <2> SUFFICES ASSUME ReadInRange, IInv, [Next]_vars PROVE ReadInRange'
    OBVIOUS
  <2>1. CASE UNCHANGED vars
    BY <2>1 DEF vars, ReadInRange, Node
  <2>2. ASSUME NEW f \in Files, Lifecycle(f) PROVE ReadInRange'
    BY <2>2, LifecycleReturns DEF ReadInRange
  <2>3. ASSUME NEW f \in Files, DataAccess(f) PROVE ReadInRange'
    <3>1. ASSUME NEW count \in Counts, NEW offset \in Offsets, Read(f, count, offset)
          PROVE  ReadInRange'
      <4>1. UNCHANGED <<file, fdt, inode>> /\ Node(f)' = Node(f)
        BY <3>1 DEF Read, kernel, Node
      <4>2. CASE offset + count <= inode[Node(f)].size
        BY <3>1, <4>2 DEF Read, Return, ReadInRange
      <4>3. CASE ~(offset + count <= inode[Node(f)].size)
        <5>1. ret'.by = f
          BY <3>1, <4>3 DEF Read, Return
        <5> QED BY <3>1, <4>1, <4>3, <5>1, ReadIsInside DEF ReadInRange
      <4> QED BY <4>2, <4>3
    <3>2. ASSUME NEW op \in {"Read", "Write"}, AccessFails(f, op) PROVE ReadInRange'
      BY <3>2 DEF AccessFails, Return, ReadInRange
    <3>3. ASSUME NEW count \in Counts, NEW offset \in Offsets, Write(f, count, offset)
          PROVE  ReadInRange'
      BY <3>3 DEF Write, Return, ReadInRange
    <3>4. ASSUME NEW count \in Counts, AllocateFast(f, count) \/ AllocateSlow(f, count)
          PROVE  ReadInRange'
      <4>1. CASE AllocateFast(f, count)
        BY <4>1 DEF AllocateFast, AllocateReturns, Return, ReadInRange
      <4>2. CASE AllocateSlow(f, count)
        BY <4>2 DEF AllocateSlow, AllocateReturns, Return, ReadInRange
      <4> QED BY <3>4, <4>1, <4>2
    <3>5. ASSUME Size(f) \/ SizeTerminates(f) \/ AllocateNothing(f) \/ Flush(f)
          PROVE  ReadInRange'
      BY <3>5 DEF Size, SizeTerminates, AllocateNothing, Flush, Return, ReadInRange
    <3> QED BY <2>3, <3>1, <3>2, <3>3, <3>4, <3>5 DEF DataAccess
  <2> QED BY <2>1, <2>2, <2>3 DEF Next
<1> QED BY <1>1, <1>2, Invariance, PTL DEF Spec

\* Size() never meets a bad descriptor as long as close(2) works and no file is
\* used after its Delete(); if malloc(3) works too, no error is thrown out of a
\* noexcept function.
THEOREM NeverEnds ==
  ASSUME ~CloseMayFail, ~UseAfterDelete, ~MallocMayFail PROVE Spec => []NeverTerminates
<1>1. CloseReliable
  BY DEF CloseReliable
<1>2. Init => NeverTerminates
  BY DEF Init, NeverTerminates, Running
<1>3. NeverTerminates /\ IInv /\ [Next]_vars => NeverTerminates'
  <2> SUFFICES ASSUME NeverTerminates, IInv, [Next]_vars PROVE NeverTerminates'
    OBVIOUS
  <2>1. CASE UNCHANGED vars
    BY <2>1 DEF vars, NeverTerminates, Running
  <2>2. ASSUME NEW f \in Files, Lifecycle(f) PROVE NeverTerminates'
    BY <2>2, LifecycleReturns DEF NeverTerminates, Running
  <2>3. ASSUME NEW f \in Files, DataAccess(f) PROVE NeverTerminates'
    <3>1. ~SizeTerminates(f)
      BY DEF SizeTerminates, SizeKnown, MayUse, IInv, UsedIsOpen, OwnPath
    <3> QED BY <2>3, <3>1
            DEF DataAccess, Size, AccessFails, Read, Write, AllocateFast, AllocateSlow,
                AllocateReturns, AllocateNothing, Flush, Return, NeverTerminates, Running
  <2> QED BY <2>1, <2>2, <2>3 DEF Next
<1> QED BY <1>1, <1>2, <1>3, Invariance, PTL DEF Spec

LEMMA AllocateLosesNothing ==
  ASSUME UseReliable, WritesInRange, IInv, NEW f \in Files, NEW count \in Counts,
         AllocateFast(f, count) \/ AllocateSlow(f, count), NEW i \in Inodes,
         inode[i].size < IntMod
  PROVE  inode[i].data \subseteq inode'[i].data
<1>1. CASE Quiet
  BY <1>1 DEF Quiet
<1>2. CASE ~Quiet
  <2>1. PICK node \in Nodes, size \in 0 .. SIZE_MAX :
          Stores(f, node, size) /\ Allocated(inode[Node(f)], node, SizeOf(f))
    BY <1>2, AllocateStores DEF IInv
  <2>2. f \in usable /\ file[f].live /\ Node(f) # None /\ Node(f) \in Inodes
    BY <2>1, NodeType DEF Stores, IInv
  <2>3. IsOpen(f) /\ fallocate_works
    BY <2>2 DEF IInv, UsedIsOpen, AllocateFast, AllocateSlow, Fallocates
  <2>4. SizeOf(f) \in Nat /\ inode[Node(f)].size \in Nat
    BY <2>2, SizeType, NodeType DEF IInv
  <2>5. inode[Node(f)].data \subseteq 0 .. SizeOf(f) - 1
    BY <2>2, <2>3 DEF IInv, DataBelowCached, DataInFile, SizeOf
  <2>6. inode' = [inode EXCEPT ![Node(f)] = node]
    BY <2>1 DEF Stores
  <2>7. CASE i = Node(f)
    <3>1. SizeOf(f) < IntMod
      <4>1. SizeOf(f) <= inode[Node(f)].size
        BY <2>2, <2>3, <2>4 DEF IInv, SizesBounded, SizeOf
      <4> QED BY <2>4, <2>7, <4>1, SizeAssumption DEF IntMod
    <3>2. \A b \in inode[Node(f)].data : b \in node.data
      BY <2>1, <2>4, <2>5, <3>1 DEF Allocated
    <3> QED BY <2>2, <2>6, <2>7, <3>2 DEF IInv, TypeInv, TypeOK
  <2>8. CASE i # Node(f)
    BY <2>2, <2>6, <2>8 DEF IInv, TypeInv, TypeOK
  <2> QED BY <2>7, <2>8
<1> QED BY <1>1, <1>2

\* If callers write only inside Size(), Allocate() zeroes nothing that was
\* written to a file smaller than 2^32 bytes, from whatever stale size it starts.
THEOREM AllocationKeepsData ==
  ASSUME CloseReliable, UseReliable, WritesInRange PROVE Spec => AllocateKeepsData
<1> DEFINE Keeps == ret'.op = "Allocate" =>
                      \A i \in Inodes :
                        inode[i].size < IntMod => inode[i].data \subseteq inode'[i].data
<1>1. IInv /\ [Next]_vars => [Keeps]_vars
  <2> SUFFICES ASSUME IInv, Next PROVE Keeps
    BY DEF vars
  <2>1. ASSUME NEW f \in Files, Lifecycle(f) PROVE Keeps
    BY <2>1, LifecycleReturns
  <2>2. ASSUME NEW f \in Files, DataAccess(f) PROVE Keeps
    <3>1. ASSUME NEW count \in Counts, AllocateFast(f, count) \/ AllocateSlow(f, count)
          PROVE  Keeps
      BY <3>1, AllocateLosesNothing
    <3>2. ASSUME \/ Size(f) \/ SizeTerminates(f) \/ AllocateNothing(f) \/ Flush(f)
                 \/ (\E op \in {"Read", "Write"} : AccessFails(f, op))
                 \/ (\E count \in Counts, offset \in Offsets : Read(f, count, offset))
          PROVE  Keeps
      BY <3>2 DEF Size, SizeTerminates, AllocateNothing, Flush, AccessFails, Read, kernel
    <3>3. ASSUME NEW count \in Counts, NEW offset \in Offsets, Write(f, count, offset)
          PROVE  Keeps
      BY <3>3 DEF Write, Return
    <3> QED BY <2>2, <3>1, <3>2, <3>3 DEF DataAccess
  <2> QED BY <2>1, <2>2 DEF Next
<1> QED BY <1>1, Invariance, PTL DEF Spec, AllocateKeepsData

-----------------------------------------------------------------------------
(***************************************************************************)
(* The refinement of FileHandles.                                          *)
(***************************************************************************)
Handle(f) == IF IsOpen(f) THEN Node(f) ELSE None

LEMMA HandleIs ==
  /\ \A f, i : Handles!Attach(f, i) <=>
       /\ \A g \in Files \ {f} : Handle(g) # i
       /\ [g \in Files |-> Handle(g)]' = [[g \in Files |-> Handle(g)] EXCEPT ![f] = i]
       /\ \A j \in Inodes \ {i} : inode'[j] = inode[j]
  /\ \A f \in Files : Handles!Detach(f) <=>
       /\ Handle(f) # None
       /\ [g \in Files |-> Handle(g)]' = [[g \in Files |-> Handle(g)] EXCEPT ![f] = None]
       /\ inode' = inode
  /\ \A f \in Files : Handles!Modify(f) <=>
       /\ Handle(f) # None
       /\ \A j \in Inodes \ {Handle(f)} : inode'[j] = inode[j]
       /\ [g \in Files |-> Handle(g)]' = [g \in Files |-> Handle(g)]
BY DEF Handles!Attach, Handles!Detach, Handles!Modify,
       Handles!OnlyChanges, Handle, IsOpen

\* A step after which every FSFile has its handle still.
LEMMA SameHandles ==
  ASSUME \A g \in Files : Handle(g)' = Handle(g)
  PROVE  [g \in Files |-> Handle(g)]' = [g \in Files |-> Handle(g)]
OBVIOUS

\* One in which the handle of f becomes i.
LEMMA OneHandle ==
  ASSUME NEW f \in Files, NEW i, Handle(f)' = i,
         \A g \in Files \ {f} : Handle(g)' = Handle(g)
  PROVE  [g \in Files |-> Handle(g)]' = [[g \in Files |-> Handle(g)] EXCEPT ![f] = i]
OBVIOUS

LEMMA Stutters ==
  ASSUME \A g \in Files : Handle(g)' = Handle(g), inode' = inode
  PROVE  UNCHANGED Handles!hvars
BY SameHandles DEF Handles!hvars, Handle, IsOpen

LEMMA OpensAttaches ==
  ASSUME ~CloseMayFail, IInv, NEW f \in Files, NEW d, NEW i, NEW r, Opens(f, d, i, r)
  PROVE  i \in Inodes /\ Handles!Attach(f, i)
<1>1. /\ file'[f] = r /\ IsOpen(f)'
      /\ \A g \in Files \ {f} : file'[g] = file[g] /\ IsOpen(g)' = IsOpen(g)
  BY DEF Opens, IInv, TypeInv, TypeOK, IsOpen
<1>2. Node(f)' = i /\ i \in Inodes /\ i # None /\ i[1] = r.file_path
  BY <1>1, FSFileAssumption DEF Opens, Node, IInv, TypeInv, TypeOK
<1>3. \A g \in Files \ {f} : Handle(g)' = Handle(g) /\ Handle(g) # i
  <2>1. ASSUME NEW g \in Files \ {f}, IsOpen(g) PROVE Node(g)' = Node(g) /\ Node(g) # i
    <3>1. /\ Node(g) # None /\ file[g].fd \in Fds /\ Node(g)[1] = file[g].file_path
          /\ file[g].file_path # r.file_path
      BY <2>1 DEF IInv, OwnPath, TypeInv, LiveOK, IsOpen, Opens, NotOpenElsewhere
    <3>2. file[g].fd # d
      BY <3>1 DEF Opens, Node
    <3>3. Node(g)' = Node(g)
      BY <1>1, <3>1, <3>2 DEF Opens, Node, IInv, TypeInv, TypeOK
    <3> QED BY <1>2, <3>1, <3>3
  <2> QED BY <1>1, <1>2, <2>1 DEF Handle
<1>4. Handle(f)' = i
  BY <1>1, <1>2 DEF Handle
<1>5. \A j \in Inodes \ {i} : inode'[j] = inode[j]
  BY <1>2 DEF Opens, IInv, TypeInv, TypeOK
<1> QED BY <1>2, <1>3, <1>4, <1>5, OneHandle, HandleIs

LEMMA ClosesDetaches ==
  ASSUME ~CloseMayFail, IInv, NEW f \in Files, NEW r, Closes(f, r)
  PROVE  Handles!Detach(f) \/ UNCHANGED Handles!hvars
<1>1. /\ file'[f] = r /\ IsOpen(f)' = r.is_file_open
      /\ \A g \in Files \ {f} : file'[g] = file[g] /\ IsOpen(g)' = IsOpen(g)
  BY DEF Closes, IInv, TypeInv, TypeOK, IsOpen
<1>2. ~IsOpen(f)' /\ Handle(f)' = None
  <2>1. ~r.is_file_open
    BY DEF Closes, IInv, OwnPath, IsOpen, Node
  <2> QED BY <1>1, <2>1 DEF Handle
<1>3. \A g \in Files \ {f} : Handle(g)' = Handle(g)
  <2>1. ASSUME NEW g \in Files \ {f}, IsOpen(g) PROVE Node(g)' = Node(g)
    BY <1>1, <2>1 DEF Closes, Node, IInv, Apart, IsOpen, TypeInv, TypeOK, LiveOK
  <2> QED BY <1>1, <2>1 DEF Handle
<1>4. inode' = inode
  BY DEF Closes
<1>5. CASE IsOpen(f)
  <2>1. Handle(f) # None
    BY <1>5 DEF IInv, OwnPath, Handle
  <2> QED BY <1>2, <1>3, <1>4, <2>1, OneHandle, HandleIs
<1>6. CASE ~IsOpen(f)
  <2>1. \A g \in Files : Handle(g)' = Handle(g)
    BY <1>2, <1>3, <1>6 DEF Handle
  <2> QED BY <1>4, <2>1, Stutters
<1> QED BY <1>5, <1>6

LEMMA StoresModifies ==
  ASSUME ~CloseMayFail, ~UseAfterDelete, IInv, NEW f \in Files, NEW node, NEW size,
         Stores(f, node, size)
  PROVE  Handles!Modify(f)
<1>1. \A g \in Files : file'[g].fd = file[g].fd /\ IsOpen(g)' = IsOpen(g)
  BY DEF Stores, IInv, TypeInv, TypeOK, FileRec, IsOpen
<1>2. \A g \in Files : Handle(g)' = Handle(g)
  BY <1>1 DEF Stores, Node, Handle
<1>3. Handle(f) = Node(f) /\ Handle(f) # None
  BY DEF Stores, Handle, IInv, UsedIsOpen
<1>4. \A j \in Inodes \ {Handle(f)} : inode'[j] = inode[j]
  BY <1>3 DEF Stores, IInv, TypeInv, TypeOK
<1> QED BY <1>2, <1>3, <1>4, SameHandles, HandleIs

LEMMA QuietStutters == ASSUME Quiet PROVE UNCHANGED Handles!hvars
<1>1. \A g \in Files : Handle(g)' = Handle(g)
  BY DEF Quiet, Handle, IsOpen, Node
<1> QED BY <1>1, Stutters DEF Quiet

\* With descriptors, cached sizes, failing calls and the kernel's table FSFile
\* implements FileHandles: every call attaches one object, detaches one, changes
\* the file one is attached to, or is invisible to the clients.
THEOREM HandlesImplemented ==
  ASSUME ~CloseMayFail, ~UseAfterDelete PROVE Spec => HandlesSpec
<1>1. CloseReliable
  BY DEF CloseReliable
<1>2. Init => Handles!HInit
  <2> SUFFICES ASSUME Init PROVE Handles!HInit
    OBVIOUS
  <2>1. \A f \in Files : ~file[f].is_file_open
    BY DEF Init, NoFile
  <2> QED BY <2>1 DEF Init, Handles!HInit
<1>3. IInv /\ [Next]_vars => [Handles!HNext]_(Handles!hvars)
  <2> SUFFICES ASSUME IInv, [Next]_vars
               PROVE  Handles!HNext \/ UNCHANGED Handles!hvars
    OBVIOUS
  <2>1. CASE UNCHANGED vars
    BY <2>1, QuietStutters DEF vars, Quiet
  <2>2. ASSUME NEW f \in Files, Lifecycle(f)
        PROVE  Handles!HNext \/ UNCHANGED Handles!hvars
    <3>1. OpenFails(f) \/ ReopenFails(f) => Quiet
      BY DEF OpenFails, ReopenFails, kernel, Quiet
    <3>2. ASSUME NEW d, NEW i, NEW r, Opens(f, d, i, r) PROVE Handles!HNext
      BY <3>2, OpensAttaches DEF Handles!HNext
    <3>3. ASSUME NEW r, Closes(f, r) PROVE Handles!HNext \/ UNCHANGED Handles!hvars
      BY <3>3, ClosesDetaches DEF Handles!HNext
    <3> QED BY <2>2, <3>1, <3>2, <3>3, QuietStutters, OpenOpens, ReopenOpens,
               ClosingCloses DEF Lifecycle, IInv
  <2>3. ASSUME NEW f \in Files, DataAccess(f)
        PROVE  Handles!HNext \/ UNCHANGED Handles!hvars
    <3>1. ASSUME \/ Size(f) \/ SizeTerminates(f) \/ AllocateNothing(f) \/ Flush(f)
                 \/ (\E op \in {"Read", "Write"} : AccessFails(f, op))
                 \/ (\E count \in Counts, offset \in Offsets : Read(f, count, offset))
          PROVE  Quiet
      BY <3>1 DEF Size, SizeTerminates, AllocateNothing, Flush, AccessFails, Read,
                  kernel, Quiet
    <3>2. ASSUME NEW node, NEW size, Stores(f, node, size) PROVE Handles!HNext
      BY <3>2, StoresModifies DEF Handles!HNext
    <3>3. ASSUME NEW count \in Counts, NEW offset \in Offsets, Write(f, count, offset)
          PROVE  Handles!HNext
      BY <3>2, <3>3, WriteStores DEF IInv
    <3>4. ASSUME NEW count \in Counts, AllocateFast(f, count) \/ AllocateSlow(f, count)
          PROVE  Quiet \/ Handles!HNext
      BY <3>2, <3>4, AllocateStores DEF IInv
    <3> QED BY <2>3, <3>1, <3>3, <3>4, QuietStutters DEF DataAccess
  <2> QED BY <2>1, <2>2, <2>3 DEF Next
<1> QED BY <1>1, <1>2, <1>3, Invariance, PTL DEF Spec, HandlesSpec, Handles!HSpec
=============================================================================
