------------------------------- MODULE FSFile -------------------------------
(***************************************************************************)
(* The FSFile objects of src/storage/FSFile.cpp over the part of the       *)
(* kernel they use: a descriptor table, a directory and inodes.            *)
(*                                                                         *)
(* Every action is one whole call of a member function, as a single-       *)
(* threaded client makes it; FSFileSize takes Size() and Allocate() apart  *)
(* into loads and stores.  Sizes and offsets are counted in units of       *)
(* PAGE_SIZE / PageSize bytes, so that offsets inside a page exist; SizeInt *)
(* has the int that a slow Allocate() keeps them in.                       *)
(*                                                                         *)
(* Caller discipline, stated by the source and built into the guards:      *)
(*  - no path is open in two FSFiles at a time (FSFile.cpp:182, "no one    *)
(*    may extend or shrink the file externally");                          *)
(*  - after Close() only Reopen(), Close() and the destructor are called   *)
(*    (FSFile.h, Close()): the set `usable' holds the files whose other    *)
(*    functions may be called.                                             *)
(***************************************************************************)
EXTENDS SizeInt, FiniteSets

CONSTANTS
  Files,           \* FSFile objects
  Paths,           \* file names
  NInodes,         \* inodes a path's file system can hold for it
  Fds,             \* descriptor numbers of the process
  PageSize,        \* PAGE_SIZE, in units
  ZeroBuf,         \* g_zerobuf_size, in units
  ZeroRangePaths,  \* paths whose file system supports FALLOC_FL_ZERO_RANGE
  None,            \* no inode, no path: a free descriptor, a missing file
  CloseMayFail,    \* close(2) may return -1 (the descriptor is released)
  FaultyDisk,      \* pread(2) and pwrite(2) may be short, fallocate(2) may fail
  MallocMayFail,   \* malloc(3) in Size() may return NULL
  WritesInRange,   \* callers keep [offset, offset + count) inside Size()
  UseAfterDelete   \* callers go on using a file they have Delete()d

Inodes == Paths \X (1 .. NInodes)
Unknown == -1            \* the descriptor of an FSFile that does not exist

(***************************************************************************)
(* What the model assumes of its parameters.                               *)
(***************************************************************************)
ASSUME FSFileAssumption ==
  /\ Fds \subseteq Nat
  /\ NInodes \in Nat
  /\ PageSize \in Nat \ {0}
  /\ ZeroBuf \in Nat \ {0}
  /\ ZeroRangePaths \subseteq Paths
  /\ None \notin Inodes \union Paths \union Files
  /\ {CloseMayFail, FaultyDisk, MallocMayFail, WritesInRange, UseAfterDelete} \subseteq BOOLEAN

VARIABLES
  file,             \* the members of each FSFile
  usable,           \* the FSFiles whose I/O functions the client may call
  fdt,              \* kernel: what a descriptor refers to
  dir,              \* kernel: what a path refers to
  inode,            \* kernel: size of each inode, and the units that hold data
  fallocate_works,  \* the process-wide hint of FSFile_private.cpp
  ret               \* the last call: whose, which, and how it ended

vars == <<file, usable, fdt, dir, inode, fallocate_works, ret>>
kernel == <<fdt, dir, inode>>

-----------------------------------------------------------------------------
Ops == {"none", "Open", "Reopen", "Close", "Delete", "Destroy",
        "Size", "Read", "Write", "Allocate", "Flush"}
Outcomes == {"ok", "short", "beyond", "null", "false", "warning", "fatal", "terminate"}
Units == 0 .. MaxSize - 1
FileRec == [live: BOOLEAN, is_file_open: BOOLEAN, fd: Fds \union {Unknown},
            file_path: Paths \union {None}, size: 0 .. SIZE_MAX]
Empty == [size |-> 0, data |-> {}]

TypeOK ==
  /\ file \in [Files -> FileRec]
  /\ usable \in SUBSET Files
  /\ fdt \in [Fds -> Inodes \union {None}]
  /\ dir \in [Paths -> Inodes \union {None}]
  /\ inode \in [Inodes -> [size: 0 .. MaxSize, data: SUBSET Units]]
  /\ fallocate_works \in BOOLEAN
  /\ ret \in [by: Files \union {None}, op: Ops, out: Outcomes]

NoFile == [live |-> FALSE, is_file_open |-> FALSE, fd |-> Unknown,
              file_path |-> None, size |-> SIZE_MAX]

\* Files may exist already, full of data.
Init ==
  /\ file = [f \in Files |-> NoFile]
  /\ usable = {}
  /\ fdt = [d \in Fds |-> None]
  /\ dir \in [Paths -> Inodes \union {None}]
  /\ \A p \in Paths : dir[p] # None => dir[p][1] = p
  /\ \E n \in [Inodes -> 0 .. MaxSize] :
       /\ inode = [i \in Inodes |-> [size |-> n[i], data |-> 0 .. n[i] - 1]]
       /\ \A i \in Inodes : n[i] # 0 => \E p \in Paths : dir[p] = i
  /\ fallocate_works = TRUE
  /\ ret = [by |-> None, op |-> "none", out |-> "ok"]

Return(f, op, out) == ret' = [by |-> f, op |-> op, out |-> out]
\* Outcome "short": a call returned normally having done less than it promises;
\* "beyond": a Read() of bytes that the file does not have returned normally.

\* An uncaught error inside a noexcept function has ended the process.
Running == ret.out # "terminate"

-----------------------------------------------------------------------------
(***************************************************************************)
(* The kernel, as far as FSFile uses it.                                   *)
(***************************************************************************)
FreeFds == {d \in Fds : fdt[d] = None}
InUse(i) == (\E p \in Paths : dir[p] = i) \/ (\E d \in Fds : fdt[d] = i)

\* The caller's side of "no one may extend or shrink the file externally".
NotOpenElsewhere(f, p) ==
  \A g \in Files \ {f} : file[g].is_file_open => file[g].file_path # p

\* open(2) takes the lowest free descriptor for inode i, which it creates or
\* truncates if asked to.
open2(p, d, i, trunc, creat) ==
  /\ d \in FreeFds
  /\ \A e \in FreeFds : d <= e
  /\ i[1] = p
  /\ dir[p] = i \/ (creat /\ dir[p] = None /\ ~InUse(i))
  /\ fdt' = [fdt EXCEPT ![d] = i]
  /\ dir' = [dir EXCEPT ![p] = i]
  /\ inode' = IF trunc \/ dir[p] = None
              THEN [inode EXCEPT ![i] = Empty] ELSE inode

\* close(2).  Linux releases the descriptor even when it reports an error.
close2(d, ok) ==
  /\ IF ok THEN fdt[d] # None ELSE CloseMayFail \/ fdt[d] = None
  /\ fdt' = [fdt EXCEPT ![d] = None]

\* The size and the data of a file once bytes lo .. hi - 1 have been stored.
Stored(node, lo, hi) ==
  [size |-> IF hi > node.size /\ hi > lo THEN hi ELSE node.size,
   data |-> node.data \union (lo .. hi - 1)]
Zeroed(node, lo, hi) ==
  [size |-> IF hi > node.size /\ hi > lo THEN hi ELSE node.size,
   data |-> node.data \ (lo .. hi - 1)]

\* n bytes of g_zerobuf written at lo.  The bytes past the end of the buffer
\* come from whatever lies behind it: those in junk are not zero.
WrittenFromZeroBuf(node, lo, n, junk) ==
  [Zeroed(node, lo, lo + n) EXCEPT !.data = @ \union junk]

\* The numbers of bytes a transfer of count bytes may make.
Transfers(count) == IF FaultyDisk THEN 0 .. count ELSE {count}

-----------------------------------------------------------------------------
(***************************************************************************)
(* Opening and closing.                                                    *)
(***************************************************************************)

\* The size that Open() caches: what fstat(2) says after O_TRUNC.
SizeBeforeTrunc(i) == inode[i].size               \* mutant
SizeAtOpen(i) == inode'[i].size

Open(f, p, o_trunc, o_creat) ==
  /\ Running
  /\ ~file[f].live
  /\ NotOpenElsewhere(f, p)
  /\ \E d \in Fds, i \in Inodes :
       /\ open2(p, d, i, o_trunc, o_creat)
       /\ file' = [file EXCEPT ![f] =
                     [live |-> TRUE, is_file_open |-> TRUE, fd |-> d,
                      file_path |-> p, size |-> SizeAtOpen(i)]]
  /\ usable' = usable \union {f}
  /\ Return(f, "Open", "ok")
  /\ UNCHANGED fallocate_works

\* open(2) failed: no such file, no descriptor left, no permission, ...
OpenFails(f) ==
  /\ Running
  /\ ~file[f].live
  /\ Return(f, "Open", "null")
  /\ UNCHANGED <<file, usable, fallocate_works, kernel>>

\* Reopen() does not look whether the file is open: an old descriptor stays
\* in the kernel's table with nobody to close it.
ReopenedOldFd(rec, d) == [rec EXCEPT !.is_file_open = TRUE, !.size = SIZE_MAX]   \* mutant
Reopened(rec, d) == [rec EXCEPT !.fd = d, !.is_file_open = TRUE, !.size = SIZE_MAX]

Reopen(f) ==
  /\ Running
  /\ file[f].live
  /\ NotOpenElsewhere(f, file[f].file_path)
  /\ \E d \in Fds, i \in Inodes :
       /\ open2(file[f].file_path, d, i, FALSE, FALSE)
       /\ file' = [file EXCEPT ![f] = Reopened(@, d)]
  /\ usable' = usable \union {f}
  /\ Return(f, "Reopen", "ok")
  /\ UNCHANGED fallocate_works

ReopenFails(f) ==
  /\ Running
  /\ file[f].live
  /\ Return(f, "Reopen", "false")
  /\ UNCHANGED <<file, usable, fallocate_works, kernel>>

\* The body of Close(), with the outcome it reports.
ClosedButOpen(rec) == [rec EXCEPT !.size = SIZE_MAX]                             \* mutant
Closed(rec) == [rec EXCEPT !.is_file_open = FALSE, !.size = SIZE_MAX]

CloseFile(f, out) ==
  \/ /\ ~file[f].is_file_open
     /\ out = "ok"
     /\ UNCHANGED <<file, fdt>>
  \/ /\ file[f].is_file_open
     /\ close2(file[f].fd, TRUE)
     /\ file' = [file EXCEPT ![f] = Closed(@)]
     /\ out = "ok"
  \/ /\ file[f].is_file_open
     /\ close2(file[f].fd, FALSE)
     /\ out = "warning"
     /\ UNCHANGED file

Close(f) ==
  /\ Running
  /\ file[f].live
  /\ \E out \in {"ok", "warning"} : CloseFile(f, out) /\ Return(f, "Close", out)
  /\ usable' = usable \ {f}
  /\ UNCHANGED <<dir, inode, fallocate_works>>

\* Delete() closes the file first and unlinks the path after.
Delete(f) ==
  /\ Running
  /\ file[f].live
  /\ \E out \in {"ok", "warning"} : CloseFile(f, out)
  /\ LET p == file[f].file_path
     IN /\ dir' = [dir EXCEPT ![p] = None]
        /\ Return(f, "Delete", IF dir[p] = None THEN "warning" ELSE "ok")
  /\ usable' = IF UseAfterDelete THEN usable ELSE usable \ {f}
  /\ UNCHANGED <<inode, fallocate_works>>

\* ~FSFile() closes the file if it is open; a failing close() is only logged.
Destroy(f) ==
  /\ Running
  /\ file[f].live
  /\ IF file[f].is_file_open
     THEN \E ok \in BOOLEAN : close2(file[f].fd, ok)
     ELSE UNCHANGED fdt
  /\ file' = [file EXCEPT ![f] = NoFile]
  /\ usable' = usable \ {f}
  /\ Return(f, "Destroy", "ok")
  /\ UNCHANGED <<dir, inode, fallocate_works>>

-----------------------------------------------------------------------------
(***************************************************************************)
(* Reading, writing and allocating.  None of these functions looks at      *)
(* is_file_open: they go to the descriptor number the object holds.        *)
(***************************************************************************)
Node(f) == fdt[file[f].fd]

\* Size() returns the cached size, or else asks fstat(2) and caches nothing.
SizeKnown(f) == file[f].size # SIZE_MAX \/ Node(f) # None
SizeOf(f) == IF file[f].size # SIZE_MAX THEN file[f].size ELSE inode[Node(f)].size

MayUse(f) == Running /\ file[f].live /\ f \in usable
Usable(f) == MayUse(f) /\ SizeKnown(f)

Size(f) ==
  /\ Usable(f)
  /\ Return(f, "Size", IF Node(f) # None /\ SizeOf(f) = inode[Node(f)].size
                       THEN "ok" ELSE "short")
  /\ UNCHANGED <<file, usable, fallocate_works, kernel>>

\* malloc(3) may fail wherever Size() has no cached size: in Open(), in a slow
\* Allocate(), and in any function if Reopen() has dropped the size.
Mallocs(f) ==
  \/ Running /\ ~file[f].live
  \/ MayUse(f) /\ (file[f].size = SIZE_MAX \/ fallocate_works)

\* malloc(3) or fstat(2) fails: Size() is noexcept, so the error it logs ends the
\* process, whichever function asked for the size.
SizeTerminates(f) ==
  /\ (MayUse(f) /\ ~SizeKnown(f)) \/ (MallocMayFail /\ Mallocs(f))
  /\ Return(f, "Size", "terminate")
  /\ UNCHANGED <<file, usable, fallocate_works, kernel>>

\* A Read() or Write() that is refused, or whose system call fails.
AccessFails(f, op) ==
  /\ Usable(f)
  /\ Return(f, op, "fatal")
  /\ UNCHANGED <<file, usable, fallocate_works, kernel>>

\* A Read() that passes its check.  pread(2) stops at the end of the file, or
\* earlier; nobody looks at the number of bytes it returns.
ReadInFile(f, count, offset) == count + offset <= SizeOf(f)

Read(f, count, offset) ==
  /\ Usable(f)
  /\ ReadInFile(f, count, offset)
  /\ Node(f) # None
  /\ IF offset + count <= inode[Node(f)].size
     THEN \E n \in Transfers(count) : Return(f, "Read", IF n = count THEN "ok" ELSE "short")
     ELSE Return(f, "Read", "beyond")
  /\ UNCHANGED <<file, usable, fallocate_works, kernel>>

\* A Write() that passes its checks: they look at the offset only.
Write(f, count, offset) ==
  /\ Usable(f)
  /\ offset + count <= MaxSize
  /\ WritesInRange => offset + count <= SizeOf(f)
  /\ SizeOf(f) # 0
  /\ offset < SizeOf(f)
  /\ offset % PageSize = 0
  /\ Node(f) # None
  /\ \E n \in Transfers(count) :
       /\ inode' = [inode EXCEPT ![Node(f)] = Stored(@, offset, offset + n)]
       /\ Return(f, "Write", IF n = count THEN "ok" ELSE "short")
  /\ UNCHANGED <<file, usable, fdt, dir, fallocate_works>>

\* Where Allocate() starts: at what Size() says, which may be a stale size.
LastPage(f) == SizeOf(f) - (SizeOf(f) % PageSize)                               \* mutant
AllocateAt(f) == SizeOf(f)

\* The file of f after n bytes from there on have been zeroed.
Extended(f, n) == Zeroed(inode[Node(f)], AllocateAt(f), SizeOf(f) + n)

AllocateReturns(f, count) ==
  Return(f, "Allocate",
         IF inode'[Node(f)].size = inode[Node(f)].size + count
         THEN "ok" ELSE "short")

Fallocates(f, count) ==
  /\ Usable(f)
  /\ Node(f) # None
  /\ SizeOf(f) + count <= MaxSize
  /\ fallocate_works

\* fallocate(2) works: the range is zeroed, size_ is left as it is.
AllocateFast(f, count) ==
  /\ Fallocates(f, count)
  /\ Node(f)[1] \in ZeroRangePaths
  /\ inode' = [inode EXCEPT ![Node(f)] = Extended(f, count)]
  /\ AllocateReturns(f, count)
  /\ UNCHANGED <<file, usable, fdt, dir, fallocate_works>>

\* The size read again into an int, and cached, after zeros have been written.
Refreshed(rec, size) == [rec EXCEPT !.size = SizeT(ToInt(size))]

\* fallocate(2) reports EOPNOTSUPP: the hint is cleared for the whole process
\* and zeros are written at the end, as far as an int can tell where that is;
\* pwrite(2) refuses a negative offset.
AllocateSlow(f, count) ==
  /\ Fallocates(f, count)
  /\ Node(f)[1] \notin ZeroRangePaths
  /\ fallocate_works' = FALSE
  /\ \/ \E n \in Transfers(count), lo \in {ToInt(AllocateAt(f))} :
          /\ lo >= 0
          /\ \E junk \in SUBSET (lo + ZeroBuf .. lo + n - 1) :
               inode' = [inode EXCEPT ![Node(f)] = WrittenFromZeroBuf(@, lo, n, junk)]
          /\ file' = [file EXCEPT ![f] = Refreshed(@, inode'[Node(f)].size)]
          /\ AllocateReturns(f, count)
     \/ /\ Return(f, "Allocate", "fatal")
        /\ UNCHANGED <<file, inode>>
  /\ UNCHANGED <<usable, fdt, dir>>

\* Every other end of fallocate_zerofill_fast(): the hint is already cleared
\* (errno = 0), or fallocate(2) failed with another error.  Allocate() returns
\* as if it had allocated.
AllocateNothing(f) ==
  /\ Usable(f)
  /\ ~fallocate_works \/ FaultyDisk \/ Node(f) = None
  /\ Return(f, "Allocate", "short")
  /\ UNCHANGED <<file, usable, fallocate_works, kernel>>

\* Flush() is an empty function.
Flush(f) ==
  /\ MayUse(f)
  /\ Return(f, "Flush", "ok")
  /\ UNCHANGED <<file, usable, fallocate_works, kernel>>

-----------------------------------------------------------------------------
Counts == 1 .. MaxSize
Offsets == 0 .. MaxSize

Lifecycle(f) ==
  \/ \E p \in Paths, o_trunc, o_creat \in BOOLEAN : Open(f, p, o_trunc, o_creat)
  \/ OpenFails(f)
  \/ Reopen(f)
  \/ ReopenFails(f)
  \/ Close(f)
  \/ Delete(f)
  \/ Destroy(f)

DataAccess(f) ==
  \/ Size(f)
  \/ SizeTerminates(f)
  \/ \E op \in {"Read", "Write"} : AccessFails(f, op)
  \/ \E count \in Counts, offset \in Offsets : Read(f, count, offset)
  \/ \E count \in Counts, offset \in Offsets : Write(f, count, offset)
  \/ \E count \in Counts : AllocateFast(f, count)
  \/ \E count \in Counts : AllocateSlow(f, count)
  \/ AllocateNothing(f)
  \/ Flush(f)

Next == \E f \in Files : Lifecycle(f) \/ DataAccess(f)

Spec == Init /\ [][Next]_vars

-----------------------------------------------------------------------------
(***************************************************************************)
(* Properties.                                                             *)
(***************************************************************************)

\* As long as the client has not closed it, an open FSFile holds a descriptor
\* of a file of its own path, and no other open FSFile holds the same number:
\* no Close() or ~FSFile() of another object can take it away (FSFile.cpp:65,
\* TestDoubleClose).
OwnDescriptor ==
  \A f \in usable : file[f].is_file_open =>
    /\ Node(f) # None
    /\ Node(f)[1] = file[f].file_path
    /\ \A g \in Files \ {f} : file[g].is_file_open => file[g].fd # file[f].fd

\* The size an open FSFile has cached is never more than the size of the file
\* its descriptor refers to (if close(2) has not taken that away), whichever
\* calls set, missed or dropped it, as long as the file is smaller than 2^31
\* bytes: the int of FSFile.cpp:161 and 172 makes it a huge number after that.
CachedSizeBound ==
  \A f \in usable :
    /\ file[f].is_file_open /\ file[f].size # SIZE_MAX
    /\ Node(f) # None /\ inode[Node(f)].size <= MaxInt
    => file[f].size <= inode[Node(f)].size

\* A Read() whose range falls out of the file never returns, whatever size is
\* cached, unless the file has 2^31 bytes or more (FSFile.cpp:102; FSFile.h
\* makes it a fatal error).
ReadInRange ==
  ret.op = "Read" /\ ret.out = "beyond" => inode[Node(ret.by)].size > MaxInt

\* Size() never meets a bad descriptor: its fatal error would be thrown out of
\* a noexcept function (FSFile.cpp:178, 199).  Only if malloc(3) works.
NeverTerminates == Running

\* If the callers keep their writes inside Size(), Allocate() never zeroes a
\* byte that somebody wrote, although it may start from a stale size and
\* FALLOC_FL_ZERO_RANGE zeroes whatever it is pointed at (FSFile.cpp:158); but
\* in a file of 2^32 bytes or more the int of FSFile.cpp:161 points at old data.
AllocateKeepsData ==
  [][ret'.op = "Allocate" =>
       \A i \in Inodes :
         inode[i].size < IntMod => inode[i].data \subseteq inode'[i].data]_vars

\* The descriptors, the cached sizes and the kernel's table implement
\* FileHandles: no call through one object ever detaches another one or
\* changes the file another one is attached to.
Handles == INSTANCE FileHandles WITH
  Objects <- Files, Nodes <- Inodes, NoNode <- None, content <- inode,
  handle <- [f \in Files |->
               IF file[f].is_file_open THEN Node(f) ELSE None]

HandlesSpec == Handles!HSpec

(***************************************************************************)
(* Statements of the header, the comments and the tests that the code does *)
(* not keep; the README says under which constants TLC refutes each.       *)
(***************************************************************************)

\* TestAllocate: after Allocate(10 * PAGE_SIZE), Size() is 10 * PAGE_SIZE.
\* Size() returns the size of the file.
SizeIsFileSize == ret.op = "Size" => ret.out # "short"

\* FSFile.h: Allocate() "allocates count bytes at the end of the file".
AllocateGrows == ret.op = "Allocate" => ret.out # "short"

\* ... where no data is, whatever the size of the file: nothing is overwritten, ...
AllocateAtEnd ==
  [][ret'.op = "Allocate" =>
       \A i \in Inodes : inode[i].data \subseteq inode'[i].data]_vars

\* ... "and zeros those bytes".
AllocateZeros ==
  [][ret'.op = "Allocate" =>
       \A i \in Inodes : inode'[i].data \subseteq inode[i].data]_vars

\* FSFile.h: it is a fatal error if the range of a Read() falls out of the file,
\* whatever its size, ...
ReadRangeChecked == ret.op = "Read" => ret.out # "beyond"

\* ... and if pread(2) "only partially reads the file".
ReadComplete == ret.op = "Read" => ret.out \notin {"short", "beyond"}

\* FSFile.h: a Write() whose range falls out of the file is a fatal error, so
\* a Write() never changes the size of a file.
WriteStaysInFile ==
  [][ret'.op = "Write" =>
       \A i \in Inodes : inode'[i].size = inode[i].size]_vars

\* FSFile.h: a Write() that only partially writes the data is a fatal error.
WriteComplete == ret.op = "Write" => ret.out # "short"

\* FSFile.h: a deleted file that is open remains to exist until it is closed,
\* so whatever an FSFile writes or allocates goes to a file of its own path.
OwnFileOnly ==
  [][ret'.op \in {"Write", "Allocate"} =>
       \A i \in Inodes :
         inode'[i] # inode[i] => i[1] = file[ret'.by].file_path]_vars

\* FSFile.h: the destructor closes a file that is still open, so when no
\* FSFile is left no descriptor is.
NoDescriptorLeft ==
  (\A f \in Files : ~file[f].live) => \A d \in Fds : fdt[d] = None
=============================================================================
