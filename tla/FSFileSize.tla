----------------------------- MODULE FSFileSize -----------------------------
(***************************************************************************)
(* Size() and Read() of one FSFile in several threads while another thread *)
(* is in Allocate(), at the grain of single loads and stores of the        *)
(* unsynchronised member size_ (FSFile.h says that Size() and Read() are   *)
(* thread-safe and that only one thread allocates).                        *)
(*                                                                         *)
(* Size() loads size_ twice: once to compare it with -1, once to return    *)
(* it, with a logging call in between that keeps the compiler from merging *)
(* the loads.  Loads and stores of an aligned size_t do not tear.          *)
(* Allocate() keeps the size in an int on its way back to size_.  A failing *)
(* malloc(3) or fstat(2) in Size() ends the process and is left out.       *)
(***************************************************************************)
EXTENDS SizeInt     \* sizes are counted in pages

CONSTANT
  Readers       \* threads that call Read(), and Size() in it

VARIABLES
  size_,            \* the cached size, SIZE_MAX if there is none
  st_size,          \* the size of the file in the kernel
  fallocate_works,  \* the hint of FSFile_private.cpp
  apc,              \* where Allocate() is
  asize,            \* local variable `size' of Allocate()
  acount,           \* its argument
  pc,               \* where each reader is
  end,              \* count + offset of the reader's Read()
  got,              \* what its last Size() returned
  seen              \* history: the largest real size its Size() has returned

vars == <<size_, st_size, fallocate_works, apc, asize, acount, pc, end, got, seen>>
allocator == <<size_, st_size, fallocate_works, apc, asize, acount>>
readers == <<pc, end, got, seen>>

Sizes == 0 .. SIZE_MAX

TypeOK ==
  /\ size_ \in Sizes
  /\ st_size \in 0 .. MaxSize
  /\ fallocate_works \in BOOLEAN
  /\ apc \in {"idle", "drop", "fstat", "store"}
  /\ asize \in -HalfInt .. MaxInt
  /\ acount \in 0 .. MaxSize
  /\ pc \in [Readers -> {"idle", "compare", "return", "fstat", "check", "pread"}]
  /\ end \in [Readers -> 0 .. MaxSize]
  /\ got \in [Readers -> Sizes]
  /\ seen \in [Readers -> Sizes]

\* The file has just been opened (its size is cached) or reopened (it is not).
Init ==
  /\ st_size \in 0 .. MaxSize
  /\ size_ \in {st_size, SIZE_MAX}
  /\ fallocate_works = TRUE
  /\ apc = "idle"
  /\ asize = 0
  /\ acount = 0
  /\ pc = [r \in Readers |-> "idle"]
  /\ end = [r \in Readers |-> 0]
  /\ got = [r \in Readers |-> 0]
  /\ seen = [r \in Readers |-> 0]

-----------------------------------------------------------------------------
(***************************************************************************)
(* Allocate().  Its own calls of Size() meet no concurrent store.          *)
(***************************************************************************)
OwnSize == IF size_ # SIZE_MAX THEN size_ ELSE st_size
Grown(from, n) == IF n > 0 /\ from + n > st_size THEN from + n ELSE st_size

AllocateFast(count) ==
  /\ apc = "idle"
  /\ fallocate_works
  /\ OwnSize + count <= MaxSize
  /\ st_size' = Grown(OwnSize, count)
  /\ UNCHANGED <<size_, fallocate_works, apc, asize, acount, readers>>

\* EOPNOTSUPP: the hint is cleared for good and pwrite(2) stores n <= count
\* zeros at Size() as an int ...
AllocateSlow(count, n) ==
  /\ apc = "idle"
  /\ fallocate_works
  /\ ToInt(OwnSize) >= 0
  /\ ToInt(OwnSize) + count <= MaxSize
  /\ fallocate_works' = FALSE
  /\ st_size' = Grown(ToInt(OwnSize), n)
  /\ apc' = "drop"
  /\ asize' = ToInt(OwnSize)
  /\ acount' = count
  /\ UNCHANGED <<size_, readers>>

\* ... or fails, always if that int is negative, with a fatal error ...
AllocateFails ==
  /\ apc = "idle"
  /\ fallocate_works
  /\ fallocate_works' = FALSE
  /\ UNCHANGED <<size_, st_size, apc, asize, acount, readers>>

\* ... set_size(-1) ...
Drop ==
  /\ apc = "drop"
  /\ size_' = SIZE_MAX
  /\ apc' = "fstat"
  /\ UNCHANGED <<st_size, fallocate_works, asize, acount, readers>>

\* ... size = Size() ...
NotRefetched == asize                                 \* mutant
CountAdded == ToInt(asize + acount)                     \* mutant
Refetched == ToInt(OwnSize)

Fstat ==
  /\ apc = "fstat"
  /\ asize' = Refetched
  /\ apc' = "store"
  /\ UNCHANGED <<size_, st_size, fallocate_works, acount, readers>>

\* ... set_size(size).
Store ==
  /\ apc = "store"
  /\ size_' = SizeT(asize)
  /\ apc' = "idle"
  /\ UNCHANGED <<st_size, fallocate_works, asize, acount, readers>>

-----------------------------------------------------------------------------
(***************************************************************************)
(* Read() of the bytes before e: the check against Size(), then pread(2).  *)
(***************************************************************************)
Goto(r, from, to) == pc[r] = from /\ pc' = [pc EXCEPT ![r] = to]

BeginRead(r, e) ==
  /\ Goto(r, "idle", "compare")
  /\ end' = [end EXCEPT ![r] = e]
  /\ UNCHANGED <<allocator, got, seen>>

\* The first load of size_: is there a cached size?
Compare(r) ==
  /\ Goto(r, "compare", IF size_ # SIZE_MAX THEN "return" ELSE "fstat")
  /\ UNCHANGED <<allocator, end, got, seen>>

\* What a thread remembers of the sizes it has been given.
Largest(r, size) == IF size # SIZE_MAX /\ size > seen[r] THEN size ELSE seen[r]

Returns(r, size) ==
  /\ got' = [got EXCEPT ![r] = size]
  /\ seen' = [seen EXCEPT ![r] = Largest(r, size)]
  /\ UNCHANGED <<allocator, end>>

\* The second load.
Return(r) == Goto(r, "return", "check") /\ Returns(r, size_)

\* fstat(2); the result is not cached.
ReaderFstat(r) == Goto(r, "fstat", "check") /\ Returns(r, st_size)

Check(r) ==
  /\ Goto(r, "check", IF end[r] > got[r] THEN "idle" ELSE "pread")
  /\ UNCHANGED <<allocator, end, got, seen>>

Pread(r) ==
  /\ Goto(r, "pread", "idle")
  /\ UNCHANGED <<allocator, end, got, seen>>

-----------------------------------------------------------------------------
Next ==
  \/ \E count \in 1 .. MaxSize :
       AllocateFast(count) \/ \E n \in 0 .. count : AllocateSlow(count, n)
  \/ AllocateFails
  \/ Drop \/ Fstat \/ Store
  \/ \E r \in Readers :
       \/ \E e \in 1 .. MaxSize : BeginRead(r, e)
       \/ Compare(r) \/ Return(r) \/ ReaderFstat(r) \/ Check(r) \/ Pread(r)

Spec == Init /\ [][Next]_vars

-----------------------------------------------------------------------------
\* Whatever the interleaving, and however much of its zeros Allocate() could
\* write, a size that Size() returns other than -1 is not larger than a file
\* whose size fits an int (FSFile.cpp:185-187 against 161-173).
SizeWithinFile ==
  \A r \in Readers : got[r] # SIZE_MAX /\ st_size <= MaxInt => got[r] <= st_size

\* The sizes one thread is given never go down as long as the file is smaller
\* than 2^32 bytes: Allocate() never caches a size older than one that a thread
\* has already been given (FSFile.cpp:171-173 against 185-187 and 205).
SizeNeverShrinks ==
  [][\A r \in Readers :
       pc[r] \in {"return", "fstat"} /\ pc'[r] = "check" /\ st_size < IntMod =>
         got'[r] >= seen[r]]_vars

(***************************************************************************)
(* Statements that the code does not keep; the README has the behaviours.  *)
(***************************************************************************)

\* FSFile.h: Read() is thread-safe and it is a fatal error if its range falls
\* out of the file; so pread(2) is only reached for a range inside the file.
\* Refuted for files of any size: Allocate() stores -1 between the two loads of
\* Size(), and the check compares the range with SIZE_MAX.
RangeChecked == \A r \in Readers : pc[r] = "pread" => end[r] <= st_size

\* SizeWithinFile for files of 2^31 bytes and more.
SizeWithinLargeFile == \A r \in Readers : got[r] # SIZE_MAX => got[r] <= st_size
=============================================================================
