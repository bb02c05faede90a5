-------------------------- MODULE FSFileSizeProofs --------------------------
(***************************************************************************)
(* Proofs about Size() during Allocate(), for any set of readers and any   *)
(* bound on the size of the file.                                          *)
(***************************************************************************)
EXTENDS FSFileSize, TLAPS

\* An int is in its range, holds every small size as it is, and the sizes
\* from 2^31 to 2^32 - 1 as negative numbers.
LEMMA IntRange ==
  ASSUME NEW n \in Nat
  PROVE  ToInt(n) \in -HalfInt .. MaxInt
<1>1. (n + HalfInt) % IntMod \in 0 .. IntMod - 1
  BY SizeAssumption DEF IntMod
<1> QED BY <1>1, SizeAssumption DEF ToInt, MaxInt, IntMod

LEMMA IntSmall ==
  ASSUME NEW n \in 0 .. MaxInt
  PROVE  ToInt(n) = n
<1>1. (n + HalfInt) % IntMod = n + HalfInt
  BY SizeAssumption DEF MaxInt, IntMod
<1> QED BY <1>1, SizeAssumption DEF ToInt, MaxInt, IntMod

LEMMA IntLarge ==
  ASSUME NEW n \in HalfInt .. IntMod - 1
  PROVE  ToInt(n) = n - IntMod
<1> DEFINE m == IntMod   x == n + HalfInt
<1>1. m \in Nat /\ m > 0 /\ x \in Nat /\ m <= x /\ x < 2 * m
  BY SizeAssumption DEF IntMod
<1> HIDE DEF m, x
<1>2. x % m = x - m
  BY <1>1
<1> QED BY <1>2, SizeAssumption DEF ToInt, IntMod, m, x

\* What Store caches: the size of a file smaller than 2^31 bytes, and more
\* than the size of one smaller than 2^32 bytes.
LEMMA Cached ==
  ASSUME NEW n \in 0 .. MaxSize
  PROVE  /\ SizeT(ToInt(n)) \in 0 .. SIZE_MAX
         /\ n <= MaxInt => SizeT(ToInt(n)) = n
         /\ n < IntMod => SizeT(ToInt(n)) >= n
<1>1. SizeT(ToInt(n)) \in 0 .. SIZE_MAX
  BY IntRange, SizeAssumption DEF SizeT, SIZE_MAX, MaxInt, IntMod
<1>2. CASE n <= MaxInt
  BY <1>1, <1>2, IntSmall, SizeAssumption DEF SizeT, MaxInt
<1>3. CASE n > MaxInt /\ n < IntMod
  <2>1. ToInt(n) = n - IntMod
    BY <1>3, IntLarge, SizeAssumption DEF MaxInt, IntMod
  <2> QED BY <1>1, <1>3, <2>1, SizeAssumption DEF SizeT, MaxInt, IntMod, SIZE_MAX
<1>4. CASE n > MaxInt /\ n >= IntMod
  BY <1>1, <1>4, SizeAssumption DEF MaxInt, IntMod
<1> QED BY <1>2, <1>3, <1>4, SizeAssumption DEF MaxInt, IntMod

(***************************************************************************)
(* The inductive invariant.  A cached size may be too small, after a fast  *)
(* Allocate(), but it is at least what every reader has been given.  A     *)
(* slow Allocate() is the only place where a size gets cached again; it    *)
(* has cleared the hint, so the file does not grow any more and a reader   *)
(* that is still on its way to fstat(2) finds the same size.  The int can  *)
(* make that size too large, from 2^31 bytes on; it is then there to stay, *)
(* and a reader that has been given it does not get to fstat(2) any more.  *)
(***************************************************************************)
Small == st_size < IntMod
Settled == ~fallocate_works /\ apc = "idle"

CacheBounded ==
  size_ # SIZE_MAX => size_ <= st_size \/ (Settled /\ st_size > MaxInt)
CacheCoversSeen ==
  size_ # SIZE_MAX /\ Small => \A r \in Readers : seen[r] <= size_
SeenInFile ==
  \A r \in Readers :
    seen[r] <= st_size \/ (Settled /\ size_ # SIZE_MAX /\ pc[r] # "fstat")
SlowIsLast == apc # "idle" => ~fallocate_works
Recaching ==
  /\ apc \in {"fstat", "store"} => size_ = SIZE_MAX
  /\ apc = "store" => asize = ToInt(st_size)
LateFstat ==
  \A r \in Readers :
    pc[r] = "fstat" /\ size_ # SIZE_MAX => Settled /\ (Small => size_ >= st_size)

IInv == /\ TypeOK /\ SizeWithinFile
        /\ CacheBounded /\ CacheCoversSeen /\ SeenInFile
        /\ SlowIsLast /\ Recaching /\ LateFstat

\* Open() and Reopen() establish the invariant.
LEMMA InitIInv == Init => IInv
<1> SUFFICES ASSUME Init PROVE IInv
  OBVIOUS
<1> USE SizeAssumption DEF SIZE_MAX, Sizes, MaxInt, IntMod
<1>1. TypeOK
  BY DEF Init, TypeOK
<1>2. fallocate_works /\ apc = "idle" /\ \A r \in Readers : pc[r] = "idle" /\ seen[r] = 0
  BY DEF Init
<1> QED
  BY <1>1, <1>2 DEF Init, IInv, SizeWithinFile, CacheBounded, CacheCoversSeen,
     SeenInFile, SlowIsLast, Recaching, LateFstat

\* One more Size() that returned size: it is in a file smaller than 2^31 bytes
\* if size is, and only the reader's own variables have changed.
LEMMA ReturnsKeeps ==
  ASSUME TypeOK, SizeWithinFile, NEW r \in Readers,
         NEW size \in Sizes, size # SIZE_MAX /\ st_size <= MaxInt => size <= st_size,
         Returns(r, size), pc' \in [Readers -> {"idle", "compare", "return",
                                                "fstat", "check", "pread"}]
  PROVE  /\ TypeOK' /\ SizeWithinFile'
         /\ UNCHANGED <<size_, st_size, fallocate_works, apc, asize, acount>>
         /\ seen'[r] = Largest(r, size)
         /\ \A o \in Readers \ {r} : seen'[o] = seen[o]
<1> USE SizeAssumption DEF SIZE_MAX, Sizes, IntMod
<1>1. Largest(r, size) \in Sizes
  BY DEF Largest, TypeOK
<1>2. /\ UNCHANGED <<size_, st_size, fallocate_works, apc, asize, acount, end>>
      /\ got' = [got EXCEPT ![r] = size]
      /\ seen' = [seen EXCEPT ![r] = Largest(r, size)]
  BY DEF Returns, allocator
<1>3. TypeOK'
  BY <1>1, <1>2 DEF TypeOK
<1>4. SizeWithinFile'
  BY <1>2 DEF TypeOK, SizeWithinFile
<1> QED
  BY <1>2, <1>3, <1>4 DEF TypeOK

\* The steps of Allocate() preserve it.
LEMMA AllocateIInv ==
  ASSUME IInv,
         \/ \E count \in 1 .. MaxSize :
              AllocateFast(count) \/ \E n \in 0 .. count : AllocateSlow(count, n)
         \/ AllocateFails
         \/ Drop \/ Fstat \/ Store
  PROVE  IInv'
<1> USE SizeAssumption DEF SIZE_MAX, Sizes, MaxInt, IntMod
<1>0. UNCHANGED <<pc, end, got, seen>>
  BY DEF AllocateFast, AllocateSlow, AllocateFails, Drop, Fstat, Store, readers
<1>t. TypeOK
  BY DEF IInv
<1>g. OwnSize \in Nat
  BY <1>t DEF OwnSize, TypeOK
\* While the hint is set, the file may grow and nothing else moves.
<1>1. ASSUME fallocate_works, apc = "idle", size_' = size_,
             st_size' \in 0 .. MaxSize, st_size' >= st_size,
             apc' \in {"idle", "drop"}, apc' = "drop" => ~fallocate_works', TypeOK'
      PROVE  IInv'
  <2>1. size_ # SIZE_MAX => size_ <= st_size /\ \A r \in Readers : pc[r] # "fstat"
    BY <1>1 DEF IInv, CacheBounded, LateFstat, Settled
  <2>2. \A r \in Readers : seen[r] <= st_size
    BY <1>1 DEF IInv, SeenInFile, Settled
  <2>3. CacheBounded' /\ SeenInFile'
    BY <1>0, <1>1, <1>t, <2>1, <2>2 DEF TypeOK, CacheBounded, SeenInFile
  <2>4. CacheCoversSeen' /\ SizeWithinFile'
    BY <1>0, <1>1, <1>t DEF TypeOK, IInv, CacheCoversSeen, SizeWithinFile, Small
  <2>5. SlowIsLast' /\ Recaching' /\ LateFstat'
    BY <1>0, <1>1, <2>1 DEF SlowIsLast, Recaching, LateFstat
  <2> QED BY <1>1, <2>3, <2>4, <2>5 DEF IInv
<1>2. ASSUME NEW count \in 1 .. MaxSize, AllocateFast(count)
      PROVE  IInv'
  <2>1. st_size' \in 0 .. MaxSize /\ st_size' >= st_size
    BY <1>2, <1>t, <1>g DEF AllocateFast, Grown, TypeOK
  <2>2. TypeOK'
    BY <1>0, <1>2, <1>t, <2>1 DEF AllocateFast, TypeOK
  <2> QED
    BY <1>1, <1>2, <2>1, <2>2 DEF AllocateFast
<1>3. ASSUME NEW count \in 1 .. MaxSize, NEW n \in 0 .. count, AllocateSlow(count, n)
      PROVE  IInv'
  <2>0. ToInt(OwnSize) \in -HalfInt .. MaxInt
    BY <1>g, IntRange
  <2>1. st_size' \in 0 .. MaxSize /\ st_size' >= st_size
    BY <1>3, <1>t, <2>0 DEF AllocateSlow, Grown, TypeOK
  <2>2. ~fallocate_works' /\ fallocate_works' \in BOOLEAN
    BY <1>3, Zenon DEF AllocateSlow
  <2>3. /\ size_' = size_ /\ asize' = ToInt(OwnSize) /\ acount' = count /\ apc' = "drop"
        /\ fallocate_works /\ apc = "idle"
    BY <1>3 DEF AllocateSlow
  <2>4. TypeOK'
    BY <1>0, <1>t, <2>0, <2>1, <2>2, <2>3 DEF TypeOK
  <2> QED
    BY <1>1, <2>1, <2>2, <2>3, <2>4
<1>4. CASE AllocateFails
  <2>1. ~fallocate_works' /\ fallocate_works' \in BOOLEAN
    BY <1>4, Zenon DEF AllocateFails
  <2>2. /\ UNCHANGED <<size_, st_size, apc, asize, acount>>
        /\ fallocate_works /\ apc = "idle"
    BY <1>4 DEF AllocateFails
  <2>3. TypeOK'
    BY <1>0, <1>t, <2>1, <2>2 DEF TypeOK
  <2> QED
    BY <1>1, <1>t, <2>1, <2>2, <2>3 DEF TypeOK
\* In the middle of a slow Allocate() every reader has been given sizes of the file.
<1>5. ASSUME apc # "idle" PROVE \A r \in Readers : seen[r] <= st_size
  BY <1>5 DEF IInv, SeenInFile, Settled
<1>6. CASE Drop
  <2>1. /\ UNCHANGED <<st_size, fallocate_works, asize, acount>>
        /\ apc = "drop" /\ apc' = "fstat" /\ size_' = SIZE_MAX
    BY <1>6 DEF Drop
  <2>2. TypeOK' /\ SizeWithinFile'
    BY <1>0, <1>t, <2>1 DEF IInv, TypeOK, SizeWithinFile
  <2> QED
    BY <1>0, <1>5, <2>1, <2>2 DEF IInv,
       CacheBounded, CacheCoversSeen, SeenInFile, SlowIsLast, Recaching, LateFstat
<1>7. CASE Fstat
  <2>1. /\ UNCHANGED <<size_, st_size, fallocate_works, acount>> /\ size_ = SIZE_MAX
        /\ apc = "fstat" /\ apc' = "store" /\ asize' = ToInt(st_size)
    BY <1>7 DEF Fstat, Refetched, OwnSize, IInv, Recaching
  <2>2. TypeOK' /\ SizeWithinFile'
    BY <1>0, <1>t, <2>1, IntRange DEF IInv, TypeOK, SizeWithinFile
  <2> QED
    BY <1>0, <1>5, <2>1, <2>2 DEF IInv,
       CacheBounded, CacheCoversSeen, SeenInFile, SlowIsLast, Recaching, LateFstat
<1>8. CASE Store
  <2>1. /\ UNCHANGED <<st_size, fallocate_works, asize, acount>>
        /\ apc = "store" /\ apc' = "idle" /\ size_' = SizeT(ToInt(st_size))
    BY <1>8 DEF Store, IInv, Recaching
  <2>2. /\ size_' \in 0 .. SIZE_MAX
        /\ st_size <= MaxInt => size_' = st_size
        /\ st_size < IntMod => size_' >= st_size
    BY <1>t, <2>1, Cached DEF TypeOK
  <2>3. TypeOK' /\ SizeWithinFile'
    BY <1>0, <1>t, <2>1, <2>2 DEF IInv, TypeOK, SizeWithinFile
  <2>4. Settled'
    BY <2>1 DEF IInv, SlowIsLast, Settled
  <2>5. CacheBounded' /\ SlowIsLast' /\ Recaching'
    BY <1>t, <2>1, <2>2, <2>3, <2>4 DEF TypeOK, CacheBounded, SlowIsLast, Recaching, Settled
  <2>6. CacheCoversSeen' /\ SeenInFile' /\ LateFstat'
    <3>1. \A r \in Readers : seen[r] <= st_size
      BY <1>5, <2>1
    <3> QED BY <1>0, <1>t, <2>1, <2>2, <2>4, <3>1
            DEF TypeOK, CacheCoversSeen, SeenInFile, LateFstat, Small
  <2> QED BY <2>3, <2>5, <2>6 DEF IInv
<1> QED
  BY <1>2, <1>3, <1>4, <1>6, <1>7, <1>8

\* The steps of a reader preserve it.
LEMMA ReaderIInv ==
  ASSUME IInv, NEW r \in Readers,
         \/ \E e \in 1 .. MaxSize : BeginRead(r, e)
         \/ Compare(r) \/ Return(r) \/ ReaderFstat(r) \/ Check(r) \/ Pread(r)
  PROVE  IInv'
<1> USE SizeAssumption DEF SIZE_MAX, Sizes, IntMod, MaxInt
<1> DEFINE Locations == {"idle", "compare", "return", "fstat", "check", "pread"}
<1>t. TypeOK
  BY DEF IInv
\* A step that moves the reader only.
<1>1. ASSUME NEW l \in Locations, pc' = [pc EXCEPT ![r] = l], l = "fstat" => size_ = SIZE_MAX,
             UNCHANGED <<size_, st_size, fallocate_works, apc, asize, acount, got, seen>>,
             end' \in [Readers -> 0 .. MaxSize]
      PROVE  IInv'
  <2>1. TypeOK'
    BY <1>1, <1>t DEF TypeOK
  <2>2. SeenInFile' /\ LateFstat'
    BY <1>1, <1>t DEF TypeOK, IInv, SeenInFile, LateFstat, Settled, Small
  <2> QED BY <1>1, <2>1, <2>2 DEF IInv, SizeWithinFile, CacheBounded, CacheCoversSeen,
             SlowIsLast, Recaching, Settled, Small
<1>2. ASSUME NEW e \in 1 .. MaxSize, BeginRead(r, e)
      PROVE  IInv'
  <2>1. end' \in [Readers -> 0 .. MaxSize]
    BY <1>2, <1>t DEF BeginRead, TypeOK
  <2> QED BY <1>1, <1>2, <2>1 DEF BeginRead, Goto, allocator
<1>3. CASE Compare(r)
  <2>1. CASE size_ # SIZE_MAX
    BY <1>1, <1>3, <1>t, <2>1 DEF Compare, Goto, allocator, TypeOK
  <2>2. CASE size_ = SIZE_MAX
    BY <1>1, <1>3, <1>t, <2>2 DEF Compare, Goto, allocator, TypeOK
  <2> QED BY <2>1, <2>2
<1>4. CASE Return(r)
  <2>0. pc' = [pc EXCEPT ![r] = "check"] /\ pc' \in [Readers -> Locations]
    BY <1>4, <1>t DEF Return, Goto, TypeOK
  <2>1. size_ # SIZE_MAX /\ st_size <= MaxInt => size_ <= st_size
    BY <1>t DEF IInv, CacheBounded, TypeOK
  <2>2. /\ TypeOK' /\ SizeWithinFile'
        /\ UNCHANGED <<size_, st_size, fallocate_works, apc, asize, acount>>
        /\ seen'[r] = Largest(r, size_)
        /\ \A o \in Readers \ {r} : seen'[o] = seen[o]
    BY <1>4, <2>0, <2>1, ReturnsKeeps DEF Return, IInv, TypeOK
  <2>3. CacheCoversSeen'
    BY <1>t, <2>2 DEF Largest, IInv, TypeOK, CacheCoversSeen, Small
  <2>4. LateFstat'
    BY <1>t, <2>0, <2>2 DEF IInv, TypeOK, LateFstat, Settled, Small
  <2>5. SeenInFile'
    <3>1. seen'[r] <= st_size \/ (Settled /\ size_ # SIZE_MAX)
      BY <1>t, <2>2 DEF Largest, IInv, TypeOK, CacheBounded, SeenInFile
    <3> QED BY <1>t, <2>0, <2>2, <3>1 DEF IInv, TypeOK, SeenInFile, Settled
  <2> QED
    BY <2>2, <2>3, <2>4, <2>5 DEF IInv, CacheBounded, SlowIsLast, Recaching, Settled
<1>5. CASE ReaderFstat(r)
  <2>0. pc' = [pc EXCEPT ![r] = "check"] /\ pc' \in [Readers -> Locations] /\ pc[r] = "fstat"
    BY <1>5, <1>t DEF ReaderFstat, Goto, TypeOK
  <2>2. /\ TypeOK' /\ SizeWithinFile'
        /\ UNCHANGED <<size_, st_size, fallocate_works, apc, asize, acount>>
        /\ seen'[r] = Largest(r, st_size)
        /\ \A o \in Readers \ {r} : seen'[o] = seen[o]
    BY <1>5, <1>t, <2>0, ReturnsKeeps DEF ReaderFstat, IInv, TypeOK
  <2>3. CacheCoversSeen'
    <3>1. size_ # SIZE_MAX /\ Small => size_ >= st_size
      BY <2>0 DEF IInv, LateFstat
    <3> QED BY <1>t, <2>2, <3>1 DEF Largest, IInv, TypeOK, CacheCoversSeen, Small
  <2>4. LateFstat'
    BY <1>t, <2>0, <2>2 DEF IInv, TypeOK, LateFstat, Settled, Small
  <2>5. SeenInFile'
    <3>1. seen'[r] <= st_size
      BY <1>t, <2>0, <2>2 DEF Largest, IInv, TypeOK, SeenInFile
    <3> QED BY <1>t, <2>0, <2>2, <3>1 DEF IInv, TypeOK, SeenInFile, Settled
  <2> QED
    BY <2>2, <2>3, <2>4, <2>5 DEF IInv, CacheBounded, SlowIsLast, Recaching, Settled
<1>6. CASE Check(r)
  <2>1. CASE end[r] > got[r]
    BY <1>1, <1>6, <1>t, <2>1 DEF Check, Goto, allocator, TypeOK
  <2>2. CASE ~(end[r] > got[r])
    BY <1>1, <1>6, <1>t, <2>2 DEF Check, Goto, allocator, TypeOK
  <2> QED BY <2>1, <2>2
<1>7. CASE Pread(r)
  BY <1>1, <1>7, <1>t DEF Pread, Goto, allocator, TypeOK
<1> QED
  BY <1>2, <1>3, <1>4, <1>5, <1>6, <1>7

\* Every step preserves it.
LEMMA NextIInv == IInv /\ [Next]_vars => IInv'
<1>1. IInv /\ Next => IInv'
  BY AllocateIInv, ReaderIInv DEF Next
<1>2. IInv /\ UNCHANGED vars => IInv'
  BY DEF vars, IInv, TypeOK, SizeWithinFile, CacheBounded, CacheCoversSeen,
     SeenInFile, SlowIsLast, Recaching, LateFstat, Settled, Small
<1> QED
  BY <1>1, <1>2

\* So it holds in every reachable state.
LEMMA Invariance == Spec => []IInv
<1>1. QED
  BY InitIInv, NextIInv, PTL DEF Spec

\* Every size that Size() returns to any reader during any Allocate() is -1 or,
\* for a file whose size fits an int, within the file.
THEOREM SizesInFile == Spec => []SizeWithinFile
  BY Invariance, PTL DEF IInv

\* The sizes that one reader is given never go down in a file smaller than
\* 2^32 bytes.
THEOREM SizesGrow == Spec => SizeNeverShrinks
<1> DEFINE A == \A r \in Readers :
                  pc[r] \in {"return", "fstat"} /\ pc'[r] = "check" /\ st_size < IntMod =>
                    got'[r] >= seen[r]
<1>1. IInv /\ [Next]_vars => [A]_vars
  <2> SUFFICES ASSUME IInv, Next, NEW r \in Readers,
                      pc[r] \in {"return", "fstat"}, pc'[r] = "check", st_size < IntMod
               PROVE  got'[r] >= seen[r]
    BY DEF A
  <2>0. TypeOK /\ IntMod \in Nat
    BY SizeAssumption DEF IInv, IntMod
  <2>1. Return(r) \/ ReaderFstat(r)
    BY <2>0 DEF Next, AllocateFast, AllocateSlow, AllocateFails, Drop, Fstat, Store,
       readers, BeginRead, Compare, Return, ReaderFstat, Check, Pread, Goto, TypeOK
  <2>2. CASE Return(r)
    <3>1. seen[r] <= size_
      BY <2>0, SizeAssumption DEF IInv, TypeOK, CacheCoversSeen, Small, Sizes, SIZE_MAX
    <3> QED BY <2>0, <2>2, <3>1 DEF Return, Returns, TypeOK
  <2>3. CASE ReaderFstat(r)
    <3>1. seen[r] <= st_size
      BY <2>3 DEF ReaderFstat, Goto, IInv, SeenInFile
    <3> QED BY <2>0, <2>3, <3>1 DEF ReaderFstat, Returns, TypeOK
  <2> QED
    BY <2>1, <2>2, <2>3
<1> QED
  BY <1>1, Invariance, PTL DEF Spec, SizeNeverShrinks
=============================================================================
