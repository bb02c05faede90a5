------------------------------- MODULE SizeInt -------------------------------
(***************************************************************************)
(* The sizes of files in Allocate() (FSFile.cpp:161-173): size_t values,   *)
(* held by a local variable of type int between Size(), pwrite(2) and      *)
(* set_size().  Numbers stand for the unit of the module that extends this *)
(* one (a page, or a part of a page); a size_t is wider than an int.       *)
(***************************************************************************)
EXTENDS Integers

CONSTANTS
  MaxSize,      \* bound on the size of a file
  HalfInt       \* 2^31 bytes: an int holds -HalfInt .. HalfInt - 1

ASSUME SizeAssumption == MaxSize \in Nat /\ HalfInt \in Nat \ {0}

MaxInt == HalfInt - 1
IntMod == 2 * HalfInt

\* -1 as a size_t.  It and every other negative int are larger than any file.
SIZE_MAX == MaxSize + IntMod

\* `int size = Size()': the low bits of a size_t, read as a signed number.
ToInt(size) == ((size + HalfInt) % IntMod) - HalfInt

\* `set_size(size)': an int extended to a size_t.
SizeT(i) == IF i < 0 THEN SIZE_MAX + 1 + i ELSE i
=============================================================================
