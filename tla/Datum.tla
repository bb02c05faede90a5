------------------------------- MODULE Datum -------------------------------
(***************************************************************************)
(* Datum, DatumRef and NullableDatumRef: who owns the bytes of a value and *)
(* who may still read them.  A Datum holds a fixed-length value, a pointer *)
(* to a block of its own, or a pointer into a page that it does not own;   *)
(* the latter is there as long as a guard, or the program, holds the page. *)
(* A reference to a variable-length Datum is a pointer to the Datum        *)
(* itself, any other reference is a copy of the value.                     *)
(*                                                                         *)
(* A place for a Datum may be used again after the Datum is gone, and so   *)
(* may the address of a block that was freed.                              *)
(***************************************************************************)
EXTENDS ResourceGuard

CONSTANTS
  Datums,       \* places where a Datum can be
  Refs,         \* places where a reference can be
  PlainRefs,    \* those that are DatumRefs; the others are NullableDatumRefs
  Blocks,       \* addresses that malloc() may return
  Fixed,        \* a value that fits in a DatumRep
  Zero,         \* the null pointer
  AssignOverOwner  \* the program assigns to Datums that own bytes, too

ASSUME DatumAssumption ==
  /\ PlainRefs \subseteq Refs
  /\ Blocks \intersect Pages = {}
  /\ {Fixed, Zero} \intersect (Blocks \union Pages) = {}
  /\ AssignOverOwner \in BOOLEAN

VARIABLES
  datum,    \* the Datums: the members, or NoDatum
  heap,     \* the blocks that are allocated
  ref       \* the references

datumVars == <<datum, heap, ref>>
vars == <<guardVars, datumVars>>

DatumRec(owned, null, varlen, size, val) ==
  [live |-> TRUE, m_isowned |-> owned, m_isnull |-> null, m_isvarlen |-> varlen,
   m_size |-> size, m_val |-> val]

NullDatum == DatumRec(FALSE, TRUE, FALSE, 0, Zero)
FixedDatum == DatumRec(FALSE, FALSE, FALSE, 0, Fixed)
VarlenDatum(owned, ptr) == DatumRec(owned, FALSE, TRUE, 1, ptr)
NoDatum == [NullDatum EXCEPT !.live = FALSE]

\* The Datum a reference points to, or the value that it has.
NoRef == [live |-> FALSE, m_isnull |-> TRUE, points |-> FALSE, m_val |-> Zero]

Init ==
  /\ GuardInit
  /\ datum = [d \in Datums |-> NoDatum]
  /\ heap = {}
  /\ ref = [r \in Refs |-> NoRef]

LiveDatum(d) == datum[d].live

\* What the destructor frees.
Owned(d) == IF datum[d].m_isowned THEN {datum[d].m_val} ELSE {}

\* The Datum that a move leaves: memset() and m_isnull = true.
OnlyFlagged(r) == [r EXCEPT !.m_isowned = FALSE, !.m_isnull = TRUE]  \* mutant
MovedFrom(r) == NullDatum

-----------------------------------------------------------------------------
\* FromNull(), From(), FromFixedlenBytes() and the functions with an argument
\* isnull that is true.
FromValue(d) ==
  /\ ~LiveDatum(d)
  /\ \E r \in {NullDatum, FixedDatum} : datum' = [datum EXCEPT ![d] = r]
  /\ UNCHANGED <<guardVars, heap, ref>>

\* FromVarlenBytes(), FromCString(), FromVarlenAsStringView(): bytes of a page.
FromPlainBytes(d, p) ==
  /\ ~LiveDatum(d) /\ p \in held
  /\ datum' = [datum EXCEPT ![d] = VarlenDatum(FALSE, p)]
  /\ UNCHANGED <<guardVars, heap, ref>>

\* FromVarlenBytes() with a smart pointer to a block that malloc() has just
\* returned, and FromCString() with one that new[] has (the destructor frees it
\* with free(), which in the build has the same heap); with isnull it is the
\* smart pointer that frees it.
FromUniquePtr(d, b) ==
  /\ ~LiveDatum(d) /\ b \notin heap
  /\ \/ /\ datum' = [datum EXCEPT ![d] = VarlenDatum(TRUE, b)]
        /\ heap' = heap \union {b}
     \/ /\ datum' = [datum EXCEPT ![d] = NullDatum]
        /\ UNCHANGED heap
  /\ UNCHANGED <<guardVars, ref>>

MoveConstruct(d, s) ==
  /\ ~LiveDatum(d) /\ LiveDatum(s)
  /\ datum' = [datum EXCEPT ![d] = datum[s], ![s] = MovedFrom(@)]
  /\ UNCHANGED <<guardVars, heap, ref>>

\* operator=(Datum&&), also onto itself: what the Datum had is overwritten.
MoveAssign(d, s) ==
  /\ LiveDatum(d) /\ LiveDatum(s)
  /\ AssignOverOwner \/ ~datum[d].m_isowned
  /\ datum' = [datum EXCEPT ![d] = datum[s], ![s] = MovedFrom(@)]
  /\ UNCHANGED <<guardVars, heap, ref>>

ReallyExternal(r) == r.m_isvarlen /\ ~r.m_isowned                    \* mutant
HasExternalRef(r) == r.m_isvarlen /\ r.m_isowned

\* DeepCopy(), into a new Datum: a copy of the members, or of the bytes.
DeepCopy(d, s) ==
  /\ ~LiveDatum(d) /\ LiveDatum(s)
  /\ \/ /\ HasExternalRef(datum[s])
        /\ \E b \in Blocks \ heap :
             /\ datum' = [datum EXCEPT ![d] = VarlenDatum(TRUE, b)]
             /\ heap' = heap \union {b}
     \/ /\ ~HasExternalRef(datum[s])
        /\ datum' = [datum EXCEPT ![d] = datum[s]]
        /\ UNCHANGED heap
  /\ UNCHANGED <<guardVars, ref>>

\* ~Datum().  References to the Datum may not be used any more.
DestroyDatum(d) ==
  /\ LiveDatum(d)
  /\ heap' = heap \ Owned(d)
  /\ datum' = [datum EXCEPT ![d] = NoDatum]
  /\ ref' = [r \in Refs |-> IF ref[r].points /\ ref[r].m_val = d THEN NoRef ELSE ref[r]]
  /\ UNCHANGED guardVars

-----------------------------------------------------------------------------
\* DatumRef(const Datum&) takes no notice of nullness.
MakeRef(r, d) ==
  /\ LiveDatum(d)
  /\ ref' = [ref EXCEPT ![r] =
               [live |-> TRUE,
                m_isnull |-> r \notin PlainRefs /\ datum[d].m_isnull,
                points |-> datum[d].m_isvarlen,
                m_val |-> IF datum[d].m_isvarlen THEN d ELSE datum[d].m_val]]
  /\ UNCHANGED <<guardVars, datum, heap>>

\* A reference from a reference; NULL as a DatumRef is an error.
CopyRef(r, q) ==
  /\ ref[q].live
  /\ r \in PlainRefs => ~ref[q].m_isnull
  /\ ref' = [ref EXCEPT ![r] = ref[q]]
  /\ UNCHANGED <<guardVars, datum, heap>>

DatumNext ==
  \E d \in Datums :
    \/ FromValue(d) \/ DestroyDatum(d)
    \/ \E p \in Pages : FromPlainBytes(d, p)
    \/ \E b \in Blocks : FromUniquePtr(d, b)
    \/ \E s \in Datums : MoveConstruct(d, s) \/ MoveAssign(d, s) \/ DeepCopy(d, s)
    \/ \E r \in Refs : MakeRef(r, d)

RefNext == \E r, q \in Refs : CopyRef(r, q)

Next ==
  \/ GuardNext /\ UNCHANGED datumVars
  \/ DatumNext
  \/ RefNext

Spec == Init /\ [][Next]_vars

-----------------------------------------------------------------------------
TypeOK ==
  /\ GuardTypeOK
  /\ datum \in [Datums -> [live : BOOLEAN, m_isowned : BOOLEAN, m_isnull : BOOLEAN,
                           m_isvarlen : BOOLEAN, m_size : {0, 1},
                           m_val : Blocks \union Pages \union {Fixed, Zero}]]
  /\ heap \subseteq Blocks
  /\ ref \in [Refs -> [live : BOOLEAN, m_isnull : BOOLEAN, points : BOOLEAN,
                       m_val : Datums \union Blocks \union Pages \union {Fixed, Zero}]]

OwnersOf(b) == {d \in Datums : b \in Owned(d)}

\* A block is allocated as long as exactly one Datum owns it: none is freed
\* twice or while it is owned, and none is forgotten.
OwnedOnce ==
  /\ \A b \in Blocks : b \in heap <=> OwnersOf(b) # {}
  /\ \A b \in Blocks : \A d, e \in OwnersOf(b) : d = e

\* While the Datum it points to exists a reference never reaches bytes that
\* were freed, whatever has been moved out of that Datum or into it since.
RefsReadable ==
  \A r \in Refs :
    LET to == datum[ref[r].m_val]
    IN ref[r].points =>
         /\ to.live
         /\ to.m_size > 0 => to.m_val \in heap \union Pages

\* datum.h: "Otherwise, a Datum is safe to be read at any time." of a Datum that
\* has no external reference.
SafeWithoutExternalRef ==
  \A d \in Datums :
    LiveDatum(d) /\ ~HasExternalRef(datum[d]) /\ datum[d].m_size > 0 =>
      datum[d].m_val \in heap \union held
=============================================================================
