---------------------------- MODULE DatumProofs ----------------------------
(***************************************************************************)
(* Proofs that every mutex has one holder and every block one owner, for   *)
(* any number of pages, guards, Datums, references and blocks.             *)
(***************************************************************************)
EXTENDS Datum, TLAPS

\* A guard that has something to release has a page.
HasPage(g) == Live(g) /\ IsValid(g) => guard[g].m_val \in Pages
ValidHasPage == \A g \in Guards : HasPage(g)

GuardInv == GuardTypeOK /\ ValidHasPage /\ HeldOnce

Holds(g, p) == Live(g) /\ IsValid(g) /\ guard[g].m_val = p

\* HeldOnce, without the sets of holders.
LEMMA HeldOnceMeans ==
  HeldOnce <=>
    \A p \in Pages :
      /\ p \in raw => \A g \in Guards : ~Holds(g, p)
      /\ p \in held <=> (p \in raw \/ \E g \in Guards : Holds(g, p))
      /\ \A g, h \in Guards : Holds(g, p) /\ Holds(h, p) => g = h
BY DEF HeldOnce, Holders, Holds

LEMMA HeldOnceMeansNext ==
  HeldOnce' <=>
    \A p \in Pages :
      /\ p \in raw' => \A g \in Guards : ~Holds(g, p)'
      /\ p \in held' <=> (p \in raw' \/ \E g \in Guards : Holds(g, p)')
      /\ \A g, h \in Guards : Holds(g, p)' /\ Holds(h, p)' => g = h
BY ZenonT(60) DEF HeldOnce, Holders, Holds, Live, IsValid

LEMMA GuardInitInv == ASSUME GuardInit PROVE GuardInv
<1> USE GuardAssumption
<1>1. GuardTypeOK /\ ValidHasPage
  BY DEF GuardInit, GuardTypeOK, ValidHasPage, HasPage, NoGuard, Live
<1>2. HeldOnce
  BY HeldOnceMeans DEF GuardInit, Holds, NoGuard, Live
<1> QED BY <1>1, <1>2 DEF GuardInv

LEMMA GuardStutter == ASSUME GuardInv, UNCHANGED guardVars PROVE GuardInv'
<1>1. GuardTypeOK'
  BY DEF GuardInv, guardVars, GuardTypeOK
<1>2. \A g \in Guards : Live(g)' = Live(g) /\ IsValid(g)' = IsValid(g)
  BY DEF guardVars, Live, IsValid
<1>3. ValidHasPage'
  BY <1>2 DEF GuardInv, guardVars, ValidHasPage, HasPage
<1>4. \A g \in Guards, p \in Pages : Holds(g, p)' <=> Holds(g, p)
  BY <1>2 DEF guardVars, Holds
<1>5. HeldOnce'
  BY <1>4, HeldOnceMeans, HeldOnceMeansNext DEF GuardInv, guardVars
<1> QED BY <1>1, <1>3, <1>5 DEF GuardInv

(***************************************************************************)
(* What each action does to the holders of a page.                         *)
(***************************************************************************)
LEMMA EmptyHoldsNothing ==
  ASSUME NEW g \in Guards,
         guard'[g] = NoGuard \/ (guard'[g] = Guard(InvalidVal, FALSE) /\ Movable(g))
  PROVE  HasPage(g)' /\ \A p \in Pages : ~Holds(g, p)'
<1>1. CASE guard'[g] = NoGuard
  BY <1>1 DEF NoGuard, HasPage, Holds, Live
<1>2. CASE guard'[g] = Guard(InvalidVal, FALSE) /\ Movable(g)
  <2>1. guard'[g].m_val = InvalidVal /\ ~guard'[g].m_isvalid
    BY <1>2 DEF Guard
  <2>2. CASE GuardKind[g] = "sentinel"
    BY <2>1, <2>2 DEF HasPage, Holds, IsValid
  <2>3. CASE GuardKind[g] = "flag"
    BY <2>1, <2>3 DEF HasPage, Holds, IsValid
  <2> QED BY <1>2, <2>2, <2>3, GuardAssumption DEF Movable
<1> QED BY <1>1, <1>2

LEMMA FreshHolds ==
  ASSUME NEW g \in Guards, NEW q \in Pages, guard'[g] = Guard(q, TRUE)
  PROVE  HasPage(g)' /\ \A p \in Pages : Holds(g, p)' <=> p = q
<1>1. guard'[g].live /\ guard'[g].m_val = q /\ guard'[g].m_isvalid
  BY DEF Guard
<1>2. CASE GuardKind[g] = "sentinel"
  BY <1>1, <1>2, GuardAssumption DEF HasPage, Holds, Live, IsValid
<1>3. CASE GuardKind[g] = "flag"
  BY <1>1, <1>3 DEF HasPage, Holds, Live, IsValid
<1>4. CASE GuardKind[g] = "ref"
  BY <1>1, <1>4 DEF HasPage, Holds, Live, IsValid
<1> QED BY <1>2, <1>3, <1>4, GuardAssumption

LEMMA SameHolds ==
  ASSUME NEW g \in Guards, NEW h \in Guards,
         guard'[g] = guard[h], GuardKind[g] = GuardKind[h], HasPage(h)
  PROVE  HasPage(g)' /\ \A p \in Pages : Holds(g, p)' <=> Holds(h, p)
<1>1. CASE GuardKind[g] = "sentinel"
  BY <1>1 DEF HasPage, Holds, Live, IsValid
<1>2. CASE GuardKind[g] = "flag"
  BY <1>2 DEF HasPage, Holds, Live, IsValid
<1>3. CASE GuardKind[g] = "ref"
  BY <1>3 DEF HasPage, Holds, Live, IsValid
<1> QED BY <1>1, <1>2, <1>3, GuardAssumption

LEMMA ReleasesHeld ==
  ASSUME GuardInv, NEW g \in Guards, Live(g)
  PROVE  ToRelease(g) = {p \in Pages : Holds(g, p)}
BY DEF GuardInv, ValidHasPage, HasPage, ToRelease, Holds

LEMMA GuardTypes ==
  ASSUME GuardInv, GuardNext
  PROVE  GuardTypeOK'
<1> USE GuardAssumption DEF GuardInv, GuardTypeOK, Guard, NoGuard
<1>1. ASSUME NEW p \in Pages, Lock(p) \/ Unlock(p) PROVE GuardTypeOK'
  BY <1>1 DEF Lock, Unlock
<1>2. ASSUME NEW g \in Guards, DefaultGuard(g) PROVE GuardTypeOK'
  BY <1>2 DEF DefaultGuard
<1>3. ASSUME NEW g \in Guards, Reset(g) PROVE GuardTypeOK'
  BY <1>3 DEF Reset, Emptied
<1>4. ASSUME NEW g \in Guards, Release(g) PROVE GuardTypeOK'
  BY <1>4, ReleasesHeld DEF Release, Emptied
<1>5. ASSUME NEW g \in Guards, GuardDestroy(g) PROVE GuardTypeOK'
  BY <1>5 DEF GuardDestroy
<1>6. ASSUME NEW g \in Guards, NEW p \in Pages, GuardFromVal(g, p) PROVE GuardTypeOK'
  BY <1>6 DEF GuardFromVal
<1>7. ASSUME NEW g \in Guards, NEW p \in Pages, MutexGuard(g, p) PROVE GuardTypeOK'
  BY <1>7 DEF MutexGuard
<1>8. ASSUME NEW g \in Guards, NEW other \in Guards, GuardMove(g, other)
      PROVE  GuardTypeOK'
  BY <1>8 DEF GuardMove, Emptied
<1>9. ASSUME NEW g \in Guards, NEW other \in Guards, GuardAssign(g, other)
      PROVE  GuardTypeOK'
  BY <1>9 DEF GuardAssign, Emptied
<1> QED BY <1>1, <1>2, <1>3, <1>4, <1>5, <1>6, <1>7, <1>8, <1>9 DEF GuardNext

\* GuardInv follows from what became of each guard and of each page.
LEMMA GuardInvFrom ==
  ASSUME GuardTypeOK', \A h \in Guards : HasPage(h)',
         \A p \in Pages :
           /\ p \in raw' => \A h \in Guards : ~Holds(h, p)'
           /\ p \in held' <=> (p \in raw' \/ \E h \in Guards : Holds(h, p)')
           /\ \A h, k \in Guards : Holds(h, p)' /\ Holds(k, p)' => h = k
  PROVE  GuardInv'
BY HeldOnceMeansNext DEF GuardInv, ValidHasPage

LEMMA GuardStep == ASSUME GuardInv, GuardNext PROVE GuardInv'
<1>1. GuardTypeOK'
  BY GuardTypes
<1>2. /\ \A h \in Guards : HasPage(h)
      /\ \A p \in Pages :
           /\ p \in raw => \A h \in Guards : ~Holds(h, p)
           /\ p \in held <=> (p \in raw \/ \E h \in Guards : Holds(h, p))
           /\ \A h, k \in Guards : Holds(h, p) /\ Holds(k, p) => h = k
  BY HeldOnceMeans DEF GuardInv, ValidHasPage
<1>3. ASSUME NEW h \in Guards, guard'[h] = guard[h]
      PROVE  HasPage(h)' /\ \A p \in Pages : Holds(h, p)' <=> Holds(h, p)
  BY <1>2, <1>3, SameHolds
<1>4. ASSUME NEW g \in Guards, ~Live(g) PROVE \A p \in Pages : ~Holds(g, p)
  BY <1>4 DEF Holds
<1>5. ASSUME NEW q \in Pages, Lock(q) \/ Unlock(q) PROVE GuardInv'
  BY <1>1, <1>2, <1>3, <1>5, GuardInvFrom DEF Lock, Unlock
<1>6. ASSUME NEW g \in Guards, DefaultGuard(g) PROVE GuardInv'
  <2>1. \A h \in Guards \ {g} : guard'[h] = guard[h]
    BY <1>6 DEF GuardInv, GuardTypeOK, DefaultGuard
  <2>2. HasPage(g)' /\ \A p \in Pages : ~Holds(g, p)'
    BY <1>6, EmptyHoldsNothing DEF GuardInv, GuardTypeOK, DefaultGuard
  <2>3. \A p \in Pages : ~Holds(g, p)
    BY <1>4, <1>6 DEF DefaultGuard
  <2>4. held' = held /\ raw' = raw
    BY <1>6 DEF DefaultGuard
  <2>5. \A h \in Guards : HasPage(h)' /\ \A p \in Pages : Holds(h, p)' <=> Holds(h, p)
    BY <1>3, <2>1, <2>2, <2>3
  <2> QED BY <1>1, <1>2, <2>4, <2>5, GuardInvFrom
<1>7. ASSUME NEW g \in Guards, NEW q \in Pages, GuardFromVal(g, q) \/ MutexGuard(g, q)
      PROVE  GuardInv'
  <2>1. \A h \in Guards \ {g} : guard'[h] = guard[h]
    BY <1>7 DEF GuardInv, GuardTypeOK, GuardFromVal, MutexGuard
  <2>2. HasPage(g)' /\ \A p \in Pages : Holds(g, p)' <=> p = q
    BY <1>7, FreshHolds DEF GuardInv, GuardTypeOK, GuardFromVal, MutexGuard
  <2>3. \A p \in Pages : ~Holds(g, p)
    BY <1>4, <1>7 DEF GuardFromVal, MutexGuard
  <2>4. \/ q \in raw /\ held' = held /\ raw' = raw \ {q}
        \/ q \notin held /\ held' = held \union {q} /\ raw' = raw
    BY <1>7 DEF GuardFromVal, MutexGuard
  <2>5. \A h \in Guards : HasPage(h)'
    BY <1>3, <2>1, <2>2
  <2>6. \A h \in Guards \ {g}, p \in Pages : Holds(h, p)' <=> Holds(h, p)
    BY <1>3, <2>1
  <2> QED BY <1>1, <1>2, <2>2, <2>3, <2>4, <2>5, <2>6, GuardInvFrom
<1>8. ASSUME NEW g \in Guards, NEW other \in Guards, GuardMove(g, other) PROVE GuardInv'
  <2>1. \A h \in Guards \ {g, other} : guard'[h] = guard[h]
    BY <1>8 DEF GuardInv, GuardTypeOK, GuardMove
  <2>2. g # other /\ guard'[g] = guard[other] /\ guard'[other] = Guard(InvalidVal, FALSE)
    BY <1>8 DEF GuardInv, GuardTypeOK, GuardMove, Emptied
  <2>3. HasPage(g)' /\ \A p \in Pages : Holds(g, p)' <=> Holds(other, p)
    BY <1>2, <1>8, <2>2, SameHolds DEF GuardMove
  <2>4. HasPage(other)' /\ \A p \in Pages : ~Holds(other, p)'
    BY <1>8, <2>2, EmptyHoldsNothing DEF GuardMove
  <2>5. \A p \in Pages : ~Holds(g, p)
    BY <1>4, <1>8 DEF GuardMove
  <2>6. held' = held /\ raw' = raw
    BY <1>8 DEF GuardMove
  <2>7. \A h \in Guards : HasPage(h)'
    BY <1>3, <2>1, <2>3, <2>4
  <2>8. \A h \in Guards \ {g, other}, p \in Pages : Holds(h, p)' <=> Holds(h, p)
    BY <1>3, <2>1
  <2> QED BY <1>1, <1>2, <2>2, <2>3, <2>4, <2>5, <2>6, <2>7, <2>8, GuardInvFrom
<1>9. ASSUME NEW g \in Guards, NEW other \in Guards, GuardAssign(g, other) PROVE GuardInv'
  <2>1. \A h \in Guards \ {g, other} : guard'[h] = guard[h]
    BY <1>9 DEF GuardInv, GuardTypeOK, GuardAssign
  <2>2. /\ guard'[other] = Guard(InvalidVal, FALSE)
        /\ g # other => guard'[g] = guard[other]
    BY <1>9 DEF GuardInv, GuardTypeOK, GuardAssign, Emptied
  <2>3. g # other => HasPage(g)' /\ \A p \in Pages : Holds(g, p)' <=> Holds(other, p)
    BY <1>2, <1>9, <2>2, SameHolds DEF GuardAssign
  <2>4. HasPage(other)' /\ \A p \in Pages : ~Holds(other, p)'
    BY <1>9, <2>2, EmptyHoldsNothing DEF GuardAssign
  <2>5. \A p \in Pages : p \in held' <=> p \in held /\ ~Holds(g, p)
    BY <1>9, ReleasesHeld DEF GuardAssign
  <2>6. raw' = raw
    BY <1>9 DEF GuardAssign
  <2>7. \A h \in Guards : HasPage(h)'
    BY <1>3, <2>1, <2>3, <2>4
  <2>8. \A h \in Guards \ {g, other}, p \in Pages : Holds(h, p)' <=> Holds(h, p)
    BY <1>3, <2>1
  <2> QED BY <1>1, <1>2, <2>3, <2>4, <2>5, <2>6, <2>7, <2>8, GuardInvFrom
<1>10. ASSUME NEW g \in Guards, Reset(g) \/ Release(g) \/ GuardDestroy(g) PROVE GuardInv'
  <2>1. \A h \in Guards \ {g} : guard'[h] = guard[h]
    BY <1>10 DEF GuardInv, GuardTypeOK, Reset, Release, GuardDestroy
  <2>2. HasPage(g)' /\ \A p \in Pages : ~Holds(g, p)'
    <3>1. CASE Reset(g) /\ ~IsValid(g)
      <4>1. guard'[g] = guard[g]
        BY <3>1 DEF GuardInv, GuardTypeOK, Reset
      <4>2. \A p \in Pages : ~Holds(g, p)
        BY <3>1 DEF Holds
      <4> QED BY <1>3, <4>1, <4>2
    <3>2. CASE (Reset(g) /\ IsValid(g)) \/ Release(g)
      BY <3>2, EmptyHoldsNothing DEF GuardInv, GuardTypeOK, Reset, Release, Emptied
    <3>3. CASE GuardDestroy(g)
      BY <3>3, EmptyHoldsNothing DEF GuardInv, GuardTypeOK, GuardDestroy
    <3> QED BY <1>10, <3>1, <3>2, <3>3
  <2>3. ToRelease(g) = {p \in Pages : Holds(g, p)}
    BY <1>10, ReleasesHeld DEF Reset, Release, GuardDestroy
  <2>4. \/ held' = held \ ToRelease(g) /\ raw' = raw
        \/ held' = held /\ raw' = raw \union ToRelease(g)
    BY <1>10 DEF Reset, Release, GuardDestroy
  <2>5. \A h \in Guards : HasPage(h)'
    BY <1>3, <2>1, <2>2
  <2>6. \A h \in Guards \ {g}, p \in Pages : Holds(h, p)' <=> Holds(h, p)
    BY <1>3, <2>1
  <2> QED BY <1>1, <1>2, <2>2, <2>3, <2>4, <2>5, <2>6, GuardInvFrom
<1> QED BY <1>5, <1>6, <1>7, <1>8, <1>9, <1>10 DEF GuardNext

LEMMA GuardKept == ASSUME GuardInv, [Next]_vars PROVE GuardInv'
<1>1. CASE GuardNext
  BY <1>1, GuardStep
<1>2. CASE UNCHANGED guardVars
  BY <1>2, GuardStutter
<1>3. DatumNext => UNCHANGED guardVars
  BY DEF DatumNext, FromValue, FromPlainBytes, FromUniquePtr, MoveConstruct,
         MoveAssign, DeepCopy, DestroyDatum, MakeRef
<1>4. RefNext => UNCHANGED guardVars
  BY DEF RefNext, CopyRef
<1> QED BY <1>1, <1>2, <1>3, <1>4 DEF Next, vars

\* Every mutex has one holder as long as it is locked, and none when it is not:
\* ResourceGuard and MutexGuard unlock once what they locked or were given,
\* whatever is moved, assigned, reset, released and destroyed.
THEOREM EveryMutexHeldOnce == Spec => []HeldOnce
<1>1. Init => GuardInv
  BY GuardInitInv DEF Init
<1>2. GuardInv /\ [Next]_vars => GuardInv'
  BY GuardKept
<1>3. GuardInv => HeldOnce
  BY DEF GuardInv
<1> QED BY <1>1, <1>2, <1>3, PTL DEF Spec

-----------------------------------------------------------------------------
(***************************************************************************)
(* Owners of blocks.  An owner is a variable-length Datum that exists and  *)
(* has a block, which is what makes DeepCopy() copy its bytes.             *)
(***************************************************************************)
DatumRecs == [live : BOOLEAN, m_isowned : BOOLEAN, m_isnull : BOOLEAN,
              m_isvarlen : BOOLEAN, m_size : {0, 1},
              m_val : Blocks \union Pages \union {Fixed, Zero}]

OwnerIsVarlen(r) ==
  r.m_isowned => r.live /\ r.m_isvarlen /\ r.m_val \in Blocks

OwnInv ==
  /\ datum \in [Datums -> DatumRecs]
  /\ held \subseteq Pages
  /\ \A d \in Datums : OwnerIsVarlen(datum[d])
  /\ OwnedOnce

Owns(d, b) == datum[d].m_isowned /\ datum[d].m_val = b

LEMMA OwnedOnceMeans ==
  OwnedOnce <=>
    \A b \in Blocks :
      /\ b \in heap <=> \E d \in Datums : Owns(d, b)
      /\ \A d, e \in Datums : Owns(d, b) /\ Owns(e, b) => d = e
BY DEF OwnedOnce, OwnersOf, Owned, Owns

LEMMA OwnedOnceMeansNext ==
  OwnedOnce' <=>
    \A b \in Blocks :
      /\ b \in heap' <=> \E d \in Datums : Owns(d, b)'
      /\ \A d, e \in Datums : Owns(d, b)' /\ Owns(e, b)' => d = e
BY DEF OwnedOnce, OwnersOf, Owned, Owns

\* The Datums that are made.
LEMMA MadeDatums ==
  /\ NullDatum \in DatumRecs /\ ~NullDatum.m_isowned
  /\ NoDatum \in DatumRecs /\ ~NoDatum.m_isowned
  /\ FixedDatum \in DatumRecs /\ ~FixedDatum.m_isowned
  /\ \A p \in Pages : VarlenDatum(FALSE, p) \in DatumRecs /\ ~VarlenDatum(FALSE, p).m_isowned
  /\ \A b \in Blocks : /\ VarlenDatum(TRUE, b) \in DatumRecs
                       /\ VarlenDatum(TRUE, b).m_isowned
                       /\ VarlenDatum(TRUE, b).m_val = b
                       /\ OwnerIsVarlen(VarlenDatum(TRUE, b))
BY DEF NullDatum, NoDatum, FixedDatum, VarlenDatum, DatumRec, DatumRecs, OwnerIsVarlen

LEMMA OwnInitInv == ASSUME Init PROVE OwnInv
BY MadeDatums, OwnedOnceMeans DEF Init, GuardInit, OwnInv, OwnerIsVarlen, Owns

\* One Datum gets a new record; what it owned, if anything, is freed, and what it
\* owns then is new.
LEMMA OneChanges ==
  ASSUME OwnInv, NEW d \in Datums, NEW r \in DatumRecs, OwnerIsVarlen(r),
         held' \subseteq Pages,
         datum' = [datum EXCEPT ![d] = r],
         r.m_isowned => r.m_val \notin heap,
         heap' = (heap \ Owned(d)) \union (IF r.m_isowned THEN {r.m_val} ELSE {})
  PROVE  OwnInv'
<1>1. datum'[d] = r /\ \A e \in Datums \ {d} : datum'[e] = datum[e]
  BY DEF OwnInv
<1>2. datum' \in [Datums -> DatumRecs]
  BY DEF OwnInv
<1>3. \A e \in Datums : OwnerIsVarlen(datum[e])'
  BY <1>1 DEF OwnInv, OwnerIsVarlen
<1>4. \A b \in Blocks : Owns(d, b)' <=> r.m_isowned /\ r.m_val = b
  BY <1>1 DEF Owns
<1>5. \A e \in Datums \ {d}, b \in Blocks : Owns(e, b)' <=> Owns(e, b)
  BY <1>1 DEF Owns
<1>6. \A b \in Blocks : b \in heap' <=> (b \in heap /\ ~Owns(d, b)) \/ Owns(d, b)'
  BY <1>4 DEF Owned, Owns
<1>7. OwnedOnce'
  BY <1>4, <1>5, <1>6, OwnedOnceMeans, OwnedOnceMeansNext DEF OwnInv
<1> QED BY <1>2, <1>3, <1>7 DEF OwnInv

\* A move: one Datum gets the record of another, which is left null.
LEMMA MoveChanges ==
  ASSUME OwnInv, NEW d \in Datums, NEW s \in Datums, ~datum[d].m_isowned,
         UNCHANGED <<guardVars, heap>>,
         datum' = [datum EXCEPT ![d] = datum[s], ![s] = MovedFrom(@)]
  PROVE  OwnInv'
<1>1. /\ datum'[s] = NullDatum
      /\ d # s => datum'[d] = datum[s]
      /\ \A e \in Datums \ {d, s} : datum'[e] = datum[e]
  BY DEF OwnInv, MovedFrom
<1>2. datum' \in [Datums -> DatumRecs]
  BY MadeDatums DEF OwnInv, MovedFrom
<1>3. \A e \in Datums : OwnerIsVarlen(datum[e])'
  BY <1>1, MadeDatums DEF OwnInv, OwnerIsVarlen
<1>4. \A b \in Blocks : ~Owns(s, b)' /\ ~Owns(d, b)
  BY <1>1, MadeDatums DEF Owns
<1>5. d # s => \A b \in Blocks : Owns(d, b)' <=> Owns(s, b)
  BY <1>1 DEF Owns
<1>6. \A e \in Datums \ {d, s}, b \in Blocks : Owns(e, b)' <=> Owns(e, b)
  BY <1>1 DEF Owns
<1>7. OwnedOnce'
  BY <1>4, <1>5, <1>6, OwnedOnceMeans, OwnedOnceMeansNext DEF OwnInv
<1> QED BY <1>2, <1>3, <1>7 DEF OwnInv, guardVars

LEMMA OwnStutter == ASSUME OwnInv, held' \subseteq Pages, UNCHANGED <<datum, heap>> PROVE OwnInv'
BY OwnedOnceMeans, OwnedOnceMeansNext DEF OwnInv, OwnerIsVarlen, Owns

LEMMA Allocates ==
  ASSUME OwnInv, NEW d \in Datums, NEW b \in Blocks, ~LiveDatum(d), b \notin heap,
         UNCHANGED guardVars,
         datum' = [datum EXCEPT ![d] = VarlenDatum(TRUE, b)],
         heap' = heap \union {b}
  PROVE  OwnInv'
<1> DEFINE r == VarlenDatum(TRUE, b)
<1>1. r \in DatumRecs /\ r.m_isowned /\ r.m_val = b /\ OwnerIsVarlen(r)
  BY MadeDatums
<1>2. Owned(d) = {}
  BY DEF OwnInv, OwnerIsVarlen, LiveDatum, Owned
<1>3. held' \subseteq Pages
  BY DEF OwnInv, guardVars
<1>4. datum' = [datum EXCEPT ![d] = r]
  OBVIOUS
<1> HIDE DEF r
<1>5. heap' = (heap \ Owned(d)) \union (IF r.m_isowned THEN {r.m_val} ELSE {})
  BY <1>1, <1>2
<1> QED BY <1>1, <1>3, <1>4, <1>5, OneChanges

LEMMA DatumStep == ASSUME ~AssignOverOwner, OwnInv, DatumNext PROVE OwnInv'
<1> USE MadeDatums
<1>1. ASSUME NEW d \in Datums, ~LiveDatum(d) PROVE Owned(d) = {}
  BY <1>1 DEF OwnInv, OwnerIsVarlen, LiveDatum, Owned
<1>2. ASSUME NEW d \in Datums, FromValue(d) PROVE OwnInv'
  <2>1. PICK r \in {NullDatum, FixedDatum} : datum' = [datum EXCEPT ![d] = r]
    BY <1>2 DEF FromValue
  <2>2. r \in DatumRecs /\ ~r.m_isowned
    BY <2>1
  <2> QED BY <1>1, <1>2, <2>1, <2>2, OneChanges DEF FromValue, OwnInv, OwnerIsVarlen, guardVars
<1>3. ASSUME NEW d \in Datums, NEW p \in Pages, FromPlainBytes(d, p) PROVE OwnInv'
  BY <1>1, <1>3, OneChanges DEF FromPlainBytes, OwnInv, OwnerIsVarlen, guardVars
<1>4. ASSUME NEW d \in Datums, NEW b \in Blocks, FromUniquePtr(d, b) PROVE OwnInv'
  <2>1. CASE datum' = [datum EXCEPT ![d] = VarlenDatum(TRUE, b)] /\ heap' = heap \union {b}
    BY <1>4, <2>1, Allocates DEF FromUniquePtr
  <2>2. CASE datum' = [datum EXCEPT ![d] = NullDatum] /\ heap' = heap
    BY <1>1, <1>4, <2>2, OneChanges DEF FromUniquePtr, OwnInv, OwnerIsVarlen, guardVars
  <2> QED BY <1>4, <2>1, <2>2 DEF FromUniquePtr
<1>5. ASSUME NEW d \in Datums, NEW s \in Datums, MoveConstruct(d, s) PROVE OwnInv'
  BY <1>5, MoveChanges DEF MoveConstruct, OwnInv, OwnerIsVarlen, LiveDatum
<1>6. ASSUME NEW d \in Datums, NEW s \in Datums, MoveAssign(d, s) PROVE OwnInv'
  BY <1>6, MoveChanges DEF MoveAssign
<1>7. ASSUME NEW d \in Datums, NEW s \in Datums, DeepCopy(d, s) PROVE OwnInv'
  <2>1. CASE HasExternalRef(datum[s])
    <3>1. PICK b \in Blocks \ heap : /\ datum' = [datum EXCEPT ![d] = VarlenDatum(TRUE, b)]
                                     /\ heap' = heap \union {b}
      BY <1>7, <2>1 DEF DeepCopy
    <3> QED BY <1>7, <3>1, Allocates DEF DeepCopy
  <2>2. CASE ~HasExternalRef(datum[s])
    <3>1. datum[s] \in DatumRecs /\ ~datum[s].m_isowned
      BY <2>2 DEF OwnInv, OwnerIsVarlen, HasExternalRef
    <3> QED BY <1>1, <1>7, <2>2, <3>1, OneChanges, ZenonT(30)
            DEF DeepCopy, OwnInv, OwnerIsVarlen, guardVars
  <2> QED BY <2>1, <2>2
<1>8. ASSUME NEW d \in Datums, DestroyDatum(d) PROVE OwnInv'
  BY <1>8, OneChanges DEF DestroyDatum, OwnInv, OwnerIsVarlen, guardVars
<1>9. ASSUME NEW r \in Refs, NEW d \in Datums, MakeRef(r, d) PROVE OwnInv'
  BY <1>9, OwnStutter DEF MakeRef, OwnInv, guardVars
<1> QED BY <1>2, <1>3, <1>4, <1>5, <1>6, <1>7, <1>8, <1>9 DEF DatumNext

LEMMA OwnKept ==
  ASSUME ~AssignOverOwner, GuardInv, OwnInv, [Next]_vars
  PROVE  GuardInv' /\ OwnInv'
<1>1. GuardInv'
  BY GuardKept
<1>2. held' \subseteq Pages
  BY <1>1 DEF GuardInv, GuardTypeOK
<1>3. DatumNext => OwnInv'
  BY DatumStep
<1>4. UNCHANGED datumVars => OwnInv'
  BY <1>2, OwnStutter DEF datumVars
<1>5. RefNext => OwnInv'
  BY <1>2, OwnStutter DEF RefNext, CopyRef
<1> QED BY <1>1, <1>3, <1>4, <1>5 DEF Next, vars

\* In a program that assigns only to Datums that own nothing every block that is
\* allocated has one owner: moves, deep copies and destructors of Datums free no
\* block twice or too early, and lose none.
THEOREM EveryBlockOwnedOnce ==
  ASSUME ~AssignOverOwner PROVE Spec => []OwnedOnce
<1>1. Init => GuardInv /\ OwnInv
  BY GuardInitInv, OwnInitInv DEF Init
<1>2. GuardInv /\ OwnInv /\ [Next]_vars => (GuardInv /\ OwnInv)'
  BY OwnKept
<1>3. OwnInv => OwnedOnce
  BY DEF OwnInv
<1> QED BY <1>1, <1>2, <1>3, PTL DEF Spec

-----------------------------------------------------------------------------
(***************************************************************************)
(* References.  The bytes of a Datum are its own or those of a page, and a *)
(* reference that points to a Datum goes with it.                          *)
(***************************************************************************)
HasBytes(r) == r.m_size > 0 => r.m_isowned \/ r.m_val \in Pages

PointsToLive(r) == ref[r].points => ref[r].m_val \in Datums /\ LiveDatum(ref[r].m_val)

RefInv ==
  /\ DOMAIN ref = Refs
  /\ \A d \in Datums : HasBytes(datum[d])
  /\ \A r \in Refs : PointsToLive(r)

LEMMA RefInitInv == ASSUME Init PROVE RefInv
<1>1. NoDatum.m_size = 0 /\ ~NoRef.points
  BY DEF NoDatum, NullDatum, DatumRec, NoRef
<1> QED BY <1>1 DEF Init, RefInv, HasBytes, PointsToLive

\* The Datums that are made have bytes of their own, bytes of a page, or none.
LEMMA MadeHaveBytes ==
  /\ HasBytes(NullDatum) /\ NullDatum.live
  /\ HasBytes(NoDatum)
  /\ HasBytes(FixedDatum) /\ FixedDatum.live
  /\ \A p \in Pages : HasBytes(VarlenDatum(FALSE, p)) /\ VarlenDatum(FALSE, p).live
  /\ \A b \in Blocks : HasBytes(VarlenDatum(TRUE, b)) /\ VarlenDatum(TRUE, b).live
BY DEF NullDatum, NoDatum, FixedDatum, VarlenDatum, DatumRec, HasBytes

\* One Datum gets the record r, and no reference changes.
LEMMA RefOneChanges ==
  ASSUME OwnInv, RefInv, NEW d \in Datums, NEW r, HasBytes(r), r.live,
         datum' = [datum EXCEPT ![d] = r], ref' = ref
  PROVE  RefInv'
<1>1. datum'[d] = r /\ \A e \in Datums \ {d} : datum'[e] = datum[e]
  BY DEF OwnInv
<1>2. \A e \in Datums : HasBytes(datum[e])'
  BY <1>1 DEF RefInv, HasBytes
<1>3. \A q \in Refs : PointsToLive(q)'
  BY <1>1 DEF RefInv, PointsToLive, LiveDatum
<1> QED BY <1>2, <1>3 DEF RefInv

LEMMA RefMoveChanges ==
  ASSUME OwnInv, RefInv, NEW d \in Datums, NEW s \in Datums, LiveDatum(s),
         datum' = [datum EXCEPT ![d] = datum[s], ![s] = MovedFrom(@)], ref' = ref
  PROVE  RefInv'
<1>1. /\ datum'[s] = NullDatum
      /\ d # s => datum'[d] = datum[s]
      /\ \A e \in Datums \ {d, s} : datum'[e] = datum[e]
  BY DEF OwnInv, MovedFrom
<1>2. \A e \in Datums : HasBytes(datum[e])'
  BY <1>1, MadeHaveBytes DEF RefInv, HasBytes
<1>3. \A e \in Datums : LiveDatum(e) => LiveDatum(e)'
  BY <1>1, MadeHaveBytes DEF LiveDatum
<1>4. \A q \in Refs : PointsToLive(q)'
  BY <1>3 DEF RefInv, PointsToLive, LiveDatum
<1> QED BY <1>2, <1>4 DEF RefInv

LEMMA RefKept == ASSUME OwnInv, RefInv, [Next]_vars PROVE RefInv'
<1> USE MadeHaveBytes
<1>1. ASSUME UNCHANGED datumVars PROVE RefInv'
  BY <1>1 DEF datumVars, RefInv, HasBytes, PointsToLive, LiveDatum
<1>2. ASSUME NEW d \in Datums, FromValue(d) PROVE RefInv'
  BY <1>2, RefOneChanges DEF FromValue
<1>3. ASSUME NEW d \in Datums, NEW p \in Pages, FromPlainBytes(d, p) PROVE RefInv'
  BY <1>3, RefOneChanges DEF FromPlainBytes
<1>4. ASSUME NEW d \in Datums, NEW b \in Blocks, FromUniquePtr(d, b) PROVE RefInv'
  BY <1>4, RefOneChanges DEF FromUniquePtr
<1>5. ASSUME NEW d \in Datums, NEW s \in Datums, MoveConstruct(d, s) \/ MoveAssign(d, s)
      PROVE  RefInv'
  BY <1>5, RefMoveChanges DEF MoveConstruct, MoveAssign
<1>6. ASSUME NEW d \in Datums, NEW s \in Datums, DeepCopy(d, s) PROVE RefInv'
  <2>1. HasBytes(datum[s]) /\ datum[s].live
    BY <1>6 DEF RefInv, DeepCopy, LiveDatum
  <2> QED BY <1>6, <2>1, RefOneChanges DEF DeepCopy
<1>7. ASSUME NEW d \in Datums, DestroyDatum(d) PROVE RefInv'
  <2>1. datum'[d] = NoDatum /\ \A e \in Datums \ {d} : datum'[e] = datum[e]
    BY <1>7 DEF OwnInv, DestroyDatum
  <2>2. \A e \in Datums : HasBytes(datum[e])'
    BY <2>1 DEF RefInv, HasBytes
  <2>3. /\ DOMAIN ref' = Refs
        /\ \A q \in Refs : IF ref[q].points /\ ref[q].m_val = d
                           THEN ref'[q] = NoRef ELSE ref'[q] = ref[q]
    BY <1>7 DEF DestroyDatum
  <2>4. \A q \in Refs : PointsToLive(q)'
    <3>1. ~NoRef.points
      BY DEF NoRef
    <3> QED BY <2>1, <2>3, <3>1 DEF RefInv, PointsToLive, LiveDatum
  <2> QED BY <2>2, <2>3, <2>4 DEF RefInv
<1>8. ASSUME NEW r \in Refs, NEW d \in Datums, MakeRef(r, d) PROVE RefInv'
  <2>1. /\ DOMAIN ref' = Refs
        /\ ref'[r].points => ref'[r].m_val = d
        /\ \A q \in Refs \ {r} : ref'[q] = ref[q]
    BY <1>8 DEF RefInv, MakeRef
  <2>2. datum' = datum /\ LiveDatum(d)
    BY <1>8 DEF MakeRef
  <2> QED BY <2>1, <2>2 DEF RefInv, HasBytes, PointsToLive, LiveDatum
<1>9. ASSUME NEW r \in Refs, NEW q \in Refs, CopyRef(r, q) PROVE RefInv'
  <2>1. /\ DOMAIN ref' = Refs
        /\ ref'[r] = ref[q]
        /\ \A k \in Refs \ {r} : ref'[k] = ref[k]
    BY <1>9 DEF RefInv, CopyRef
  <2>2. datum' = datum
    BY <1>9 DEF CopyRef
  <2> QED BY <2>1, <2>2 DEF RefInv, HasBytes, PointsToLive, LiveDatum
<1> QED BY <1>1, <1>2, <1>3, <1>4, <1>5, <1>6, <1>7, <1>8, <1>9
        DEF Next, vars, DatumNext, RefNext

\* In a program that assigns only to Datums that own nothing a reference to a
\* Datum that still exists never reaches bytes that were freed, whatever has been
\* moved out of that Datum or into it.
THEOREM EveryRefReadable ==
  ASSUME ~AssignOverOwner PROVE Spec => []RefsReadable
<1>1. Init => GuardInv /\ OwnInv /\ RefInv
  BY GuardInitInv, OwnInitInv, RefInitInv DEF Init
<1>2. GuardInv /\ OwnInv /\ RefInv /\ [Next]_vars => (GuardInv /\ OwnInv /\ RefInv)'
  BY OwnKept, RefKept
<1>3. OwnInv /\ RefInv => RefsReadable
  <2> SUFFICES ASSUME OwnInv, RefInv, NEW r \in Refs, ref[r].points
               PROVE  LET to == datum[ref[r].m_val]
                      IN to.live /\ (to.m_size > 0 => to.m_val \in heap \union Pages)
    BY DEF RefsReadable
  <2>1. PICK d \in Datums : d = ref[r].m_val /\ LiveDatum(d)
    BY DEF RefInv, PointsToLive
  <2>2. datum[d].m_isowned => Owns(d, datum[d].m_val) /\ datum[d].m_val \in Blocks
    BY DEF OwnInv, OwnerIsVarlen, Owns
  <2>3. datum[d].m_isowned => datum[d].m_val \in heap
    BY <2>2, OwnedOnceMeans DEF OwnInv
  <2> QED BY <2>1, <2>3 DEF RefInv, HasBytes, LiveDatum
<1> QED BY <1>1, <1>2, <1>3, PTL DEF Spec
=============================================================================
