------------------------- MODULE OidAllocatorProofs -------------------------
(***************************************************************************)
(* Proofs about AllocateOid() for any set of threads, any width of an Oid  *)
(* and any first free Oid.                                                 *)
(***************************************************************************)
EXTENDS OidAllocator, TLAPS

(***************************************************************************)
(* The inductive invariant.  A value a thread has seen may be stale, but   *)
(* never ahead of the counter; a thread that is about to try the exchange  *)
(* holds a valid Oid.                                                      *)
(***************************************************************************)
SeenIsOld == \A t \in Threads : next_oid[t] <= m_next_oid
TriesValid == \A t \in Threads : pc[t] = "cas" => next_oid[t] <= MaxOid
IInv == TypeOK /\ AllocatedBelowCounter /\ SeenIsOld /\ TriesValid

\* The counter fits an Oid as long as the exchange starts from a valid one:
\* the addition in the exchange does not wrap.
LEMMA NoWrap ==
  ASSUME NEW v \in FirstOid .. MaxOid
  PROVE  /\ (v + 1) % OidMod = v + 1
         /\ v \in Oids
  BY OidAssumption DEF MaxOid, Oids

\* CreateDBMeta() establishes the invariant.
LEMMA InitIInv == Init => IInv
  BY OidAssumption DEF Init, IInv, TypeOK, AllocatedBelowCounter, SeenIsOld,
     TriesValid, Oids, MaxOid, InvalidOid

\* Every access to the counter preserves it.
LEMMA NextIInv == IInv /\ [Next]_vars => IInv'
<1> SUFFICES ASSUME IInv, [Next]_vars
             PROVE  IInv'
  OBVIOUS
<1> USE OidAssumption DEF IInv, TypeOK, SeenIsOld, TriesValid, MaxOid
<1>1. ASSUME NEW t \in Threads, Load(t)
      PROVE  IInv'
  BY <1>1 DEF Load, AllocatedBelowCounter
<1>2. ASSUME NEW t \in Threads, GiveUp(t)
      PROVE  IInv'
  BY <1>2 DEF GiveUp, AllocatedBelowCounter, InvalidOid, Oids
<1>3. ASSUME NEW t \in Threads, TryOn(t)
      PROVE  IInv'
  BY <1>3 DEF TryOn, AllocatedBelowCounter, IsExhausted
<1>4. ASSUME NEW t \in Threads, CasSucceeds(t)
      PROVE  IInv'
  <2> DEFINE v == next_oid[t]
  <2>1. v \in FirstOid .. MaxOid /\ m_next_oid = v
    BY <1>4 DEF CasSucceeds, Unchanged
  <2>2. m_next_oid' = v + 1 /\ v \in Oids
    BY <1>4, <2>1, NoWrap DEF CasSucceeds
  <2>3. TypeOK'
    BY <1>4, <2>1, <2>2 DEF CasSucceeds
  <2>4. AllocatedBelowCounter'
    BY <1>4, <2>1, <2>2 DEF CasSucceeds, AllocatedBelowCounter
  <2>5. SeenIsOld' /\ TriesValid'
    BY <1>4, <2>1, <2>2 DEF CasSucceeds
  <2> QED
    BY <2>3, <2>4, <2>5
<1>5. ASSUME NEW t \in Threads, CasFails(t)
      PROVE  IInv'
  BY <1>5 DEF CasFails, AllocatedBelowCounter, Met
<1>6. CASE UNCHANGED vars
  BY <1>6 DEF vars, AllocatedBelowCounter
<1> QED
  BY <1>1, <1>2, <1>3, <1>4, <1>5, <1>6 DEF Next, AllocateOid

\* So it holds in every reachable state.
LEMMA Invariance == Spec => []IInv
<1>1. QED
  BY InitIInv, NextIInv, PTL DEF Spec

\* The counter and every value read from it stay between the first free Oid
\* and MaxOid + 1: AllocateOid() never computes an Oid that wraps.
THEOREM TypeCorrect == Spec => []TypeOK
  BY Invariance, PTL DEF IInv

\* The Oids returned so far are exactly those below the counter.
THEOREM CounterSafe == Spec => []AllocatedBelowCounter
  BY Invariance, PTL DEF IInv

\* AllocateOid() returns no Oid twice, whatever the threads do.
THEOREM Uniqueness == Spec => NeverReturnedAgain
<1> DEFINE A == \A t \in Threads :
                  pc[t] = "cas" /\ pc'[t] = "idle" =>
                    result'[t] # InvalidOid /\ result'[t] \notin allocated
<1>1. IInv /\ [Next]_vars => [A]_vars
  <2> SUFFICES ASSUME IInv, Next, NEW t \in Threads, pc[t] = "cas", pc'[t] = "idle"
               PROVE  result'[t] # InvalidOid /\ result'[t] \notin allocated
    BY DEF A
  <2>1. PICK u \in Threads : Load(u) \/ AllocateOid(u)
    BY DEF Next
  <2>2. u = t /\ CasSucceeds(t)
    BY <2>1 DEF IInv, TypeOK, Load, AllocateOid, GiveUp, TryOn, CasFails,
       CasSucceeds
  <2>3. result'[t] = m_next_oid
    BY <2>2 DEF CasSucceeds, Unchanged, IInv, TypeOK
  <2> QED
    BY <2>3, OidAssumption DEF IInv, TypeOK, AllocatedBelowCounter, InvalidOid,
       MaxOid
<1> QED
  BY <1>1, Invariance, PTL DEF Spec, NeverReturnedAgain

\* InvalidOid is returned only when no Oid is left.
THEOREM NoEarlyFailure == Spec => FailsOnlyWhenFull
<1> DEFINE A == \A t \in Threads :
                  pc[t] = "test" /\ pc'[t] = "idle" =>
                    allocated = FirstOid .. MaxOid
<1>1. IInv /\ [Next]_vars => [A]_vars
  <2> SUFFICES ASSUME IInv, Next, NEW t \in Threads, pc[t] = "test", pc'[t] = "idle"
               PROVE  allocated = FirstOid .. MaxOid
    BY DEF A
  <2>1. PICK u \in Threads : Load(u) \/ AllocateOid(u)
    BY DEF Next
  <2>2. u = t /\ GiveUp(t)
    BY <2>1 DEF IInv, TypeOK, Load, AllocateOid, GiveUp, TryOn, CasFails,
       CasSucceeds
  <2>3. m_next_oid = MaxOid + 1
    BY <2>2, OidAssumption DEF GiveUp, IsExhausted, IInv, TypeOK, SeenIsOld, MaxOid
  <2> QED
    BY <2>3, OidAssumption DEF IInv, AllocatedBelowCounter, MaxOid
<1> QED
  BY <1>1, Invariance, PTL DEF Spec, FailsOnlyWhenFull
=============================================================================
