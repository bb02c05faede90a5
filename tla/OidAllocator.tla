---------------------------- MODULE OidAllocator ----------------------------
(***************************************************************************)
(* CatCacheBase::AllocateOid(): threads take object IDs from the counter   *)
(* m_next_oid of the DB meta page with a relaxed load and a strong         *)
(* compare-and-exchange loop.  One action is one access to the counter.    *)
(***************************************************************************)
EXTENDS Integers

CONSTANTS
  Threads,
  OidMod,      \* 2^w for the w bits of an Oid
  FirstOid     \* max_sys_oid + 1

InvalidOid == 0
MaxOid == OidMod - 2      \* numeric_limits<Oid>::max() - 1

\* An Oid is an unsigned number, and the init data leaves some of them free.
ASSUME OidAssumption ==
  /\ OidMod \in Nat
  /\ FirstOid \in 1 .. MaxOid

VARIABLES
  m_next_oid,   \* the shared counter
  next_oid,     \* each thread's local variable: the last value it has seen
  pc,           \* "idle", "test" (top of the loop) or "cas"
  result,       \* what each thread's last call returned
  allocated     \* history: every Oid returned so far

vars == <<m_next_oid, next_oid, pc, result, allocated>>

Oids == 0 .. OidMod - 1

TypeOK ==
  /\ m_next_oid \in FirstOid .. MaxOid + 1
  /\ next_oid \in [Threads -> FirstOid .. MaxOid + 1]
  /\ pc \in [Threads -> {"idle", "test", "cas"}]
  /\ result \in [Threads -> Oids]
  /\ allocated \in SUBSET Oids

\* CreateDBMeta() has stored the first free Oid.
Init ==
  /\ m_next_oid = FirstOid
  /\ next_oid = [t \in Threads |-> FirstOid]
  /\ pc = [t \in Threads |-> "idle"]
  /\ result = [t \in Threads |-> InvalidOid]
  /\ allocated = {}

\* The relaxed load may return an old value of the counter, though none older
\* than the thread has already seen.
Load(t) ==
  /\ pc[t] = "idle"
  /\ \E v \in next_oid[t] .. m_next_oid : next_oid' = [next_oid EXCEPT ![t] = v]
  /\ pc' = [pc EXCEPT ![t] = "test"]
  /\ UNCHANGED <<m_next_oid, result, allocated>>

IsAtLast(oid) == oid >= MaxOid                \* mutant
IsExhausted(oid) == oid > MaxOid

\* The top of the loop: no Oid is left, or the exchange is tried.
GiveUp(t) ==
  /\ pc[t] = "test"
  /\ IsExhausted(next_oid[t])
  /\ result' = [result EXCEPT ![t] = InvalidOid]
  /\ pc' = [pc EXCEPT ![t] = "idle"]
  /\ UNCHANGED <<m_next_oid, next_oid, allocated>>

TryOn(t) ==
  /\ pc[t] = "test"
  /\ ~IsExhausted(next_oid[t])
  /\ pc' = [pc EXCEPT ![t] = "cas"]
  /\ UNCHANGED <<m_next_oid, next_oid, result, allocated>>

\* The condition under which the exchange stores next_oid + 1.
AnyValue(t) == TRUE                           \* mutant: a plain store
Unchanged(t) == m_next_oid = next_oid[t]

CasSucceeds(t) ==
  /\ pc[t] = "cas"
  /\ Unchanged(t)
  /\ m_next_oid' = (next_oid[t] + 1) % OidMod
  /\ result' = [result EXCEPT ![t] = next_oid[t]]
  /\ allocated' = allocated \union {next_oid[t]}
  /\ pc' = [pc EXCEPT ![t] = "idle"]
  /\ UNCHANGED next_oid

\* A failing exchange loads the value it has met.
KeepsOld(t) == next_oid[t]                    \* mutant: no reload
Met(t) == m_next_oid

CasFails(t) ==
  /\ pc[t] = "cas"
  /\ ~Unchanged(t)
  /\ next_oid' = [next_oid EXCEPT ![t] = Met(t)]
  /\ pc' = [pc EXCEPT ![t] = "test"]
  /\ UNCHANGED <<m_next_oid, result, allocated>>

AllocateOid(t) == GiveUp(t) \/ TryOn(t) \/ CasSucceeds(t) \/ CasFails(t)

Next == \E t \in Threads : Load(t) \/ AllocateOid(t)

Spec == Init /\ [][Next]_vars

\* A thread inside AllocateOid() is not stopped for ever by the scheduler.
FairSpec == Spec /\ \A t \in Threads : WF_vars(AllocateOid(t))

-----------------------------------------------------------------------------
\* CatCacheBase.h: AllocateOid() "returns a valid Oid that will never be
\* returned again", also when several threads race for the counter and some of
\* them have read it long ago.
NeverReturnedAgain ==
  [][\A t \in Threads :
       pc[t] = "cas" /\ pc'[t] = "idle" =>
         result'[t] # InvalidOid /\ result'[t] \notin allocated]_vars

\* No Oid is skipped and none is invented: the Oids returned so far are those
\* between the first free one and the counter, and none of them is a system
\* Oid, InvalidOid or beyond MaxOid (the counter never wraps to 0).
AllocatedBelowCounter == allocated = FirstOid .. m_next_oid - 1

\* InvalidOid is returned only when every Oid has been handed out, however
\* stale the value was that the thread had loaded.
FailsOnlyWhenFull ==
  [][\A t \in Threads :
       pc[t] = "test" /\ pc'[t] = "idle" => allocated = FirstOid .. MaxOid]_vars

\* The loop ends for every caller: other threads can make the exchange fail
\* only as often as there are Oids left.
CallReturns == \A t \in Threads : pc[t] # "idle" ~> pc[t] = "idle"
=============================================================================
