--------------------------- MODULE ResourceGuard ---------------------------
(***************************************************************************)
(* ResourceGuard and MutexGuard: objects that release a resource when they *)
(* go out of scope.  The three specializations differ in how they know     *)
(* that they have nothing to release: a guard of kind "sentinel" (of which *)
(* MutexGuard is one) has a value that stands for nothing, one of kind     *)
(* "flag" has a flag of its own, and one of kind "ref" always has a value  *)
(* and can be neither moved nor reset.                                     *)
(*                                                                         *)
(* The resource is the mutex of a buffer page: the bytes of the page stay  *)
(* what they are as long as somebody holds it.                             *)
(***************************************************************************)
EXTENDS Integers

CONSTANTS
  Pages,        \* the resources
  Guards,       \* places where a guard object can be
  GuardKind,    \* the specialization of each
  InvalidVal    \* the value that stands for nothing, and T()

ASSUME GuardAssumption ==
  /\ GuardKind \in [Guards -> {"sentinel", "flag", "ref"}]
  /\ InvalidVal \notin Pages

VARIABLES
  held,     \* the mutexes that are locked
  raw,      \* those that the program holds without a guard
  guard     \* the guard objects: NoGuard, or the members

guardVars == <<held, raw, guard>>

NoGuard == [live |-> FALSE, m_val |-> InvalidVal, m_isvalid |-> FALSE]
Guard(val, valid) == [live |-> TRUE, m_val |-> val, m_isvalid |-> valid]

GuardInit ==
  /\ held = {} /\ raw = {}
  /\ guard = [g \in Guards |-> NoGuard]

\* m_isvalid is a member of the "flag" kind only.
IsValid(g) ==
  CASE GuardKind[g] = "sentinel" -> guard[g].m_val # InvalidVal
    [] GuardKind[g] = "flag"     -> guard[g].m_isvalid
    [] GuardKind[g] = "ref"      -> TRUE

Live(g) == guard[g].live
Movable(g) == GuardKind[g] # "ref"

\* The guard that a move or Release() leaves.
StillValid(r) == r                                                   \* mutant
Emptied(r) == Guard(InvalidVal, FALSE)

\* What ~ResourceGuard(), Reset() and the assignment release.
ToRelease(g) == IF IsValid(g) THEN {guard[g].m_val} ELSE {}

-----------------------------------------------------------------------------
\* The program locks and unlocks a mutex by itself.
Lock(p) ==
  /\ p \notin held
  /\ held' = held \union {p} /\ raw' = raw \union {p}
  /\ UNCHANGED guard

Unlock(p) ==
  /\ p \in raw
  /\ held' = held \ {p} /\ raw' = raw \ {p}
  /\ UNCHANGED guard

DefaultGuard(g) ==
  /\ ~Live(g) /\ Movable(g)
  /\ guard' = [guard EXCEPT ![g] = Guard(InvalidVal, FALSE)]
  /\ UNCHANGED <<held, raw>>

\* ResourceGuard(T val): the guard takes over what the program holds.
GuardFromVal(g, p) ==
  /\ ~Live(g) /\ p \in raw
  /\ guard' = [guard EXCEPT ![g] = Guard(p, TRUE)]
  /\ raw' = raw \ {p}
  /\ UNCHANGED held

\* MutexGuard(m): locks m, or waits until it can.
MutexGuard(g, p) ==
  /\ ~Live(g) /\ GuardKind[g] = "sentinel"
  /\ p \notin held
  /\ held' = held \union {p}
  /\ guard' = [guard EXCEPT ![g] = Guard(p, TRUE)]
  /\ UNCHANGED raw

GuardMove(g, other) ==
  /\ ~Live(g) /\ Live(other)
  /\ Movable(other) /\ GuardKind[g] = GuardKind[other]
  /\ guard' = [guard EXCEPT ![g] = guard[other], ![other] = Emptied(@)]
  /\ UNCHANGED <<held, raw>>

\* operator=(ResourceGuard&&), also onto itself.
GuardAssign(g, other) ==
  /\ Live(g) /\ Live(other)
  /\ Movable(other) /\ GuardKind[g] = GuardKind[other]
  /\ held' = held \ ToRelease(g)
  /\ guard' = [guard EXCEPT ![g] = guard[other], ![other] = Emptied(@)]
  /\ UNCHANGED raw

Reset(g) ==
  /\ Live(g) /\ Movable(g)
  /\ held' = held \ ToRelease(g)
  /\ guard' = [guard EXCEPT ![g] = IF IsValid(g) THEN Emptied(@) ELSE @]
  /\ UNCHANGED raw

\* Release(): the caller holds the resource from now on.
Release(g) ==
  /\ Live(g) /\ Movable(g)
  /\ raw' = raw \union ToRelease(g)
  /\ guard' = [guard EXCEPT ![g] = Emptied(@)]
  /\ UNCHANGED held

GuardDestroy(g) ==
  /\ Live(g)
  /\ held' = held \ ToRelease(g)
  /\ guard' = [guard EXCEPT ![g] = NoGuard]
  /\ UNCHANGED raw

GuardNext ==
  \/ \E p \in Pages : Lock(p) \/ Unlock(p)
  \/ \E g \in Guards :
       \/ DefaultGuard(g) \/ Reset(g) \/ Release(g) \/ GuardDestroy(g)
       \/ \E p \in Pages : GuardFromVal(g, p) \/ MutexGuard(g, p)
       \/ \E other \in Guards : GuardMove(g, other) \/ GuardAssign(g, other)

-----------------------------------------------------------------------------
GuardTypeOK ==
  /\ held \subseteq Pages /\ raw \subseteq Pages
  /\ guard \in [Guards -> [live : BOOLEAN, m_val : Pages \union {InvalidVal},
                           m_isvalid : BOOLEAN]]

Holders(p) == {g \in Guards : Live(g) /\ IsValid(g) /\ guard[g].m_val = p}

\* A mutex that is locked has one holder, the program or a valid guard, and one
\* that is not locked has none: whatever is moved, reset, released and
\* destroyed, every mutex is unlocked once.
HeldOnce ==
  \A p \in Pages :
    /\ p \in raw => Holders(p) = {}
    /\ p \in held <=> (p \in raw \/ Holders(p) # {})
    /\ \A g, h \in Holders(p) : g = h
=============================================================================
