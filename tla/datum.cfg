SPECIFICATION Spec
CONSTANTS
  Pages = {p1, p2}
  g1 = g1
  g2 = g2
  g3 = g3
  g4 = g4
  g5 = g5
  Guards = {g1, g2, g3, g4, g5}
  GuardKind <- MCGuardKind
  InvalidVal = none
  Datums = {d1, d2}
  Refs = {r1, r2}
  PlainRefs = {r1}
  Blocks = {b1, b2}
  Fixed = five
  Zero = zero
  AssignOverOwner = FALSE
INVARIANT OwnedOnce
INVARIANT RefsReadable
INVARIANT HeldOnce
SYMMETRY Symmetry
