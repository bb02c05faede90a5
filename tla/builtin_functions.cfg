SPECIFICATION Spec
CONSTANTS
  BitsOf <- MCBitsOf
  Corners = 3
  MoveFirst = FALSE
  Chars = {9, 32, 65, 95, 97}
  MaxText = 3
  MaxPair = 2
  MaxParam = 4
INVARIANT ExactWhenItFits
INVARIANT BitsAgree
INVARIANT TextMatchesRange
INVARIANT TextKept
INVARIANT PaddingInvisible
INVARIANT OrderIgnoresCase
INVARIANT UnknownsRight
CHECK_DEADLOCK FALSE
