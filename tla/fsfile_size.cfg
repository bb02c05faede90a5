SPECIFICATION Spec
CONSTANTS
  Readers = {r1, r2}
  MaxSize = 5
  HalfInt = 2
INVARIANT SizeWithinFile
PROPERTY SizeNeverShrinks
