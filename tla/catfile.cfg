SPECIFICATION Spec
CONSTANTS
  Iters = {i1, i2}
  IdxMod = 5
  Alignment = 2
  Lens = {2, 3}
  Vals = {a, b}
  Zero = zero
INVARIANT RecordsIntact
INVARIANT CurrentIsValid
INVARIANT ScanComplete
PROPERTY NoEntryTwice
