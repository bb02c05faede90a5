SPECIFICATION Spec
CONSTANTS
  Files = {f1}
  Paths = {p1, p2}
  NInodes = 1
  Fds <- TwoFds
  PageSize = 2
  MaxSize = 4
  HalfInt = 3
  ZeroBuf = 1
  ZeroRangePaths = {p1}
  None = None
  CloseMayFail = TRUE
  FaultyDisk = TRUE
  MallocMayFail = TRUE
  WritesInRange = TRUE
  UseAfterDelete = TRUE
INVARIANT ReadInRange
PROPERTY AllocateKeepsData
CHECK_DEADLOCK FALSE
