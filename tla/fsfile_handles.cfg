SPECIFICATION Spec
CONSTANTS
  Files = {f1, f2}
  Paths = {p1, p2}
  NInodes = 1
  Fds <- ThreeFds
  PageSize = 1
  MaxSize = 1
  HalfInt = 2
  ZeroBuf = 1
  ZeroRangePaths = {p1}
  None = None
  CloseMayFail = FALSE
  FaultyDisk = TRUE
  MallocMayFail = FALSE
  WritesInRange = FALSE
  UseAfterDelete = FALSE
INVARIANT NeverTerminates
INVARIANT OwnDescriptor
PROPERTY HandlesSpec
