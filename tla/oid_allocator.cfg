SPECIFICATION FairSpec
CONSTANTS
  Threads = {t1, t2, t3}
  OidMod = 8
  FirstOid = 3
INVARIANT AllocatedBelowCounter
PROPERTY NeverReturnedAgain
PROPERTY FailsOnlyWhenFull
PROPERTY CallReturns
