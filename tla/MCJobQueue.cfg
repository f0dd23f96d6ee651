SPECIFICATION Spec
CONSTANTS
  Jobs = {j1, j2}
  Runners = {r1, r2}
  Limit = 2
  MaxAttempts = 2
  Lease = 1
  BackoffUnit = 1
  BackoffCap = 1
  MaxTime = 4
  MaxCrash = 1
SYMMETRY JobQueueSymmetry
INVARIANT
  FenceIsNewestClaim
  JobInv
PROPERTY
  SettledIsFinal
  ImplementsContract
CHECK_DEADLOCK FALSE
