SPECIFICATION TimedSpec
CONSTANTS
  Jobs = {j1, j2, j3}
  Runners = {r1, r2}
  Limit = 3
  MaxAttempts = 2
  Lease = 2
  BackoffUnit = 1
  BackoffCap = 1
  CronPeriod = 1
  LongestJob = 1
  MaxTime = 4
  MaxCrash = 0
SYMMETRY TimedSymmetry
INVARIANT
  ExclusiveHandler
CHECK_DEADLOCK FALSE
