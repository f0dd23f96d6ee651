SPECIFICATION FairTimedSpec
CONSTANTS
  Jobs = {j1, j2}
  Runners = {r1, r2}
  Limit = 1
  MaxAttempts = 2
  Lease = 1
  BackoffUnit = 1
  BackoffCap = 1
  CronPeriod = 1
  LongestJob = 1
  MaxTime = 5
  MaxCrash = 1
INVARIANT
  ExclusiveHandler
PROPERTY
  EventuallySettled
CHECK_DEADLOCK FALSE
