SPECIFICATION LicenceSpec
CONSTANTS
  Replicas = {k1}
  Seats = 2
  Attempts = 3
  Limit = 3
INVARIANT
  StartupSeatReturned
CHECK_DEADLOCK FALSE
