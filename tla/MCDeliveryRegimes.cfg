SPECIFICATION RegimesSpec
CONSTANTS
  Changes = {c}
  Hooks = {w1, w2}
  Channels = {n}
  Rotated = {}
  Jobs <- DeliveryJobs
  MaxAttempts = 2
  MaxSecret = 1
  MaxHands = 1
  Faults = {"statement", "emitter"}
  HurriedHooks = {w3}
INVARIANT
  RegimesTypeOK
  RowsTellTheTruth
  EventsAreWhole
  RotationIsSmooth
PROPERTY
  HurriedDeliveryEnds
CHECK_DEADLOCK FALSE
