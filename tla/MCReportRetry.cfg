SPECIFICATION Spec
CONSTANTS
  Jobs = {j1, j2}
  MaxAttempts = 2
  Users = {ann, bob}
  Clients = {}
  Slow = {}
  Events = {}
  MaxVersion = 1
  MaxContent = 2
SYMMETRY ReportSymmetry
PROPERTY
  PublishedIsFrozen
CHECK_DEADLOCK FALSE
