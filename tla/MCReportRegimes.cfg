SPECIFICATION RegimesSpec
CONSTANTS
  Jobs = {j1, j2}
  HurriedJobs = {j3}
  MaxAttempts = 2
  Users = {ann, bob}
  Clients = {kim}
  Slow = {kim}
  Events = {"archive"}
  MaxVersion = 2
  MaxContent = 2
SYMMETRY ReportSymmetry
INVARIANT
  RegimesTypeOK
  QuietStatusAgreement
  QuietFourEyes
  QuietQaSawContent
  RegimesExportsInStep
PROPERTY
  FrozenStaysFrozen
CHECK_DEADLOCK FALSE
