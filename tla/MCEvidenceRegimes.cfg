SPECIFICATION RegimesSpec
CONSTANTS
  Evidence = {e1, e2}
  Jobs = {e1, e2}
  Hashes = {h1, h2}
  MaxAttempts = 2
  HoldIds = {}
  Purgers = {nightly}
  Operator = none
  Overlap = FALSE
  UploadEvents = {"close"}
  Events = {"runner"}
  HurriedHashes = {h3}
  HurriedHolds = {l1, l2}
  HurriedPurgers = {nightly, manual}
  HurriedOperator = manual
SYMMETRY CustodySymmetry
INVARIANT
  ActiveHasObject
  QuietTypeOK
  QuietVersionsInOrder
  QuietStoreMatchesRows
  HurriedPurgeIsConfined
PROPERTY
  QuietQuarantineIsSticky
CHECK_DEADLOCK FALSE
