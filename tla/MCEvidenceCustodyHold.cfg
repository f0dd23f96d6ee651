SPECIFICATION Spec
CONSTANTS
  Evidence = {e1}
  Jobs = {e1}
  Hashes = {h1}
  MaxAttempts = 1
  HoldIds = {l1}
  Purgers = {nightly}
  Operator = none
  Overlap = FALSE
  UploadEvents = {}
  Events = {"overtaken"}

INVARIANT
  HeldIsKept
CHECK_DEADLOCK FALSE
