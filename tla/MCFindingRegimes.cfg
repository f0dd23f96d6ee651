SPECIFICATION RegimesSpec
CONSTANTS
  Members = {author, m1, m2}
  Author = author
  Overriders = {}
  Testers = {author}
  Requests = {r1, r2}
  Attempts = {a1, a2}
  Fields = {"severity", "text"}
  MaxVersion = 3
  Targets = {"remediation_in_progress", "ready_for_retest", "retested", "resolved", "risk_accepted", "closed"}
  Overlap = TRUE
  Events = {"close"}
  QuietMembers = {author, m3, m4}
  QuietOverriders = {m3}
  QuietRequests = {r3}
SYMMETRY FindingSymmetry
INVARIANT
  RegimesTypeOK
  PublishedIsApproved
  PortalTrailConnects
  PortalRetestsSerialise
PROPERTY
  HistoryIsExact
  QuietQaByAnother
  NothingTakenBack
  HurriedContentIsFrozen
  ClientNeverReopens
CHECK_DEADLOCK FALSE
