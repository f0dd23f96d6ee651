SPECIFICATION WorkflowSpec
CONSTANTS
  Fields = {"severity"}
  Targets = {"in_progress", "ready_for_review", "changes_requested", "peer_reviewed", "qa_approved", "published"}
  Requests = {r1, r2}
  Members = {author, m1, m2}
  Author = author
  Overriders = {}
  MaxVersion = 1
  Overlap = TRUE
  Events = {}
SYMMETRY FindingSymmetry
PROPERTY
  QaByAnother
CHECK_DEADLOCK FALSE
