SPECIFICATION OrganisationSpec
CONSTANTS
  Members = {u1, u2}
  Founder = u1
  Invitations = {i}
  MaxTime = 2
  MaxSessions = 2
  MaxRequests = 2
  Browsers = {b1, b2}
  MaxLogins = 2
  MaxAssertions = 2
  MaxPosts = 2
  Ttl = 2
  MaxAge = 1
  Lifetimes = {1}
  Skew = 1
  MaxClock = 2
  Orgs = {o1, o2}
  Domains = {d}
  Claims = {c1, c2}
  Tokens = {t1, t2, t3}
  Staff = {s1, s2}
  Items = {x1}
  Edits = {q1, q2}
  MaxEngagement = 3
  BundleStatuses = {"scoping", "archived"}
  MaxScope = 2
  Runs = {n1, n2}
  Fingerprints = {"f1", "f2", "f3"}
  Identifier <- IdentifierOf
  Asset <- AssetOf
  Batches <- Reports
  Replicas = {k1, k2}
  Seats = 2
  Attempts = 2
  Limit = 2
SYMMETRY OrganisationSymmetry
INVARIANT
  OrganisationTypeOK
  RevokedStaysOut
  OwnerRemains
  SignInOnce
  DomainsAreProved
  EngagementInOrder
  ImportsAddUp
  LicenceKept
CHECK_DEADLOCK FALSE
