SPECIFICATION Spec
CONSTANTS
  g1 = g1
  g2 = g2
  c1 = c1
  p1 = p1
  p2 = p2
  Ids = {g1, g2, c1}
  Canon <- Cluster
  Ghsa = {g1, g2}
  Local = {g2}
  Rescan = {c1}
  Packages = {p1, p2}
  Affects <- Names
  Malicious = {p2}
  Relevant = {g1, g2, c1}
  Valid = {g2, c1}
  Poison = {}
  PageSize = 1
  MaxPages = 1
  BatchSize = 1
  TTL = 1
  MaxClock = 3
  OsvChoices = {TRUE}
  RateLimits = TRUE
  ApiErrors = TRUE
  SaveFaults = FALSE
  Crashes = TRUE
  Resets = TRUE
INVARIANTS
  TypeOK
  CheckpointAccounted
  CheckpointIndexed
  AuditedSinceAdvisory
