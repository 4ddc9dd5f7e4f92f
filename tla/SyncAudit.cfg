SPECIFICATION Spec
CONSTANTS
  g1 = g1
  g2 = g2
  c1 = c1
  p1 = p1
  p2 = p2
  Ids = {g1, g2, c1}
  Canon <- Apart
  Ghsa = {g1, g2}
  Local = {}
  Rescan = {c1}
  Packages = {p1, p2}
  Affects <- Names
  Malicious = {}
  Relevant = {g1, g2, c1}
  Valid = {g1, g2}
  Poison = {g2}
  PageSize = 1
  MaxPages = 2
  BatchSize = 1
  TTL = 1
  MaxClock = 3
  OsvChoices = {TRUE, FALSE}
  RateLimits = TRUE
  ApiErrors = TRUE
  SaveFaults = TRUE
  Crashes = FALSE
  Resets = FALSE
INVARIANTS
  KnownStored
