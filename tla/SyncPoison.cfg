SPECIFICATION FairSpec
CONSTANTS
  g1 = g1
  g2 = g2
  c1 = c1
  p1 = p1
  p2 = p2
  Ids = {g1, g2, c1}
  Canon <- Cluster
  Ghsa = {g1, g2}
  Local = {}
  Rescan = {}
  Packages = {p1}
  Affects <- Names
  Malicious = {}
  Relevant = {g1, g2, c1}
  Valid = {g1, g2, c1}
  Poison = {g2}
  PageSize = 2
  MaxPages = 2
  BatchSize = 1
  TTL = 1
  MaxClock = 3
  OsvChoices = {FALSE}
  RateLimits = FALSE
  ApiErrors = FALSE
  SaveFaults = FALSE
  Crashes = FALSE
  Resets = FALSE
PROPERTIES
  EventuallyStored
