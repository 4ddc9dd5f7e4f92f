SPECIFICATION Spec
CONSTANTS
  None = None
  Daemons = {d1, d2, d3}
  Stops = FALSE
  Kills = FALSE
INVARIANTS
  MutualExclusion
CHECK_DEADLOCK FALSE
