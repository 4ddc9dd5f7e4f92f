SPECIFICATION FairSpec
CONSTANTS
  None = None
  Daemons = {d1, d2, d3}
  Stops = TRUE
  Kills = TRUE
INVARIANTS
  TypeOK
  ExclusiveUnlessUnlinked
  LeftoverOnlyAfterKill
  NamesHolder
PROPERTIES
  TermObeyed
CHECK_DEADLOCK FALSE
