SPECIFICATION FairSpec
CONSTANTS
  Absent = Absent
  None = None
  Names = {p, q}
  Versions = {v1}
  Sources = 2
  Window = 2
  MaxStarts = 2
INVARIANTS
  TypeOK
  ForgetsOnlyUnsaved
PROPERTIES
  RepeatsOnlyForgotten
  BaselineKept
  RogueAlerted
CHECK_DEADLOCK FALSE
