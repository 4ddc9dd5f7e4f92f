SPECIFICATION Spec
CONSTANTS
  MaxVersion = 3
INVARIANTS
  RangesRead
  
  RecordsKept
  
  
  
  PrintsExact
CHECK_DEADLOCK FALSE
