SPECIFICATION Spec
CONSTANTS
  Limit = 2
  Overlap = FALSE
  MaxTurns = 1
  MaxSaid = 3
  MaxNotices = 1
  MaxSays = 1
  MaxFaults = 1
INVARIANTS
  SaidOfRecords
CHECK_DEADLOCK FALSE
