SPECIFICATION Spec
CONSTANTS
  Limit = 2
  Overlap = TRUE
  MaxTurns = 2
  MaxSaid = 2
  MaxNotices = 0
  MaxSays = 0
  MaxFaults = 0
INVARIANTS
  ShownWhole
CHECK_DEADLOCK FALSE
