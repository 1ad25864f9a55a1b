SPECIFICATION FairSpec
CONSTANTS
  Jobs = {"job"}
  Strays = {"stray"}
  NamesAJob = {"stray"}
  Visitors = {"v"}
  MaxTurns = 1
  MaxFaults = 1
INVARIANTS
  UpUnderItsAgent
  OthersAreLeft
PROPERTIES
  NothingStaysUp
  VisitorsAreAnswered
CHECK_DEADLOCK FALSE
