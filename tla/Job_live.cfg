SPECIFICATION FairSpec
CONSTANTS
  MaxMessages = 2
  Threaded <- FirstThread
  MaxStops = 1
  MaxRetires = 0
  MaxFailures = 1
  MaxCrashes = 1
PROPERTIES
  StopEndsTurn
  HeldIsDealtWith
CHECK_DEADLOCK FALSE
