SPECIFICATION Spec
CONSTANTS
  MaxMessages = 1
  Threaded <- NoThreads
  MaxStops = 0
  MaxRetires = 2
  MaxFailures = 1
  MaxCrashes = 0
PROPERTIES
  DiscardAfterVerdict
CHECK_DEADLOCK FALSE
