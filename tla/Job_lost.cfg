SPECIFICATION Spec
CONSTANTS
  MaxMessages = 1
  Threaded <- NoThreads
  MaxStops = 0
  MaxRetires = 0
  MaxFailures = 0
  MaxCrashes = 1
INVARIANTS
  NothingRunningNothingWaiting
CHECK_DEADLOCK FALSE
