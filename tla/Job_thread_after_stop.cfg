SPECIFICATION Spec
CONSTANTS
  MaxMessages = 2
  Threaded <- FirstThread
  MaxStops = 1
  MaxRetires = 0
  MaxFailures = 0
  MaxCrashes = 0
INVARIANTS
  NeverTwiceAsNew
CHECK_DEADLOCK FALSE
