SPECIFICATION Spec
CONSTANTS
  MaxMessages = 3
  Threaded <- FirstTwoThreads
  MaxStops = 1
  MaxRetires = 1
  MaxFailures = 1
  MaxCrashes = 1
INVARIANTS
  InboxInOrder
  NothingWaiting
  WorkingHasSomethingComing
  SeenNeverForgotten
  HandedOverOnce
PROPERTIES
  DiscardAfterVerdict
CHECK_DEADLOCK FALSE
