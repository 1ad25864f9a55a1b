SPECIFICATION Spec
CONSTANTS
  MaxMessages = 1
  Threaded <- NoThreads
  Rooms <- Unroomed
  Forgets = FALSE
  Serialises = TRUE
  MaxHalts = 1
  MaxRefusals = 0
  MaxFailures = 1
  MaxCrashes = 0
INVARIANTS
  TurnIsOnDisk
CHECK_DEADLOCK FALSE
