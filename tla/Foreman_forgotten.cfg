SPECIFICATION FairSpec
CONSTANTS
  MaxMessages = 1
  Threaded <- NoThreads
  Rooms <- Roomed
  Forgets = TRUE
  Serialises = TRUE
  MaxHalts = 1
  MaxRefusals = 0
  MaxFailures = 0
  MaxCrashes = 0
PROPERTIES
  ForgottenIsReclaimed
CHECK_DEADLOCK FALSE
