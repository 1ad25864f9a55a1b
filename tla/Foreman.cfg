SPECIFICATION Spec
CONSTANTS
  MaxMessages = 3
  Threaded <- SecondThread
  Rooms <- Roomed
  Forgets = TRUE
  Serialises = TRUE
  MaxHalts = 2
  MaxRefusals = 1
  MaxFailures = 1
  MaxCrashes = 1
INVARIANTS
  OneLoop
  ShownItsOwnThread
  WriteAhead
  NeverTwiceAsNew
  NotStoppedWhileSpeaking
CHECK_DEADLOCK FALSE
