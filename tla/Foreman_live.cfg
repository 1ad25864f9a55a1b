SPECIFICATION FairSpec
CONSTANTS
  MaxMessages = 2
  Threaded <- SecondThread
  Rooms <- EitherWay
  Forgets = TRUE
  Serialises = TRUE
  MaxHalts = 1
  MaxRefusals = 1
  MaxFailures = 1
  MaxCrashes = 1
PROPERTIES
  Drains
  RestsWhenIdle
CHECK_DEADLOCK FALSE
