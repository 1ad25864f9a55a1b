SPECIFICATION FairSpec
CONSTANTS
  Openings = {"Fresh", "Resumed"}
  Steerables = {TRUE, FALSE}
  Options = 2
  Defaults <- Few
  MaxSteers = 2
  MaxAsks = 1
  MaxWords = 1
  MaxCancels = 1
  MaxFaults = 1
  MaxRepeats = 1
INVARIANTS
  VerdictIsTheAgents
  WorksOnItsKit
PROPERTIES
  NobodyWaits
  ServesTheTurn
CHECK_DEADLOCK FALSE
