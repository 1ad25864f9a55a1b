SPECIFICATION FairSpec
CONSTANTS
  Candidates = 2
  Names = {"n"}
  Given <- Environments
  MaxRuns = 2
  MaxWrites = 2
  Visitors = {"one", "two"}
  Rooms = {"j"}
  Passwords = {"old", "new"}
  MaxTyped = 2
  MaxLapses = 1
  MaxAsks = 2
  Projects = {"p"}
  Teams = {1, 2}
  Ears = {"one", "two"}
  Rebinds = FALSE
  Rotates = FALSE
  LateFails = FALSE
  MaxMoves = 3
  MaxFaults = 1
  MaxRenewals = 1
  Installations = {"one", "two"}
  Repositories = {"r"}
  Wrappers = {"one", "two"}
  JobOf <- OneProject
  Forms = {"form"}
  MidMint = FALSE
  MaxChanges = 2
  MaxExpiries = 1
  Jobs = {"one", "two"}
  Foremen = {}
  Image <- ImageByRole
  MaxTurns = 2
  MaxStops = 1
  MaxMessages = 1
  Processes = {"process"}
  Sockets = {"socket"}
  Callers = {"caller"}
  Exercised = {{"process"}, {"socket"}, {"caller", "Bind"}, {"Read"}, {"Run"}, {"Wake"}, {"Request"}, {"Probe"}, {"Derive"}}
  MaxPuts = 1
  MaxSaid = 2
  MaxSends = 1
  MaxBodies = 1
  EarlyDisconnects = FALSE
  MaxEdits = 3
  MaxBreaks = 2
  FirstIsLate = FALSE
  Asking = {"one", "two"}
  Watchers = {"p", "q"}
  Workers = {"j"}
  Channels = {"room"}
  MaxTaken = 2
  MaxSaving = 1
  MaxMishaps = 1
  AnyAnswer = FALSE
INVARIANTS
  OneOfEach
  NobodyIsForgotten
  NothingIsStale
PROPERTIES
  NothingOverwritten
  EndsInTheEnd
CHECK_DEADLOCK FALSE
