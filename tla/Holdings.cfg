SPECIFICATION Spec
CONSTANTS
  Payers = {"claude", "codex"}
  Trackable = {"p", "q"}
  Installations = {"i"}
  Workspaces = {"w"}
  Clients = {"ours"}
  Ears = {"app", "own"}
  Beginnings <- EitherStart
  Drafts <- FewDrafts
  Remembered = 1
  Replaces = FALSE
  MaxHeld = 2
  MaxAsked = 2
  MaxTabs = 1
  MaxReturns = 1
  MaxApps = 1
  Keys = {"ours", "theirs"}
  Oats = {"oat"}
  Apis = {"api1", "api2"}
  Tasked = {"j1"}
  Variables = {"V"}
  MaxChanges = 2
  MaxStarts = 2
  MaxRuns = 1
  ByHand = TRUE
  Repositories = {r1, r2}
  Names = {"A"}
  Sections = {"GitHub", "Slack", "Agents", "Environment"}
  MaxIds = 3
  MaxRows = 2
  MaxEdits = 2
  MaxMeddles = 1
  MaxSaves = 1
  EarlyMoves = FALSE
  Projects = {1, 2, 3}
  Owning = {3}
  Teams = {1, 2}
  TeamsOf <- Installs
  TeamOf <- Where
  MaxSaid = 2
  MaxHappens = 3
  LosesAcks = FALSE
  MentionsByApps = FALSE
  WatchesAnothers = FALSE
  Hosts = {"here"}
  Turning = {"job", "another"}
  HostOf <- OnOne
  Recipes <- Edited2
  MaxCopies = 4
  MaxRestarts = 2
  MaxRetired = 1
  LateLooks = FALSE
  Lingers = FALSE
  Followed = {1}
  Tasks = {1, 2}
  OnProject <- Placed
  Purses = {key, subscription}
  Spaces = {1}
  Sources = {1}
  SpaceOf <- Bound
  SourceOf <- Bound
  MaxClock = 2
  Rebinding = FALSE
  Relocating = FALSE
  Carried = {"V", "W"}
  MaxTitle = 6
  MaxText = 7
  MaxThread = 4
  TitleAtMost = 3
  SuffixChars = 2
  ProjectAtMost = 3
  NameAtMost = 12
  IdentifierChars = 2
  PostAtMost = 3
  DescriptionAtMost = 2
  HostnameLimit = 4
  LabelLimit = 2
INVARIANTS
  Consistent
  WorkIsPaidFor
  ReachIsItsOwn
  ShowsWhatIsSo
  HeardAsSaid
  ImageStays
PROPERTIES
  PagesAgree
  ForItsOwner
SYMMETRY Alike
CHECK_DEADLOCK FALSE
