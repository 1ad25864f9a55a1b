SPECIFICATION Spec
CONSTANTS
  Purses = {"claude", "codex"}
  Projects = {"p", "q"}
  Installations = {"i"}
  Workspaces = {"w"}
  Clients = {"ours"}
  Ears = {"app", "own"}
  Starts <- EitherStart
  Drafts <- FewDrafts
  Remembered = 1
  Replaces = TRUE
  MaxHeld = 2
  MaxAsked = 2
  MaxTabs = 2
  MaxReturns = 1
  MaxApps = 2
INVARIANTS
  Consistent
CHECK_DEADLOCK FALSE
