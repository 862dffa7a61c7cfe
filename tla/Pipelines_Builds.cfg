\* A chain with a shortcut, over three runs.
CONSTANTS
  Names <- MCNames
  Deps <- MCDeps
  Stored <- MCStored
  Volatile = {"lookup"}
  Incremental = {"top"}
  Shared = {"left", "top"}
  LongRunning = {"top"}
  Selections <- MCSelections
  Refreshes <- MCRefreshes
  Exclusions <- MCExclusions
  MaxRuns = 3
SPECIFICATION Spec
INVARIANTS YoungerIsMadeFrom UpToDateAfterwards SharedIsWhole
CHECK_DEADLOCK FALSE
PROPERTY RefreshedOnce
