SPECIFICATION Spec
CONSTANTS
  Runs = {r1, r2}
  Files = {page, secret}
  Barred = {secret}
  Base = {page}
  CleanRoom = TRUE
  MaxDeletions = 0
  MaxCommits = 3
  MaxCrashes = 1
  None = none
  Keep = 1
  MaxItems = 3
  MaxPasses = 2
  MaxRestores = 1
  MaxDeaths = 1
SYMMETRY Symmetry
INVARIANTS MainIsTrusted NothingLostSilently SnapshotsAreStates
PROPERTIES MainOnlyAdvances RestoreIsUndoable
CHECK_DEADLOCK FALSE
