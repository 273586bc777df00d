SPECIFICATION Spec
CONSTANTS
  Tasks = {t1, t2}
  Times = {0, 1}
  Edits <- AnyEdit
  MaxVersion = 4
  MaxRequeues = 1
  MaxCrashes = 1
SYMMETRY Symmetry
INVARIANTS DependenciesHonoured OwnerIsGranted OnlyRefilingMakesCycles
PROPERTY NoTaskIsLost
CHECK_DEADLOCK FALSE
