SPECIFICATION Spec
CONSTANTS
  Tasks = {t1, t2}
  Times = {0}
  Edits <- OwnerEdits
  MaxVersion = 4
  MaxRequeues = 1
  MaxCrashes = 0
SYMMETRY Symmetry
PROPERTY RequeueRefiles
CHECK_DEADLOCK FALSE
