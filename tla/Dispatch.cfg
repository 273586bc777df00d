SPECIFICATION Spec
CONSTANTS
  t1 = t1
  g1 = g1
  g2 = g2
  Tasks = {t1, t2}
  Runs = {r1, r2, r3}
  Gates = {g1}
  Owner <- OwnOne
  None = none
  Cap = 1
  LateStart = FALSE
  MaxCrashes = 1
  MaxRequeues = 0
SYMMETRY Symmetry
INVARIANTS CompletionIsEarned SlotsAreTracked RefusalsDecide
PROPERTY FollowsLifecycle
CHECK_DEADLOCK FALSE
