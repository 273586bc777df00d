SPECIFICATION FairSpec
CONSTANTS
  t1 = t1
  g1 = g1
  g2 = g2
  Tasks = {t1, t2}
  Runs = {r1, r2}
  Gates = {g1}
  Owner <- OwnOne
  None = none
  Cap = 1
  LateStart = FALSE
  MaxCrashes = 0
  MaxRequeues = 0
PROPERTIES ClaimedIsAttested PendingGetsItsTurn
CHECK_DEADLOCK FALSE
