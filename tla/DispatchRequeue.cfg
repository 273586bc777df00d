SPECIFICATION Spec
CONSTANTS
  t1 = t1
  g1 = g1
  g2 = g2
  Tasks = {t1}
  Runs = {r1, r2, r3}
  Gates = {g1, g2}
  Owner <- OwnBoth
  None = none
  Cap = 2
  LateStart = TRUE
  MaxCrashes = 0
  MaxRequeues = 2
SYMMETRY Symmetry
INVARIANTS OneBoxPerTask
CHECK_DEADLOCK FALSE
