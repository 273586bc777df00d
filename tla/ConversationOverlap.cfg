SPECIFICATION Spec
CONSTANTS
  CatchUps = {c1}
  Reader = reader
  PageSize = 2
  MaxPages = 2
  MaxSaid = 2
  MaxFaults = 0
  Sessions = {s1, s2}
  None = none
  QueueCap = 64
  LateSend = FALSE
INVARIANT EverythingIsKept
CHECK_DEADLOCK FALSE
