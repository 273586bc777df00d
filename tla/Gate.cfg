SPECIFICATION FairSpec
CONSTANTS
  Gates = {g1, g2}
  Desk = {d1, d2, d3}
  None = none
  MaxApprovals = 3
INVARIANTS SentAtMostOnce RecordIsTruthful DenialIsFinal
PROPERTIES CommandsEnd ImplementsLifecycle
CHECK_DEADLOCK FALSE
