SPECIFICATION Spec
CONSTANTS
  Tasks = {1, 2, 3}
  Times = {0}
  nightly = nightly
  poll = poll
  Templates = {nightly, poll}
  Every = {poll}
  Skipping = {nightly}
  Period <- Periods
  From <- Froms
  Until <- Untils
  Horizon = 3
  MaxClock = 5
  MaxOpen = 2
  MaxLost = 1
  Rooms = {"lab", "den"}
  Outside = Outside
  ReadLoop = ReadLoop
  CatchUps = {c1}
  s1 = s1
  s2 = s2
  Sessions = {s1, s2}
  Nobody = Nobody
  MaxHeard = 2
  Say <- MCSay
  Errands <- MCErrands
  Worlds <- MCWorlds
  Notes <- MCNotes
  Limit <- MCLimit
  Label = 1
  Envelope = 1
  Digits <- MCDigits
  PolicyChars = 4
  ScopeChars = 2
  MaxEdits = 2
  MaxUntraced = 1
SYMMETRY Symmetry
INVARIANTS SearchIsAcyclic ScheduleIsKept BriefingIsLongest PrefixIsStable NobodyIsQuotedTwice
CHECK_DEADLOCK FALSE
