SPECIFICATION ChannelsSpec
CONSTANTS
  CatchUps = {c1, c2}
  Reader = reader
  PageSize = 2
  MaxPages = 2
  MaxSaid = 2
  MaxFaults = 1
  Sessions = {s1, s2}
  None = none
  QueueCap = 64
  LateSend = FALSE
  Tasks = {t1}
  HistoryLimit = 1
  HistoryPages = 2
  SeenCap = 2
  CursorFirst = TRUE
  MaxPosts = 3
  MaxTroubles = 2
  Surfaces = {dm, term, room}
  Rooms = {room}
  Terminals = {term}
  Names = {jane}
  NoFile = NoFile
  MaxFiled = 2
  MaxCommands = 3
  MaxKills = 1
  ServerProcs = {p1, p2, p3}
  NoLock = NoLock
  MaxRuns = 3
INVARIANTS NothingLost InOrder SlackHandlesEach HistoryFollowsTheConversation OneListener
PROPERTY EveryMessageIsAnswered
CHECK_DEADLOCK FALSE
