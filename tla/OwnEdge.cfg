SPECIFICATION Spec
CONSTANTS
  v = v
  w = w
  None = None
  Nothing = Nothing
  Workers = {v, w}
  WhoOrder <- MCWhoOrder
  ConnOrder <- MCConnOrder
  Kind <- MCKind
  Host <- MCHost
  Env <- MCEnv
  Servers = {"home", "away"}
  Channels <- MCChannels
  ServerOf <- MCServerOf
  ClassOf <- MCClassOf
  Begins <- MCBegins
  Registered <- MCRegistered
  Scopes <- MCScopes
  StartsOf <- MCStartsOf
  Clis = {p1}
  Requests = {q1, q2}
  Callers = {k1, k2}
  MaxLogins = 4
  MaxFaults = 1
  fleet = fleet
  dobby = dobby
  c1 = c1
  c2 = c2
  c3 = c3
  c4 = c4
  Calls = {c1, c2, c3, c4}
  Limits = {fleet, dobby}
  Draw <- Draws
  Cap <- Caps
  Window <- Windows
  MaxClock = 4
  MaxCrashes = 1
  Straddle = FALSE
  r1 = r1
  r2 = r2
  general = general
  Runs = {r1, r2}
  Chats = {r2}
  Worker <- MCWorker
  Channel <- MCChannel
  NoChannel = NoChannel
  NoRun = NoRun
  Nobody = Nobody
  Lines = {l1, l2}
  HostMounts = {"drafts", "docs", "site", "src"}
  MountKind <- MCMountKind
  MountFor <- MCMountFor
  MaxAsks = 2
  MaxRestarts = 1
INVARIANT OwnEdgeWins
CHECK_DEADLOCK FALSE
