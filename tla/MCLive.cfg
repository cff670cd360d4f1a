CONSTANTS
  Conns = {c1}
  MaxChunks = 3
  MaxSubs = 1
  NoEntry = NoEntry
  ReplayOnly = ReplayOnly
  NoConn = NoConn
  Reqs = {r1, r2, r3}
  Big = {}
  Impatient = {}
  NoReq = NoReq
  CmdCap = 1
  OutCap = 1
  SockCap = 1
  SuspectCap = 1
  BootAttempts = 1
  MaxConns = 1
  MaxPushes = 3
  f1 = f1
  m1 = m1
  m2 = m2
  Folders = {f1, f2}
  Roots = {p, q}
  Cmds = {m1, m2}
  QueueCap = 2
  MaxOthers = 1
  MaxCuts = 1
  NeverLoaded = NeverLoaded
  Nobody = Nobody
SPECIFICATION LiveSpec
CONSTRAINT Few
INVARIANTS NoGap GracefulDrain LateOutputBound OwnWordHolds
PROPERTIES ForwardersTerminate DisconnectReleases InFlightResolves SlowClientReconnects
CHECK_DEADLOCK FALSE
