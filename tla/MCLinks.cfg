\* Three of four requests, one of them too large, over two connections; two connections co-attached to one session.
CONSTANTS
  r1 = r1
  r2 = r2
  r3 = r3
  big = big
  Reqs = {r1, r2, r3, big}
  Big = {big}
  Impatient = {r1}
  NoReq = NoReq
  CmdCap = 2
  OutCap = 1
  SockCap = 1
  SuspectCap = 2
  BootAttempts = 1
  MaxConns = 2
  MaxPushes = 0
  Conns = {c1, c2}
  MaxChunks = 1
  MaxSubs = 2
  NoEntry = NoEntry
  ReplayOnly = ReplayOnly
  NoConn = NoConn
SPECIFICATION EndsSpec
CONSTRAINTS InOrder OneStays
SYMMETRY Symmetric
VIEW NoHistory
INVARIANTS NoneStranded BootEscalates CancelledIsCutOff NoOrphanForwarder NoSinkWithoutProducer
PROPERTIES RequestsServed
CHECK_DEADLOCK FALSE
