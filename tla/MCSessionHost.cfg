\* One session: create, close, removal, sweep, flush, shutdown, crash, restart. Two sessions of one
\* workspace: creates against its removal and the shutdown.
CONSTANTS
  Sessions = {s1, s2}
  w1 = w1
  s1 = s1
  Workspaces = {w1}
  WsOf <- AllInOne
  NoSession = NoSession
  NoWorkspace = NoWorkspace
  NoRow = NoRow
  MaxOut = 1
  MaxCloses = 1
  MaxSweeps = 1
  MaxBoots = 2
SPECIFICATION Spec
CONSTRAINT OneOrTight
INVARIANTS LiveIsTracked NoResurrection ListedWhileLive
PROPERTIES CaptureBeforeReap ShutdownDrains RemovalIsComplete
CHECK_DEADLOCK FALSE
