\* Two processes, two releases, three acts of the user and a fault of any kind; one session that
\* closes or lives on over a restart, its workspace's removal and the shutdown;
\* three attempts to attach or two pastes of two chunks, over three connections.
CONSTANTS
  Pids = {d1, d2}
  Versions <- Releases
  Speaks <- Compatible
  FaultKinds = {"crash", "fail", "launchctl", "write", "stray"}
  MaxFaults = 1
  MaxActs = 3
  None = None
  Sessions = {s1}
  Workspaces = {w1}
  w1 = w1
  NoSession = NoSession
  NoWorkspace = NoWorkspace
  NoRow = NoRow
  MaxOut = 0
  MaxCloses = 1
  MaxSweeps = 0
  MaxBoots = 2
  a1 = a1
  a2 = a2
  a3 = a3
  t1 = t1
  t2 = t2
  Attempts = {a1, a2, a3}
  Writers = {t1, t2}
  Chunks = 2
  MaxLinks = 3
  NoAttempt = NoAttempt
SPECIFICATION Spec
CONSTRAINT Apart
INVARIANTS SoleServer AttachedIsCurrent PastesDoNotMix
PROPERTIES HonestyKept DueStartServes CloseReturns ShutdownCompletes
CHECK_DEADLOCK FALSE
