\* A create past its gates outlives the removal of its workspace.
CONSTANTS
  Sessions = {s1}
  w1 = w1
  s1 = s1
  Workspaces = {w1}
  WsOf <- AllInOne
  NoSession = NoSession
  NoWorkspace = NoWorkspace
  NoRow = NoRow
  MaxOut = 0
  MaxCloses = 0
  MaxSweeps = 0
  MaxBoots = 1
SPECIFICATION Spec
INVARIANT NoOrphanInRemovedWorkspace
CHECK_DEADLOCK FALSE
