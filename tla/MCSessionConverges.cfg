\* A sweep may overwrite what the final flush wrote.
CONSTANTS
  Sessions = {s1}
  w1 = w1
  s1 = s1
  Workspaces = {w1}
  WsOf <- AllInOne
  NoSession = NoSession
  NoWorkspace = NoWorkspace
  NoRow = NoRow
  MaxOut = 1
  MaxCloses = 0
  MaxSweeps = 1
  MaxBoots = 1
SPECIFICATION Spec
PROPERTY FinalFlushConverges
CHECK_DEADLOCK FALSE
