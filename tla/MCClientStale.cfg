\* A request is dispatched on another connection than the one that was live for its caller.
CONSTANTS
  Reqs = {r1}
  big = big
  Big = {}
  Impatient = {}
  NoReq = NoReq
  CmdCap = 1
  OutCap = 1
  SockCap = 1
  SuspectCap = 1
  BootAttempts = 1
  MaxConns = 2
  MaxPushes = 0
SPECIFICATION LinkSpec
PROPERTY StaysOnItsConnection
CHECK_DEADLOCK FALSE
