\* A daemon that does not come back: a caller waits for room in the channel.
CONSTANTS
  Reqs = {r1, r2}
  big = big
  Big = {}
  Impatient = {}
  NoReq = NoReq
  CmdCap = 1
  OutCap = 1
  SockCap = 1
  SuspectCap = 1
  BootAttempts = 1
  MaxConns = 1
  MaxPushes = 0
SPECIFICATION LinkFairSpec
PROPERTY CallerNeverHangs
CHECK_DEADLOCK FALSE
