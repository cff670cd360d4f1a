\* A research run passes the gate beside the call that holds the lock of its policy.
CONSTANTS
  Servers = {s1}
  Accounts = {}
  Projects = {}
  Ideas = {i1}
  Calls = {c1, c2}
  Targets = {t1}
  Rows <- CapRows
  MaxVerbs = 1
  Docs = {}
  Workflows = {}
  Skills = {}
  Contents = {a}
  MaxEdits = 0
  MaxCrashes = 0
  Askers = {}
  MaxFaults = 0
  None = None
SPECIFICATION OrchdSpec
CONSTRAINT Few
PROPERTIES RunsUnderCap
CHECK_DEADLOCK FALSE
