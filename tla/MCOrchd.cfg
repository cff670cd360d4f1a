\* Two attempts under one policy and one verb of the owner; one entry of each kind of file; the secrets of one owner.
CONSTANTS
  Servers = {s1}
  Accounts = {a1}
  Projects = {p1}
  Ideas = {i1}
  Calls = {c1, c2}
  Targets = {t1, t2}
  Rows <- CapRows
  MaxVerbs = 1
  Docs = {d1}
  Workflows = {f1}
  Skills = {k1}
  Contents = {a, b}
  MaxEdits = 1
  MaxCrashes = 1
  Askers = {t3, t4}
  MaxFaults = 1
  None = None
SPECIFICATION OrchdSpec
SYMMETRY Symmetric
CONSTRAINT Few
INVARIANTS OrchdTypeOK LockServes RunHasDriver NothingLost SecretsMatchRows
PROPERTIES CapHolds ArchivedFilesKept
CHECK_DEADLOCK FALSE
