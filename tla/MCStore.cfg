\* Two projects: every domain verb on four rows, every graph verb on three nodes.
CONSTANTS
    Projects = {p1, p2}
    Workspaces = {w1, w2}
    Ids = {i1, i2, i3}
    Nodes = {n1, n2, n3}
    EdgeKinds = {relates, depends}
    MaxDepth = 2
    MaxEdges = 2
    None = None
SYMMETRY StoreSymmetry
CONSTRAINT StoreBound
SPECIFICATION StoreSpec
INVARIANTS TreesHold GraphSound LocalBackupRestores
PROPERTIES ArchivedFrozen PushCoversChange ArchivedGraphKept
CHECK_DEADLOCK FALSE
