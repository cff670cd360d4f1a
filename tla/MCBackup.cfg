\* A whole-store export with a cross-project edge.
CONSTANTS
    Projects = {p1, p2}
    Workspaces = {w1, w2}
    Ids = {i1, i2}
    Nodes = {n1, n2}
    EdgeKinds = {relates}
    MaxDepth = 2
    MaxEdges = 1
    None = None
CONSTRAINT StoreBound
SPECIFICATION StoreSpec
INVARIANT BackupRestores
CHECK_DEADLOCK FALSE
