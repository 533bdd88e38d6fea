\* Two workspaces that want the same agent, four handlers at the same time.
SPECIFICATION Spec
CONSTANTS
  Workspaces = {w1, w2}
  Jobs = {j1, j2, j3, j4}
  NoWorkspace = NoWorkspace
SYMMETRY Symmetry
INVARIANTS RequestReachesAgent
PROPERTIES RowIsKept OwnershipIsImplemented
