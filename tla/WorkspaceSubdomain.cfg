\* Two workspaces, two subdomains of which one may be active, two handlers.
SPECIFICATION Spec
CONSTANTS
  Workspaces = {w1, w2}
  Names = {n1, n2}
  Records = {r1, r2}
  Jobs = {j1, j2}
  Limit = 1
  NoName = NoName
  NoRecord = NoRecord
  NoWorkspace = NoWorkspace
SYMMETRY Symmetry
INVARIANTS OvershootIsBounded SharedOnlyByRace SettledRowMatchesZone RecordsAreOwned
CHECK_DEADLOCK FALSE
