\* Two services after one subdomain; two handlers at a time, three in a behaviour.
SPECIFICATION ServiceSpec
CONSTANTS
  Services = {s1, s2}
  Names = {n1, n2}
  Subs = {x}
  Jobs = {j1, j2}
  MaxEndpoints = 1
  MaxHandlers = 3
  NoService = NoService
  NoName = NoName
  NoSub = NoSub
SYMMETRY Symmetry
INVARIANTS SubdomainSharedByRace EndpointsAreKept
PROPERTIES DeletionIsFinal
CHECK_DEADLOCK FALSE
