\* Two lookups against two operators; entries live for two ticks.
SPECIFICATION FairSpec
CONSTANTS
  Requests = {r1, r2}
  Ops = {o1, o2}
  Targets = {t1}
  RouteTTL = 2
  NoTarget = NoTarget
INVARIANTS BlockedRouteIsLate
PROPERTIES BlockedTrafficIsLate BlockTakesHold
