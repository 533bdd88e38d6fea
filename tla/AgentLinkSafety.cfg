\* Two overlapping connections of the agent, two suspended handlers.
SPECIFICATION Spec
CONSTANTS
  Sockets = {s1, s2}
  Jobs = {j1, j2}
  HasService = TRUE
  NoSocket = NoSocket
SYMMETRY Symmetry
INVARIANTS TypeOK InFlightIsDriven LinkIsRegistered
PROPERTIES LinkSurvivesOldSocket
