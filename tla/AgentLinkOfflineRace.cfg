\* One connection at a time, two suspended handlers.
SPECIFICATION Spec
CONSTANTS
  Sockets = {s1}
  Jobs = {j1, j2}
  HasService = FALSE
  NoSocket = NoSocket
PROPERTIES ConnectedNotTurnedOffline
