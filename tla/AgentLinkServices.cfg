\* One connection at a time, one suspended handler.
SPECIFICATION FairSpec
CONSTANTS
  Sockets = {s1}
  Jobs = {j1}
  HasService = TRUE
  NoSocket = NoSocket
PROPERTIES ServicesFollowAgent
