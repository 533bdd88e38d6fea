\* One connection at a time, reopened for ever.
SPECIFICATION FairSpec
CONSTANTS
  Sockets = {s1}
  Jobs = {j1, j2}
  HasService = FALSE
  NoSocket = NoSocket
PROPERTIES UpdateResolves GoneAgentNotOnline
