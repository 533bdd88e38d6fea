\* Three releases on pages of two, the release.json of one comes to be edited; six days.
SPECIFICATION MirrorSpec
CONSTANTS
  Versions = {1, 2, 3}
  Published <- FixComesLast
  Edited = {3}
  PageSize = 2
  DayParts = 2
  Retentions = {7, 14}
  Safety = 1
  Fallback = 4
  Resync = 2
  Keep = 4
  LastDay = 5
INVARIANTS MirrorTypes RunLeavesNoGap
PROPERTIES InstallableIsKept
CHECK_DEADLOCK FALSE
