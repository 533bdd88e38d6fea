\* Two releases on one page are enough: one is read, the other is not.
SPECIFICATION MirrorSpec
CONSTANTS
  Versions = {1, 2}
  Published <- FixComesLast
  Edited = {1, 2}
  PageSize = 2
  DayParts = 2
  Retentions = {7, 14}
  Safety = 1
  Fallback = 4
  Resync = 2
  Keep = 4
  LastDay = 5
PROPERTIES WithdrawnWasDeleted
CHECK_DEADLOCK FALSE
