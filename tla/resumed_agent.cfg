SPECIFICATION Spec
CONSTANTS
  Ids = {a1}
  MaxEnds = 1
  MaxInbox = 2
PROPERTIES
  OnlyEndedDespawn
CHECK_DEADLOCK FALSE
