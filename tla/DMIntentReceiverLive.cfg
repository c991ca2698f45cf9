SPECIFICATION FairSpec
CONSTANTS
  LTE = TRUE
  ECB = {FALSE}
  Modes = {"confirm"}
  MaxMessages = 1
  MaxForeign = 0
  MaxLaunches = 1
  MaxCrashes = 1
PROPERTIES
  MessageEnds
CHECK_DEADLOCK FALSE
