SPECIFICATION Spec
CONSTANTS
  LTE = TRUE
  ECB = {FALSE,TRUE}
  Modes = {"inform"}
  MaxMessages = 1
  MaxForeign = 1
  MaxLaunches = 2
  MaxCrashes = 1
INVARIANTS
  TypeOK
  NotForgotten
  ReportedOnce
PROPERTIES
  FreshSession
  DoneIsDone
CHECK_DEADLOCK FALSE
