SPECIFICATION FairSpec
CONSTANTS
  p1 = p1
  s1 = s1
  s2 = s2
  c1 = c1
  i1 = i1
  b1 = b1
  b2 = b2
  NoRequest = NoRequest
  Worker = Worker
  Main = Main
  Nobody = Nobody
  Requests = {p1}
  Kind <- KindOf
  RequestID <- RequestIDOf
  Binders = {}
  MaxAlerts = 1
PROPERTIES
  TimeoutEndsAlert
CHECK_DEADLOCK FALSE
