SPECIFICATION FairSpec
CONSTANTS
  p1 = p1
  s1 = s1
  s2 = s2
  c1 = c1
  i1 = i1
  b1 = b1
  b2 = b2
  NoRequest = NoRequest
  Worker = Worker
  Main = Main
  Nobody = Nobody
  Requests = {p1, s2, c1}
  Kind <- KindOf
  RequestID <- RequestIDOf
  Binders = {b1, b2}
  MaxAlerts = 1
INVARIANTS
  TypeOK
  NativeExclusive
  FlagCoversSession
  OneResultEach
PROPERTIES
  ResultBeforeFlagClears
  DiesOutsideSession
  ImplementsSessionQueue
  RequestsSettle
CHECK_DEADLOCK FALSE
