SPECIFICATION Spec
CONSTANTS
  Root = Root
  a = a
  b = b
  all = all
  one = one
  NoFile = NoFile
  Torn = Torn
  Paths <- MCPaths
  Values <- MCValues
  FirstAcls <- MCFirstAcls
  MaxDeaths = 2
INVARIANTS TypeOK RootGoverned
PROPERTY AclsSaved
