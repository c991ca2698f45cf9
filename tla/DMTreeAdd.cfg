SPECIFICATION Spec
CONSTANTS
  Servers = {s1, s2}
  Values = {v, w}
  Interior = Interior
  Names <- MCNames
  Paths <- MCPaths
  Leaves <- MCLeaves
  Multi <- MCMulti
  Access <- MCAccess
  Permanent <- MCPermanent
  FirstNodes <- MCFirstNodes
  Orders <- MCOrders
  Acls <- MCAcls
  MaxAcls = 2
INVARIANT FailedAddKeepsNodes
