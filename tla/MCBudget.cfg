SPECIFICATION BudgetSpec
CONSTANTS
  MaxRecords = 3
  Budget = 3
  WarnAt = 2
  Cap = 0
  Clients = {c1, c2}
  Hosts <- AllHosts
  RouteOf <- AllRoutes
  Kinds <- MCKinds
  MaxTraffic = 3
SYMMETRY AnyClient
INVARIANTS
  NothingLeaks
  FailedSocksIsNegotiation
  LateTunnels
CHECK_DEADLOCK FALSE
