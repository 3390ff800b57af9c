SPECIFICATION Spec
CONSTANTS
  MaxRecords = 3
  Budget = 3
  WarnAt = 2
  Cap = 0
  Clients = {c1, c2}
  Hosts <- TripHosts
  RouteOf <- TripRoutes
  Kinds <- MCKinds
  MaxTraffic = 3
INVARIANT TripLeavesNothingOpen
CHECK_DEADLOCK FALSE
