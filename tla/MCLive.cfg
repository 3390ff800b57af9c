SPECIFICATION SceneSpec
CONSTANTS
  MaxRecords = 2
  Budget = 4
  WarnAt = 3
  Cap = 0
  Clients = {c1, c2}
  Hosts <- LiveHosts
  RouteOf <- LiveRoutes
  Kinds <- MCKinds
  MaxTraffic = 4
  l = l
  p = p
  q = q
  Procs <- MCProcs
  Leader = l
  MaxSignals = 3
  Callers = {t1, t2}
  MaxCalls = 2
  MaxMoved = 1
INVARIANTS
  StoppedGroupIsGone
  StoppedJobSaysSo
  FinalIsWhole
PROPERTIES
  GoneClientsAreReleased
  EveryTunnelCloses
  RunEnds
  EveryCallReturns
CHECK_DEADLOCK FALSE
