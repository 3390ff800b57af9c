SPECIFICATION SceneSpec
CONSTANTS
  MaxRecords = 2
  Budget = 0
  WarnAt = 0
  Cap = 5
  Clients = {c1}
  Hosts <- SessionHosts
  RouteOf <- SessionRoutes
  Kinds <- MCKinds
  MaxTraffic = 6
  Ways <- MCWays
  Lookups <- MCLookups
  Offers <- MCOffers
  MaxBody = 2
  Cases <- MCCases
  Canonical <- MCCanonical
  Embedded <- MCEmbedded
  SelfHosts <- MCSelfHosts
  RequestKinds <- MCRequestKinds
  AnswerKinds <- MCAnswerKinds
  MaxRequests = 2
  MaxAnswers = 2
INVARIANTS
  SessionsAreCharged
  DialIsTrue
  RequestIsKept
  ExchangeIsWhole
CHECK_DEADLOCK FALSE
