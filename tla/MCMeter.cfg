SPECIFICATION SceneSpec
CONSTANTS
  MaxRecords = 2
  Budget = 3
  WarnAt = 2
  Cap = 2
  Routes <- MCRoutes
  Endings <- MCEndings
  Chunks <- MCChunks
  MaxTraffic = 3
  MaxNotes = 1
  MaxSlots = 3
  Lookback = 2
  Times <- MCTimes
  MaxBytes = 4
  MaxBack = 1
  Addresses = 3
INVARIANTS
  TypeOK
  SnapshotAddsUp
  CopiesCurrent
  UnderCap
  TripExact
  UnderBudget
  CallbacksInOrder
  ClosedTunnelsAborted
  NegotiationWithinTotals
  TimelineIsTrue
  OneSocketSurvives
PROPERTIES
  LedgerSpec
CHECK_DEADLOCK FALSE
