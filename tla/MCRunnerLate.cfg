SPECIFICATION RunnerSpec
CONSTANTS
  l = l
  p = p
  q = q
  Procs <- MCProcs
  Leader = l
  MaxSignals = 3
INVARIANT TripStopsTheJob
CHECK_DEADLOCK FALSE
