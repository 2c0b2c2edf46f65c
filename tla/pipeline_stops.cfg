SPECIFICATION Spec
CONSTANTS
  g1 = g1
  Gens = {g1}
  BadEvents = {}
  MaxSolverCrashDeliveries = 2
  MaxDeliveries = 3
  MaxAckPending = 1
  Faults <- ProcessAndDataFaults
INVARIANTS
  SingleRunner
  StuckOnlyAfterTwoLosses
PROPERTIES
  ImplementsLifecycle
CHECK_DEADLOCK FALSE
