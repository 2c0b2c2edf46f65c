SPECIFICATION FairSpec
CONSTANTS
  g1 = g1
  Gens = {g1}
  BadEvents = {}
  MaxSolverCrashDeliveries = 1
  MaxDeliveries = 2
  MaxAckPending = 1
  Faults <- AllFaults
INVARIANTS
  OneResultTree
  InputKept
PROPERTIES
  DecidedOrExhausted
CHECK_DEADLOCK FALSE
