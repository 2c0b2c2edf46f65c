SPECIFICATION FairSpec
CONSTANTS
  g1 = g1
  g2 = g2
  bad = bad
  Gens = {g1, g2, bad}
  BadEvents = {bad}
  MaxSolverCrashDeliveries = 2
  MaxDeliveries = 4
  MaxAckPending = 1
  Faults <- HandledFaults
INVARIANTS
  FileReleased
  CrashBudget
PROPERTIES
  AlwaysDecided
CHECK_DEADLOCK FALSE
