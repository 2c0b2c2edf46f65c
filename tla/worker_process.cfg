SPECIFICATION FairSpec
CONSTANTS
  m1 = m1
  m2 = m2
  m3 = m3
  olagsa = olagsa
  brute_force = brute_force
  Messages = {m1, m2, m3}
  Raising = {m3}
  AlgorithmOf <- TwoSubjects
  PoolSize = 2
  MaxCrashes = 2
  Shutdown = TRUE
INVARIANTS SlotsAccounted DrainedFirst BlamedFairly CrashContained
PROPERTIES EveryDeliveryEnds ShutdownEnds
CHECK_DEADLOCK FALSE
