SPECIFICATION RoundsSpec
CONSTANTS
  c1 = c1
  c2 = c2
  RoundConsumers = {c1, c2}
  MaxRounds = 3
  MaxUnits = 3
INVARIANTS EnergyAccounted DemandConserved
CHECK_DEADLOCK FALSE
