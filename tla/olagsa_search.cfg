SPECIFICATION Spec
CONSTANTS
  Species = 2
  Points <- TouchingSegments
  KeyIterations = {1, 2}
  PopulationSize = 3
  NumGeneration = 2
  Patience = {2, 3}
  Ponderation = 2
  Scale = 60
INVARIANTS FailuresContained SearchBudget
PROPERTIES BestKept EachChildOnce
CHECK_DEADLOCK FALSE
