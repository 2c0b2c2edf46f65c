SPECIFICATION Spec
CONSTANTS
  NumConsumers = 2
  Horizon = 2
  MaxEnergy = 2
  Parts = 2
  Iterations = {1, 2, 3}
INVARIANTS SoundKey ProrataLastIsOptimal
CHECK_DEADLOCK FALSE
