SPECIFICATION ClockFairSpec
CONSTANTS
  Interval = 6
  AckWait = 60
  MaxLate = 1
  MaxMisses = 7
INVARIANT NeverLapses
PROPERTIES AnswerStands LostIsRedelivered
CHECK_DEADLOCK FALSE
