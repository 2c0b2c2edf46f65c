SPECIFICATION InputSpec
CONSTANTS
  Eans = {"m1", "m2"}
  Times = {1, 2}
  Energy = {0, 1}
  MaxRows = 3
  MaxCells = 2
  MaxChanges = 2
  MaxFaults = 1
  MaxColumns = 3
  MaxLines = 4
  Unknown = Unknown
INVARIANTS InputFaithful QuietRunAgrees CountAgrees
CHECK_DEADLOCK FALSE
