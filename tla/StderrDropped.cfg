SPECIFICATION ExecuteSpec
CONSTANTS
  Capacity = 3
  ReadSize = 2
  MaxOutput = 7
INVARIANTS
  StderrIsReported
CHECK_DEADLOCK FALSE
