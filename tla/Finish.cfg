SPECIFICATION FinishSpec
CONSTANTS
  Capacity = 3
  ReadSize = 2
  MaxOutput = 7
INVARIANTS
  ExecuteTypeOK
  AllOutputRead
  ReturnMeansSuccess
  StoredBeforeDrawing
  ReportMeansDone
PROPERTIES
  FinishReturns
CHECK_DEADLOCK FALSE
