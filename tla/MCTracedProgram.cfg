SPECIFICATION TracedSpec
CONSTANTS
  AddressSpace = 16
  Program <- LoopProgram
  EntryPoint = 1
  MaxRuns = 3
  MaxSteps = 27
INVARIANTS
  TransfersDrawn
  VisitsCounted
  HotterIsDarker
  ReturnSiteDrawn
  AppendedOnce
  FirstNodeIsEntry
PROPERTIES
  DoneBlocksFrozen
CHECK_DEADLOCK FALSE
