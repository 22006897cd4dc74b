SPECIFICATION TracedSpec
CONSTANTS
  AddressSpace = 16
  Program <- TableProgram
  EntryPoint = 1
  MaxRuns = 2
  MaxSteps = 9
INVARIANTS
  TransfersDrawn
CHECK_DEADLOCK FALSE
