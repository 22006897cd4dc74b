SPECIFICATION TracedSpec
CONSTANTS
  AddressSpace = 16
  Program <- SpinProgram
  EntryPoint = 1
  MaxRuns = 2
  MaxSteps = 9
INVARIANTS
  LoopsCounted
CHECK_DEADLOCK FALSE
