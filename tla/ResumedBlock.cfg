SPECIFICATION TracedSpec
CONSTANTS
  AddressSpace = 16
  Program <- LoopProgram
  EntryPoint = 1
  MaxRuns = 2
  MaxSteps = 9
INVARIANTS
  BlocksWithoutRepeats
CHECK_DEADLOCK FALSE
