SPECIFICATION MCSpec
CONSTANTS
  AddressSpace = 5
  Word = 4
  TextSize <- MCTextSize
  ApiSize = 6
  RegionSize = 256
  MaxRuns = 3
  MaxBlock = 2
  MaxOccurrences = 2
INVARIANTS
  RegionIsBigEnough
CHECK_DEADLOCK FALSE
