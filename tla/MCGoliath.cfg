SPECIFICATION MCSpec
CONSTANTS
  AddressSpace = 5
  MaxRuns = 3
  MaxBlock = 2
  MaxOccurrences = 2
INVARIANTS
  PluginTypeOK
  StoredWellFormed
  LiveContainsStored
  IterationStamps
PROPERTIES
  ImplementsSharedGraph
CHECK_DEADLOCK FALSE
