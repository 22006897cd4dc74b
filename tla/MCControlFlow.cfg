SPECIFICATION MCSpec
CONSTANTS
  AddressSpace = 5
  MaxBlock = 3
  MaxOccurrences = 2
INVARIANTS
  TypeOK
  NodesKeyedByHead
  NodesDoneByBranch
  NodesEdgesOfBranch
  NodesEdgesClosed
  NodesEmptyAreTargets
  CursorOnBlock
PROPERTIES
  BlocksOnlyGrow
  DoneIsFinal
