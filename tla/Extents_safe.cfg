CONSTANTS
  Span = 8
  NBlocks = 17
  Laid <- MCLaid
  Held = {2, 4, 6, 8, 10}
  RootCap = 2
  NodeCap = 3
  MaxLen = 4
  MaxOther = 6
  Lens = {1, 3, 8}
  MaxCalls = 3
  Windows = {}
SPECIFICATION Spec
CHECK_DEADLOCK FALSE
INVARIANTS
  TreeSound
  NothingExposed
  MapRight
PROPERTIES
  ImplementsBlockMap
