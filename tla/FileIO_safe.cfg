CONSTANTS
  Files = {f, g}
  None = None
  BlockCells = 2
  Span = 3
  NBlocks = 4
  Slots = 1
  Trigger = 1
  Ahead = 1
  LowWater = 1
  Batch = 2
  MaxWrites = 2
  MaxOps = 2
  MaxFails = 1
  Windows = {}
SPECIFICATION Spec
SYMMETRY Symmetry
CHECK_DEADLOCK FALSE
INVARIANTS
  FilesRight
  AheadKept
PROPERTIES
  CrashReads
