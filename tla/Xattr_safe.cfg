SPECIFICATION Spec
CONSTANTS
  n1 = n1
  t1 = t1
  Files = {f1, f2}
  Names = {n1, n2}
  Blocks = {1, 2}
  Tokens = {t1}
  Lens = {1, 4}
  None = None
  NameLen = 2
  BodyRoom = 9
  BlockRoom = 7
  HeadRoom = 1
  NoBody = {f2}
  Shared = {f1, f2}
  Kept <- MCKept
  MaxCalls = 4
  MaxPending = 1
  Windows = {}
INVARIANTS
  AreasSound
PROPERTIES
  IsAttrMap
CHECK_DEADLOCK FALSE
