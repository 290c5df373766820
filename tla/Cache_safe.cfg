SPECIFICATION Spec
CONSTANTS
  Blocks = {1, 2, 3}
  LogBlocks = {3}
  Cnt = 2
  MaxHeld = 1
  MaxPins = 2
  MaxWriteBack = 1
  Windows = {}
INVARIANTS
  BuffersSound
  Coherent
  HonestErrors
PROPERTIES
  WriteAhead
  CallsReturn
