SPECIFICATION Spec
CONSTANTS
  Blocks = {b1, b2}
  MaxLen = 7
  Free = Free
  Data = Data
  Garbage = Garbage
  Windows = {"full"}
  MaxTxns = 3
  MaxMounts = 3
  MaxFails = 1
INVARIANTS
  LogOK
  Recovered
CHECK_DEADLOCK FALSE
