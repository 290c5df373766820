SPECIFICATION FairSpec
CONSTANTS
  Inodes = {i1, i2}
  Calls = {c1, c2}
  None = None
  KernelRaces = {}
  MaxLinks = 1
  MaxOpens = 1
  MaxFails = 0
INVARIANTS
  NothingLeftBehind
PROPERTIES
  EventuallyFreed
