SPECIFICATION Spec
CONSTANTS
  Inodes = {i1, i2}
  Calls = {c1, c2}
  None = None
  KernelRaces = {"unmount"}
  MaxLinks = 2
  MaxOpens = 1
  MaxFails = 1
SYMMETRY Symmetry
INVARIANTS
  NoOpenInodeFreed
  NamesAllocated
  ReleasesAreDue
  UnreferencedIsTracked
