CONSTANTS
  Root = r
  Inodes = {r, a, b, c}
  Names = {x, y}
  None = None
  Dead = Dead
  Linear = {}
  LinkMax = 4
  Width = 16
  Batch = 2
  MaxFails = 1
  MaxDirs = 3
  Windows = {}
SPECIFICATION Spec
SYMMETRY Symmetry
INVARIANTS
  NamesSound
  LinkCounts
  OrphanChain
PROPERTIES
  StepsAllowed
