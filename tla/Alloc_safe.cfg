SPECIFICATION Spec
CONSTANTS
  First = 1
  PerGroup = 4
  BitmapBits = 4
  Total = 11
  InodesPer = 2
  Taken = {1, 4}
  Meta <- MCMeta
  Lazy = {2}
  Damage <- MCDamage
  Direct = 1
  PerBlock = 2
  MaxSize = 8
  Sizes = {0, 3, 7}
  MaxCalls = 5
  Windows = {}
INVARIANTS
  BitmapsSound
  CountsAgree
  SpaceFound
CHECK_DEADLOCK FALSE
