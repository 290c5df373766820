SPECIFICATION Spec
CONSTANTS
  Volumes <- MCVolumes
  Values <- MCValues
  MaxDamage = 2
  Word = 1048576
  NoSb = NoSb
  Windows = {}
INVARIANTS
  AddressesFit
  VerdictsTrue
  MountAllowed
CHECK_DEADLOCK FALSE
