SPECIFICATION FairSpec
CONSTANTS
  d1 = d1
  d2 = d2
  Devices <- MC_Devices
  Media <- MC_Media
  Keys <- MC_Keys
  Handles = {h1, h2, h3}
  Tasks = {t1, t2}
  None = None
  MaxCalls = 4
  MaxFaults = 1
  MaxFormats = 1
  Windows = {}
INVARIANTS
  MountsHeld
  MountsChecked
  DevicesRight
  HonestClose
PROPERTIES
  CallsEnd
CHECK_DEADLOCK FALSE
