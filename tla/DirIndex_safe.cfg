SPECIFICATION Spec
CONSTANTS
    Names = {"a", "b", "c", "d", "e", "f", "g", "h"}
    None = None
    Dots = Dots
    Junk = Junk
    Size <- MCSize
    Hash <- MCHash
    LeafRoom = 6
    RootCap = 2
    NodeCap = 3
    Laid <- MCLaid
    MaxCalls = 4
    Windows = {}
INVARIANTS
  IndexSound
  NamesAgree
CHECK_DEADLOCK FALSE
