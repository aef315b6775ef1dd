SPECIFICATION WaitListSpec
CONSTANTS
  Guid = {p1, p2, p3}
  MaxPlayers = 2
  MaxMisplaced = 4
CHECK_DEADLOCK FALSE
SYMMETRY MCGuidSymmetry
INVARIANTS
  EachOnce
PROPERTIES
  PlacesAheadAreKept
  OrderIsKept
