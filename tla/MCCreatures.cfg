SPECIFICATION CreaturesSpec
CONSTANTS
  Players = {p1}
  Monsters = {m1, m2}
  Rooms = {north, south}
  None = None
  MaxAttackers = 1
SYMMETRY MCSymmetry
INVARIANTS
  CountsAreExact
  AttackedIsHere
  NobodyIsForgotten
CHECK_DEADLOCK FALSE
