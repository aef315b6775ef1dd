SPECIFICATION Spec
CONSTANTS
  Client = {c1, c2}
  Nobody = Nobody
  MaxRef = 7
CHECK_DEADLOCK FALSE
SYMMETRY MCClientSymmetry
INVARIANTS
  ClientsMatch
  NoDanglingPlayer
  ReaderIsSafe
  LoginIsDecided
PROPERTY OnlyALateConnectLeaks
