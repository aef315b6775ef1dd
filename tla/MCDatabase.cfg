SPECIFICATION FairSpec
CONSTANTS
  Kind <- MCKind
  MaxStatement = 2
  MaxTries = 2
  MaxSaves = 2
  MaxLosses = 2
  MaxRefusals = 1
  NoThread = NoThread
INVARIANT SavesAreAtomic
PROPERTIES NoDirtyRead CallsReturn
