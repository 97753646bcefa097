CONSTANTS
  i1 = i1
  i2 = i2
  MaxVersion = 2
  Importers = {i1, i2}
  MaxNodes = 3
  Followed <- MCFollowed
  Budget = 3
SPECIFICATION Spec
SYMMETRY ImporterSymmetry
INVARIANTS
  TypeOK
  StoredOnce
  CompletedRunStored
  
  RevocationReaches
  DerivedIsListed
CHECK_DEADLOCK FALSE
