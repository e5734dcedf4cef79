SPECIFICATION Spec
CONSTANTS
  Writers = {w1, w2}
  MassifLeaves = 2
  ClocksAgree = TRUE
  MaxId = 3
  MaxMade = 2
  MaxPuts = 3
  MaxLate = 1
INVARIANTS
  TypeOK
  AckedDurable
  OnlyLastHasRoom
  HeadersLocate
  LastIdIsLast
  IdsUnique
  LeavesInIdOrder
PROPERTIES
  FullMassifFrozen
  AppendOnly
SYMMETRY Symmetry
CHECK_DEADLOCK FALSE
