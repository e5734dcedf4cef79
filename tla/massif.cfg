SPECIFICATION Spec
CONSTANTS
  Heights = {2, 3, 4}
  MaxLeaves = 20
INVARIANTS
  NodesAndStack
  FullAgrees
  IndexMatchesLeaves
  SelfContained
  SealVerifiesItsLog
  BaseIsExtended
  SealedPeaks
  ReceiptsShowLeaves
PROPERTY RoomForLeaves
CHECK_DEADLOCK FALSE
