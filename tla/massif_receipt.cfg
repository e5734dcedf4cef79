SPECIFICATION Spec
CONSTANTS
  Heights = {2, 3, 4}
  MaxLeaves = 20
INVARIANT ReceiptsShowNodes
CHECK_DEADLOCK FALSE
