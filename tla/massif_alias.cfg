SPECIFICATION Spec
CONSTANTS
  Heights = {2, 3}
  MaxLeaves = 8
INVARIANT KeptIsIntact
CHECK_DEADLOCK FALSE
