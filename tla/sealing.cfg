SPECIFICATION FairSpec
CONSTANTS
  Sealers = {s1, s2}
  MassifLeaves = 2
  OldLeaves = 12
  MaxLeaves = 14
  MaxPutBacks = 1
PROPERTIES
  NeverTrustsAFork
  RefusedForAReason
  FollowsTheLog
CHECK_DEADLOCK FALSE
