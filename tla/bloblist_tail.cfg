SPECIFICATION ListSpec
CONSTANTS
  Tails = {1, 2, 3}
  MaxPage = 3
  MaxBlobs = 5
  MaxEtag = 6
INVARIANT TailIsLast
CHECK_DEADLOCK FALSE
