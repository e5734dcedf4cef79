SPECIFICATION BuildSpec
CONSTANT MaxAdded = 64
INVARIANTS
  BuildsTheTree
  NavigationMatches
  PeaksMatch
  LeafNumbering
CHECK_DEADLOCK FALSE
