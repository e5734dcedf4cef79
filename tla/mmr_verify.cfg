SPECIFICATION VerifySpec
CONSTANTS
  Values = {a, b}
  MaxLogLeaves = 7
INVARIANTS
  AcceptsEveryExtension
  InclusionProofsVerify
  BaggedProofsVerify
  BaggedConsistency
  ProofsAreExtended
PROPERTY NeverAcceptsAFork
CHECK_DEADLOCK FALSE
SYMMETRY Symmetry
