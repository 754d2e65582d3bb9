SPECIFICATION Spec
CONSTANTS
  Drivers <- BothDrivers
  Trees <- MCTrees
  NodeKinds <- MCEncodings
  MaxNodes = 1
INVARIANTS
  BothEncodings
