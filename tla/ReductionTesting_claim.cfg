SPECIFICATION Spec
CONSTANTS
  numStates = 3
  maxInput = 1
  maxOutput = 1
  m <- MCm
  Implementations <- MCImplementations
  Specifications <- MCSpecifications
INVARIANT PassedIsStrongSemiReduction
