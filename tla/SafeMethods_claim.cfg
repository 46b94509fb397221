SPECIFICATION SafeSpec
CONSTANTS
  numStates = 3
  maxInput = 1
  maxOutput = 2
  maxAddStates = 1
  Rows <- MCPlain
  Methods <- MCSafeH
  Abstractions <- MCIdentity
INVARIANT PairsOfCToldApart
