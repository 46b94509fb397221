SPECIFICATION MCSpec
CONSTANTS
  numStates = 3
  maxInput = 1
  maxOutput = 2
  maxAddStates = 1
  Rows <- MCRows
  Methods <- MCMethods
  Abstractions <- MCAbstractions
INVARIANT PassedIsSafe
