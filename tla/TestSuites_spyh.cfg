SPECIFICATION SPYHSpec
CONSTANTS
  numStates = 3
  maxInput = 1
  maxOutput = 1
  maxAddStates = 0
  Rows <- MCConverging
  Methods <- MCSPYH
INVARIANTS SPYHComplete
