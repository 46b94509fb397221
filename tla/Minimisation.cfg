SPECIFICATION MinSpec
CONSTANTS
  numStates = 4
  InitStates = {0}
  Input <- MCInput
  Output <- MCOutput
  Label <- MCLabel
  Dfsms <- MCDfsms
  Rows <- MCRows
INVARIANTS ClassesContiguous MinimisedCorrect
PROPERTIES BothTerminate RefinesPartition PkRefinesPartition
