SPECIFICATION MCSpec
CONSTANTS
  Inputs = {0, 1}
  MaxLength = 2
  MaxDeleted = 2
  Lists <- MCLists
  Others <- MCOthers
  NewTraces <- MCNewTraces
  NewTrees <- MCNewTrees
  MaxAdded = 4
  NewIOTraces <- MCNewIOTraces
  MaxPut = 3
  MaxSymbols = 3
  Element = {e1, e2, e3}
  SetSystems <- MCSetSystems
  Object = {o1, o2}
  Overlapping = FALSE
INVARIANTS AnswersExact ContainersExact ResultIsSmallest
PROPERTIES RefinesTraceSets SearchEnds
CHECK_DEADLOCK FALSE
