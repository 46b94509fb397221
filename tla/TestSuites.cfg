SPECIFICATION MCSpec
CONSTANTS
  numStates = 3
  maxInput = 1
  maxOutput = 1
  maxAddStates = 1
  Rows <- MCAllRows
  Methods <- MCMethods
INVARIANTS PairsDistinguished CoverIsShortest SuiteFindsFaults
INVARIANTS SuiteCompleteUnlessMissed SetsIdentify SuiteSatisfiesHCondition GraphMatchesSuite
