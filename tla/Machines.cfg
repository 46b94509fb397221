SPECIFICATION MCSpec
CONSTANTS
  Requests <- MCRequests
  Jobs <- MCJobs
  RetryBound = 2
  Sizes <- MCSizes
  StringOrder <- MCStringOrder
  GivenFiles <- MCGivenFiles
  MaxSteps = 4
  LineSize = 13
  TestFiles <- MCTestFiles
  Faults <- MCFaults
  CommandLines <- MCCommandLines
  ModelFiles <- MCModelFiles
  Analysed <- MCAnalysed
INVARIANTS MachinesAsAsked VerdictsTrue SuiteAsAsked AnalysesExact
PROPERTIES EnumeratesEachOnce FilesMeanMachines
