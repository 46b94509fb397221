SPECIFICATION PSpec
CONSTANTS
  State = {0, 1, 2}
  State1 <- MCState1
  State2 = {0, 1}
  Label <- MCLabel
  LabelSeq <- MCLabelSeq
  Fsms <- MCFsms
  Fsms1 <- MCFsms
  Fsms2 <- MCFsms2
  Calls <- MCCalls
  TraceBound = 3
INVARIANTS SubsetConstruction ProductConstruction ReachTraceLeadsToNode VerdictByTraces
PROPERTIES Terminates
