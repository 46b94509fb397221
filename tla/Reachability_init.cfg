SPECIFICATION FairSpec
CONSTANTS
  NumNodes = 2
  InitIdxs = {0, 1}
  TraceLen = 0
  Node <- MCNode
  Input <- MCInput
  FreshFsms <- MCFreshFsms
  MarkingTraces <- MCMarkingTraces
INVARIANT InitialStateKept
