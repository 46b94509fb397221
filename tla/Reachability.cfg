SPECIFICATION FairSpec
CONSTANTS
  NumNodes = 3
  InitIdxs = {0}
  TraceLen = 1
  Node <- MCNode
  Input <- MCInput
  FreshFsms <- MCFreshFsms
  MarkingTraces <- MCMarkingTraces
INVARIANTS TypeOK OnlyUnreachableRemoved IdIsIndex InitialStateKept
PROPERTIES WalksMarkReachable WalkTerminates
