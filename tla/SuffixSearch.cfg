SPECIFICATION SearchSpec
CONSTANTS
  Inputs <- Searches
  MaxDepth = 5
  DirectCapacity = 2
  PrefixedCapacity = 1
  MaxProbes = 1
  SearchLevels = 2
  SuffixDims = {1, 2}
  TopDim = 3
  OffloadLevels = {0, 1}
  Contraction = 2
  FieldBits = 2
  NextMoment <- MCNextMoment
  PaddedLengths = {1, 2, 4, 8, 16, 32, 64}
  None = None
INVARIANTS OptimumFound QueuesNameEntries
CHECK_DEADLOCK FALSE
