SPECIFICATION SearchSpec
CONSTANTS
  Inputs <- TightSearches
  MaxDepth = 5
  DirectCapacity = 2
  PrefixedCapacity = 1
  MaxProbes = 1
  SearchLevels = 2
  SuffixDims = {1, 2}
  TopDim = 3
  OffloadLevels = {0, 1}
  Contraction = 2
  FieldBits = 2
  NextMoment <- MCNextMoment
  PaddedLengths = {1, 2, 4, 8, 16, 32, 64}
  None = None
INVARIANT UnsupportedOnlyIfNone
CHECK_DEADLOCK FALSE
