SPECIFICATION FairMapSpec
CONSTANTS
  Items = 3
  MaxWorkers = 3
INVARIANTS OrderIsInputOrder FailuresReported
PROPERTY CallEnds
CHECK_DEADLOCK FALSE
