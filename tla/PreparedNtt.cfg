SPECIFICATION FairSpec
CONSTANTS
  Calls = {c1, c2, c3}
  Sizes = {1, 2, 3}
  Buildable = {1, 2}
  None = None
  MaxDrops = 1
INVARIANTS ReturnedCovers FailureIsOwn BuiltOnce OneSlotLeft
PROPERTY EveryCallReturns
CHECK_DEADLOCK FALSE
