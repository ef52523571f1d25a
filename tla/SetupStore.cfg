SPECIFICATION FairSpec
CONSTANTS
  Procs = {p1, p2}
  small = small
  plain = plain
  large = large
  Requests <- MCRequests
  Need <- MCNeed
  Plain = {plain}
  Absent = Absent
  Bad = Bad
  Stale = Stale
  Good = Good
  Nobody = Nobody
  MaxCalls = 2
  MaxFaults = 2
INVARIANT NextLoadHits
PROPERTIES ImplementsGrowOnly CallReturns
CHECK_DEADLOCK FALSE
