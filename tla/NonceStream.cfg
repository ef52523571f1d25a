SPECIFICATION Spec
CONSTANTS
  N = 5
  PowA = PowA
  PowB = PowB
  PowC = PowC
  Resp = Resp
  Fold = Fold
  None = None
  Sites <- MCSites
  KindOf <- MCKindOf
  SiteOf <- MCSiteOf
  Width <- MCWidth
  Mult <- MCMult
  Start <- MCStart
  WordBits = 2
  Capacity = 6
  MaxCoords = 2
INVARIANTS FinishedIsComplete NoSlackBits RoundTrip
CHECK_DEADLOCK FALSE
