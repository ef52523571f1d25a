SPECIFICATION Spec
CONSTANTS
  ByteBits = 3
  I16Max = 15
  TailShapes <- MCTailShapes
  TailValues <- MCTailValues
  TailDense = 3
  TailBytes = 4
  P = 5
  LowBitsCap = 2
  HighBitsCap = 2
  FastRowsMin = 2
  MaxTerms = 200
  AffineInputs <- MCAffineInputs
  PairInputs <- MCPairInputs
  LeftInputs <- MCLeftInputs
  WordBits = 8
  NativeBits = 7
  LaneBits = 6
  Moduli = {29, 61, 113, 241}
  LogBases = {2, 3, 4}
  LogBounds = {1, 2, 3, 4, 5, 6, 7, 8, 13, 29}
  BlockDigits = 4
  PackedByte = 4
  PackedInputs <- MCPackedInputs
  RingDim = 4
  NarrowMax = 7
  RotatedWeight = 4
  FoldSources <- MCFoldSources
  FoldChallenges <- MCChallenges
  FoldBlocks = 3
  Ladder <- MCLadder
  LayoutBits = 3
  WitnessLevels <- MCWitnessLevels
  ScanJob = 3
INVARIANTS WitnessPlaced WitnessMeasured SetupPaired FoldExact PackedExact DigitsExact PairExact LeftExact AffineExact TailDelivered TailCanonical TailPriced
CHECK_DEADLOCK FALSE
