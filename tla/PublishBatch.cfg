SPECIFICATION Spec
CONSTANTS
  OutputCount = 2
  Keys = {k1, k2}
  Absent = Absent
  MaxBatches = 3
  MaxFaults = 3
SYMMETRY KeySymmetry
INVARIANT SettledKept
PROPERTY ImplementsAtomicBatch
CHECK_DEADLOCK FALSE
