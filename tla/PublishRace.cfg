SPECIFICATION Spec
CONSTANTS
  Publishers = {p1, p2}
  OutputCount = 2
  Old = Old
  Absent = Absent
  MaxFaults = 2
INVARIANT FailuresRestore
CHECK_DEADLOCK FALSE
