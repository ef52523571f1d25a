SPECIFICATION Spec
CONSTANTS
  Procs = {p1, p2}
  Payloads = {v1, v2}
  Absent = Absent
  Partial = Partial
  Damaged = Damaged
  MaxNonce = 2
  MaxFaults = 2
SYMMETRY Symmetry
PROPERTY ImplementsWriteOnce
CHECK_DEADLOCK FALSE
