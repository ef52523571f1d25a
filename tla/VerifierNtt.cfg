SPECIFICATION Spec
CONSTANTS
  Calls = {c1, c2}
  Widths = {1, 2, 3}
  Heights = {1, 2}
  Capacity = 5
  Foreign = {other}
  BaseWidth <- BaseWidths
  TailWidth <- TailWidths
  None = None
  MaxInstalls = 2
SYMMETRY CallSymmetry
INVARIANTS NoCallFails ProductsExact
CHECK_DEADLOCK FALSE
