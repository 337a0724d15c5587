SPECIFICATION Spec
CONSTANTS
  Timeouts = {t1, t2}
  LvlBits = 2
  ClkShift = 1
  Depth = 3
  Requests = {3, 7, 12}
  Deltas <- ClearDeltas
SYMMETRY Symmetry
INVARIANTS NeverEarly NeverLate
