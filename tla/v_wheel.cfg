SPECIFICATION Spec
CONSTANTS
  Timeouts = {t1}
  LvlBits = 2
  ClkShift = 1
  Depth = 4
  Requests = {3, 7, 13, 15}
  Deltas = {15, 24, 25}
INVARIANTS NeverEarly
