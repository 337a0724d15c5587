SPECIFICATION SettledSpec
CONSTANTS
  Cpus = {c1, c2, c3}
  Areas = {a}
  Parked = parked
  MaxCalls = 2
  Null = null
SYMMETRY Symmetry
INVARIANTS RequestsNest FreedUnreachable
