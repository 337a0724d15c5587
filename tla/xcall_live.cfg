SPECIFICATION SettledSpec
CONSTANTS
  Cpus = {c1, c2}
  Areas = {a}
  Parked = parked
  MaxCalls = 4
  Null = null
PROPERTIES CallsReturn
