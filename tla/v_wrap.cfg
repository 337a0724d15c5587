SPECIFICATION PoolSpec
CONSTANTS
  Base = 100
  Size = 800
  FL_COUNT = 6
  Word = 1024
  Sizes = {512}
  Aligns = {64, 512}
  c1 = c1 c2 = c2 i1 = i1 i2 = i2 root = root peer = peer far = far
VIEW View
PROPERTIES KeepsPromise
