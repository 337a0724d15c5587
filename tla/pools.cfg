SPECIFICATION PoolSpec
CONSTANTS
  Base = 100
  Size = 1100
  FL_COUNT = 6
  Word = 65536
  Sizes = {1, 130, 320}
  Aligns = {64, 192, 256}
  c1 = c1 c2 = c2 i1 = i1 i2 = i2 root = root peer = peer far = far
VIEW View
INVARIANTS HeapIntact FramesSound
PROPERTIES KeepsPromise
