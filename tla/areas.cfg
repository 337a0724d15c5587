SPECIFICATION Spec
CONSTANTS
  Threads = {t1, t2, t3}
  Idle = idle
  Nil = nil
  Records = {1, 2, 3}
  Arena <- MCArena
  Hints <- MCHints
  Lengths = {3}
  Rights <- MCRights
  Builds <- MCBuilds
  MaxLive = 1
SYMMETRY Symmetry
INVARIANTS AreasSound BackingExact WindowsAuthorised
PROPERTIES OnlyAncestorsRevoke
