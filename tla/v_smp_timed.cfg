SPECIFICATION TimedSpec
CONSTANTS
  c0 = c0
  c1 = c1
  r = r
  h = h
  l = l
  Cpus = {c0, c1}
  Cpu0 = c0
  Threads = {r, h, l}
  Root = r
  CpuOf <- MCCpuOf
  Prio <- MCPrio
  Boards <- MCBoards
  Idle = idle
  Null = null
INVARIANTS TimerOfWait
