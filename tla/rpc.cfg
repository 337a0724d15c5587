SPECIFICATION RpcSpec
CONSTANTS
  Threads = {r, s, b, h, m, l}
  Idle = idle
  Root = r
  Hi = {h}
  Mid = {m, s}
  Lo = {b, l}
  Servers = {s}
  Backends = {b}
  Front = e1
  Back = e2
  MaxPrio = 4
  Eps = {e1, e2}
  Notifs = {}
  Bits = {}
  Null = null
INVARIANTS QueuesMatchWaits InheritanceExact StrictPriority
PROPERTIES CallsAnswered QueuedCallReceived
