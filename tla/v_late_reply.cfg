SPECIFICATION RpcTimedSpec
CONSTANTS
  Threads = {r, s, b, h}
  Idle = idle
  Root = r
  Hi = {h}
  Mid = {s}
  Lo = {b}
  Servers = {s}
  Backends = {b}
  Front = e1
  Back = e2
  MaxPrio = 4
  Eps = {e1, e2}
  Notifs = {}
  Bits = {}
  Null = null
INVARIANTS CallReturnsAnswered
