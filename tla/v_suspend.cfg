SPECIFICATION SuspendAnySpec
CONSTANTS
  Threads = {r, a, b, c}
  Idle = idle
  Root = r
  Hi = {a}
  Mid = {b, c}
  Lo = {}
  Servers = {b}
  Backends = {}
  Front = e1
  Back = null
  MaxPrio = 4
  Eps = {e1}
  Notifs = {}
  Bits = {}
  Null = null
PROPERTIES SuspendHolds
