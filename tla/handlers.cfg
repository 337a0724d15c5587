SPECIFICATION WorkloadSpec
CONSTANTS
  Threads = {r, s, h, l}
  Idle = idle
  Root = r
  Hi = {h}
  Mid = {s}
  Lo = {l}
  Servers = {s}
  Backends = {}
  Front = e1
  Back = null
  MaxPrio = 4
  Eps = {e1}
  Notifs = {n1}
  Bits = {b1}
  Null = null
INVARIANTS TypeOK TimerMatchesWait WaiterIsBlocked NothingStale CorpseAccounted NoOrphanedCaller ListsIntact RunQueueMatchesStates
PROPERTIES RunningStackNotFreed SuspendHolds
