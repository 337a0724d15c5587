SPECIFICATION LifeSpec
CONSTANTS
  Threads = {r, s1, s2, h, l}
  Idle = idle
  Root = r
  Hi = {h}
  Mid = {s1, s2}
  Lo = {l}
  Servers = {s1, s2}
  Backends = {}
  Front = e1
  Back = null
  MaxPrio = 4
  Eps = {e1}
  Notifs = {}
  Bits = {}
  Null = null
PROPERTIES KillReleasesOwnCaller
