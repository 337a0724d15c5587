SPECIFICATION Spec
CONSTANTS
  Cpus = {c1} Threads = {t1, t2} Nil = Nil
  c1 = c1 t1 = t1 t2 = t2 n1 = n1 n2 = n2
  Drivers = {t1, t2} Holders = {t1}
  Ports = {"plic"}
  Srpns = {1, 2} Fixed = {11, 14} Soft = 0 Timer = 7 First = 12 Last = 12
  Wiring <- MCWiring
  Slots = {1, 2} Notifs = {n1, n2} Polite = TRUE
INVARIANTS SourceReopened
CHECK_DEADLOCK FALSE
