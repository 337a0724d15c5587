SPECIFICATION Spec
CONSTANTS
  c1 = c1 c2 = c2 s1 = s1 s2 = s2
  Clients = {c1, c2} Servers = {s1, s2} Nil = Nil
  Paths <- MCPaths Offers <- MCOffers Users = {c1} Slots = {1} Ops <- MCOps
  Places <- MCPlaces StaticAt = 1 AreaAt = 1000
  Lengths = {20, 65541} Careful = TRUE
INVARIANTS TransferHonest
CHECK_DEADLOCK FALSE
