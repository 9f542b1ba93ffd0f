SPECIFICATION FairSpec
CONSTANTS
  p1 = p1  p2 = p2  h1 = h1  h2 = h2  w1 = w1  w2 = w2  w3 = w3
  None = None
  Procs = {p1, p2}
  Hosts = {h1, h2}
  Workers = {w1, w2}
  Serials = {1, 2}
  ProcOf <- OneAndOne
  HostOf <- SameHost
  Recycled = {}
  Cap = 1
  Faults = {"crash", "leak", "io", "stall"}
  MaxFaults = 1
INVARIANTS LaneBound LedgerInv
PROPERTIES NoWedge
