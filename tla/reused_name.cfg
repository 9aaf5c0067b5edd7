SPECIFICATION Spec
CONSTANTS
  p1 = p1  p2 = p2  c1 = c1  c2 = c2  a1 = a1  a2 = a2
  Peers = {p1}
  Addrs = {a1, a2}
  Cmds = {c1, c2}
  Names <- Again
  Foreign = Foreign
  NoLease = NoLease
  MaxEdits = 1
  MaxFaults = 0
INVARIANTS PrintedIsOwn
CHECK_DEADLOCK FALSE
