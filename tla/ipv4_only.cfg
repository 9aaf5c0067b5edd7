SPECIFICATION FairSpec
CONSTANTS
  p1 = p1  p2 = p2  r1 = r1  k1 = k1  k2 = k2
  s1 = s1  s2 = s2  a1 = a1  a2 = a2
  Peers = {p1}
  Rules = {}
  RuleSpecs = {r1}
  Keys = {k1, k2}
  Psks = {s1, s2}
  Addrs = {a1, a2}
  Specs <- OwnSpec
  Pools <- Ipv4Only
  LegacyPeers = {}
  BadKey = BadKey
  NoAddr = NoAddr
  NoStatus = NoStatus
  Absent = Absent
  NoPeer = NoPeer
  NoObj = NoObj
  MaxEdits = 1
  MaxFaults = 0
PROPERTIES AnyPoolAllocates
CHECK_DEADLOCK FALSE
