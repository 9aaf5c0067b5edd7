SPECIFICATION FairSpec
CONSTANTS
  n1 = n1  n2 = n2  w1 = w1  w2 = w2  k1 = k1  k2 = k2  k3 = k3  k4 = k4
  shared = shared  sv1 = sv1  sv2 = sv2  d1 = d1  d2 = d2  a1 = a1  a2 = a2
  Nodes = {n1, n2}
  Clients = {w1}
  Keys = {k1, k2, k3, k4}
  Refs = {shared}
  Servers = {sv1}
  Nets = {}
  Addrs = {a1}
  SecretNames <- Names
  DefaultName <- Own
  Given <- NoSecrets
  Specs <- NodeSpecs
  Default = Default
  Unlisted = Unlisted
  BadKey = BadKey
  NoKey = NoKey
  Absent = Absent
  NoCur = NoCur
  NoLink = NoLink
  NoPeer = NoPeer
  MaxEdits = 1
  MaxFaults = 1
PROPERTIES OthersKept OneKey KeysSettle
CHECK_DEADLOCK FALSE
