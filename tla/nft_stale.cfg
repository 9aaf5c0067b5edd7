SPECIFICATION Spec
CONSTANTS
  w1 = w1  w2 = w2  p1 = p1  r1 = r1  r2 = r2
  a6 = a6  n4 = n4  n6 = n6  m6 = m6
  Workers = {w1}
  Peers = {p1}
  AccessRules = {r1, r2}
  Addrs = {a6}
  Nets = {n4, n6, m6}
  V6 = {a6, n6, m6}
  Comments <- Pairs
  CommentFor <- Own
  Within = {}
  Configs <- Doubled
  NoServer = NoServer
  NoStatus = NoStatus
  NoConfig = NoConfig
  MaxEdits = 1
  MaxFaults = 0
PROPERTIES StaleDeleted
CHECK_DEADLOCK FALSE
