SPECIFICATION Spec
CONSTANTS
  s1 = s1  s2 = s2  i1 = i1  i2 = i2
  Services = {s1, s2}
  Ips = {i1, i2}
  Mask = 2
  Pool = {i1}
  Requests <- NoRequests
  BadRequest = BadRequest
  Absent = Absent
  NoObj = NoObj
  MaxEdits = 2
  MaxFaults = 0
INVARIANTS UniqueIPs
CHECK_DEADLOCK FALSE
