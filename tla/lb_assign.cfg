SPECIFICATION FairSpec
CONSTANTS
  s1 = s1  s2 = s2  i1 = i1  i2 = i2
  Services = {s1, s2}
  Ips = {i1, i2}
  Mask = 2
  Pool <- Drawn
  Requests <- SomeRequests
  BadRequest = BadRequest
  Absent = Absent
  NoObj = NoObj
  MaxEdits = 3
  MaxFaults = 1
INVARIANTS TypeOK
PROPERTIES AssignedOnce HonoursAnnotation ServiceServed
CHECK_DEADLOCK FALSE
