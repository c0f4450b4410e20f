SPECIFICATION Spec
CONSTANTS
  Ids = {i1, i2}
  Uuids = {u1, u2}
  Pks = {p1, p2}
  Ips = {ipA, lo}
  ShortIds = {i2}
  Loopback = lo
  Lookups = {t1, t2}
  Restarts = TRUE
  None = None
INVARIANTS  MemoryKnowsOwner KeyIsStored
PROPERTIES OwnerIsForever
