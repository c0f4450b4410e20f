SPECIFICATION FairSpec
CONSTANTS
  host = host
  uuid = device
  other = other
  Ids = {1, 2, 3, 4}
  Uuids = {device, other}
  ShortIds = {}
  Restarts = TRUE
  Pks = {k1, k2}
  FirstPk = k1
  Ips = {ipA, ipB}
  FirstIp = ipA
  Loopback = lo
  Lookups = {}
  Owned = {}
  MaxId = 4
  MaxChanges = 1
  MaxUpsets = 1
  None = None
PROPERTIES KeyIsReregistered
