SPECIFICATION FairSpec
CHECK_DEADLOCK FALSE
CONSTANTS
  c1 = c1
  c2 = c2
  c3 = c3
  ipA = ipA
  ipB = ipB
  ipProxy = ipProxy
  Conns <- ThreeConns
  Uuids = {u1}
  Licences = {good, bad}
  ServerKey = good
  NoKey = nokey
  Ws <- MCWs
  SockIp <- MCSockIp
  RealIp <- MCRealIp
  UsageId <- MCUsageId
  AdminIps = {ipB}
  MaxChunks <- MCMaxChunks
  NoConn = noconn
  NoUuid = nouuid
INVARIANTS EntryHasSleeper PairsMatch PairsExclusive NoOrphan UsageBacked DeliveredInOrder
PROPERTIES RefinesPairing RequestSettles  
