SPECIFICATION FairSpec
CONSTANTS
  h1 = h1
  h2 = h2
  p1 = p1
  Hosts = {h1, h2}
  Prefix <- OnePrefix
  Configs <- ServerLists
  FirstConfig <- BothHosts
  UseTcp <- Mixed
  Pks = {k1, k2}
  FirstPk = k1
  MaxFails1 = 2
  MaxFails2 = 3
  MaxId = 2
  MaxChanges = 1
  NoHost = NoHost
INVARIANTS StatusIsHonest  TasksOfRound
PROPERTIES ExitTogether RestartTakesEffect
