SPECIFICATION FairSpec
CONSTANTS
  Conns = {c1, c2}
  MaxChanges = 1
  MaxQueue = 2
CHECK_DEADLOCK FALSE
PROPERTIES KeptAwake
