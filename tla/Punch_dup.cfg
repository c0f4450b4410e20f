SPECIFICATION Spec
CONSTANTS
  c1 = c1
  c2 = c2
  c3 = c3
  a1 = a1
  a2 = a2
  d1 = d1
  None = None
  RelayConns = {c2}
  Conns = {c1, c2}
  Devices = {d1}
  Wants <- OneWant
  AddrOf <- OwnAddrs
  Mobile = {d1}
  Symmetric = {d1}
  MaxTries <- BothRetry
  MaxFaults = 2
CHECK_DEADLOCK FALSE
INVARIANTS DuplicatesSkipped
