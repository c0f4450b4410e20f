SPECIFICATION FairSpec
CONSTANTS
  c1 = c1
  c2 = c2
  c3 = c3
  a1 = a1
  a2 = a2
  d1 = d1
  None = None
  RelayConns = {c3}
  Conns = {c1, c2, c3}
  Devices = {d1}
  Wants <- OneWant
  AddrOf <- SharedAddr
  Mobile = {d1}
  Symmetric = {c1}
  MaxTries <- OneRetries
  MaxFaults = 1
CHECK_DEADLOCK FALSE
INVARIANTS SinkOfOpenTask AnsweredOnce AnswerIsMine RelayAgrees
PROPERTIES SinksAreDropped AskedIsAnswered
