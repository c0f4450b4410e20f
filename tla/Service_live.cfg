SPECIFICATION FairSpec
CONSTANTS
  Conns = {c1, c2}
  Screens = {s1, s2}
  NeedSnapshot = TRUE
  None = None
CHECK_DEADLOCK FALSE
INVARIANTS OldOrNew ClosedIsGone SubscribedStays NoOutdated
PROPERTIES  JoinReturns
