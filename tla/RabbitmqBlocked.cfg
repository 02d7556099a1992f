SPECIFICATION FairSpec
CONSTANTS
  Conns = {c1}
  Repairs = {r1}
  NoConn = NoConn
  init = init
  MaxAttempts = 2
  Calls = {p1}
PROPERTY DrainedPublishersReturn
CHECK_DEADLOCK FALSE
