SPECIFICATION FairSpec
CONSTANTS
  Conns = {c1, c2}
  Repairs = {r1, r2}
  NoConn = NoConn
  init = init
  MaxAttempts = 1
  Slots = {1, 2}
  first = 1
  MaxRetries = 2
INVARIANTS
  NeverLost
  OneCopy
PROPERTIES
  MessagesSettle
CHECK_DEADLOCK FALSE
