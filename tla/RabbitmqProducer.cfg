SPECIFICATION FairSpec
CONSTANTS
  Conns = {c1, c2}
  Repairs = {r1, r2}
  NoConn = NoConn
  init = init
  MaxAttempts = 2
  Calls = {p1}
INVARIANTS
  GateTruth
  NothingLeftBehind
PROPERTIES
  ImplementsClient
  PublishersPass
CHECK_DEADLOCK FALSE
