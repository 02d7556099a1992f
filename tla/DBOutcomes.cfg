SPECIFICATION FairSpec
CONSTANTS
  Txns = {t1, t2}
  Pings = {}
  Conns = {m1, s1}
  PoolOf <- MCPoolOf
  Readonly = {t2}
  Configs = {{}, {"master"}, {"slave"}, {"master", "slave"}}
  m1 = m1
  m2 = m2
  s1 = s1
  NoConn = NoConn
  NoTxn = NoTxn
  MaxWaiting = 1
  MaxQueries = 1
  MayFail = {"connect", "BEGIN", "query", "COMMIT", "ROLLBACK", "function", "abort", "pool"}
  MayStray = {}
INVARIANTS
  OutcomeIsFate
  QueriesInside
  GaugesExact
PROPERTIES
  CallsSettle
  StopEndsUnlessLeaked
\* every call may settle, and the pool stop or wait for ever for a leaked connection
CHECK_DEADLOCK FALSE
