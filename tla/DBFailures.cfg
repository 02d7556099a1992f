SPECIFICATION Spec
CONSTANTS
  Txns = {t1, t2}
  Pings = {p}
  Conns = {m1, m2}
  PoolOf <- MCPoolOf
  Readonly = {t2, p}
  Configs = {{"master"}}
  m1 = m1
  m2 = m2
  s1 = s1
  NoConn = NoConn
  NoTxn = NoTxn
  MaxWaiting = 1
  MaxQueries = 1
  MayFail = {"connect", "BEGIN", "query", "COMMIT", "ROLLBACK", "function", "falsy", "abort"}
  MayStray = {t1}
INVARIANTS
  ExclusiveConnections
  CleanHandover
PROPERTIES
  ImplementsLease
\* every call may settle, and the pool stop or wait for ever for a leaked connection
CHECK_DEADLOCK FALSE
