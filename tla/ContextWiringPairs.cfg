SPECIFICATION Spec
CONSTANTS
  a = a
  b = b
  c = c
  Defs = {a, b}
  Configs <- EveryPair
INVARIANTS
  WiringOrder
  NobodyIsStuck
  StartedContextIsReady
  CleanShutdown
\* objects and callers come to rest when everything has been answered
CHECK_DEADLOCK FALSE
