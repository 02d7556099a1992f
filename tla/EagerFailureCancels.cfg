SPECIFICATION Spec
CONSTANTS
  a = a
  b = b
  c = c
  Defs = {a, b}
  Configs <- PropertyPair
INVARIANTS
  EagerFailureCancels
CHECK_DEADLOCK FALSE
