SPECIFICATION FairSpec
CONSTANTS
  a = a
  b = b
  c = c
  Defs = {a, b, c}
  Configs <- Triples
INVARIANTS
  StartedBottomUp
PROPERTIES
  EveryPromiseSettles
  ObjectsImplementChain
\* objects and callers come to rest when everything has been answered
CHECK_DEADLOCK FALSE
