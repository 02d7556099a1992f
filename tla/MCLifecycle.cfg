SPECIFICATION Spec
CONSTANTS
  Starters = {a1, a2, a3}
  Stoppers = {b1, b2, b3}
INVARIANTS
  AtMostOnce
PROPERTIES
  OvertakenStartFails
\* a life ends when every caller has had its answer
CHECK_DEADLOCK FALSE
