CONSTANTS
  Keyed = TRUE
  c1 = c1
  c2 = c2
  Calls = {c1, c2}
SPECIFICATION Spec
INVARIANTS
  ChainIntact
CHECK_DEADLOCK FALSE
