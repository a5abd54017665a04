CONSTANTS
  Keyed = TRUE
  c1 = c1
  c2 = c2
  c3 = c3
  Calls = {c1, c2, c3}
SPECIFICATION Spec
INVARIANTS
  CheckpointPinsChain
PROPERTIES
  ImplementsAppendOnlyLog
CHECK_DEADLOCK FALSE
