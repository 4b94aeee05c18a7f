SPECIFICATION Spec
CONSTANTS
  MaxAttempts = 2
  Worlds <- Stops
INVARIANTS
  OneTaskPerDispatch
CHECK_DEADLOCK FALSE
