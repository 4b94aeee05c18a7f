SPECIFICATION Spec
CONSTANTS
  Retention = 2
  Worlds <- Restarts
INVARIANTS
  RebuildExact
CHECK_DEADLOCK FALSE
