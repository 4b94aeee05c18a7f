SPECIFICATION Spec
CONSTANTS
  Retention = 2
  Worlds <- Sound
INVARIANTS
  RebuildExact
  ToolPairs
  NothingForgotten
  VisibleIsApplied
  RowIsCheckpoint
CHECK_DEADLOCK FALSE
