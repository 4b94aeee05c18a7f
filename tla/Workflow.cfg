SPECIFICATION FairSpec
CONSTANTS
  Node = {1, 2, 3, 4, 5}
  Graphs <- MCGraphs
  Joins = {5}
  MaxConcurrency = 2
  Routes = {"judge", "execute"}
  MaxRuns = 3
CHECK_DEADLOCK FALSE
INVARIANTS TriggersInOrder AllServed JoinOnce OneAtATime
PROPERTIES Terminates
