SPECIFICATION FairSpec
CONSTANTS
  MaxPlan = 2
  MaxAssists = 2
  FreeAssists = 1
  MaxNodes = 3
  MaxDepth = 1
  AgentOf <- MCAgentOf2
  Mentions <- MCMentions
CHECK_DEADLOCK FALSE
INVARIANTS RunningTracked DepsResolvable
PROPERTIES NeverRerun AssistHandedBack StallsOnDropped Terminates
