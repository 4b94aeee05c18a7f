SPECIFICATION Spec
CONSTANTS
  MaxPlan = 2
  Drafts <- MCPair
  MaxParallel = 2
  MaxAttempts = 1
  MaxDerived = 0
  MaxRevisions = 0
  MaxPatches = 0
  MaxRefs = 1
  MaxPlans = 1
  Msg = {1, 2, 3}
  Kinds = {"text", "yes"}
CHECK_DEADLOCK FALSE
INVARIANTS AnswerHasRunner
