SPECIFICATION FairSpec
CONSTANTS
  MaxPlan = 1
  Drafts <- MCSingle
  MaxParallel = 1
  MaxAttempts = 1
  MaxDerived = 1
  MaxRevisions = 0
  MaxPatches = 0
  MaxRefs = 1
  MaxPlans = 3
  Msg = {1, 2, 3}
  Kinds = {"text", "yes", "cancel"}
CHECK_DEADLOCK FALSE
PROPERTIES RunnerRests MessagesHandled
