SPECIFICATION Spec
CONSTANTS
  MaxPlan = 2
  Drafts <- MCDrafts
  MaxParallel = 2
  MaxAttempts = 2
  MaxDerived = 0
  MaxRevisions = 1
  MaxPatches = 1
  MaxRefs = 1
  MaxPlans = 1
  Msg = {1}
  Kinds = {"text"}
CHECK_DEADLOCK FALSE
INVARIANTS DispatchAfterDeps OneTaskPerNode AtWorkIsActive CompletedIsSettled
