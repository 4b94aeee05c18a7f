SPECIFICATION Spec
CONSTANTS
  MaxPlan = 2
  Drafts <- MCChain
  MaxParallel = 2
  MaxAttempts = 1
  MaxDerived = 1
  MaxRevisions = 1
  MaxPatches = 0
  MaxRefs = 1
  MaxPlans = 1
  Msg = {1, 2}
  Kinds = {"text", "quote", "interrupt", "empty", "yes", "no", "malformed", "cancel"}
CHECK_DEADLOCK FALSE
INVARIANTS TypeOK QuestionIsWaited NothingLeftBehind
PROPERTIES SettledIsFinal KeepsLifecycle
