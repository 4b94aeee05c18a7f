SPECIFICATION Spec
CONSTANTS
  max_retries = 2
  max_nodes = 3
  MaxChunks = 2
  NodeId = {1, 2, 3, 4}
  Answers <- MCAnswers
  Drafts <- MCDrafts
CHECK_DEADLOCK FALSE
INVARIANTS ShownIsSpoken AttemptsSealed FailuresTold ValidationExact
