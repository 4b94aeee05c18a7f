SPECIFICATION FairSpec
CONSTANTS
  max_retries = 2
  Worlds <- MCWorlds
INVARIANTS
  OutputIsAnswer
  FailureIsRaised
  CallsAnswered
  SessionExact
PROPERTY
  Settles
CHECK_DEADLOCK FALSE
