SPECIFICATION FairSpec
CONSTANTS
  MaxAttempts = 3
  Worlds <- Faulty
INVARIANTS
  WholeOutput
  Followed
  AnswerOnce
PROPERTIES
  ComesToRest
CHECK_DEADLOCK FALSE
