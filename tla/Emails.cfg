CONSTANTS
  Emails = {e1}
  Workers = {w1, w2}
  MaxAttempts = 2
  MaxQueued = 2
  MaxByHand = 1
  MaxDeaths = 1
  None = None
SPECIFICATION FairSpec
INVARIANTS
  CopiesExplained
  AttemptsAccounted
  SentIsTrue
PROPERTIES
  NotLost
CHECK_DEADLOCK FALSE
