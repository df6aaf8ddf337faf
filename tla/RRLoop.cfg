SPECIFICATION Spec
CONSTANTS
  MaxRetries = 30
  MaxRateLimitRetries = 5
  InitialRetryWait = 1
  MaxRetryWait = 5
  RateLimitRetryWait = 2
  RetryAfterCap = 60
  RetryAfters <- ShortHeaders
  Second = 1
  HalfRange = 1048576
CHECK_DEADLOCK FALSE
INVARIANTS
  TypeOK
  WaitBudget
  TimeoutMeansPatience
  WaitWithinCap
PROPERTIES
  EveryCallCounts
