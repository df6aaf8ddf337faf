SPECIFICATION Spec
CONSTANTS
  Interval <- MCInterval
  SomeReplies <- MCReplies
  NoReply = NoReply
  MaxLines = 3
  MaxTime = 2
INVARIANTS TypeOK AnswersMatchLines LimiterExact StatusReaches
PROPERTIES EveryLineServed
\* The process ends with its input.
CHECK_DEADLOCK FALSE
