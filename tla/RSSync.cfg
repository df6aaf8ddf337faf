SPECIFICATION Spec
CONSTANTS
  Shape <- TwoRuns
  MaxRateLimitRetries = 5
  NoAnswer = NoAnswer
  NoContent = NoContent
INVARIANTS
  TypeOK
  AddressedToItself
  ConfirmedIsUploaded
  UploadsFollowAnswer
PROPERTIES
  DeliversAsPromised
  RequestEnds
CHECK_DEADLOCK FALSE
