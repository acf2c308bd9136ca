SPECIFICATION Spec
CONSTANTS
  MaxRetries = 1
  MaxRequests = 2
  Kinds <- SomeKinds
INVARIANTS
  IdOfTheRequest
CHECK_DEADLOCK FALSE
