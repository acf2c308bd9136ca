SPECIFICATION Spec
CONSTANTS
  MaxRetries = 2
  MaxRequests = 2
  Kinds <- SomeKinds
INVARIANTS
  ConnUsedByOne
  InOrderAnswers
PROPERTIES
  InterruptStops
  LinkEndNoticed
  RequestAnswered
CHECK_DEADLOCK FALSE
