SPECIFICATION CanSpec
CONSTANTS
  Mailboxes <- TwoMailboxes
  CanBudgets <- SomeBudgets
INVARIANTS
  CanTypeOK
  EchoIsOfTheSentFrame
  RxInOrder
  PassiveCannotHide
PROPERTIES
  TransmitterReturns
CHECK_DEADLOCK FALSE
