SPECIFICATION Spec
CONSTANTS
  FifoSize = 2
  RingSize = 3
  Confs <- MCConfs
  Budgets <- MCBudgets
INVARIANTS
  TypeOK
  SentInOrder
  RtsWhileSending
PROPERTIES
  BecomesIdle
CHECK_DEADLOCK FALSE
