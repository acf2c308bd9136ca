SPECIFICATION Spec
CONSTANTS
  b1 = b1
  b2 = b2
  b3 = b3
  Buffers <- MCBuffers
  Discard = Discard
  None = None
  SkipFrames = 1
  RxFifoRst = TRUE
  Budgets <- MCBudgets
INVARIANTS
  DmaInDriverBuffers
  DoneIsFilled
PROPERTIES
  BuffersComeBack
CHECK_DEADLOCK FALSE
