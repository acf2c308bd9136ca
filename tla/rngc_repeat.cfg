SPECIFICATION RngcSpec
CONSTANTS
  MaxOps = 4
PROPERTIES
  RepeatedOnError
CHECK_DEADLOCK FALSE
