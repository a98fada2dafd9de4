SPECIFICATION FairSpec
CONSTANTS
  Cap = 2
  Size = 2
  MaxBytes = 3
CHECK_DEADLOCK FALSE
PROPERTY ClearExact
