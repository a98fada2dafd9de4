SPECIFICATION FairSpec
CONSTANTS
  w1 = w1
  w2 = w2
  Writers <- OneWriter
  OutCap = 1
  InCap = 1
  InputCap = 1
  MaxFrames = 1
CHECK_DEADLOCK FALSE
PROPERTY CloseReturns
