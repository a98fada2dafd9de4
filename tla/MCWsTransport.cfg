SPECIFICATION Spec
SYMMETRY Symmetry
CONSTANTS
  w1 = w1
  w2 = w2
  Writers <- TwoWriters
  OutCap = 1
  InCap = 1
  InputCap = 1
  MaxFrames = 3
CHECK_DEADLOCK FALSE
INVARIANTS
  TypeOK
  NoPanic
  InOrderUntilClose
  SentOnce
  RestIsExplained
PROPERTY KeepsPromise
