SPECIFICATION FairSpec
CONSTANTS
  r1 = r1
  r2 = r2
  e1 = e1
  ChanCap = 1
  Top <- MCTop
  Nested <- MCNested
  Within <- MCWithin
  From <- MCFrom
  Events <- MCEvents
  EFrom <- MCEFrom
CHECK_DEADLOCK FALSE
INVARIANTS
  TypeOK
  Understood
  AnswersTell
PROPERTIES
  KeepsPromise
  Returns
