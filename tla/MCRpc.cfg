SPECIFICATION FairSpec
CONSTANTS
  r1 = r1
  r2 = r2
  Reqs <- MCReqs
CHECK_DEADLOCK FALSE
INVARIANTS
  TypeOK
  ResolverNeverBlocks
  NoStaleEntry
PROPERTIES
  KeepsPromise
  RequestReturns
