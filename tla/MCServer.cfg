SPECIFICATION FairSpec
CONSTANTS
  c1 = c1
  c2 = c2
  Conns <- MCConns
CHECK_DEADLOCK FALSE
INVARIANTS
  TypeOK
  ShutdownClosesAll
PROPERTIES
  EndedSessionsLeave
  FailedIsTornDown
  ShutdownEnds
