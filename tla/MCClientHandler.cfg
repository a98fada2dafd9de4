SPECIFICATION FairSpec
CONSTANTS
  hangup = hangup
  clear = clear
  a1 = a1
  Reqs <- MCReqs
  Closing <- MCClosing
  Apps <- MCApps
  MaxDigits = 1
CHECK_DEADLOCK FALSE
INVARIANTS
  TypeOK
  InitHandledFirst
  UpdatedFirst
  GoodbyeOnce
PROPERTY LockGoesRound
