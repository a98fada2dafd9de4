SPECIFICATION Spec
CONSTANTS
  hangup = hangup
  clear = clear
  a1 = a1
  Reqs <- MCReqs
  Closing <- MCClosing
  Apps <- MCApps
  MaxDigits = 2
CHECK_DEADLOCK FALSE
INVARIANT DtmfInOrder
