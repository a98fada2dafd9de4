SPECIFICATION FairSpec
CONSTANTS
  a1 = a1
  h1 = h1
  k1 = k1
  Apps <- MCApps
  Handlers <- MCHandlers
  Bounded <- MCBounded
  WithCallback <- MCWithCallback
  Hooks <- MCHooks
CHECK_DEADLOCK FALSE
INVARIANTS
  TypeOK
  NoDoubleClose
  CleanupComplete
  CallbackBeforeTeardown
PROPERTIES
  KeepsPromise
  ShutdownCompletes
  CloseReturns
  GoroutinesEnd
