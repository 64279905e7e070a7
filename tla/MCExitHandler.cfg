SPECIFICATION Spec
CONSTANTS
  TERM = TERM
  c1 = c1
  c2 = c2
  c3 = c3
  h1 = h1
  h2 = h2
  OsSignal <- OneSignal
  Caller <- ThreeCallers
  Handler <- TwoHandlers
  MinGrace = 1
  ExecTimeout = 2
  ForceExit = 5
INVARIANTS
  NoneSkipped
  OrderlyExit
  CallersAccountedFor
PROPERTIES
  StatusGoesForward
  ShutdownEnds
  PromiseKept
