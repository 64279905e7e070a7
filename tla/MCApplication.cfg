SPECIFICATION Spec
CONSTANTS
  p1 = p1
  nodeUpdatedNotify = nodeUpdatedNotify
  Drop = "drop"
  OsSignal <- OneSignal
  MinGrace = 0
  ExecTimeout = 1
  Post <- OnePost
  EventOf <- ItsEvent
  OwnHooks <- ItsOwnHooks
  BuiltIn <- ItsHook
  QueueSize = 1
INVARIANTS
  EventOnce
  OkMeansHandled
  KnownEventsHandled
  DroppedOnExit
PROPERTIES
  ClosedWhenDraining
  AdmittedAnswered
