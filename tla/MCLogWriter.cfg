SPECIFICATION Spec
CONSTANTS
  App = App
  Flusher = Flusher
  Rotator = Rotator
  FlushSize = 2
  MaxBuffer = 2
  ChanSize = 1
  MaxLines = 2
  MaxDay = 1
  MaxFailures = 1
  MaxForces = 1
INVARIANTS
  EachLineOnce
  InOrder
  NoFileLeaked
PROPERTIES
  PromiseKept
  LinesLeaveBuffer
  FollowsTheDay
  CloseStops
