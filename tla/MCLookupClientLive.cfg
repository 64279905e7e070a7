SPECIFICATION FairSpec
CONSTANTS
  lookup = lookup
  service = service
  ns = ns
  other = other
  s1 = s1
  Loop = Loop
  ExitFn = ExitFn
  NotServed = NotServed
  Absent = Absent
  Invalid = Invalid
  NoReply = NoReply
  Uid <- FiveUids
  Type <- TwoTypes
  LookupType = lookup
  TypeOf <- FiveKinds
  Static <- OneStatic
  Served <- ServedBy
  Sender <- OneSender
  Sent <- OnlyService
  Own = 1
  QueueSize = 1
  Replies <- FiveReplies
  AlwaysUp <- Naming
  Vague <- NoServer
  MaxChanges = 1
  MaxRequests = 1
PROPERTIES
  StaysRegistered
  TableConverges
  LoopStops
