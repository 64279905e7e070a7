SPECIFICATION Spec
CONSTANTS
  lookup = lookup
  service = service
  ns = ns
  other = other
  s1 = s1
  Loop = Loop
  ExitFn = ExitFn
  NotServed = NotServed
  Absent = Absent
  Invalid = Invalid
  NoReply = NoReply
  Uid <- FourUids
  Type <- TwoTypes
  LookupType = lookup
  TypeOf <- Kinds
  Static <- OneStatic
  Served <- ServedBy
  Sender <- OneSender
  Sent <- OnlyService
  Own = 1
  QueueSize = 1
  Replies <- WithLookup
  AlwaysUp <- Reliable
  Vague <- OneStatic
  MaxChanges = 2
  MaxRequests = 2
INVARIANTS
  DropIsFinal
  NamingServerLeft
  AllTried
PROPERTIES
  StableNodesStay
