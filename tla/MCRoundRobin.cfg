SPECIFICATION TurnsSpec
CONSTANTS
  lookup = lookup
  service = service
  r1 = r1
  r2 = r2
  ServiceType <- TwoTypes
  Requester <- TwoRequesters
  NoCopy = NoCopy
  MaxNodes = 3
  MaxStarts = 2
SYMMETRY Alike
INVARIANTS
  StrictTurns
