SPECIFICATION Spec
CONSTANTS
  a1 = a1
  a2 = a2
  Addr <- TwoAddresses
  Lifetime = 1
  MaxStarts = 3
INVARIANTS
  TypeOK
  LostOnlyToEarlier
PROPERTIES
  FirstIsClosed
