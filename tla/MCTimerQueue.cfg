SPECIFICATION Spec
CONSTANTS
  k1 = k1
  k2 = k2
  k3 = k3
  k4 = k4
  c1 = c1
  Key <- FourKeys
  Caller <- OneCaller
  Priority <- Soon
  Asked = 0
  LeastMax = 1
  EndOfTime = 1
SYMMETRY AnyKey
INVARIANTS
  IndexIsPlace
  HeapOrdered
  WithinReach
PROPERTIES
  TimersKept
