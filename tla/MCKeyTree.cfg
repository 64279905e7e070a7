SPECIFICATION Spec
CONSTANTS
  d1 = d1
  d2 = d2
  Key <- ShortKeys
  Data <- TwoData
  Nil = Nil
  Min <- NoneOrAll
  MaxKeyDepth = 2
  MaxAdds = 2
INVARIANTS
  TreeIsWhole
PROPERTIES
  LongestPrefix
