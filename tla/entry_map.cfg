SPECIFICATION Spec
CONSTANTS
  Keys <- MCKeys
  Values = {1, 2}
  Hash <- MCHash
  Bits = 10
  Size = 2
  Iterators = {i1}
  Same <- MCIdentity
  SkipsSome = FALSE
INVARIANTS KeysOnce
PROPERTIES ImplementsDictionary
