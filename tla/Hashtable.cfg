CONSTANTS
  NULL = NULL
  e1 = e1
  e2 = e2
  e3 = e3
  e4 = e4
  Keys <- SomeKeys
  Hash <- HashOfKey
  Modulus = 3
  Cells <- FourCells
  Primes <- SomePrimes
  LoadFactors <- SomeLimits
  Given <- OnlyTwo
  MinSizes <- Sizes
  Conditions <- AllOrOdd
SPECIFICATION HtSpec
SYMMETRY Symmetry
VIEW WithoutResult
CHECK_DEADLOCK FALSE
INVARIANTS
  HtTypeOK
  EveryEntryLinkedOnce
  IteratorKnowsItsPlace
PROPERTIES
  ImplementsMultimap
