CONSTANTS
  NULL = NULL
  e1 = e1
  e2 = e2
  e3 = e3
  e4 = e4
  Keys <- SomeKeys
  Hash <- HashOfKey
  Modulus = 3
  Cells <- ThreeCells
  Primes <- SomePrimes
  LoadFactors <- SomeLimits
  Given <- OnlyTwo
  MinSizes <- Sizes
  Conditions <- AllOrOdd
SPECIFICATION HtSpec
SYMMETRY Symmetry
CHECK_DEADLOCK FALSE
INVARIANTS
  OutOfMemoryIsSurvived
