CONSTANTS
  a = a
  b = b
  e1 = e1
  e2 = e2
  e3 = e3
  Heads <- TwoHeads
  Entries <- ThreeEntries
  HHeads <- TwoHeads
  HNodes <- ThreeEntries
  NULL = NULL
  LIST_POISON1 = LIST_POISON1
  LIST_POISON2 = LIST_POISON2
  NoRing = NoRing
  NoChain = NoChain
  NoLoop = NoLoop
  NoHloop = NoHloop
  test_list = a
  Indices <- SomeIndices
SPECIFICATION MCSpec
SYMMETRY Symmetry
VIEW WithoutCalls
CHECK_DEADLOCK FALSE
INVARIANTS
  AbsentIndexReported
