CONSTANTS
  a1 = a1
  a2 = a2
  a3 = a3
  NULL = NULL
  Caller <- MCCaller
  NumPages = 3
SPECIFICATION Spec
SYMMETRY Symmetry
INVARIANT MapMatchesOwners
INVARIANT NoSharedPage
INVARIANT ClearsOnlyFreePages
INVARIANT FreshPageIsZero
INVARIANT ZeroMeansFull
PROPERTY ImplementsPages
