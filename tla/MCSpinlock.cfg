CONSTANTS
  c1 = c1
  c2 = c2
  c3 = c3
  NULL = NULL
  Core <- MCCore
SPECIFICATION Spec
INVARIANT MutualExclusion
INVARIANT LockedIffHeld
INVARIANT IInv
PROPERTY ImplementsMutex
