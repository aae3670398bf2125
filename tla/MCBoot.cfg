CONSTANTS
  LastCore = 3
  Posted = FALSE
SPECIFICATION FairSpec
CHECK_DEADLOCK FALSE
INVARIANT PreparedBeforeCalled
INVARIANT NoLostWakeup
PROPERTY EveryCoreStarts
