CONSTANTS
  LastCore = 3
  Posted = TRUE
SPECIFICATION FairSpec
CHECK_DEADLOCK FALSE
PROPERTY EveryCoreStarts
