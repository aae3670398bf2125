CONSTANTS
  IntBits = 8
  LongBits = 12
  LocksPage = 1048576
  FuncSelect <- MCFuncSelect
  Resolution <- MCResolution
  CharWidth = 2
  CharHeight = 2
  FirstLine = 2
  BootText <- MCBootText
  SquareSize = 3
  LogoWidth = 3
  LogoHeight = 2
  Opaque <- MCOpaque
  Place <- MCPlace
  MaxLineFeeds = 2
  FifoDepth = 2
  Number <- MCNumber
  Width <- MCWidth
  Word <- MCWord
  BssEnd <- MCBssEnd
  Uptime <- MCUptime
  BfSize = 5
  Entry <- MCEntry
SPECIFICATION Spec
 
INVARIANT TextCorrect
 
INVARIANT RegistersCorrect
INVARIANT TextReadable
INVARIANT DrawnWhereMeant
INVARIANT AnswerBeforeUse
INVARIANT ContextKept
