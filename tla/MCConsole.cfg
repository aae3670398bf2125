CONSTANTS
  IntBits = 8
  LongBits = 12
  sh = sh
  p1 = p1
  Writers <- MCWriters
  FifoSize = 2
  Shell = sh
  Progs <- MCProgs
  Commands <- MCCommands
  Names <- MCNames
  Typed <- MCTyped
  Message = 1
  Prompt = 1
  BufferSize = 6
  MaxArgs = 1
  MaxLine = 4
SPECIFICATION Spec
INVARIANT LossNeedsRace
INVARIANT CommandParsed
INVARIANT ArgsIntactUntilOverwritten
