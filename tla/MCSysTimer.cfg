CONSTANTS
  Cores <- MCCores
  CLOCKHZ = 4
  Word = 64
  Start <- MCStart
  Delay <- MCDelay
  MaxLate = 1
  MaxTime = 74
SPECIFICATION Spec
INVARIANT TimerStaysArmed
INVARIANT EverySecond
INVARIANT SleepNeverShort
