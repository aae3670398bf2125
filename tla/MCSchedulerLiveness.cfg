CONSTANTS
  c1 = c1
  c2 = c2
  NULL = NULL
  Core <- MCCore
  Page = {1, 2, 3, 4}
  Shell = 1
  Commands = {"new_process", "kill", "exit"}
  MaxProcs = 4
  MaxNest = 2
  IrqPoints = {"irq_exit", "sh", "prog"}
  KillTargets = {"prog"}
SPECIFICATION FairSpec
INVARIANT NoLockCycle
INVARIANT ExitNeverReturns
INVARIANT IrqExitMasked
PROPERTY NobodyWaitsForever
