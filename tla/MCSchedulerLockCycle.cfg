CONSTANTS
  c1 = c1
  c2 = c2
  NULL = NULL
  Core <- MCCore
  Page = {1, 2, 3, 4}
  Shell = 1
  Commands = {"new_process"}
  MaxProcs = 4
  MaxNest = 1
  IrqPoints = {"np_alloc", "np_link"}
  KillTargets = {}
SPECIFICATION Spec
CHECK_DEADLOCK FALSE
INVARIANT NoLockCycle
