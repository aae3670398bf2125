CONSTANTS
  c1 = c1
  c2 = c2
  NULL = NULL
  Core <- MCCore
  Page = {1, 2, 3, 4}
  Shell = 1
  Commands = {"new_process"}
  MaxProcs = 3
  MaxNest = 1
  IrqPoints = {"sched_irqoff"}
  KillTargets = {}
SPECIFICATION Spec
CHECK_DEADLOCK FALSE
PROPERTY SwitchQueuesCaller
