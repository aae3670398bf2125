CONSTANTS
  c1 = c1
  c2 = c2
  NULL = NULL
  Core <- MCCore
  Page = {1, 2, 3, 4}
  Shell = 1
  Commands = {"new_process", "kill", "print_ptable", "get_pid", "exit"}
  MaxProcs = 4
  MaxNest = 2
  IrqPoints = {"exit_sched", "irq_exit", "sh", "np_lock_mem", "np_alloc", "np_lock", "np_link", "prog"}
  KillTargets = {"kthread"}
SPECIFICATION Spec
SYMMETRY Symmetry
CHECK_DEADLOCK FALSE
INVARIANT ListIsQueue
INVARIANT OneCorePerProcess
INVARIANT PagesAccounted
INVARIANT LockFollowsCore
INVARIANT UniquePids
INVARIANT ProgramsRunUnmasked
INVARIANT IInv
PROPERTY ImplementsRoundRobin
PROPERTY UsesPages
