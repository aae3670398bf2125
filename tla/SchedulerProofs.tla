--------------------------- MODULE SchedulerProofs ---------------------------
(***************************************************************************)
(* The scheduler keeps its table in order for any number of cores, pages   *)
(* and nested interrupts, as long as no interrupt hits schedule() between  *)
(* get_core() and irq_disable().  At the end: exit() never returns.        *)
(***************************************************************************)
EXTENDS Scheduler, SequenceTheorems, FiniteSetTheorems, TLAPS

\* The interrupt window that the theorems exclude, schedule.c lines 101-104.
NoStaleCore == "sched_irqoff" \notin IrqPoints

\* A thread stays a thread when it moves on.
LEMMA ThreadUpdate ==
  ASSUME NEW t \in Thread, NEW place \in Pc, NEW n \in Core \cup {NULL}
  PROVE  /\ [t EXCEPT !.pc = place] \in Thread
         /\ [t EXCEPT !.pc = place, !.core = n] \in Thread
  BY DEF Thread

\* What stays when a step of core c leaves the table and the waiting
\* processes alone.
TableUnchanged ==
  UNCHANGED <<used, head, current, next, role, saved, newPage, queue>>

\* A step of one core that leaves the table and the other cores alone keeps
\* the invariant.
LEMMA LocalStep ==
  ASSUME IInv, TypeOK', TableUnchanged, NEW c \in Core,
         thread' = [thread EXCEPT ![c] = thread'[c]],
         \A d \in Core \ {c} : masked'[d] = masked[d],
         thread'[c].self = thread[c].self,
         CoreOK(c)', InHand(thread[c])', LockFollowsCore',
         queue # <<>> => tail' = tail,
         queue = <<>> => \/ tail' = NULL
                         \/ tail' = tail /\ (At(c, "sched_body") => At(c, "sched_body")')
  PROVE  IInv'
<1> USE DEF TableUnchanged
<1>t. TypeOK
  BY DEF IInv
<1>1. \A d \in Core : thread'[d].self = thread[d].self
  BY <1>t DEF TypeOK
<1>2. \A d \in Core \ {c} : thread'[d] = thread[d]
  BY <1>t DEF TypeOK
<1>3. \A p \in Page : Queued(p)' <=> Queued(p)
  BY DEF Queued
<1>4. \A p \in Page : Executing(p)' <=> Executing(p)
  BY <1>1 DEF Executing
<1>5. ListIsQueue'
  <2>1. CASE queue # <<>>
    BY <2>1 DEF IInv, ListIsQueue
  <2>2. CASE queue = <<>>
    BY <2>2, <1>2, <1>t DEF IInv, ListIsQueue, At, TypeOK
  <2> QED
    BY <2>1, <2>2
<1>6. OneCorePerProcess'
  BY <1>1, <1>3 DEF IInv, OneCorePerProcess, Queued
<1>7. PagesAccounted'
  BY <1>3, <1>4 DEF IInv, PagesAccounted
<1>8. \A d \in Core : CoreOK(d)'
  BY <1>2 DEF IInv, CoreOK, StackOK, Place, At
<1>9. \A p \in Page : Queued(p)' => SavedOK(p)'
  BY <1>3 DEF IInv, SavedOK, StackOK, Place
<1>10. NewPageOK'
  <2>1. newPage' # NULL => ~Queued(newPage)' /\ ~Executing(newPage)'
    BY <1>1 DEF IInv, NewPageOK, Queued, Executing
  <2>2. newPage' # NULL => saved'[newPage'] = NewContext(newPage') /\ next'[newPage'] = NULL
    BY DEF IInv, NewPageOK
  <2>3. \A d \in Core : InHand(thread[d])'
    BY <1>2 DEF IInv, NewPageOK, InHand, Place
  <2>4. \A p \in Page : Queued(p)' => InHand(saved[p])'
    BY <1>3 DEF IInv, NewPageOK, InHand, Place
  <2> QED
    BY <2>1, <2>2, <2>3, <2>4 DEF NewPageOK
<1>11. \A p \in Page : role'[p] = "shell" => p = Shell
  BY DEF IInv
<1> QED
  BY <1>5, <1>6, <1>7, <1>8, <1>9, <1>10, <1>11 DEF IInv

\* ptable.lock after a step of core c that leaves the other stacks alone.
LEMMA LockStep ==
  ASSUME TypeOK, LockFollowsCore, NEW c \in Core,
         thread' = [thread EXCEPT ![c] = thread'[c]],
         HoldsTable(thread'[c]) <=> lock' = c,
         (lock \in {c, NULL} /\ lock' \in {c, NULL}) \/ lock' = lock
  PROVE  LockFollowsCore'
<1>1. \A d \in Core \ {c} : thread'[d] = thread[d] /\ (lock' = d <=> lock = d)
  BY SchedulerAssumption DEF TypeOK
<1> QED
  BY <1>1 DEF LockFollowsCore, HoldsTable

\* A step of core c that moves its process to place b, both outside of the
\* scheduler.
Moves(c, b) ==
  /\ TableUnchanged /\ UNCHANGED <<tail, numProcs, pid>>
  /\ memLock' \in Page \cup {NULL}
  /\ state' \in [Page -> {"SLEEP", "RUNNING", "ZOMBIE"}]
  /\ b \in Pc \ (BootPlaces \cup InSchedule \cup {"irq_exit"})
  /\ thread[c].pc \notin InHandler \cup BootPlaces
  /\ thread' = [thread EXCEPT ![c].pc = b]
  /\ masked' = [masked EXCEPT ![c] = masked'[c]] /\ masked'[c] \in BOOLEAN
  /\ b \in Closed => masked'[c]
  /\ b = "prog" => ~masked'[c]
  /\ b \in ShellPlaces => thread[c].self = Shell /\ role[Shell] = "shell"
  /\ b \in {"np_lock", "np_link"} <=> thread[c].pc \in {"np_lock", "np_link"}
  /\ b \in Holding <=> lock' = c
  /\ (lock \in {c, NULL} /\ lock' \in {c, NULL}) \/ lock' = lock

\* A core that only moves on within its code keeps the invariant.
LEMMA MoveStep ==
  ASSUME IInv, NEW c \in Core, NEW b, Moves(c, b)
  PROVE  IInv'
<1>t. TypeOK /\ CoreOK(c) /\ InHand(thread[c]) /\ LockFollowsCore
  BY DEF IInv, NewPageOK
<1>u. thread[c] \in Thread /\ thread'[c] = [thread[c] EXCEPT !.pc = b] /\ b \in Pc
  BY <1>t DEF TypeOK, Moves
<1>v. /\ thread'[c] \in Thread
      /\ thread' = [thread EXCEPT ![c] = thread'[c]]
      /\ thread'[c].self = thread[c].self
      /\ thread'[c].pc = b
      /\ thread'[c].frames = <<>> /\ thread[c].frames = <<>>
  <2>1. thread'[c] \in Thread
    BY <1>u, ThreadUpdate
  <2>2. thread[c].frames = <<>>
    BY <1>t DEF CoreOK, StackOK, Moves
  <2> QED
    BY <1>t, <1>u, <2>1, <2>2 DEF Thread, TypeOK, Moves
<1>1. TypeOK'
  <2>1. lock' \in Core \cup {NULL} /\ masked' \in [Core -> BOOLEAN]
    BY <1>t DEF TypeOK, Moves
  <2>2. thread' \in [Core -> Thread]
    BY <1>t, <1>v DEF TypeOK
  <2> QED
    BY <1>t, <2>1, <2>2 DEF TypeOK, TableUnchanged, Moves
<1>2. CoreOK(c)'
  <2>1. StackOK(thread[c])'
    BY <1>v DEF StackOK, Place, TableUnchanged, Moves
  <2> QED
    BY <1>t, <1>v, <2>1 DEF CoreOK, At, InHandler, BootPlaces, Closed, Moves
<1>3. InHand(thread[c])'
  BY <1>t, <1>v DEF InHand, Place, TableUnchanged, Moves
<1>4. LockFollowsCore'
  <2>1. HoldsTable(thread'[c]) <=> lock' = c
    BY <1>v DEF HoldsTable, Moves
  <2>2. (lock \in {c, NULL} /\ lock' \in {c, NULL}) \/ lock' = lock
    BY DEF Moves
  <2> QED
    BY <1>t, <1>v, <2>1, <2>2, LockStep
<1>5. \A d \in Core \ {c} : masked'[d] = masked[d]
  BY <1>t DEF TypeOK, Moves
<1>6. ~At(c, "sched_body")
  BY DEF At, InHandler, Moves
<1> QED
  BY <1>t, <1>v, <1>1, <1>2, <1>3, <1>4, <1>5, <1>6, LocalStep DEF Moves

\* The commands of the shell, the calls of a program, and the lock steps of
\* new_process are moves.
LEMMA MovesIInv ==
  ASSUME IInv, NEW c \in Core
  PROVE  /\ StartTimer(c) => IInv'
         /\ ShellSpawn(c) => IInv'
         /\ NpLockMem(c) => IInv'
         /\ NpNoPage(c) => IInv'
         /\ NpLock(c) => IInv'
         /\ ShellKill(c) => IInv'
         /\ KillMiss(c) => IInv'
         /\ ShellPrint(c) => IInv'
         /\ PrintPtable(c) => IInv'
         /\ CallGetPid(c) => IInv'
         /\ GetPid(c) => IInv'
         /\ CallExit(c) => IInv'
         /\ Exit(c) => IInv'
<1>t. /\ TypeOK /\ CoreOK(c)
      /\ LockFollowsCore
      /\ thread[c].self \in Page \cup {NULL}
  BY DEF IInv, TypeOK, Thread
<1> USE SchedulerAssumption
    DEF Moves, TableUnchanged, table, process, At, Goto, GotoIrqsOn, GotoIrqsOff,
        TypeOK, Pc, Open, Closed, BootPlaces, InSchedule, InHandler, ShellPlaces,
        Holding
<1>f. thread[c].pc \notin InHandler => thread[c].frames = <<>>
  BY <1>t DEF CoreOK, StackOK
<1>s. thread[c].pc \in ShellPlaces => thread[c].self = Shell /\ role[Shell] = "shell"
  BY <1>t, <1>f DEF CoreOK, StackOK, Place
<1>l. thread[c].pc \notin InHandler => (lock = c <=> thread[c].pc \in Holding)
  BY <1>t, <1>f DEF LockFollowsCore, HoldsTable
<1>1. ASSUME StartTimer(c) PROVE IInv'
  <2>1. Moves(c, "loop")
    BY <1>t, <1>s, <1>l, <1>1 DEF StartTimer
  <2> QED
    BY <2>1, MoveStep
<1>2. ASSUME ShellSpawn(c) PROVE IInv'
  <2>1. Moves(c, "np_lock_mem")
    BY <1>t, <1>s, <1>l, <1>2 DEF ShellSpawn
  <2> QED
    BY <2>1, MoveStep
<1>3. ASSUME NpLockMem(c) PROVE IInv'
  <2>1. Moves(c, "np_alloc")
    BY <1>t, <1>s, <1>l, <1>3 DEF NpLockMem
  <2> QED
    BY <2>1, MoveStep
<1>4. ASSUME NpNoPage(c) PROVE IInv'
  <2>1. Moves(c, "sh")
    BY <1>t, <1>s, <1>l, <1>4 DEF NpNoPage
  <2> QED
    BY <2>1, MoveStep
<1>5. ASSUME NpLock(c) PROVE IInv'
  <2>1. Moves(c, "np_link")
    BY <1>t, <1>s, <1>l, <1>5 DEF NpLock
  <2> QED
    BY <2>1, MoveStep
<1>6. ASSUME ShellKill(c) PROVE IInv'
  <2>1. Moves(c, "kill_wait")
    BY <1>t, <1>s, <1>l, <1>6 DEF ShellKill
  <2> QED
    BY <2>1, MoveStep
<1>7. ASSUME KillMiss(c) PROVE IInv'
  <2>1. Moves(c, "sh")
    BY <1>t, <1>s, <1>l, <1>7 DEF KillMiss
  <2> QED
    BY <2>1, MoveStep
<1>8. ASSUME ShellPrint(c) PROVE IInv'
  <2>1. Moves(c, "print_wait")
    BY <1>t, <1>s, <1>l, <1>8 DEF ShellPrint
  <2> QED
    BY <2>1, MoveStep
<1>9. ASSUME PrintPtable(c) PROVE IInv'
  <2>1. Moves(c, "sh")
    BY <1>t, <1>s, <1>l, <1>9 DEF PrintPtable
  <2> QED
    BY <2>1, MoveStep
<1>10. ASSUME CallGetPid(c) PROVE IInv'
  <2>1. Moves(c, "pid_wait")
    BY <1>t, <1>s, <1>l, <1>10 DEF CallGetPid
  <2> QED
    BY <2>1, MoveStep
<1>11. ASSUME GetPid(c) PROVE IInv'
  <2>1. Moves(c, "prog")
    BY <1>t, <1>s, <1>l, <1>11 DEF GetPid
  <2> QED
    BY <2>1, MoveStep
<1>12. ASSUME CallExit(c) PROVE IInv'
  <2>1. Moves(c, "exit_wait")
    BY <1>t, <1>s, <1>l, <1>12 DEF CallExit
  <2> QED
    BY <2>1, MoveStep
<1>13. ASSUME Exit(c) PROVE IInv'
  <2>1. Moves(c, "exit_sched")
    BY <1>t, <1>s, <1>l, <1>13 DEF Exit
  <2> QED
    BY <2>1, MoveStep
<1> QED
  BY <1>1, <1>2, <1>3, <1>4, <1>5, <1>6, <1>7, <1>8, <1>9, <1>10, <1>11, <1>12, <1>13

\* So is a kill that finds its victim.
LEMMA KillIInv ==
  ASSUME IInv, NEW c \in Core, NEW n, Kill(c, n)
  PROVE  IInv'
<1>t. /\ TypeOK /\ CoreOK(c) /\ LockFollowsCore
      /\ thread[c].self \in Page \cup {NULL}
  BY DEF IInv, TypeOK, Thread
<1>1. thread[c].frames = <<>>
  BY <1>t DEF Kill, At, CoreOK, StackOK, InHandler
<1>2. thread[c].self = Shell /\ role[Shell] = "shell"
  BY <1>t, <1>1 DEF Kill, At, CoreOK, StackOK, Place, ShellPlaces
<1>3. state' \in [Page -> {"SLEEP", "RUNNING", "ZOMBIE"}]
  BY <1>t DEF Kill, TypeOK
<1>4. masked[c]
  BY <1>t DEF Kill, At, CoreOK, Closed
<1>5. Moves(c, "sh")
  BY <1>t, <1>2, <1>3, <1>4, SchedulerAssumption
  DEF Kill, Moves, TableUnchanged, table, process, At, Goto, TypeOK, Pc, Open,
      Closed, BootPlaces, InSchedule, InHandler, ShellPlaces, Holding
<1> QED
  BY <1>5, MoveStep

\* And the first run of a process.
LEMMA ScheduleTailIInv ==
  ASSUME IInv, NEW c \in Core, ScheduleTail(c)
  PROVE  IInv'
<1>t. /\ TypeOK /\ CoreOK(c) /\ LockFollowsCore
      /\ thread[c].self \in Page \cup {NULL}
      /\ \A p \in Page : role[p] = "shell" => p = Shell
  BY DEF IInv, TypeOK, Thread
<1>1. thread[c].self \in Page
  BY <1>t DEF CoreOK, ScheduleTail, At, BootPlaces
<1>2. lock = c
  BY <1>t DEF LockFollowsCore, HoldsTable, Holding, ScheduleTail, At
<1> DEFINE b == IF role[thread[c].self] = "shell" THEN "sh" ELSE "prog"
<1>3. b = "sh" => thread[c].self = Shell /\ role[Shell] = "shell"
  BY <1>t, <1>1
<1>4. Moves(c, b)
  BY <1>t, <1>2, <1>3, SchedulerAssumption
  DEF ScheduleTail, Moves, TableUnchanged, table, process, At, Goto, GotoIrqsOn,
      TypeOK, Pc, Open, Closed, BootPlaces, InSchedule, InHandler, ShellPlaces,
      Holding
<1> QED
  BY <1>4, MoveStep

\* A step of core c inside the scheduler, with t the stack it leads to.
Shifts(c, t) ==
  /\ TableUnchanged /\ UNCHANGED <<numProcs, pid, state, memLock>>
  /\ t \in Thread
  /\ thread' = [thread EXCEPT ![c] = t]
  /\ t.self = thread[c].self /\ t.frames = thread[c].frames
  /\ masked' = [masked EXCEPT ![c] = masked'[c]] /\ masked'[c] \in BOOLEAN
  /\ t.pc \in BootPlaces <=> thread[c].pc \in BootPlaces
  /\ t.frames # <<>> => t.pc \in InHandler
  /\ t.pc = "irq_exit" => t.frames # <<>>
  /\ t.pc # "sched_acquire" =>
       \A k \in 1 .. Len(t.frames) : t.frames[k].pc # "np_link"
  /\ t.pc \notin ShellPlaces \cup {"prog"} /\ thread[c].pc \notin ShellPlaces
  /\ t.pc \in InSchedule => t.core = c
  /\ t.pc \in Closed => masked'[c]
  /\ HoldsTable(t) <=> lock' = c
  /\ (lock \in {c, NULL} /\ lock' \in {c, NULL}) \/ lock' = lock
  /\ queue # <<>> => tail' = tail
  /\ queue = <<>> => \/ tail' = NULL
                     \/ tail' = tail /\ thread[c].pc # "sched_body"

\* A core that stays in the scheduler, on the same process, keeps the invariant.
LEMMA ShiftStep ==
  ASSUME IInv, NEW c \in Core, NEW t, Shifts(c, t)
  PROVE  IInv'
<1>t. TypeOK /\ CoreOK(c) /\ InHand(thread[c]) /\ LockFollowsCore
  BY DEF IInv, NewPageOK
<1>u. /\ thread'[c] = t /\ t \in Thread
      /\ thread' = [thread EXCEPT ![c] = thread'[c]]
      /\ t.self = thread[c].self /\ t.frames = thread[c].frames
  BY <1>t DEF TypeOK, Shifts
<1>1. TypeOK'
  <2>1. lock' \in Core \cup {NULL} /\ masked' \in [Core -> BOOLEAN]
    BY <1>t DEF TypeOK, Shifts
  <2>2. thread' \in [Core -> Thread]
    BY <1>t, <1>u DEF TypeOK
  <2>3. tail' \in Page \cup {NULL}
    BY <1>t DEF TypeOK, Shifts
  <2> QED
    BY <1>t, <2>1, <2>2, <2>3 DEF TypeOK, TableUnchanged, Shifts
<1>2. CoreOK(c)'
  <2>1. Place(t) \notin ShellPlaces \/ (t.frames # <<>> /\ Place(t) = Place(thread[c]))
    BY <1>u DEF Place, Shifts
  <2>2. StackOK(thread[c])'
    BY <1>t, <1>u, <2>1 DEF CoreOK, StackOK, Place, TableUnchanged, Shifts
  <2> QED
    BY <1>t, <1>u, <2>2 DEF CoreOK, At, Shifts
<1>3. InHand(thread[c])'
  <2>1. Place(t) \in {"np_lock", "np_link"} <=> Place(thread[c]) \in {"np_lock", "np_link"}
    BY <1>u DEF Place, Shifts, ShellPlaces
  <2> QED
    BY <1>t, <1>u, <2>1 DEF InHand, Place, TableUnchanged, Shifts
<1>4. LockFollowsCore'
  <2>1. HoldsTable(thread'[c]) <=> lock' = c
    BY <1>u DEF Shifts
  <2>2. (lock \in {c, NULL} /\ lock' \in {c, NULL}) \/ lock' = lock
    BY DEF Shifts
  <2> QED
    BY <1>t, <1>u, <2>1, <2>2, LockStep
<1>5. \A d \in Core \ {c} : masked'[d] = masked[d]
  BY <1>t DEF TypeOK, Shifts
<1> QED
  BY <1>t, <1>u, <1>1, <1>2, <1>3, <1>4, <1>5, LocalStep DEF Shifts, At

\* Taking the lock in start_scheduler.
LEMMA StartAcquireIInv ==
  ASSUME IInv, NEW c \in Core, StartAcquire(c)
  PROVE  IInv'
<1> DEFINE b == "ss_body"
           t == [thread[c] EXCEPT !.pc = b]
<1>t. /\ TypeOK /\ CoreOK(c) /\ thread[c] \in Thread
      /\ LockFollowsCore /\ ListIsQueue
  BY DEF IInv, TypeOK
<1>b. b \in Pc
  BY DEF Pc, Open, Closed
<1>u. t \in Thread
  BY <1>t, <1>b, ThreadUpdate
<1>v. t.self = thread[c].self /\ t.frames = thread[c].frames /\ t.pc = b
  BY <1>t DEF Thread
<1>w. /\ thread' = [thread EXCEPT ![c] = t]
      /\ t.pc \in InSchedule => t.core = c
  BY <1>t DEF TypeOK, Thread, StartAcquire, Goto, GotoIrqsOff, Return, CoreOK, At, InSchedule
<1>f. /\ t.frames # <<>> => t.pc \in InHandler
      /\ t.pc = "irq_exit" => t.frames # <<>>
      /\ t.pc # "sched_acquire" =>
           \A k \in 1 .. Len(t.frames) : t.frames[k].pc # "np_link"
  BY <1>t, <1>v, SchedulerAssumption
  DEF StartAcquire, At, CoreOK, StackOK, InHandler, LockFollowsCore, HoldsTable
<1>l. /\ HoldsTable(t) <=> lock' = c
      /\ (lock \in {c, NULL} /\ lock' \in {c, NULL}) \/ lock' = lock
  BY <1>t, <1>v, <1>f, SchedulerAssumption
  DEF StartAcquire, At, LockFollowsCore, HoldsTable, Holding
<1>1. Shifts(c, t)
  BY <1>t, <1>u, <1>v, <1>w, <1>f, <1>l
  DEF Shifts, StartAcquire, At, GotoIrqsOff, TableUnchanged, table, process, TypeOK,
      BootPlaces, ShellPlaces, InSchedule, Closed, CoreOK, ListIsQueue
<1> QED
  BY <1>1, ShiftStep

\* The call of schedule().
LEMMA CallScheduleIInv ==
  ASSUME IInv, NEW c \in Core, CallSchedule(c)
  PROVE  IInv'
<1> DEFINE b == "sched_irqoff"
           t == [thread[c] EXCEPT !.pc = b, !.core = c]
<1>t. /\ TypeOK /\ CoreOK(c) /\ thread[c] \in Thread
      /\ LockFollowsCore /\ ListIsQueue
  BY DEF IInv, TypeOK
<1>b. b \in Pc
  BY DEF Pc, Open, Closed
<1>u. t \in Thread
  BY <1>t, <1>b, ThreadUpdate
<1>v. t.self = thread[c].self /\ t.frames = thread[c].frames /\ t.pc = b
  BY <1>t DEF Thread
<1>w. /\ thread' = [thread EXCEPT ![c] = t]
      /\ t.pc \in InSchedule => t.core = c
  BY <1>t DEF TypeOK, Thread, CallSchedule, Goto, GotoIrqsOff, Return, CoreOK, At, InSchedule
<1>f. /\ t.frames # <<>> => t.pc \in InHandler
      /\ t.pc = "irq_exit" => t.frames # <<>>
      /\ t.pc # "sched_acquire" =>
           \A k \in 1 .. Len(t.frames) : t.frames[k].pc # "np_link"
  BY <1>t, <1>v, SchedulerAssumption
  DEF CallSchedule, At, CoreOK, StackOK, InHandler, LockFollowsCore, HoldsTable
<1>l. /\ HoldsTable(t) <=> lock' = c
      /\ (lock \in {c, NULL} /\ lock' \in {c, NULL}) \/ lock' = lock
  BY <1>t, <1>v, <1>f, SchedulerAssumption
  DEF CallSchedule, At, LockFollowsCore, HoldsTable, Holding
<1>1. Shifts(c, t)
  BY <1>t, <1>u, <1>v, <1>w, <1>f, <1>l
  DEF Shifts, CallSchedule, At, GotoIrqsOff, TableUnchanged, table, process, TypeOK,
      BootPlaces, ShellPlaces, InSchedule, Closed, CoreOK, ListIsQueue
<1> QED
  BY <1>1, ShiftStep

\* Masking interrupts: nothing happened since get_core() was read.
LEMMA DisableIrqIInv ==
  ASSUME IInv, NEW c \in Core, DisableIrq(c)
  PROVE  IInv'
<1> DEFINE b == "sched_acquire"
           t == [thread[c] EXCEPT !.pc = b]
<1>t. /\ TypeOK /\ CoreOK(c) /\ thread[c] \in Thread
      /\ LockFollowsCore /\ ListIsQueue
  BY DEF IInv, TypeOK
<1>b. b \in Pc
  BY DEF Pc, Open, Closed
<1>u. t \in Thread
  BY <1>t, <1>b, ThreadUpdate
<1>v. t.self = thread[c].self /\ t.frames = thread[c].frames /\ t.pc = b
  BY <1>t DEF Thread
<1>w. /\ thread' = [thread EXCEPT ![c] = t]
      /\ t.pc \in InSchedule => t.core = c
  BY <1>t DEF TypeOK, Thread, DisableIrq, Goto, GotoIrqsOff, Return, CoreOK, At, InSchedule
<1>f. /\ t.frames # <<>> => t.pc \in InHandler
      /\ t.pc = "irq_exit" => t.frames # <<>>
      /\ t.pc # "sched_acquire" =>
           \A k \in 1 .. Len(t.frames) : t.frames[k].pc # "np_link"
  BY <1>t, <1>v, SchedulerAssumption
  DEF DisableIrq, At, CoreOK, StackOK, InHandler, LockFollowsCore, HoldsTable
<1>l. /\ HoldsTable(t) <=> lock' = c
      /\ (lock \in {c, NULL} /\ lock' \in {c, NULL}) \/ lock' = lock
  BY <1>t, <1>v, <1>f, SchedulerAssumption
  DEF DisableIrq, At, LockFollowsCore, HoldsTable, Holding
<1>1. Shifts(c, t)
  BY <1>t, <1>u, <1>v, <1>w, <1>f, <1>l
  DEF Shifts, DisableIrq, At, GotoIrqsOff, TableUnchanged, table, process, TypeOK,
      BootPlaces, ShellPlaces, InSchedule, Closed, CoreOK, ListIsQueue
<1> QED
  BY <1>1, ShiftStep

\* Taking the lock in schedule().
LEMMA SchedAcquireIInv ==
  ASSUME IInv, NEW c \in Core, SchedAcquire(c)
  PROVE  IInv'
<1> DEFINE b == "sched_body"
           t == [thread[c] EXCEPT !.pc = b]
<1>t. /\ TypeOK /\ CoreOK(c) /\ thread[c] \in Thread
      /\ LockFollowsCore /\ ListIsQueue
  BY DEF IInv, TypeOK
<1>b. b \in Pc
  BY DEF Pc, Open, Closed
<1>u. t \in Thread
  BY <1>t, <1>b, ThreadUpdate
<1>v. t.self = thread[c].self /\ t.frames = thread[c].frames /\ t.pc = b
  BY <1>t DEF Thread
<1>w. /\ thread' = [thread EXCEPT ![c] = t]
      /\ t.pc \in InSchedule => t.core = c
  BY <1>t DEF TypeOK, Thread, SchedAcquire, Goto, GotoIrqsOff, Return, CoreOK, At, InSchedule
<1>f. /\ t.frames # <<>> => t.pc \in InHandler
      /\ t.pc = "irq_exit" => t.frames # <<>>
      /\ t.pc # "sched_acquire" =>
           \A k \in 1 .. Len(t.frames) : t.frames[k].pc # "np_link"
  BY <1>t, <1>v, SchedulerAssumption
  DEF SchedAcquire, At, CoreOK, StackOK, InHandler, LockFollowsCore, HoldsTable
<1>l. /\ HoldsTable(t) <=> lock' = c
      /\ (lock \in {c, NULL} /\ lock' \in {c, NULL}) \/ lock' = lock
  BY <1>t, <1>v, <1>f, SchedulerAssumption
  DEF SchedAcquire, At, LockFollowsCore, HoldsTable, Holding
<1>1. Shifts(c, t)
  BY <1>t, <1>u, <1>v, <1>w, <1>f, <1>l
  DEF Shifts, SchedAcquire, At, GotoIrqsOff, TableUnchanged, table, process, TypeOK,
      BootPlaces, ShellPlaces, InSchedule, Closed, CoreOK, ListIsQueue
<1> QED
  BY <1>1, ShiftStep

\* Leaving schedule() with nothing to switch to.
LEMMA IdleIInv ==
  ASSUME IInv, NEW c \in Core, Idle(c)
  PROVE  IInv'
<1> DEFINE b == ReturnPoint(c)
           t == [thread[c] EXCEPT !.pc = b, !.core = NULL]
<1>t. /\ TypeOK /\ CoreOK(c) /\ thread[c] \in Thread
      /\ LockFollowsCore /\ ListIsQueue
  BY DEF IInv, TypeOK
<1>b. b \in Pc
  BY DEF Pc, Open, Closed, ReturnPoint
<1>u. t \in Thread
  BY <1>t, <1>b, ThreadUpdate
<1>v. t.self = thread[c].self /\ t.frames = thread[c].frames /\ t.pc = b
  BY <1>t DEF Thread
<1>w. /\ thread' = [thread EXCEPT ![c] = t]
      /\ t.pc \in InSchedule => t.core = c
  BY <1>t DEF TypeOK, Thread, Idle, Goto, GotoIrqsOff, Return, CoreOK, At, InSchedule, ReturnPoint
<1>f. /\ t.frames # <<>> => t.pc \in InHandler
      /\ t.pc = "irq_exit" => t.frames # <<>>
      /\ t.pc # "sched_acquire" =>
           \A k \in 1 .. Len(t.frames) : t.frames[k].pc # "np_link"
  BY <1>t, <1>v, SchedulerAssumption
  DEF Idle, At, CoreOK, StackOK, InHandler, LockFollowsCore, HoldsTable, ReturnPoint
<1>l. /\ HoldsTable(t) <=> lock' = c
      /\ (lock \in {c, NULL} /\ lock' \in {c, NULL}) \/ lock' = lock
  BY <1>t, <1>v, <1>f, SchedulerAssumption
  DEF Idle, At, LockFollowsCore, HoldsTable, Holding, ReturnPoint
<1>q. queue = <<>>
  <2>1. queue # <<>> => queue[1] \in Page
    BY <1>t DEF TypeOK
  <2> QED
    BY <1>t, <2>1, SchedulerAssumption DEF Idle, ListIsQueue
<1>1. Shifts(c, t)
  BY <1>q, <1>t, <1>u, <1>v, <1>w, <1>f, <1>l
  DEF Shifts, Idle, At, GotoIrqsOff, TableUnchanged, table, process, TypeOK,
      BootPlaces, ShellPlaces, InSchedule, Closed, CoreOK, ListIsQueue, ReturnPoint
<1> QED
  BY <1>1, ShiftStep

\* Leaving schedule() after a switch back.
LEMMA SchedReturnIInv ==
  ASSUME IInv, NEW c \in Core, SchedReturn(c)
  PROVE  IInv'
<1> DEFINE b == ReturnPoint(c)
           t == [thread[c] EXCEPT !.pc = b, !.core = NULL]
<1>t. /\ TypeOK /\ CoreOK(c) /\ thread[c] \in Thread
      /\ LockFollowsCore /\ ListIsQueue
  BY DEF IInv, TypeOK
<1>b. b \in Pc
  BY DEF Pc, Open, Closed, ReturnPoint
<1>u. t \in Thread
  BY <1>t, <1>b, ThreadUpdate
<1>v. t.self = thread[c].self /\ t.frames = thread[c].frames /\ t.pc = b
  BY <1>t DEF Thread
<1>w. /\ thread' = [thread EXCEPT ![c] = t]
      /\ t.pc \in InSchedule => t.core = c
  BY <1>t DEF TypeOK, Thread, SchedReturn, Goto, GotoIrqsOff, Return, CoreOK, At, InSchedule, ReturnPoint
<1>f. /\ t.frames # <<>> => t.pc \in InHandler
      /\ t.pc = "irq_exit" => t.frames # <<>>
      /\ t.pc # "sched_acquire" =>
           \A k \in 1 .. Len(t.frames) : t.frames[k].pc # "np_link"
  BY <1>t, <1>v, SchedulerAssumption
  DEF SchedReturn, At, CoreOK, StackOK, InHandler, LockFollowsCore, HoldsTable, ReturnPoint
<1>l. /\ HoldsTable(t) <=> lock' = c
      /\ (lock \in {c, NULL} /\ lock' \in {c, NULL}) \/ lock' = lock
  BY <1>t, <1>v, <1>f, SchedulerAssumption
  DEF SchedReturn, At, LockFollowsCore, HoldsTable, Holding, ReturnPoint
<1>1. Shifts(c, t)
  BY <1>t, <1>u, <1>v, <1>w, <1>f, <1>l
  DEF Shifts, SchedReturn, At, GotoIrqsOff, TableUnchanged, table, process, TypeOK,
      BootPlaces, ShellPlaces, InSchedule, Closed, CoreOK, ListIsQueue, ReturnPoint
<1> QED
  BY <1>1, ShiftStep


\* The stack after an interrupt: the interrupted place is its last frame.
LEMMA PushFrame ==
  ASSUME NEW f \in Seq(Frame), NEW x \in Frame
  PROVE  /\ Append(f, x) \in Seq(Frame)
         /\ Len(Append(f, x)) = Len(f) + 1
         /\ \A k \in 1 .. Len(f) : Append(f, x)[k] = f[k]
         /\ Append(f, x)[Len(f) + 1] = x
         /\ Append(f, x) # <<>>
  OBVIOUS

\* The stack after the return from one.
LEMMA PopFrame ==
  ASSUME NEW f \in Seq(Frame), f # <<>>
  PROVE  /\ Len(f) \in Nat /\ Len(f) >= 1 /\ f[Len(f)] \in Frame /\ f[1] \in Frame
         /\ SubSeq(f, 1, Len(f) - 1) \in Seq(Frame)
         /\ Len(SubSeq(f, 1, Len(f) - 1)) = Len(f) - 1
         /\ \A k \in 1 .. Len(f) - 1 : SubSeq(f, 1, Len(f) - 1)[k] = f[k]
         /\ SubSeq(f, 1, Len(f) - 1) = <<>> <=> Len(f) = 1
<1>1. Len(f) \in Nat /\ Len(f) >= 1 /\ f[Len(f)] \in Frame /\ f[1] \in Frame
  OBVIOUS
<1> DEFINE n == Len(f) - 1
           g == SubSeq(f, 1, n)
<1>2. n \in Int /\ n >= 0 /\ \A k \in 1 .. n : f[k] \in Frame
  BY <1>1
<1> HIDE DEF n
<1>3. /\ g \in Seq(Frame)
      /\ Len(g) = IF 1 <= n THEN n - 1 + 1 ELSE 0
      /\ \A k \in 1 .. n - 1 + 1 : g[k] = f[1 + k - 1]
  BY <1>2, SubSeqProperties
<1> HIDE DEF g
<1>4. g \in Seq(Frame) /\ Len(g) = n /\ \A k \in 1 .. n : g[k] = f[k]
  BY <1>2, <1>3
<1>5. g = <<>> <=> n = 0
  BY <1>4, EmptySeq
<1> QED
  BY <1>1, <1>4, <1>5 DEF n, g

\* The timer interrupt puts a frame on the stack, and the table can wait.
LEMMA TimerIrqIInv ==
  ASSUME IInv, NEW c \in Core, TimerIrq(c)
  PROVE  IInv'
<1> DEFINE t == thread[c]
           x == [pc |-> t.pc, core |-> t.core]
<1>t. /\ TypeOK /\ CoreOK(c) /\ StackOK(t) /\ InHand(t) /\ LockFollowsCore
      /\ t \in Thread /\ t.frames \in Seq(Frame)
      /\ t.pc \in IrqPoints /\ t.pc \in Open
  BY SchedulerAssumption DEF IInv, NewPageOK, CoreOK, TypeOK, Thread, TimerIrq
<1>x. x \in Frame
  BY <1>t DEF Thread, Frame
<1> DEFINE f == Append(t.frames, x)
<1>f. /\ f \in Seq(Frame) /\ Len(f) = Len(t.frames) + 1 /\ f # <<>>
      /\ \A k \in 1 .. Len(t.frames) : f[k] = t.frames[k]
      /\ f[Len(t.frames) + 1].pc = t.pc
      /\ Len(t.frames) \in Nat
      /\ t.frames = <<>> <=> Len(t.frames) = 0
  BY <1>t, <1>x, PushFrame, EmptySeq
<1> HIDE DEF f, x
<1>u. /\ thread' = [thread EXCEPT ![c] = thread'[c]]
      /\ thread'[c] = [self |-> t.self, pc |-> "sched_acquire", core |-> c, frames |-> f]
      /\ masked' = [masked EXCEPT ![c] = TRUE]
  BY <1>t DEF TimerIrq, TypeOK, f, x
<1>v. /\ thread'[c] \in Thread
      /\ thread'[c].self = t.self /\ thread'[c].pc = "sched_acquire"
      /\ thread'[c].core = c /\ thread'[c].frames = f
  BY <1>t, <1>u, <1>f DEF Thread, Pc, Closed
<1>p. Place(thread'[c]) = Place(t)
  <2>1. CASE t.frames = <<>>
    BY <1>f, <1>v, <2>1 DEF Place
  <2>2. CASE t.frames # <<>>
    BY <1>f, <1>v, <2>2 DEF Place
  <2> QED
    BY <2>1, <2>2
<1>i. t.pc = "irq_exit" <=> t.frames # <<>>
  BY <1>t DEF StackOK, InHandler, Open
<1>1. TypeOK'
  <2>1. thread' \in [Core -> Thread] /\ masked' \in [Core -> BOOLEAN]
    BY <1>t, <1>u, <1>v DEF TypeOK
  <2> QED
    BY <1>t, <2>1 DEF TypeOK, TimerIrq, table, process
<1>2. StackOK(thread[c])'
  <2>1. ASSUME NEW k \in 1 .. Len(f)
        PROVE  f[k].pc \in IrqPoints /\ (f[k].pc = "irq_exit" <=> k > 1)
    <3>1. CASE k \in 1 .. Len(t.frames)
      BY <1>t, <1>f, <3>1 DEF StackOK
    <3>2. CASE k = Len(t.frames) + 1
      BY <1>t, <1>f, <1>i, <3>2
    <3> QED
      BY <1>f, <3>1, <3>2
  <2>2. Place(t) \in ShellPlaces => t.self = Shell /\ role[Shell] = "shell"
    BY <1>t DEF StackOK
  <2> QED
    BY <1>v, <1>p, <2>1, <2>2 DEF StackOK, InHandler, TimerIrq, process
<1>3. CoreOK(c)'
  <2>1. t.self # NULL
    BY <1>t DEF CoreOK, BootPlaces, Open
  <2> QED
    BY <1>t, <1>u, <1>v, <1>2, <2>1 DEF CoreOK, TypeOK, At, BootPlaces
<1>4. InHand(thread[c])'
  BY <1>t, <1>v, <1>p DEF InHand, TimerIrq, process
<1>5. LockFollowsCore'
  <2>1. HoldsTable(thread'[c]) <=> HoldsTable(t)
    <3>1. HoldsTable(t) => HoldsTable(thread'[c])
      BY <1>t, <1>f, <1>v DEF HoldsTable, Holding, Open
    <3>2. HoldsTable(thread'[c]) => HoldsTable(t)
      BY <1>t, <1>f, <1>v DEF HoldsTable, Holding
    <3> QED
      BY <3>1, <3>2
  <2>2. lock' = lock
    BY DEF TimerIrq
  <2> QED
    BY <1>t, <1>u, <2>1, <2>2, LockStep DEF LockFollowsCore
<1>6. \A d \in Core \ {c} : masked'[d] = masked[d]
  BY <1>t, <1>u DEF TypeOK
<1>7. TableUnchanged /\ tail' = tail /\ ~At(c, "sched_body")
  BY <1>t DEF TimerIrq, TableUnchanged, table, process, At, Open
<1> QED
  BY <1>u, <1>v, <1>1, <1>3, <1>4, <1>5, <1>6, <1>7, LocalStep

\* The return from the interrupt finds the core where schedule() read it.
LEMMA IrqExitIInv ==
  ASSUME NoStaleCore, IInv, NEW c \in Core, IrqExit(c)
  PROVE  IInv'
<1> DEFINE t == thread[c]
           n == Len(t.frames)
<1>t. /\ TypeOK /\ CoreOK(c) /\ StackOK(t) /\ InHand(t) /\ LockFollowsCore
      /\ t \in Thread /\ t.frames \in Seq(Frame)
      /\ t.pc = "irq_exit" /\ t.frames # <<>>
  BY DEF IInv, NewPageOK, CoreOK, StackOK, TypeOK, Thread, IrqExit
<1> DEFINE f == SubSeq(t.frames, 1, n - 1)
           x == t.frames[n]
<1>f. /\ f \in Seq(Frame) /\ n \in Nat /\ n >= 1 /\ Len(f) = n - 1
      /\ \A k \in 1 .. Len(f) : f[k] = t.frames[k]
      /\ x \in Frame
      /\ f = <<>> <=> n = 1
  BY <1>t, PopFrame
<1>x. /\ x.pc \in IrqPoints /\ x.pc \in Open /\ x.pc # "np_link" /\ x.pc # "sched_irqoff"
      /\ x.pc = "irq_exit" <=> n > 1
      /\ \A k \in 1 .. Len(f) : t.frames[k].pc # "np_link"
  <2>1. n \in 1 .. Len(t.frames) /\ \A k \in 1 .. Len(f) : k \in 1 .. Len(t.frames)
    BY <1>f
  <2>2. \A k \in 1 .. Len(t.frames) :
          /\ t.frames[k].pc \in IrqPoints
          /\ t.frames[k].pc = "irq_exit" <=> k > 1
          /\ t.frames[k].pc # "np_link"
    BY <1>t DEF StackOK
  <2>3. /\ x.pc \in IrqPoints /\ x.pc # "np_link"
        /\ x.pc = "irq_exit" <=> n > 1
    BY <2>1, <2>2
  <2>4. x.pc \in Open /\ x.pc # "sched_irqoff"
    BY <2>3, SchedulerAssumption DEF NoStaleCore
  <2> QED
    BY <2>1, <2>2, <2>3, <2>4
<1>u. /\ thread' = [thread EXCEPT ![c] = thread'[c]]
      /\ thread'[c] = [self |-> t.self, pc |-> x.pc, core |-> x.core, frames |-> f]
      /\ masked' = [masked EXCEPT ![c] = FALSE]
  BY <1>t DEF IrqExit, TypeOK
<1> HIDE DEF f, x
<1>v. /\ thread'[c] \in Thread
      /\ thread'[c].self = t.self /\ thread'[c].pc = x.pc
      /\ thread'[c].core = x.core /\ thread'[c].frames = f
  BY <1>t, <1>u, <1>f DEF Thread, Pc, Frame
<1>p. Place(thread'[c]) = Place(t)
  <2>1. CASE n = 1
    BY <1>t, <1>f, <1>v, <2>1 DEF Place, x
  <2>2. CASE n # 1
    BY <1>t, <1>f, <1>v, <2>2 DEF Place
  <2> QED
    BY <2>1, <2>2
<1>1. TypeOK'
  <2>1. thread' \in [Core -> Thread] /\ masked' \in [Core -> BOOLEAN]
    BY <1>t, <1>u, <1>v DEF TypeOK
  <2> QED
    BY <1>t, <2>1 DEF TypeOK, IrqExit, table, process
<1>2. StackOK(thread[c])'
  <2>1. ASSUME NEW k \in 1 .. Len(f)
        PROVE  /\ f[k].pc \in IrqPoints /\ (f[k].pc = "irq_exit" <=> k > 1)
               /\ f[k].pc # "np_link"
    BY <1>t, <1>f, <1>x DEF StackOK
  <2>2. Place(t) \in ShellPlaces => t.self = Shell /\ role[Shell] = "shell"
    BY <1>t DEF StackOK
  <2>3. f # <<>> <=> x.pc = "irq_exit"
    BY <1>f, <1>x
  <2> QED
    BY <1>v, <1>p, <2>1, <2>2, <2>3 DEF StackOK, InHandler, IrqExit, process
<1>3. CoreOK(c)'
  <2>1. t.self # NULL
    BY <1>t DEF CoreOK, BootPlaces
  <2>2. x.pc \notin BootPlaces \cup InSchedule \cup Closed
    BY <1>x DEF BootPlaces, InSchedule, Closed, Open
  <2> QED
    BY <1>t, <1>u, <1>v, <1>2, <2>1, <2>2 DEF CoreOK, TypeOK, At
<1>4. InHand(thread[c])'
  BY <1>t, <1>v, <1>p DEF InHand, IrqExit, process
<1>5. LockFollowsCore'
  <2>1. ~HoldsTable(t)
    BY <1>t DEF HoldsTable, Holding, StackOK
  <2>2. ~HoldsTable(thread'[c])
    BY <1>f, <1>x, <1>v DEF HoldsTable, Holding, Open
  <2>3. lock' = lock
    BY DEF IrqExit
  <2> QED
    BY <1>t, <1>u, <2>1, <2>2, <2>3, LockStep DEF LockFollowsCore
<1>6. \A d \in Core \ {c} : masked'[d] = masked[d]
  BY <1>t, <1>u DEF TypeOK
<1>7. TableUnchanged /\ tail' = tail /\ ~At(c, "sched_body")
  BY <1>t DEF IrqExit, TableUnchanged, table, process, At
<1> QED
  BY <1>u, <1>v, <1>1, <1>3, <1>4, <1>5, <1>6, <1>7, LocalStep

\* What the invariant says of who is where.
LEMMA Whereabouts ==
  ASSUME IInv
  PROVE  /\ \A p \in Page : Queued(p) \/ Executing(p) \/ p = newPage => p \in used
         /\ \A c, d \in Core : thread[c].self = thread[d].self =>
              c = d \/ thread[c].self = NULL
         /\ \A c \in Core : ~Queued(thread[c].self)
         /\ \A p \in Page : Queued(p) => ~Executing(p) /\ saved[p].self = p
         /\ \A c \in Core : thread[c] \in Thread /\ thread[c].self \in Page \cup {NULL}
         /\ \A k \in 1 .. Len(queue) : queue[k] \in Page /\ Queued(queue[k])
         /\ \A p : Queued(p) => p \in Page
         /\ Len(queue) \in Nat /\ (queue = <<>> <=> Len(queue) = 0)
         /\ head = NULL <=> queue = <<>>
<1>1. TypeOK /\ OneCorePerProcess /\ PagesAccounted /\ ListIsQueue
  BY DEF IInv
<1>2. Len(queue) \in Nat /\ (queue = <<>> <=> Len(queue) = 0)
  BY <1>1, EmptySeq DEF TypeOK
<1>3. \A k \in 1 .. Len(queue) : queue[k] \in Page /\ Queued(queue[k])
  BY <1>1 DEF TypeOK, Queued
<1>4. \A p : Queued(p) => p \in Page
  BY <1>3 DEF Queued
<1>5. head = NULL <=> queue = <<>>
  BY <1>1, <1>2, <1>3, SchedulerAssumption DEF ListIsQueue
<1>6. \A c \in Core : thread[c] \in Thread /\ thread[c].self \in Page \cup {NULL}
  BY <1>1 DEF TypeOK, Thread
<1>7. \A p \in Page : Queued(p) => ~Executing(p) /\ saved[p].self = p
  BY <1>1 DEF OneCorePerProcess, Queued, Executing
<1>8. \A c \in Core : ~Queued(thread[c].self)
  BY <1>1 DEF OneCorePerProcess
<1>9. \A c, d \in Core : thread[c].self = thread[d].self =>
            c = d \/ thread[c].self = NULL
  BY <1>1 DEF OneCorePerProcess
<1>10. \A p \in Page : Queued(p) \/ Executing(p) \/ p = newPage => p \in used
  BY <1>1 DEF PagesAccounted
<1> QED
  BY <1>2, <1>3, <1>4, <1>5, <1>6, <1>7, <1>8, <1>9, <1>10

\* A core that a step leaves alone.
LEMMA CoreKept ==
  ASSUME IInv, NEW d \in Core, thread'[d] = thread[d], masked'[d] = masked[d],
         role'[Shell] = role[Shell] \/ thread[d].self # Shell
  PROVE  CoreOK(d)'
  BY DEF IInv, CoreOK, StackOK, Place, At

\* A waiting process that a step leaves alone.
LEMMA SavedKept ==
  ASSUME IInv, NEW p \in Page, Queued(p), saved'[p] = saved[p],
         role'[Shell] = role[Shell] \/ p # Shell
  PROVE  SavedOK(p)'
  BY DEF IInv, SavedOK, StackOK, Place

\* start_scheduler takes a page for the core's kernel thread.
LEMMA StartBodyIInv ==
  ASSUME IInv, NEW c \in Core, StartBody(c)
  PROVE  IInv'
<1>t. /\ TypeOK /\ CoreOK(c) /\ LockFollowsCore /\ ListIsQueue /\ OneCorePerProcess
      /\ PagesAccounted /\ NewPageOK
      /\ \A p \in Page : role[p] = "shell" => p = Shell
  BY DEF IInv
<1>w. /\ thread[c].self = NULL /\ thread[c].frames = <<>> /\ thread[c].pc = "ss_body"
      /\ thread[c] \in Thread /\ masked[c]
  BY <1>t DEF StartBody, At, CoreOK, BootPlaces, Closed, TypeOK
<1>p. PICK p \in Page :
        /\ p \notin used
        /\ used' = used \cup {p}
        /\ state' = [state EXCEPT ![p] = "RUNNING"]
        /\ next' = [next EXCEPT ![p] = NULL]
        /\ pid' = [pid EXCEPT ![p] = numProcs + 1]
        /\ role' = [role EXCEPT ![p] = "kthread"]
        /\ current' = [current EXCEPT ![c] = p]
        /\ thread' = [thread EXCEPT ![c].self = p, ![c].pc = "ss_timer"]
  BY DEF StartBody, FirstFree, TakePage, NewPid
<1>s. UNCHANGED <<memLock, head, tail, saved, masked, newPage, queue>> /\ lock' = NULL
      /\ numProcs' = numProcs + 1
  BY DEF StartBody, NewPid
<1>n. ~Queued(p) /\ ~Executing(p) /\ p # newPage /\ p # NULL
  BY <1>p, Whereabouts, SchedulerAssumption
<1>u. /\ thread'[c] = [thread[c] EXCEPT !.self = p, !.pc = "ss_timer"]
      /\ thread' = [thread EXCEPT ![c] = thread'[c]]
      /\ \A d \in Core \ {c} : thread'[d] = thread[d]
  BY <1>t, <1>p DEF TypeOK
<1>v. /\ thread'[c] \in Thread /\ thread'[c].self = p /\ thread'[c].pc = "ss_timer"
      /\ thread'[c].frames = <<>>
  BY <1>w, <1>u DEF Thread, Pc, Closed
<1>q. /\ \A q : Queued(q)' <=> Queued(q)
      /\ \A q \in Page : Executing(q)' <=> Executing(q) \/ q = p
  <2>1. \A q : Queued(q)' <=> Queued(q)
    BY <1>s DEF Queued
  <2>2. \A q \in Page : Executing(q)' <=> Executing(q) \/ q = p
    BY <1>u, <1>v, <1>w, SchedulerAssumption DEF Executing
  <2> QED
    BY <2>1, <2>2
<1>r. role'[Shell] = role[Shell] \/ p = Shell
  BY <1>t, <1>p, SchedulerAssumption DEF TypeOK
<1>1. TypeOK'
  <2>1. thread' \in [Core -> Thread]
    BY <1>t, <1>u, <1>v DEF TypeOK
  <2> QED
    BY <1>t, <1>p, <1>s, <2>1 DEF TypeOK, Role
<1>2. ListIsQueue'
  <2>1. \A k \in 1 .. Len(queue) : next'[queue[k]] = next[queue[k]]
    BY <1>t, <1>p, <1>n, Whereabouts DEF TypeOK
  <2>2. (\E d \in Core : At(d, "sched_body")) => \E d \in Core : At(d, "sched_body")'
    BY <1>u, <1>w DEF At
  <2> QED
    BY <1>t, <1>s, <2>1, <2>2 DEF ListIsQueue
<1>3. OneCorePerProcess'
  <2>1. current'[c] = p /\ \A d \in Core \ {c} : current'[d] = current[d]
    BY <1>t, <1>p DEF TypeOK
  <2>2. \A d \in Core : current[d] # p
    BY <1>t, <1>n DEF OneCorePerProcess, Executing
  <2>3. \A d \in Core : ~Queued(current[d])'
    BY <1>t, <1>s, <1>n, <2>1 DEF OneCorePerProcess, Queued
  <2>4. \A d \in Core : current'[d] = thread'[d].self
    BY <1>t, <1>u, <1>v, <2>1 DEF OneCorePerProcess
  <2>5. \A d, e \in Core : current'[d] = current'[e] => d = e \/ current'[d] = NULL
    BY <1>t, <2>1, <2>2 DEF OneCorePerProcess
  <2> QED
    BY <1>t, <1>s, <2>3, <2>4, <2>5 DEF OneCorePerProcess
<1>4. PagesAccounted'
  BY <1>t, <1>p, <1>s, <1>q DEF PagesAccounted
<1>5. LockFollowsCore'
  <2>1. lock = c
    BY <1>t, <1>w DEF LockFollowsCore, HoldsTable, Holding
  <2>2. ~HoldsTable(thread'[c]) /\ lock' # c
    BY <1>v, <1>s, SchedulerAssumption DEF HoldsTable, Holding
  <2> QED
    BY <1>t, <1>u, <1>s, <2>1, <2>2, LockStep
<1>6. ASSUME NEW d \in Core PROVE CoreOK(d)'
  <2>1. CASE d = c
    BY <1>v, <1>s, <1>w, <1>n, <2>1
    DEF CoreOK, StackOK, Place, BootPlaces, InSchedule, ShellPlaces, Closed, At
  <2>2. CASE d # c
    <3>1. role'[Shell] = role[Shell] \/ thread[d].self # Shell
      BY <1>n, <1>r DEF Executing
    <3> QED
      BY <1>u, <1>s, <2>2, <3>1, CoreKept
  <2> QED
    BY <2>1, <2>2
<1>7. ASSUME NEW q \in Page, Queued(q)' PROVE SavedOK(q)'
  BY <1>7, <1>q, <1>s, <1>n, <1>r, SavedKept
<1>8. NewPageOK'
  <2>r. role'[Shell] = "shell" => role[Shell] = "shell" /\ p # Shell
    BY <1>t, <1>p, SchedulerAssumption DEF TypeOK
  <2>1. newPage' # NULL => /\ ~Queued(newPage)' /\ ~Executing(newPage)'
                           /\ saved'[newPage'] = NewContext(newPage')
                           /\ next'[newPage'] = NULL
    BY <1>t, <1>p, <1>q, <1>n, <1>s DEF NewPageOK, TypeOK, Executing, Queued
  <2>2. ASSUME NEW d \in Core PROVE InHand(thread[d])'
    <3>1. CASE d = c
      BY <1>v, <2>r, <3>1 DEF InHand
    <3>2. CASE d # c
      <4>1. InHand(thread[d])
        BY <1>t DEF NewPageOK
      <4>2. thread'[d] = thread[d]
        BY <1>u, <3>2
      <4> QED
        BY <1>s, <2>r, <4>1, <4>2 DEF InHand, Place
    <3> QED
      BY <3>1, <3>2
  <2>3. ASSUME NEW q \in Page, Queued(q)' PROVE InHand(saved[q])'
    BY <1>t, <1>s, <1>q, <2>3, <2>r DEF NewPageOK, InHand, Place
  <2> QED
    BY <2>1, <2>2, <2>3 DEF NewPageOK
<1>9. \A q \in Page : role'[q] = "shell" => q = Shell
  BY <1>t, <1>p DEF TypeOK
<1> QED
  BY <1>1, <1>2, <1>3, <1>4, <1>5, <1>6, <1>7, <1>8, <1>9 DEF IInv

\* The list without its first process.
LEMMA TailOfQueue ==
  ASSUME NEW q \in Seq(Page), q # <<>>
  PROVE  /\ Tail(q) \in Seq(Page) /\ Len(Tail(q)) = Len(q) - 1
         /\ \A k \in 1 .. Len(q) - 1 : Tail(q)[k] = q[k + 1]
         /\ Tail(q) = <<>> <=> Len(q) = 1
<1>1. Len(q) \in Nat
  BY LenProperties
<1>2. /\ Tail(q) \in Seq(Page) /\ Len(Tail(q)) = Len(q) - 1
      /\ \A k \in 1 .. Len(Tail(q)) : Tail(q)[k] = q[k + 1]
  BY HeadTailProperties
<1>3. Tail(q) = <<>> <=> Len(Tail(q)) = 0
  BY <1>2, EmptySeq
<1> QED
  BY <1>1, <1>2, <1>3

\* The filter loop unlinks the first process of the list.
LEMMA ReapIInv ==
  ASSUME IInv, NEW c \in Core, Reap(c)
  PROVE  IInv'
<1>t. /\ TypeOK /\ LockFollowsCore /\ ListIsQueue /\ OneCorePerProcess
      /\ PagesAccounted /\ NewPageOK
      /\ \A p \in Page : role[p] = "shell" => p = Shell
  BY DEF IInv
<1> DEFINE h == queue[1]
           n == Len(queue)
<1>h. /\ n \in Nat /\ n >= 1 /\ h \in Page /\ Queued(h) /\ head = h
      /\ queue # <<>> /\ queue \in Seq(Page) /\ h # NULL
  BY <1>t, Whereabouts, SchedulerAssumption DEF Reap, Terminated, FreePage, ListIsQueue, TypeOK
<1>s. /\ head' = next[h] /\ used' = used \ {h}
      /\ next' = [next EXCEPT ![h] = NULL]
      /\ state' = [state EXCEPT ![h] = "SLEEP"]
      /\ pid' = [pid EXCEPT ![h] = 0]
      /\ role' = [role EXCEPT ![h] = "prog"]
      /\ saved' = [saved EXCEPT ![h] = NewContext(h)]
      /\ queue' = Tail(queue)
      /\ UNCHANGED <<lock, memLock, tail, current, numProcs, thread, masked, newPage>>
      /\ At(c, "sched_body")
  BY <1>h DEF Reap, Terminated, FreePage
<1>q. /\ queue' \in Seq(Page) /\ Len(queue') = n - 1
      /\ \A k \in 1 .. n - 1 : queue'[k] = queue[k + 1]
      /\ queue' = <<>> <=> n = 1
  BY <1>h, <1>s, TailOfQueue
<1>d. \A k \in 2 .. n : queue[k] # h /\ queue[k] \in Page /\ Queued(queue[k])
  BY <1>t, <1>h, Whereabouts DEF OneCorePerProcess
<1> HIDE DEF h, n
<1>e. \A p \in Page : Queued(p)' <=> Queued(p) /\ p # h
  <2>1. ASSUME NEW p \in Page, Queued(p), p # h PROVE Queued(p)'
    <3>1. PICK k \in 1 .. n : queue[k] = p
      BY <2>1 DEF Queued, n
    <3>2. k \in 2 .. n
      BY <1>h, <2>1, <3>1 DEF h
    <3>3. k - 1 \in 1 .. n - 1 /\ queue'[k - 1] = p
      BY <1>h, <1>q, <3>1, <3>2
    <3> QED
      BY <1>q, <3>3 DEF Queued
  <2>2. ASSUME NEW p \in Page, Queued(p)' PROVE Queued(p) /\ p # h
    <3>1. PICK k \in 1 .. n - 1 : queue'[k] = p
      BY <2>2, <1>q DEF Queued
    <3>2. queue[k + 1] = p /\ k + 1 \in 2 .. n
      BY <1>h, <1>q, <3>1
    <3> QED
      BY <1>d, <3>2
  <2> QED
    BY <2>1, <2>2
<1>f. /\ ~Executing(h) /\ h # newPage
      /\ \A p \in Page : Executing(p)' <=> Executing(p)
  BY <1>t, <1>h, <1>s, Whereabouts DEF NewPageOK, Executing
<1>r. /\ role'[Shell] = role[Shell] \/ h = Shell
      /\ role'[Shell] = "shell" => role[Shell] = "shell"
  BY <1>t, <1>s, SchedulerAssumption DEF TypeOK
<1>1. TypeOK'
  <2>1. NewContext(h) \in Thread
    BY <1>h, EmptySeq DEF NewContext, Thread, Pc, Closed
  <2> QED
    BY <1>t, <1>h, <1>s, <1>q, <2>1 DEF TypeOK, Role
<1>2. ListIsQueue'
  <2>1. \A k \in 2 .. n : next'[queue[k]] = IF k = n THEN NULL ELSE queue[k + 1]
    BY <1>t, <1>h, <1>s, <1>d DEF ListIsQueue, TypeOK, n
  <2>2. \A k \in 1 .. Len(queue') :
          next'[queue'[k]] = IF k = Len(queue') THEN NULL ELSE queue'[k + 1]
    BY <1>h, <1>q, <2>1
  <2>3. head' = IF queue' = <<>> THEN NULL ELSE queue'[1]
    <3>1. next[h] = IF n = 1 THEN NULL ELSE queue[2]
      <4>1. \A k \in 1 .. n : next[queue[k]] = IF k = n THEN NULL ELSE queue[k + 1]
        BY <1>t DEF ListIsQueue, n
      <4>2. 1 \in 1 .. n /\ 1 + 1 = 2
        BY <1>h
      <4> QED
        BY <4>1, <4>2 DEF h
    <3> QED
      BY <1>h, <1>s, <1>q, <3>1
  <2>4. queue' # <<>> => tail' = queue'[Len(queue')]
    <3>1. tail' = queue[n]
      BY <1>t, <1>h, <1>s DEF ListIsQueue, n
    <3> QED
      BY <1>h, <1>q, <3>1
  <2>5. \E d \in Core : At(d, "sched_body")'
    BY <1>s DEF At
  <2> QED
    BY <2>2, <2>3, <2>4, <2>5 DEF ListIsQueue
<1>3. OneCorePerProcess'
  <2>1. \A d \in Core : ~Queued(current[d])'
    <3>1. ASSUME NEW d \in Core, NEW k \in 1 .. n - 1, queue'[k] = current[d] PROVE FALSE
      <4>1. k + 1 \in 2 .. n /\ queue[k + 1] = current[d]
        BY <1>h, <1>q, <3>1
      <4> QED
        BY <1>t, <1>d, <4>1 DEF OneCorePerProcess
    <3> QED
      BY <3>1, <1>s, <1>q DEF Queued
  <2>2. \A j, k \in 1 .. Len(queue') : queue'[j] = queue'[k] => j = k
    <3>1. \A j, k \in 1 .. n : queue[j] = queue[k] => j = k
      BY <1>t DEF OneCorePerProcess, n
    <3> QED
      BY <1>h, <1>q, <3>1
  <2>3. \A k \in 1 .. Len(queue') : saved'[queue'[k]].self = queue'[k]
    <3>1. \A k \in 2 .. n : saved'[queue[k]].self = queue[k]
      BY <1>t, <1>s, <1>d, Whereabouts DEF TypeOK
    <3> QED
      BY <1>h, <1>q, <3>1
  <2> QED
    BY <1>t, <1>s, <2>1, <2>2, <2>3 DEF OneCorePerProcess
<1>4. PagesAccounted'
  BY <1>t, <1>s, <1>e, <1>f DEF PagesAccounted
<1>5. LockFollowsCore'
  BY <1>t, <1>s DEF LockFollowsCore, HoldsTable
<1>6. ASSUME NEW d \in Core PROVE CoreOK(d)'
  <2>1. role'[Shell] = role[Shell] \/ thread[d].self # Shell
    BY <1>f, <1>r DEF Executing
  <2> QED
    BY <1>s, <2>1, CoreKept
<1>7. ASSUME NEW p \in Page, Queued(p)' PROVE SavedOK(p)'
  <2>1. Queued(p) /\ p # h
    BY <1>e, <1>7
  <2>2. saved'[p] = saved[p]
    BY <1>t, <1>s, <2>1 DEF TypeOK
  <2> QED
    BY <1>r, <2>1, <2>2, SavedKept
<1>8. NewPageOK'
  <2>1. newPage' # NULL => ~Queued(newPage)' /\ ~Executing(newPage)'
    BY <1>t, <1>s, <1>q, <1>d DEF NewPageOK, Executing, Queued, n
  <2>2. newPage' # NULL => /\ saved'[newPage'] = NewContext(newPage')
                           /\ next'[newPage'] = NULL
    BY <1>t, <1>s, <1>f DEF NewPageOK, TypeOK
  <2>3. ASSUME NEW d \in Core PROVE InHand(thread[d])'
    BY <1>t, <1>s, <1>r DEF NewPageOK, InHand, Place
  <2>4. ASSUME NEW p \in Page, Queued(p)' PROVE InHand(saved[p])'
    <3>1. saved'[p] = saved[p] /\ InHand(saved[p])
      BY <1>t, <1>s, <1>e, <2>4 DEF TypeOK, NewPageOK
    <3> QED
      BY <1>s, <1>r, <3>1 DEF InHand, Place
  <2> QED
    BY <2>1, <2>2, <2>3, <2>4 DEF NewPageOK
<1>9. \A p \in Page : role'[p] = "shell" => p = Shell
  BY <1>t, <1>s DEF TypeOK
<1> QED
  BY <1>1, <1>2, <1>3, <1>4, <1>5, <1>6, <1>7, <1>8, <1>9 DEF IInv

\* The list rotated: its first process taken, another one appended.
LEMMA RotatedQueue ==
  ASSUME NEW q \in Seq(Page), q # <<>>, NEW p \in Page
  PROVE  /\ Append(Tail(q), p) \in Seq(Page) /\ Len(Append(Tail(q), p)) = Len(q)
         /\ \A k \in 1 .. Len(q) - 1 : Append(Tail(q), p)[k] = q[k + 1]
         /\ Append(Tail(q), p)[Len(q)] = p
         /\ Append(Tail(q), p) # <<>>
<1> DEFINE r == Tail(q)
<1>1. /\ r \in Seq(Page) /\ Len(r) = Len(q) - 1 /\ Len(q) \in Nat
      /\ \A k \in 1 .. Len(q) - 1 : r[k] = q[k + 1]
  BY TailOfQueue, LenProperties
<1> HIDE DEF r
<1>2. /\ Append(r, p) \in Seq(Page) /\ Append(r, p) # <<>>
      /\ Len(Append(r, p)) = Len(r) + 1
      /\ \A k \in 1 .. Len(r) : Append(r, p)[k] = r[k]
      /\ Append(r, p)[Len(r) + 1] = p
  BY <1>1, AppendProperties
<1> QED
  BY <1>1, <1>2 DEF r

\* schedule() pulls the head, appends its caller and switches the stacks.
LEMMA SwitchIInv ==
  ASSUME IInv, NEW c \in Core, Switch(c)
  PROVE  IInv'
<1>t. /\ TypeOK /\ LockFollowsCore /\ ListIsQueue /\ OneCorePerProcess
      /\ PagesAccounted /\ NewPageOK /\ CoreOK(c)
      /\ \A p \in Page : role[p] = "shell" => p = Shell
      /\ \A p \in Page : Queued(p) => SavedOK(p)
  BY DEF IInv
<1> DEFINE h == queue[1]
           n == Len(queue)
           prev == thread[c].self
           kept == [thread[c] EXCEPT !.pc = "sched_ret", !.core = NULL]
<1>w. /\ thread[c].pc = "sched_body" /\ thread[c].core = c /\ masked[c]
      /\ thread[c] \in Thread
      /\ prev \in Page /\ prev # NULL /\ current[c] = prev
  BY <1>t, SchedulerAssumption
  DEF Switch, At, CoreOK, InSchedule, BootPlaces, Closed, TypeOK, OneCorePerProcess, Thread
<1>h. /\ n \in Nat /\ n >= 1 /\ h \in Page /\ Queued(h) /\ head = h
      /\ queue # <<>> /\ queue \in Seq(Page) /\ h # NULL
  <2>1. head # NULL
    BY DEF Switch
  <2> QED
    BY <1>t, <2>1, Whereabouts, SchedulerAssumption DEF ListIsQueue, TypeOK
<1>l. /\ \A k \in 1 .. n : next[queue[k]] = IF k = n THEN NULL ELSE queue[k + 1]
      /\ tail = queue[n]
      /\ \A j, k \in 1 .. n : queue[j] = queue[k] => j = k
      /\ \A k \in 1 .. n : queue[k] \in Page /\ Queued(queue[k]) /\ queue[k] # NULL
      /\ \A k \in 1 .. n : saved[queue[k]].self = queue[k]
      /\ ~Queued(prev)
  BY <1>t, <1>h, Whereabouts, SchedulerAssumption DEF ListIsQueue, OneCorePerProcess
<1>d. /\ \A k \in 1 .. n : queue[k] # prev
      /\ \A k \in 2 .. n : queue[k] # h
      /\ n \in 1 .. n /\ 1 \in 1 .. n
  BY <1>h, <1>l
<1>r. next[h] = NULL <=> n = 1
  <2>1. \A m \in Nat : m >= 1 /\ m # 1 => 1 + 1 \in 1 .. m
    OBVIOUS
  <2>2. n # 1 => 1 + 1 \in 1 .. n
    BY <1>h, <2>1
  <2> QED
    BY <1>l, <1>d, <2>2
<1>s. /\ head' = IF n = 1 THEN prev ELSE next[h]
      /\ tail' = prev
      /\ next' = IF n = 1 THEN [next EXCEPT ![prev] = NULL]
                 ELSE [next EXCEPT ![prev] = NULL, ![tail] = prev]
      /\ current' = [current EXCEPT ![c] = h]
      /\ saved' = [saved EXCEPT ![prev] = kept]
      /\ thread' = [thread EXCEPT ![c] = saved'[h]]
      /\ queue' = Append(Tail(queue), prev)
      /\ UNCHANGED <<lock, memLock, used, numProcs, state, pid, role, masked, newPage>>
  BY <1>w, <1>h, <1>r DEF Switch, Terminated, Linked
<1>q. /\ queue' \in Seq(Page) /\ Len(queue') = n /\ queue' # <<>>
      /\ \A k \in 1 .. n - 1 : queue'[k] = queue[k + 1]
      /\ queue'[n] = prev
  BY <1>h, <1>w, <1>s, RotatedQueue
<1>k. /\ kept \in Thread /\ kept.self = prev /\ kept.pc = "sched_ret"
      /\ kept.frames = thread[c].frames
  BY <1>w, ThreadUpdate DEF Thread, Pc, Closed
<1> HIDE DEF h, n, prev, kept
<1>v. /\ saved'[prev] = kept
      /\ \A p \in Page : p # prev => saved'[p] = saved[p]
      /\ thread'[c] = saved[h] /\ thread'[c] \in Thread
      /\ thread'[c].self = h /\ thread'[c].pc \in {"sched_ret", "ret_from_fork"}
      /\ thread' = [thread EXCEPT ![c] = thread'[c]]
      /\ \A d \in Core \ {c} : thread'[d] = thread[d]
  <2>1. h # prev /\ saved[h].self = h
    BY <1>d, <1>l DEF h
  <2>2. saved[h].pc \in {"sched_ret", "ret_from_fork"}
    BY <1>t, <1>h DEF SavedOK
  <2> QED
    BY <1>t, <1>w, <1>h, <1>s, <2>1, <2>2 DEF TypeOK
<1>e. \A p \in Page : Queued(p)' <=> (Queued(p) /\ p # h) \/ p = prev
  <2>1. ASSUME NEW p \in Page, Queued(p), p # h PROVE Queued(p)'
    <3>1. PICK k \in 1 .. n : queue[k] = p
      BY <2>1 DEF Queued, n
    <3>2. k \in 2 .. n
      BY <1>h, <2>1, <3>1 DEF h
    <3>3. k - 1 \in 1 .. n - 1 /\ k - 1 \in 1 .. n /\ queue'[k - 1] = p
      BY <1>h, <1>q, <3>1, <3>2
    <3> QED
      BY <1>q, <3>3 DEF Queued
  <2>2. ASSUME NEW p \in Page, p = prev PROVE Queued(p)'
    BY <1>q, <1>d, <2>2 DEF Queued
  <2>3. ASSUME NEW p \in Page, Queued(p)' PROVE (Queued(p) /\ p # h) \/ p = prev
    <3>1. PICK k \in 1 .. n : queue'[k] = p
      BY <2>3, <1>q DEF Queued
    <3>2. CASE k = n
      BY <1>q, <3>1, <3>2
    <3>3. CASE k # n
      <4>1. queue[k + 1] = p /\ k + 1 \in 2 .. n /\ k + 1 \in 1 .. n
        BY <1>h, <1>q, <3>1, <3>3
      <4> QED
        BY <1>d, <1>l, <4>1
    <3> QED
      BY <3>2, <3>3
  <2> QED
    BY <2>1, <2>2, <2>3
<1>f. \A p \in Page : Executing(p)' <=> (Executing(p) /\ p # prev) \/ p = h
  <2>1. \A d \in Core \ {c} : thread[d].self # prev
    BY <1>w, Whereabouts DEF prev
  <2> QED
    BY <1>v, <2>1 DEF Executing, prev
<1>1. TypeOK'
  <2>1. saved' \in [Page -> Thread] /\ thread' \in [Core -> Thread]
    BY <1>t, <1>k, <1>s, <1>v DEF TypeOK
  <2>2. head' \in Page \cup {NULL} /\ tail' \in Page \cup {NULL}
        /\ next' \in [Page -> Page \cup {NULL}] /\ current' \in [Core -> Page \cup {NULL}]
    BY <1>t, <1>w, <1>h, <1>s DEF TypeOK
  <2> QED
    BY <1>t, <1>s, <1>q, <2>1, <2>2 DEF TypeOK
<1>2. ListIsQueue'
  <2>1. head' = queue'[1]
    <3>1. CASE n = 1
      BY <1>s, <1>q, <3>1
    <3>2. CASE n # 1
      <4>1. 1 \in 1 .. n - 1 /\ 1 + 1 = 2
        BY <1>h, <3>2
      <4>2. queue'[1] = queue[2] /\ next[h] = queue[2]
        BY <1>q, <1>l, <1>d, <3>2, <4>1 DEF h
      <4> QED
        BY <1>s, <3>2, <4>2
    <3> QED
      BY <3>1, <3>2
  <2>2. ASSUME NEW k \in 1 .. n
        PROVE  next'[queue'[k]] = IF k = n THEN NULL ELSE queue'[k + 1]
    <3>1. prev \in Page /\ tail \in Page /\ prev # tail
      BY <1>w, <1>l, <1>d
    <3>2. CASE k = n
      BY <1>t, <1>s, <1>q, <3>1, <3>2 DEF TypeOK
    <3>3. CASE k # n /\ k + 1 = n
      <4>1. k \in 1 .. n - 1 /\ queue'[k] = tail /\ n # 1
        BY <1>h, <1>q, <1>l, <3>3
      <4>2. next'[tail] = prev
        BY <1>t, <1>s, <3>1, <4>1 DEF TypeOK
      <4> QED
        BY <1>q, <3>3, <4>1, <4>2
    <3>4. CASE k # n /\ k + 1 # n
      <4>1. /\ k \in 1 .. n - 1 /\ k + 1 \in 1 .. n - 1 /\ k + 1 \in 1 .. n /\ n # 1
            /\ queue'[k] = queue[k + 1] /\ queue'[k + 1] = queue[k + 1 + 1]
        BY <1>h, <1>q, <3>4
      <4>2. queue[k + 1] # prev /\ queue[k + 1] # tail /\ queue[k + 1] \in Page
        BY <1>l, <1>d, <3>4, <4>1
      <4>3. next'[queue[k + 1]] = next[queue[k + 1]]
        BY <1>t, <1>s, <3>1, <4>1, <4>2 DEF TypeOK
      <4>4. next[queue[k + 1]] = queue[k + 1 + 1]
        BY <1>l, <3>4, <4>1
      <4> QED
        BY <3>4, <4>1, <4>3, <4>4
    <3> QED
      BY <3>2, <3>3, <3>4
  <2> QED
    BY <1>s, <1>q, <2>1, <2>2 DEF ListIsQueue
<1>3. OneCorePerProcess'
  <2>1. current'[c] = h /\ \A d \in Core \ {c} : current'[d] = current[d]
    BY <1>t, <1>s DEF TypeOK
  <2>2. \A d \in Core : current'[d] = thread'[d].self
    BY <1>t, <1>v, <2>1 DEF OneCorePerProcess
  <2>3. \A d \in Core : current[d] # h
    BY <1>t, <1>h DEF OneCorePerProcess
  <2>4. \A d, e \in Core : current'[d] = current'[e] => d = e \/ current'[d] = NULL
    BY <1>t, <2>1, <2>3 DEF OneCorePerProcess
  <2>5. ASSUME NEW d \in Core PROVE ~Queued(current[d])'
    <3>1. \A k \in 1 .. n : queue'[k] # current'[d]
      <4>1. ASSUME NEW k \in 1 .. n, queue'[k] = current'[d] PROVE FALSE
        <5>1. CASE k = n
          <6>1. current'[d] = prev /\ d # c
            BY <1>q, <1>d, <2>1, <4>1, <5>1 DEF h
          <6> QED
            BY <1>t, <1>w, <2>1, <6>1 DEF OneCorePerProcess
        <5>2. CASE k # n
          <6>1. k + 1 \in 1 .. n /\ k + 1 \in 2 .. n /\ queue[k + 1] = current'[d]
            BY <1>h, <1>q, <4>1, <5>2
          <6>2. Queued(queue[k + 1]) /\ queue[k + 1] # h
            BY <1>l, <1>d, <6>1
          <6> QED
            BY <1>t, <2>1, <6>1, <6>2 DEF OneCorePerProcess
        <5> QED
          BY <5>1, <5>2
      <4> QED
        BY <4>1
    <3> QED
      BY <1>q, <3>1 DEF Queued
  <2>6. \A j, k \in 1 .. n : queue'[j] = queue'[k] => j = k
    <3>1. ASSUME NEW j \in 1 .. n, NEW k \in 1 .. n, queue'[j] = queue'[k] PROVE j = k
      <4>1. CASE j = n \/ k = n
        <5>1. \A i \in 1 .. n : i # n => queue'[i] # prev
          <6>1. \A i \in 1 .. n : i # n => i \in 1 .. n - 1 /\ i + 1 \in 1 .. n
            BY <1>h
          <6> QED
            BY <1>q, <1>d, <6>1
        <5> QED
          BY <1>q, <3>1, <4>1, <5>1
      <4>2. CASE j # n /\ k # n
        <5>1. /\ j \in 1 .. n - 1 /\ k \in 1 .. n - 1 /\ j + 1 \in 1 .. n /\ k + 1 \in 1 .. n
          BY <1>h, <4>2
        <5>2. j + 1 = k + 1
          BY <1>q, <1>l, <3>1, <5>1
        <5> QED
          BY <5>2
      <4> QED
        BY <4>1, <4>2
    <3> QED
      BY <3>1
  <2>7. ASSUME NEW k \in 1 .. n PROVE saved'[queue'[k]].self = queue'[k]
    <3>1. CASE k = n
      BY <1>q, <1>v, <1>k, <3>1
    <3>2. CASE k # n
      <4>1. k \in 1 .. n - 1 /\ k + 1 \in 1 .. n
        BY <1>h, <3>2
      <4> QED
        BY <1>q, <1>l, <1>d, <1>v, <4>1
    <3> QED
      BY <3>1, <3>2
  <2> QED
    BY <1>q, <2>2, <2>4, <2>5, <2>6, <2>7 DEF OneCorePerProcess
<1>4. PagesAccounted'
  <2>1. Queued(h) /\ Executing(prev)
    BY <1>h DEF Executing, prev
  <2> QED
    BY <1>t, <1>s, <1>e, <1>f, <2>1 DEF PagesAccounted
<1>5. LockFollowsCore'
  <2>1. lock = c
    BY <1>t, <1>w DEF LockFollowsCore, HoldsTable, Holding
  <2>2. HoldsTable(thread'[c])
    BY <1>v DEF HoldsTable, Holding
  <2> QED
    BY <1>t, <1>v, <1>s, <2>1, <2>2, LockStep
<1>6. ASSUME NEW d \in Core PROVE CoreOK(d)'
  <2>1. CASE d = c
    <3>1. StackOK(saved[h])
      BY <1>t, <1>h DEF SavedOK
    <3>2. StackOK(thread[c])'
      BY <1>s, <1>v, <3>1 DEF StackOK, Place
    <3> QED
      BY <1>w, <1>h, <1>s, <1>v, <2>1, <3>2 DEF CoreOK, At, BootPlaces, InSchedule
  <2>2. CASE d # c
    BY <1>v, <1>s, <2>2, CoreKept
  <2> QED
    BY <2>1, <2>2
<1>p. (Place(kept) \in ShellPlaces \/ Place(kept) \in {"np_lock", "np_link"}
        \/ Place(thread[c]) \in {"np_lock", "np_link"}) => Place(kept) = Place(thread[c])
  BY <1>w, <1>k DEF Place, ShellPlaces
<1>7. ASSUME NEW p \in Page, Queued(p)' PROVE SavedOK(p)'
  <2>1. CASE p = prev
    <3>1. StackOK(thread[c]) /\ thread[c].self = prev
      BY <1>t DEF CoreOK, prev
    <3>2. StackOK(saved[p])'
      BY <1>w, <1>k, <1>s, <1>v, <1>p, <2>1, <3>1 DEF StackOK, Place, InHandler
    <3> QED
      BY <1>k, <1>v, <2>1, <3>2 DEF SavedOK
  <2>2. CASE p # prev
    BY <1>e, <1>s, <1>v, <1>7, <2>2, SavedKept
  <2> QED
    BY <2>1, <2>2
<1>8. NewPageOK'
  <2>1. newPage # NULL => /\ newPage \in Page /\ newPage # prev /\ newPage # h /\ newPage # tail
                          /\ ~Queued(newPage) /\ ~Executing(newPage)
    BY <1>t, <1>h, <1>l, <1>d DEF NewPageOK, TypeOK, Executing, prev
  <2>2. newPage' # NULL => ~Queued(newPage)' /\ ~Executing(newPage)'
    <3>1. newPage # NULL => \A k \in 1 .. n : queue'[k] # newPage
      <4>1. ASSUME newPage # NULL, NEW k \in 1 .. n PROVE queue'[k] # newPage
        <5>1. k # n => k \in 1 .. n - 1 /\ k + 1 \in 1 .. n
          BY <1>h
        <5> QED
          BY <1>q, <1>l, <2>1, <4>1, <5>1
      <4> QED
        BY <4>1
    <3>2. newPage # NULL => \A d \in Core : thread'[d].self # newPage
      BY <1>v, <2>1 DEF Executing
    <3> QED
      BY <1>s, <1>q, <3>1, <3>2 DEF Queued, Executing
  <2>3. newPage' # NULL => saved'[newPage'] = NewContext(newPage') /\ next'[newPage'] = NULL
    BY <1>t, <1>s, <1>v, <2>1 DEF NewPageOK, TypeOK
  <2>4. ASSUME NEW d \in Core PROVE InHand(thread[d])'
    <3>1. CASE d = c
      BY <1>t, <1>h, <1>s, <1>v, <3>1 DEF NewPageOK, InHand, Place
    <3>2. CASE d # c
      BY <1>t, <1>s, <1>v, <3>2 DEF NewPageOK, InHand, Place
    <3> QED
      BY <3>1, <3>2
  <2>5. ASSUME NEW p \in Page, Queued(p)' PROVE InHand(saved[p])'
    <3>1. CASE p = prev
      <4>1. InHand(thread[c])
        BY <1>t DEF NewPageOK
      <4>2. InHand(kept)
        BY <1>k, <1>p, <4>1 DEF InHand, prev
      <4> QED
        BY <1>s, <1>v, <3>1, <4>2 DEF InHand, Place
    <3>2. CASE p # prev
      <4>1. saved'[p] = saved[p] /\ InHand(saved[p])
        BY <1>t, <1>e, <1>v, <2>5, <3>2 DEF NewPageOK
      <4> QED
        BY <1>s, <4>1 DEF InHand, Place
    <3> QED
      BY <3>1, <3>2
  <2> QED
    BY <2>2, <2>3, <2>4, <2>5 DEF NewPageOK
<1>9. \A p \in Page : role'[p] = "shell" => p = Shell
  BY <1>t, <1>s
<1> QED
  BY <1>1, <1>2, <1>3, <1>4, <1>5, <1>6, <1>7, <1>8, <1>9 DEF IInv

\* new_process takes a page and fills in the process.
LEMMA NpAllocIInv ==
  ASSUME IInv, NEW c \in Core, NpAlloc(c)
  PROVE  IInv'
<1>t. /\ TypeOK /\ CoreOK(c) /\ LockFollowsCore /\ ListIsQueue /\ OneCorePerProcess
      /\ PagesAccounted /\ NewPageOK /\ StackOK(thread[c]) /\ InHand(thread[c])
      /\ \A p \in Page : role[p] = "shell" => p = Shell
  BY DEF IInv, CoreOK, NewPageOK
<1>w. /\ thread[c].frames = <<>> /\ thread[c].pc = "np_alloc" /\ thread[c] \in Thread
      /\ thread[c].self = Shell /\ role[Shell] = "shell"
      /\ newPage = NULL /\ Executing(Shell) /\ Shell \in Page /\ Shell # NULL
  BY <1>t, SchedulerAssumption
  DEF NpAlloc, At, StackOK, InHandler, Place, ShellPlaces, InHand, TypeOK, Executing
<1>p. PICK p \in Page :
        /\ p \notin used
        /\ used' = used \cup {p}
        /\ newPage' = p
        /\ state' = [state EXCEPT ![p] = "RUNNING"]
        /\ role' = [role EXCEPT ![p] = "prog"]
        /\ saved' = [saved EXCEPT ![p] = NewContext(p)]
        /\ next' = [next EXCEPT ![p] = NULL]
  BY DEF NpAlloc, FirstFree, TakePage
<1>s. /\ UNCHANGED <<lock, head, tail, current, numProcs, pid, masked, queue>>
      /\ memLock' = NULL
      /\ thread' = [thread EXCEPT ![c].pc = "np_lock"]
  BY DEF NpAlloc, table, Goto
<1>n. /\ ~Queued(p) /\ ~Executing(p) /\ p # NULL /\ p # Shell /\ ~Queued(Shell)
      /\ \A d \in Core \ {c} : thread[d].self # Shell
  BY <1>p, <1>w, Whereabouts, SchedulerAssumption
<1>u. /\ thread'[c] = [thread[c] EXCEPT !.pc = "np_lock"]
      /\ thread' = [thread EXCEPT ![c] = thread'[c]]
      /\ \A d \in Core \ {c} : thread'[d] = thread[d]
  BY <1>t, <1>s DEF TypeOK
<1>v. /\ thread'[c] \in Thread /\ thread'[c].self = Shell /\ thread'[c].pc = "np_lock"
      /\ thread'[c].frames = <<>>
  BY <1>w, <1>u DEF Thread, Pc, Open
<1>q. /\ \A q : Queued(q)' <=> Queued(q)
      /\ \A q \in Page : Executing(q)' <=> Executing(q)
  <2>1. \A q : Queued(q)' <=> Queued(q)
    BY <1>s DEF Queued
  <2>2. \A d \in Core : thread'[d].self = thread[d].self
    BY <1>u, <1>v, <1>w
  <2> QED
    BY <2>1, <2>2 DEF Executing
<1>r. role'[Shell] = role[Shell]
  BY <1>t, <1>p, <1>n, <1>w DEF TypeOK
<1>c. NewContext(p) \in Thread
  BY <1>p, EmptySeq DEF NewContext, Thread, Pc, Closed
<1>1. TypeOK'
  <2>1. thread' \in [Core -> Thread]
    BY <1>t, <1>u, <1>v DEF TypeOK
  <2> QED
    BY <1>t, <1>p, <1>s, <1>c, <2>1 DEF TypeOK, Role
<1>2. ListIsQueue'
  <2>1. \A k \in 1 .. Len(queue) : next'[queue[k]] = next[queue[k]]
    BY <1>t, <1>p, <1>n, Whereabouts DEF TypeOK
  <2>2. (\E d \in Core : At(d, "sched_body")) => \E d \in Core : At(d, "sched_body")'
    BY <1>u, <1>w DEF At
  <2> QED
    BY <1>t, <1>s, <2>1, <2>2 DEF ListIsQueue
<1>3. OneCorePerProcess'
  <2>1. \A k \in 1 .. Len(queue) : saved'[queue[k]].self = queue[k]
    BY <1>t, <1>p, <1>n, Whereabouts DEF TypeOK
  <2>2. \A d \in Core : current'[d] = thread'[d].self
    BY <1>t, <1>s, <1>u, <1>v, <1>w DEF OneCorePerProcess
  <2>3. \A d \in Core : ~Queued(current[d])'
    BY <1>t, <1>s DEF OneCorePerProcess, Queued
  <2> QED
    BY <1>t, <1>s, <2>1, <2>2, <2>3 DEF OneCorePerProcess
<1>4. PagesAccounted'
  BY <1>t, <1>p, <1>w, <1>q, SchedulerAssumption DEF PagesAccounted
<1>5. LockFollowsCore'
  <2>1. ~HoldsTable(thread[c]) /\ ~HoldsTable(thread'[c])
    BY <1>v, <1>w DEF HoldsTable, Holding
  <2> QED
    BY <1>t, <1>u, <1>s, <2>1, LockStep DEF LockFollowsCore
<1>6. ASSUME NEW d \in Core PROVE CoreOK(d)'
  <2>1. CASE d = c
    BY <1>v, <1>w, <1>r, <2>1
    DEF CoreOK, StackOK, Place, BootPlaces, InSchedule, Closed, At
  <2>2. CASE d # c
    BY <1>u, <1>s, <1>r, <2>2, CoreKept
  <2> QED
    BY <2>1, <2>2
<1>7. ASSUME NEW q \in Page, Queued(q)' PROVE SavedOK(q)'
  <2>1. saved'[q] = saved[q]
    BY <1>t, <1>p, <1>q, <1>n, <1>7 DEF TypeOK
  <2> QED
    BY <1>7, <1>q, <1>r, <2>1, SavedKept
<1>8. NewPageOK'
  <2>1. newPage' # NULL => /\ ~Queued(newPage)' /\ ~Executing(newPage)'
                           /\ saved'[newPage'] = NewContext(newPage')
                           /\ next'[newPage'] = NULL
    <3>1. saved'[p] = NewContext(p) /\ next'[p] = NULL
      BY <1>t, <1>p DEF TypeOK
    <3>2. ~Queued(newPage)'
      BY <1>p, <1>s, <1>n DEF Queued
    <3>3. ~Executing(newPage)'
      BY <1>p, <1>u, <1>v, <1>n DEF Executing
    <3> QED
      BY <1>p, <3>1, <3>2, <3>3
  <2>2. ASSUME NEW d \in Core PROVE InHand(thread[d])'
    <3>1. CASE d = c
      BY <1>p, <1>v, <1>n, <3>1 DEF InHand, Place
    <3>2. CASE d # c
      BY <1>u, <1>n, <3>2 DEF InHand
    <3> QED
      BY <3>1, <3>2
  <2>3. ASSUME NEW q \in Page, Queued(q)' PROVE InHand(saved[q])'
    <3>1. saved'[q] = saved[q] /\ saved[q].self = q /\ q # Shell
      BY <1>t, <1>p, <1>q, <1>n, <2>3, Whereabouts DEF TypeOK
    <3> QED
      BY <3>1 DEF InHand
  <2> QED
    BY <2>1, <2>2, <2>3 DEF NewPageOK
<1>9. \A q \in Page : role'[q] = "shell" => q = Shell
  BY <1>t, <1>p DEF TypeOK
<1> QED
  BY <1>1, <1>2, <1>3, <1>4, <1>5, <1>6, <1>7, <1>8, <1>9 DEF IInv

\* new_process appends the process and releases the lock.
LEMMA NpLinkIInv ==
  ASSUME IInv, NEW c \in Core, NpLink(c)
  PROVE  IInv'
<1>t. /\ TypeOK /\ CoreOK(c) /\ LockFollowsCore /\ ListIsQueue /\ OneCorePerProcess
      /\ PagesAccounted /\ NewPageOK /\ StackOK(thread[c]) /\ InHand(thread[c])
      /\ \A p \in Page : role[p] = "shell" => p = Shell
  BY DEF IInv, CoreOK, NewPageOK
<1> DEFINE p == newPage
           n == Len(queue)
<1>w. /\ thread[c].frames = <<>> /\ thread[c].pc = "np_link" /\ thread[c] \in Thread
      /\ thread[c].self = Shell /\ role[Shell] = "shell" /\ lock = c
      /\ Executing(Shell) /\ Shell \in Page /\ Shell # NULL
  BY <1>t, SchedulerAssumption
  DEF NpLink, At, StackOK, InHandler, Place, ShellPlaces, TypeOK, Executing,
      LockFollowsCore, HoldsTable, Holding
<1>p. p \in Page /\ p # NULL /\ ~Queued(p) /\ ~Executing(p)
      /\ saved[p] = NewContext(p) /\ next[p] = NULL
  BY <1>t, <1>w DEF InHand, Place, NewPageOK, TypeOK
<1>h. /\ n \in Nat /\ queue \in Seq(Page) /\ (head = NULL <=> n = 0) /\ (queue = <<>> <=> n = 0)
      /\ \A k \in 1 .. n : queue[k] \in Page /\ Queued(queue[k]) /\ queue[k] # NULL
  BY <1>t, Whereabouts, SchedulerAssumption DEF TypeOK
<1>s. /\ UNCHANGED <<memLock, used, current, state, role, saved, masked>>
      /\ numProcs' = numProcs + 1 /\ pid' = [pid EXCEPT ![p] = numProcs + 1]
      /\ head' = IF n = 0 THEN p ELSE head
      /\ next' = IF n = 0 THEN next ELSE [next EXCEPT ![tail] = p]
      /\ tail' = p /\ queue' = Append(queue, p) /\ newPage' = NULL /\ lock' = NULL
      /\ thread' = [thread EXCEPT ![c].pc = "sh"]
  BY <1>h DEF NpLink, NewPid, Goto
<1>u. /\ thread'[c] = [thread[c] EXCEPT !.pc = "sh"]
      /\ thread' = [thread EXCEPT ![c] = thread'[c]]
      /\ \A d \in Core \ {c} : thread'[d] = thread[d]
  BY <1>t, <1>s DEF TypeOK
<1>v. /\ thread'[c] \in Thread /\ thread'[c].self = Shell /\ thread'[c].pc = "sh"
      /\ thread'[c].frames = <<>>
      /\ \A d \in Core : thread'[d].self = thread[d].self
  BY <1>w, <1>u DEF Thread, Pc, Open
<1> HIDE DEF p, n
<1>q. /\ queue' \in Seq(Page) /\ Len(queue') = n + 1 /\ queue' # <<>>
      /\ \A k \in 1 .. n : queue'[k] = queue[k]
      /\ queue'[n + 1] = p
  BY <1>h, <1>p, <1>s, AppendProperties DEF n
<1>e. \A q \in Page : Queued(q)' <=> Queued(q) \/ q = p
  <2>1. \A k \in 1 .. n + 1 : k = n + 1 \/ k \in 1 .. n
    BY <1>h
  <2>2. \A k \in 1 .. n : k \in 1 .. n + 1
    BY <1>h
  <2>3. n + 1 \in 1 .. n + 1
    BY <1>h
  <2> QED
    BY <1>q, <2>1, <2>2, <2>3 DEF Queued, n
<1>f. \A q \in Page : Executing(q)' <=> Executing(q)
  BY <1>v DEF Executing
<1>n. /\ \A d \in Core \ {c} : thread[d].self # Shell
      /\ ~Queued(Shell) /\ p # Shell
  BY <1>w, <1>p, Whereabouts
<1>1. TypeOK'
  <2>1. thread' \in [Core -> Thread]
    BY <1>t, <1>u, <1>v DEF TypeOK
  <2>2. next' \in [Page -> Page \cup {NULL}]
    BY <1>t, <1>p, <1>s DEF TypeOK
  <2>3. pid' \in [Page -> Nat] /\ numProcs' \in Nat
    BY <1>t, <1>p, <1>s DEF TypeOK
  <2>4. head' \in Page \cup {NULL} /\ tail' \in Page \cup {NULL}
        /\ newPage' \in Page \cup {NULL} /\ lock' \in Core \cup {NULL}
    BY <1>t, <1>p, <1>s DEF TypeOK
  <2> QED
    BY <1>t, <1>s, <1>q, <2>1, <2>2, <2>3, <2>4 DEF TypeOK
<1>2. ListIsQueue'
  <2>1. CASE n = 0
    <3>1. \A k \in 1 .. n + 1 : k = n + 1 /\ k = 1
      BY <2>1
    <3>2. queue'[1] = p
      BY <1>q, <2>1
    <3> QED
      BY <1>p, <1>s, <1>q, <2>1, <3>1, <3>2 DEF ListIsQueue
  <2>2. CASE n # 0
    <3>1. /\ tail = queue[n] /\ n \in 1 .. n /\ 1 \in 1 .. n /\ tail \in Page /\ tail # p
          /\ head = queue[1]
          /\ \A k \in 1 .. n : next[queue[k]] = IF k = n THEN NULL ELSE queue[k + 1]
          /\ \A j, k \in 1 .. n : queue[j] = queue[k] => j = k
      BY <1>t, <1>h, <1>p, <2>2 DEF ListIsQueue, OneCorePerProcess, n
    <3>2. head' = queue'[1]
      BY <1>s, <1>q, <2>2, <3>1
    <3>3. next'[tail] = p /\ \A q \in Page : q # tail => next'[q] = next[q]
      BY <1>t, <1>s, <2>2, <3>1 DEF TypeOK
    <3>4. ASSUME NEW k \in 1 .. n + 1
          PROVE  next'[queue'[k]] = IF k = n + 1 THEN NULL ELSE queue'[k + 1]
      <4>1. CASE k = n + 1
        BY <1>p, <1>q, <3>1, <3>3, <4>1
      <4>2. CASE k = n
        BY <1>h, <1>q, <3>1, <3>3, <4>2
      <4>3. CASE k # n + 1 /\ k # n
        <5>1. k \in 1 .. n /\ k + 1 \in 1 .. n
          BY <1>h, <4>3
        <5>2. queue[k] # tail /\ queue[k] \in Page
          BY <1>h, <3>1, <4>3, <5>1
        <5> QED
          BY <1>q, <3>1, <3>3, <4>3, <5>1, <5>2
      <4> QED
        BY <4>1, <4>2, <4>3
    <3> QED
      BY <1>s, <1>q, <3>2, <3>4 DEF ListIsQueue
  <2> QED
    BY <2>1, <2>2
<1>3. OneCorePerProcess'
  <2>1. \A k \in 1 .. n + 1 : k \in 1 .. n \/ k = n + 1
    BY <1>h
  <2>2. \A d \in Core : current[d] # p /\ ~Queued(current[d])
    BY <1>t, <1>p DEF OneCorePerProcess, Executing
  <2>3. \A d \in Core : ~Queued(current[d])'
    BY <1>s, <1>q, <2>1, <2>2 DEF Queued, n
  <2>4. \A j, k \in 1 .. n + 1 : queue'[j] = queue'[k] => j = k
    <3>1. \A j, k \in 1 .. n : queue[j] = queue[k] => j = k
      BY <1>t DEF OneCorePerProcess, n
    <3>2. \A k \in 1 .. n : queue[k] # p
      BY <1>h, <1>p
    <3> QED
      BY <1>q, <2>1, <3>1, <3>2
  <2>5. \A k \in 1 .. n + 1 : saved'[queue'[k]].self = queue'[k]
    <3>1. saved[p].self = p
      BY <1>p DEF NewContext
    <3>2. \A k \in 1 .. n : saved[queue[k]].self = queue[k]
      BY <1>t DEF OneCorePerProcess, n
    <3> QED
      BY <1>s, <1>q, <2>1, <3>1, <3>2
  <2> QED
    BY <1>t, <1>s, <1>v, <1>q, <2>3, <2>4, <2>5 DEF OneCorePerProcess
<1>4. PagesAccounted'
  BY <1>t, <1>p, <1>s, <1>e, <1>f, SchedulerAssumption DEF PagesAccounted, p
<1>5. LockFollowsCore'
  <2>1. ~HoldsTable(thread'[c]) /\ lock' # c
    BY <1>v, <1>s, SchedulerAssumption DEF HoldsTable, Holding
  <2> QED
    BY <1>t, <1>u, <1>s, <1>w, <2>1, LockStep
<1>6. ASSUME NEW d \in Core PROVE CoreOK(d)'
  <2>1. CASE d = c
    BY <1>v, <1>w, <1>s, <2>1
    DEF CoreOK, StackOK, Place, BootPlaces, InSchedule, Closed, At
  <2>2. CASE d # c
    BY <1>u, <1>s, <2>2, CoreKept
  <2> QED
    BY <2>1, <2>2
<1>7. ASSUME NEW q \in Page, Queued(q)' PROVE SavedOK(q)'
  <2>1. CASE q = p
    <3>1. /\ saved'[q].self = q /\ saved'[q].pc = "ret_from_fork"
          /\ saved'[q].frames = <<>>
      BY <1>p, <1>s, <2>1 DEF NewContext
    <3> QED
      BY <3>1 DEF SavedOK, StackOK, Place, ShellPlaces
  <2>2. CASE q # p
    BY <1>e, <1>s, <1>7, <2>2, SavedKept
  <2> QED
    BY <2>1, <2>2
<1>8. NewPageOK'
  <2>1. ASSUME NEW d \in Core PROVE InHand(thread[d])'
    BY <1>s, <1>u, <1>v, <1>n DEF InHand, Place
  <2>2. ASSUME NEW q \in Page, Queued(q)' PROVE InHand(saved[q])'
    <3>1. saved[q].self = q /\ q # Shell
      BY <1>p, <1>e, <1>n, <2>2, Whereabouts DEF NewContext
    <3> QED
      BY <1>s, <3>1 DEF InHand
  <2> QED
    BY <1>s, <2>1, <2>2 DEF NewPageOK
<1>9. \A q \in Page : role'[q] = "shell" => q = Shell
  BY <1>t, <1>s
<1> QED
  BY <1>1, <1>2, <1>3, <1>4, <1>5, <1>6, <1>7, <1>8, <1>9 DEF IInv

\* The tables that kernel_main leaves behind.
LEMMA InitIInv == Init => IInv
<1> SUFFICES ASSUME Init PROVE IInv
  OBVIOUS
<1>q. queue \in Seq(Page) /\ Len(queue) = 1 /\ queue[1] = Shell /\ queue # <<>>
  BY SchedulerAssumption DEF Init
<1>s. Shell \in Page /\ Shell # NULL
  BY SchedulerAssumption
<1>n. \A p \in Page : NewContext(p) \in Thread
  BY EmptySeq DEF NewContext, Thread, Pc, Closed
<1>c. /\ \A c \in Core : /\ thread[c] \in Thread /\ thread[c].self = NULL
                         /\ thread[c].pc = "ss_acquire" /\ thread[c].frames = <<>>
  BY EmptySeq DEF Init, Thread, Pc, Closed
<1>1. TypeOK
  <2>1. saved \in [Page -> Thread]
    BY <1>n DEF Init
  <2>2. thread \in [Core -> Thread]
    BY EmptySeq DEF Init, Thread, Pc, Closed
  <2> QED
    BY <1>q, <1>s, <2>1, <2>2 DEF Init, TypeOK, Role
<1>2. ListIsQueue
  BY <1>q, <1>s DEF Init, ListIsQueue
<1>3. OneCorePerProcess
  <2>1. ~Queued(NULL) /\ \A c \in Core : current[c] = NULL
    BY <1>q, <1>s DEF Init, Queued
  <2> QED
    BY <1>q, <1>c, <1>s, <2>1 DEF Init, OneCorePerProcess, NewContext
<1>4. PagesAccounted
  BY <1>q, <1>c, <1>s, SchedulerAssumption DEF Init, PagesAccounted, Queued, Executing
<1>5. LockFollowsCore
  BY <1>c, SchedulerAssumption DEF Init, LockFollowsCore, HoldsTable, Holding
<1>6. \A c \in Core : CoreOK(c)
  BY <1>c DEF Init, CoreOK, StackOK, Place, At, ShellPlaces, BootPlaces, InSchedule, Closed
<1>7. \A p \in Page : SavedOK(p)
  BY DEF Init, SavedOK, StackOK, Place, ShellPlaces, NewContext
<1>8. NewPageOK
  <2>1. \A c \in Core : InHand(thread[c])
    BY <1>c, <1>s DEF InHand
  <2>2. \A p \in Page : InHand(saved[p])
    BY DEF Init, InHand, NewContext, Place
  <2> QED
    BY <2>1, <2>2 DEF Init, NewPageOK
<1>9. \A p \in Page : role[p] = "shell" => p = Shell
  BY DEF Init
<1> QED
  BY <1>1, <1>2, <1>3, <1>4, <1>5, <1>6, <1>7, <1>8, <1>9 DEF IInv

\* Every step of the specification keeps the invariant.
LEMMA NextIInv == NoStaleCore /\ IInv /\ [Next]_vars => IInv'
<1> SUFFICES ASSUME NoStaleCore, IInv, [Next]_vars PROVE IInv'
  OBVIOUS
<1>1. ASSUME NEW c \in Core, CoreStep(c) PROVE IInv'
  <2>1. ASSUME NEW n \in 1 .. numProcs, Kill(c, n) PROVE IInv'
    BY <2>1, KillIInv
  <2>2. ASSUME StartAcquire(c) \/ CallSchedule(c) \/ DisableIrq(c) \/ SchedAcquire(c)
               \/ Idle(c) \/ SchedReturn(c)
        PROVE  IInv'
    BY <2>2, StartAcquireIInv, CallScheduleIInv, DisableIrqIInv, SchedAcquireIInv,
       IdleIInv, SchedReturnIInv
  <2>3. ASSUME StartBody(c) \/ Reap(c) \/ Switch(c) \/ NpAlloc(c) \/ NpLink(c)
               \/ ScheduleTail(c) \/ IrqExit(c)
        PROVE  IInv'
    BY <2>3, StartBodyIInv, ReapIInv, SwitchIInv, NpAllocIInv, NpLinkIInv,
       ScheduleTailIInv, IrqExitIInv
  <2>4. ASSUME StartTimer(c) \/ NpLockMem(c) \/ NpNoPage(c) \/ NpLock(c) \/ KillMiss(c)
               \/ PrintPtable(c) \/ GetPid(c) \/ Exit(c)
        PROVE  IInv'
    BY <2>4, MovesIInv
  <2> QED
    BY <1>1, <2>1, <2>2, <2>3, <2>4 DEF CoreStep
<1>2. ASSUME NEW c \in Core, Input(c) PROVE IInv'
  BY <1>2, MovesIInv DEF Input
<1>3. ASSUME NEW c \in Core, TimerIrq(c) PROVE IInv'
  BY <1>3, TimerIrqIInv
<1>4. CASE UNCHANGED vars
  <2>1. UNCHANGED <<lock, memLock, used, head, tail, current, numProcs, next, state,
                    pid, role, saved, thread, masked, newPage, queue>>
    BY <1>4 DEF vars, table, process
  <2>2. /\ TypeOK' /\ ListIsQueue' /\ OneCorePerProcess' /\ PagesAccounted'
        /\ LockFollowsCore'
    BY <2>1 DEF IInv, TypeOK, ListIsQueue, At, OneCorePerProcess, PagesAccounted,
      Queued, Executing, LockFollowsCore, HoldsTable
  <2>3. (\A c \in Core : CoreOK(c))'
    BY <2>1 DEF IInv, CoreOK, StackOK, Place, At
  <2>4. (\A p \in Page : Queued(p) => SavedOK(p))'
    BY <2>1 DEF IInv, SavedOK, StackOK, Place, Queued
  <2>5. NewPageOK'
    BY <2>1 DEF IInv, NewPageOK, InHand, Place, Queued, Executing
  <2> QED
    BY <2>1, <2>2, <2>3, <2>4, <2>5 DEF IInv
<1> QED
  BY <1>1, <1>2, <1>3, <1>4 DEF Next

\* On a machine whose timer never fires between get_core() and irq_disable(),
\* every reachable state satisfies the inductive invariant.
THEOREM Invariance == ASSUME NoStaleCore PROVE Spec => []IInv
<1>1. Init => IInv
  BY InitIInv
<1>2. IInv /\ [Next]_vars => IInv'
  BY NextIInv
<1> QED
  BY <1>1, <1>2, PTL DEF Spec

\* The table, the stacks and the locks hold what their types say.
THEOREM TypesHold == ASSUME NoStaleCore PROVE Spec => []TypeOK
<1>1. IInv => TypeOK
  BY DEF IInv
<1> QED
  BY <1>1, Invariance, PTL

\* The list of schedule.c is the queue of processes that wait, in order: head,
\* tail and next agree, whatever the cores link, rotate and reap.
THEOREM ListStaysConsistent == ASSUME NoStaleCore PROVE Spec => []ListIsQueue
<1>1. IInv => ListIsQueue
  BY DEF IInv
<1> QED
  BY <1>1, Invariance, PTL

\* No process runs on two cores or runs while it waits, and ptable.current is
\* right on every core.
THEOREM NoProcessOnTwoCores == ASSUME NoStaleCore PROVE Spec => []OneCorePerProcess
<1>1. IInv => OneCorePerProcess
  BY DEF IInv
<1> QED
  BY <1>1, Invariance, PTL

\* Every page in use belongs to a process that runs, waits or is being made.
THEOREM NoPageLeaks == ASSUME NoStaleCore PROVE Spec => []PagesAccounted
<1>1. IInv => PagesAccounted
  BY DEF IInv
<1> QED
  BY <1>1, Invariance, PTL

\* The core that holds ptable.lock keeps it across the switch of stacks.
THEOREM LockStaysWithCore == ASSUME NoStaleCore PROVE Spec => []LockFollowsCore
<1>1. IInv => LockFollowsCore
  BY DEF IInv
<1> QED
  BY <1>1, Invariance, PTL

\* A program never executes with interrupts masked, so the timer can always
\* take its core away.
THEOREM ProgramsArePreemptible == ASSUME NoStaleCore PROVE Spec => []ProgramsRunUnmasked
<1>1. IInv => ProgramsRunUnmasked
  BY DEF IInv, CoreOK, ProgramsRunUnmasked
<1> QED
  BY <1>1, Invariance, PTL

\* The processes that run or wait.
Live == used \ {newPage}

\* The pids given out are at most numProcs and all different, and only a
\* process that runs or waits is a ZOMBIE.
Ledger ==
  /\ \A p \in Live : pid[p] <= numProcs
  /\ \A p, q \in Live : pid[p] = pid[q] => p = q
  /\ \A p \in Page : state[p] = "ZOMBIE" => p \in Live

\* With the invariant, Live is what the properties call it.
LEMMA LiveProcesses ==
  ASSUME IInv
  PROVE  /\ \A p \in Page : p \in Live <=> Queued(p) \/ Executing(p)
         /\ Live \subseteq Page
<1>1. /\ used \subseteq Page /\ PagesAccounted
      /\ newPage # NULL => ~Queued(newPage) /\ ~Executing(newPage)
  BY DEF IInv, TypeOK, NewPageOK
<1>2. \A p \in Page : p # NULL
  BY SchedulerAssumption
<1> QED
  BY <1>1, <1>2 DEF PagesAccounted, Live

\* The search of kill visits nothing but processes that run or wait.
LEMMA KillFindsLive ==
  ASSUME IInv, NEW p \in InTable
  PROVE  p \in Page /\ (Queued(p) \/ Executing(p))
<1>t. TypeOK /\ ListIsQueue /\ OneCorePerProcess
  BY DEF IInv
<1>1. CASE p \in {current[c] : c \in Core} \ {NULL}
  <2>1. PICK c \in Core : p = current[c] /\ p # NULL
    BY <1>1
  <2>2. current[c] \in Page \cup {NULL} /\ thread[c].self = p
    BY <1>t, <2>1 DEF OneCorePerProcess, TypeOK
  <2> QED
    BY <2>1, <2>2 DEF Executing
<1>2. CASE p \in InList
  <2> DEFINE S == {q \in Page : Queued(q)}
  <2>1. head \in S \cup {NULL}
    <3>1. CASE queue = <<>>
      BY <1>t, <3>1 DEF ListIsQueue
    <3>2. CASE queue # <<>>
      <4>1. head = queue[1] /\ 1 \in 1 .. Len(queue)
        BY <1>t, <3>2, Whereabouts DEF ListIsQueue
      <4> QED
        BY <4>1, Whereabouts
    <3> QED
      BY <3>1, <3>2
  <2>2. ASSUME NEW q \in S PROVE next[q] \in S \cup {NULL}
    <3>1. PICK k \in 1 .. Len(queue) : queue[k] = q
      BY DEF Queued
    <3>2. next[q] = IF k = Len(queue) THEN NULL ELSE queue[k + 1]
      BY <1>t, <3>1 DEF ListIsQueue
    <3>3. k # Len(queue) => k + 1 \in 1 .. Len(queue)
      BY Whereabouts
    <3> QED
      BY <3>2, <3>3, Whereabouts
  <2>3. S \in SUBSET Page /\ p \in Page
    BY <1>2 DEF InList
  <2> HIDE DEF S
  <2>4. p \in S
    BY <1>2, <2>1, <2>2, <2>3 DEF InList
  <2> QED
    BY <2>4 DEF S
<1> QED
  BY <1>1, <1>2 DEF InTable

\* The ledger is right at the start: the shell is process 1.
LEMMA InitLedger == Init => Ledger
  BY SchedulerAssumption DEF Init, Ledger, Live

\* Every step of the specification keeps the ledger.
LEMMA NextLedger == IInv /\ Ledger /\ IInv' /\ [Next]_vars => Ledger'
<1> SUFFICES ASSUME IInv, Ledger, IInv', [Next]_vars PROVE Ledger'
  OBVIOUS
<1>t. /\ TypeOK /\ TypeOK' /\ Live \subseteq Page /\ Live' \subseteq Page
      /\ Ledger
  BY LiveProcesses DEF IInv, Live, TypeOK
<1>0. ASSUME UNCHANGED <<used, newPage, pid, numProcs, state>> PROVE Ledger'
  BY <1>t, <1>0 DEF Ledger, Live
<1>1. ASSUME NEW c \in Core, StartBody(c) PROVE Ledger'
  <2>1. PICK p \in Page :
          /\ p \notin used /\ used' = used \cup {p}
          /\ pid' = [pid EXCEPT ![p] = numProcs + 1]
          /\ state' = [state EXCEPT ![p] = "RUNNING"]
    BY <1>1 DEF StartBody, FirstFree, TakePage, NewPid
  <2>2. newPage' = newPage /\ numProcs' = numProcs + 1 /\ p # newPage
    BY <1>1, <2>1, Whereabouts DEF StartBody, NewPid
  <2>3. Live' = Live \cup {p} /\ p \notin Live
    BY <2>1, <2>2 DEF Live
  <2>4. /\ \A q \in Live : pid'[q] = pid[q] /\ pid[q] <= numProcs /\ pid[q] \in Nat
        /\ pid'[p] = numProcs + 1 /\ numProcs \in Nat
    BY <1>t, <2>1, <2>3 DEF TypeOK, Ledger
  <2>5. \A q \in Page : state'[q] = "ZOMBIE" => q \in Live
    BY <1>t, <2>1 DEF TypeOK, Ledger
  <2> HIDE DEF Live
  <2>6. \A q \in Live' : pid'[q] <= numProcs'
    BY <2>2, <2>3, <2>4
  <2>7. \A q, r \in Live' : pid'[q] = pid'[r] => q = r
    BY <1>t, <2>3, <2>4 DEF Ledger
  <2> QED
    BY <2>3, <2>5, <2>6, <2>7 DEF Ledger
<1>2. ASSUME NEW c \in Core, NpLink(c) PROVE Ledger'
  <2>1. /\ used' = used /\ newPage' = NULL /\ state' = state
        /\ pid' = [pid EXCEPT ![newPage] = numProcs + 1] /\ numProcs' = numProcs + 1
    BY <1>2 DEF NpLink, NewPid
  <2>2. NULL \notin used
    BY <1>t, SchedulerAssumption DEF TypeOK
  <2>3. Live' \subseteq Live \cup {newPage} /\ newPage \notin Live /\ Live \subseteq Live'
    BY <2>1, <2>2 DEF Live
  <2>4. /\ \A q \in Live : pid'[q] = pid[q] /\ pid[q] <= numProcs /\ pid[q] \in Nat
        /\ newPage \in Page => pid'[newPage] = numProcs + 1
        /\ numProcs \in Nat
    BY <1>t, <2>1, <2>3 DEF TypeOK, Ledger
  <2> HIDE DEF Live
  <2>5. \A q \in Live' : pid'[q] <= numProcs'
    BY <1>t, <2>1, <2>3, <2>4
  <2>6. \A q, r \in Live' : pid'[q] = pid'[r] => q = r
    BY <1>t, <2>3, <2>4 DEF Ledger
  <2>7. \A q \in Page : state'[q] = "ZOMBIE" => q \in Live'
    BY <1>t, <2>1, <2>3 DEF Ledger
  <2> QED
    BY <2>5, <2>6, <2>7 DEF Ledger
<1>3. ASSUME NEW c \in Core, Reap(c) PROVE Ledger'
  <2>1. /\ used' = used \ {head} /\ newPage' = newPage /\ numProcs' = numProcs
        /\ pid' = [pid EXCEPT ![head] = 0] /\ state' = [state EXCEPT ![head] = "SLEEP"]
    BY <1>3 DEF Reap, Terminated, FreePage
  <2>2. Live' = Live \ {head}
    BY <2>1 DEF Live
  <2>3. \A q \in Live' : pid'[q] = pid[q] /\ q \in Live
    BY <1>t, <2>1, <2>2 DEF TypeOK
  <2>4. \A q \in Page : state'[q] = "ZOMBIE" => q # head /\ state[q] = "ZOMBIE"
    BY <1>t, <2>1 DEF TypeOK
  <2> QED
    BY <1>t, <2>1, <2>2, <2>3, <2>4 DEF Ledger
<1>4. ASSUME NEW c \in Core, NpAlloc(c) PROVE Ledger'
  <2>1. PICK p \in Page :
          /\ p \notin used /\ used' = used \cup {p} /\ newPage' = p
          /\ state' = [state EXCEPT ![p] = "RUNNING"]
    BY <1>4 DEF NpAlloc, FirstFree, TakePage
  <2>2. pid' = pid /\ numProcs' = numProcs
    BY <1>4 DEF NpAlloc, table
  <2>3. newPage = NULL /\ NULL \notin used
    <3>1. thread[c].pc = "np_alloc" /\ StackOK(thread[c]) /\ InHand(thread[c])
      BY <1>4 DEF IInv, CoreOK, NewPageOK, NpAlloc, At
    <3> QED
      BY <1>t, <3>1, SchedulerAssumption
      DEF TypeOK, StackOK, InHandler, InHand, Place, ShellPlaces
  <2>4. Live' = Live
    BY <2>1, <2>3 DEF Live
  <2>5. \A q \in Page : state'[q] = "ZOMBIE" => state[q] = "ZOMBIE"
    BY <1>t, <2>1 DEF TypeOK
  <2> QED
    BY <1>t, <2>2, <2>4, <2>5 DEF Ledger
<1>5. ASSUME NEW c \in Core, NEW n, Kill(c, n) PROVE Ledger'
  <2>1. PICK p \in InTable : state' = [state EXCEPT ![p] = "ZOMBIE"]
    BY <1>5 DEF Kill
  <2>2. UNCHANGED <<used, newPage, pid, numProcs>>
    BY <1>5 DEF Kill, table
  <2>3. p \in Live
    BY KillFindsLive, LiveProcesses
  <2>4. Live' = Live /\ \A q \in Page : state'[q] = "ZOMBIE" => state[q] = "ZOMBIE" \/ q = p
    BY <1>t, <2>1, <2>2 DEF TypeOK, Live
  <2> QED
    BY <1>t, <2>2, <2>3, <2>4 DEF Ledger
<1>6. ASSUME NEW c \in Core, Exit(c) PROVE Ledger'
  <2>1. state' = [state EXCEPT ![current[c]] = "ZOMBIE"]
        /\ UNCHANGED <<used, newPage, pid, numProcs>>
    BY <1>6 DEF Exit, table
  <2>2. Executing(current[c])
    BY DEF IInv, OneCorePerProcess, Executing
  <2>3. current[c] \in Page => current[c] \in Live
    BY <2>2, LiveProcesses
  <2>4. Live' = Live
        /\ \A q \in Page : state'[q] = "ZOMBIE" => state[q] = "ZOMBIE" \/ q = current[c]
    BY <1>t, <2>1 DEF TypeOK, Live
  <2> QED
    BY <1>t, <2>1, <2>3, <2>4 DEF Ledger
<1>7. ASSUME NEW c \in Core,
             \/ StartAcquire(c) \/ StartTimer(c) \/ CallSchedule(c) \/ DisableIrq(c)
             \/ SchedAcquire(c) \/ Idle(c) \/ Switch(c) \/ SchedReturn(c)
             \/ ScheduleTail(c) \/ IrqExit(c) \/ NpLockMem(c) \/ NpNoPage(c)
             \/ NpLock(c) \/ KillMiss(c) \/ PrintPtable(c) \/ GetPid(c)
             \/ Input(c) \/ TimerIrq(c)
      PROVE  UNCHANGED <<used, newPage, pid, numProcs, state>>
  BY <1>7
  DEF StartAcquire, StartTimer, CallSchedule, DisableIrq, SchedAcquire, Idle, Switch,
      SchedReturn, ScheduleTail, IrqExit, NpLockMem, NpNoPage, NpLock, KillMiss,
      PrintPtable, GetPid, Input, ShellSpawn, ShellKill, ShellPrint, CallGetPid,
      CallExit, TimerIrq, table, process
<1>8. CASE UNCHANGED vars
  BY <1>0, <1>8 DEF vars, table, process
<1> QED
  BY <1>0, <1>1, <1>2, <1>3, <1>4, <1>5, <1>6, <1>7, <1>8 DEF Next, CoreStep

\* The ledger is right throughout.
LEMMA LedgerInvariance == ASSUME NoStaleCore PROVE Spec => []Ledger
<1>1. Init => Ledger
  BY InitLedger
<1>2. IInv /\ IInv' /\ Ledger /\ [Next]_vars => Ledger'
  BY NextLedger
<1> QED
  BY <1>1, <1>2, Invariance, PTL DEF Spec

\* kill and print_ptable can tell processes apart by their pids.
THEOREM PidsStayUnique == ASSUME NoStaleCore PROVE Spec => []UniquePids
<1>1. IInv /\ Ledger => UniquePids
  BY LiveProcesses DEF Ledger, UniquePids
<1> QED
  BY <1>1, Invariance, LedgerInvariance, PTL

\* What runs, waits and is terminated under the refinement.
LEMMA Mapped ==
  ASSUME IInv
  PROVE  /\ [c \in Core |-> thread[c].self] = current
         /\ \A p : RR!Waits(p) <=> Queued(p)
         /\ \A p : RR!Runs(p) <=> Executing(p)
<1>1. /\ current \in [Core -> Page \cup {NULL}]
      /\ \A c \in Core : current[c] = thread[c].self
  BY DEF IInv, TypeOK, OneCorePerProcess
<1> QED
  BY <1>1 DEF RR!Waits, RR!Runs, Queued, Executing

\* Every step of the cores is a step of the abstract round robin or leaves it
\* alone.
LEMMA StepSimulation ==
  ASSUME NoStaleCore, IInv, IInv', Ledger, Ledger', [Next]_vars
  PROVE  [RR!Next]_(RR!vars)
<1> DEFINE running == [c \in Core |-> thread[c].self]
           zombie == {p \in Page : state[p] = "ZOMBIE"}
<1>t. TypeOK /\ TypeOK' /\ Ledger /\ OneCorePerProcess /\ ListIsQueue
  BY DEF IInv
<1>r. running = current /\ running' = current'
  <2>1. running = current
    BY Mapped
  <2>2. /\ current' \in [Core -> Page \cup {NULL}]
        /\ \A c \in Core : current'[c] = thread'[c].self
    BY DEF IInv, TypeOK, OneCorePerProcess
  <2> QED
    BY <2>1, <2>2
<1>f. \A p \in Page : p \notin used => RR!Fresh(p)
  BY Mapped, Whereabouts DEF RR!Fresh, Ledger, Live
<1>0. ASSUME UNCHANGED <<current, queue, state>> PROVE UNCHANGED RR!vars
  BY <1>0, <1>r DEF RR!vars
<1>1. ASSUME NEW c \in Core, StartBody(c) PROVE RR!Boot(c)
  <2>1. PICK p \in Page :
          /\ p \notin used
          /\ state' = [state EXCEPT ![p] = "RUNNING"]
          /\ current' = [current EXCEPT ![c] = p]
    BY <1>1 DEF StartBody, FirstFree, TakePage, NewPid
  <2>2. running[c] = NULL
    BY <1>1 DEF IInv, CoreOK, StartBody, At, BootPlaces
  <2>3. zombie' = zombie
    BY <1>t, <2>1 DEF TypeOK, Ledger, Live
  <2>4. running' = [running EXCEPT ![c] = p]
    BY <1>r, <2>1
  <2>5. queue' = queue
    BY <1>1 DEF StartBody, NewPid
  <2> HIDE DEF running, zombie
  <2> QED
    BY <1>f, <2>1, <2>2, <2>3, <2>4, <2>5 DEF RR!Boot, running, zombie
<1>2. ASSUME NEW c \in Core, Switch(c) PROVE RR!Rotate(c)
  <2>1. thread[c].core = c /\ thread[c].self # NULL
    BY <1>2 DEF IInv, CoreOK, Switch, At, InSchedule, BootPlaces
  <2>2. queue # <<>> /\ Head(queue) = head
    BY <1>2, <1>t, Whereabouts DEF Switch, Terminated, ListIsQueue, TypeOK
  <2>3. current[c] = running[c]
    BY <1>t DEF OneCorePerProcess
  <2>4. /\ current' = [current EXCEPT ![c] = head]
        /\ queue' = Append(Tail(queue), current[c])
        /\ state[head] # "ZOMBIE" /\ state' = state
    BY <1>2, <2>1 DEF Switch, Terminated, Linked
  <2> QED
    BY <1>r, <2>1, <2>2, <2>3, <2>4 DEF RR!Rotate
<1>3. ASSUME NEW c \in Core, Reap(c) PROVE RR!Reap
  <2>1. queue # <<>> /\ Head(queue) = head /\ head \in Page
    BY <1>3, <1>t, Whereabouts DEF Reap, Terminated, FreePage, ListIsQueue, TypeOK
  <2>2. /\ queue' = Tail(queue) /\ current' = current
        /\ state[head] = "ZOMBIE" /\ state' = [state EXCEPT ![head] = "SLEEP"]
    BY <1>3 DEF Reap, Terminated, FreePage
  <2>3. zombie' = zombie \ {head}
    BY <1>t, <2>1, <2>2 DEF TypeOK
  <2> QED
    BY <1>r, <2>1, <2>2, <2>3 DEF RR!Reap
<1>4. ASSUME NEW c \in Core, NpAlloc(c) PROVE UNCHANGED RR!vars
  <2>1. PICK p \in Page : p \notin used /\ state' = [state EXCEPT ![p] = "RUNNING"]
    BY <1>4 DEF NpAlloc, FirstFree, TakePage
  <2>2. zombie' = zombie
    BY <1>t, <2>1 DEF TypeOK, Ledger, Live
  <2>3. UNCHANGED <<current, queue>>
    BY <1>4 DEF NpAlloc, table
  <2> QED
    BY <1>r, <2>2, <2>3 DEF RR!vars
<1>5. ASSUME NEW c \in Core, NpLink(c) PROVE RR!Spawn(newPage)
  <2>1. newPage # NULL
    BY <1>5, <1>t, SchedulerAssumption
    DEF IInv, NpLink, At, CoreOK, StackOK, InHandler, NewPageOK, InHand, Place,
        ShellPlaces
  <2>2. RR!Fresh(newPage)
    BY <1>t, <2>1, Mapped, LiveProcesses
    DEF IInv, NewPageOK, TypeOK, Ledger, RR!Fresh
  <2>3. queue' = Append(queue, newPage) /\ state' = state /\ current' = current
    BY <1>5 DEF NpLink, NewPid
  <2> QED
    BY <1>r, <2>2, <2>3 DEF RR!Spawn
<1>6. ASSUME NEW c \in Core, NEW n, Kill(c, n) PROVE \E p \in Page : RR!Terminate(p)
  <2>1. PICK p \in InTable : state' = [state EXCEPT ![p] = "ZOMBIE"]
    BY <1>6 DEF Kill
  <2>2. p \in Page /\ (Queued(p) \/ Executing(p))
    BY KillFindsLive
  <2>3. UNCHANGED <<queue, current>>
    BY <1>6 DEF Kill, table
  <2>4. zombie' = zombie \cup {p}
    BY <1>t, <2>1, <2>2 DEF TypeOK
  <2> QED
    BY <1>r, <2>2, <2>3, <2>4, Mapped DEF RR!Terminate
<1>7. ASSUME NEW c \in Core, Exit(c) PROVE \E p \in Page : RR!Terminate(p)
  <2>1. state' = [state EXCEPT ![current[c]] = "ZOMBIE"] /\ UNCHANGED <<queue, current>>
    BY <1>7 DEF Exit, table
  <2>2. current[c] \in Page /\ Executing(current[c])
    <3>1. thread[c].self # NULL /\ current[c] = thread[c].self
      BY <1>7 DEF IInv, CoreOK, OneCorePerProcess, Exit, At, BootPlaces
    <3> QED
      BY <1>t, <3>1 DEF TypeOK, Executing
  <2>3. zombie' = zombie \cup {current[c]}
    BY <1>t, <2>1, <2>2 DEF TypeOK
  <2> QED
    BY <1>r, <2>1, <2>2, <2>3, Mapped DEF RR!Terminate
<1>8. ASSUME NEW c \in Core,
             \/ StartAcquire(c) \/ StartTimer(c) \/ CallSchedule(c) \/ DisableIrq(c)
             \/ SchedAcquire(c) \/ Idle(c) \/ SchedReturn(c)
             \/ ScheduleTail(c) \/ IrqExit(c) \/ NpLockMem(c) \/ NpNoPage(c)
             \/ NpLock(c) \/ KillMiss(c) \/ PrintPtable(c) \/ GetPid(c)
             \/ Input(c) \/ TimerIrq(c)
      PROVE  UNCHANGED <<current, queue, state>>
  BY <1>8
  DEF StartAcquire, StartTimer, CallSchedule, DisableIrq, SchedAcquire, Idle,
      SchedReturn, ScheduleTail, IrqExit, NpLockMem, NpNoPage, NpLock, KillMiss,
      PrintPtable, GetPid, Input, ShellSpawn, ShellKill, ShellPrint, CallGetPid,
      CallExit, TimerIrq, table, process
<1>9. CASE UNCHANGED vars
  BY <1>0, <1>9 DEF vars, table, process
<1>10. ASSUME NEW c \in Core, NpLink(c) PROVE newPage \in Page
  <2>1. newPage # NULL
    BY <1>10, <1>t, SchedulerAssumption
    DEF IInv, NpLink, At, CoreOK, StackOK, InHandler, NewPageOK, InHand, Place,
        ShellPlaces
  <2> QED
    BY <1>t, <2>1 DEF TypeOK
<1> HIDE DEF running, zombie
<1> QED
  BY <1>0, <1>1, <1>2, <1>3, <1>4, <1>5, <1>6, <1>7, <1>8, <1>9, <1>10
  DEF Next, CoreStep, RR!Next

\* The scheduler implements the round robin of RoundRobin.tla.
THEOREM SchedulerIsRoundRobin == ASSUME NoStaleCore PROVE Spec => ImplementsRoundRobin
<1>1. Init => RR!Init
  <2> SUFFICES ASSUME Init PROVE RR!Init
    OBVIOUS
  <2>1. Shell \in Page /\ queue = <<Shell>>
    BY SchedulerAssumption DEF Init
  <2>2. [c \in Core |-> thread[c].self] = [c \in Core |-> NULL]
    BY DEF Init
  <2>3. {p \in Page : state[p] = "ZOMBIE"} = {}
    BY DEF Init
  <2> QED
    BY <2>1, <2>2, <2>3 DEF RR!Init
<1> QED
  BY <1>1, Invariance, LedgerInvariance, StepSimulation, PTL
  DEF Spec, ImplementsRoundRobin, RR!Spec
-----------------------------------------------------------------------------
(* The refinement of Pages: what the scheduler stores goes to pages in use. *)

\* The processes of the table, the last of the list among them, are in use.
LEMMA TableInUse ==
  ASSUME IInv
  PROVE  /\ used \subseteq Page
         /\ \A p : Queued(p) \/ (Executing(p) /\ p # NULL) => p \in used
         /\ head # NULL => head \in used /\ tail \in used
<1>t. TypeOK /\ ListIsQueue
  BY DEF IInv
<1>1. \A p : Executing(p) => p \in Page \cup {NULL}
  BY Whereabouts DEF Executing
<1>2. \A p : Queued(p) \/ (Executing(p) /\ p # NULL) => p \in used
  BY <1>1, Whereabouts
<1>3. head # NULL => Queued(head) /\ Queued(tail)
  <2>1. ASSUME head # NULL
        PROVE  /\ 1 \in 1 .. Len(queue) /\ Len(queue) \in 1 .. Len(queue)
               /\ head = queue[1] /\ tail = queue[Len(queue)]
    BY <1>t, <2>1, Whereabouts DEF ListIsQueue
  <2> QED
    BY <2>1 DEF Queued
<1> QED
  BY <1>t, <1>2, <1>3 DEF TypeOK

\* start_scheduler and new_process fill in the page they take.
LEMMA TakesPage ==
  ASSUME IInv, NEW c \in Core, StartBody(c) \/ NpAlloc(c)
  PROVE  \E p \in Page : PG!Take(p)
<1>t. TypeOK
  BY DEF IInv
<1>1. PICK p \in Page :
        /\ p \in Page \ used /\ \A q \in Page \ used : p <= q
        /\ used' = used \cup {p}
        /\ state' = [state EXCEPT ![p] = "RUNNING"]
        /\ next' = [next EXCEPT ![p] = NULL]
        /\ pid' = pid \/ pid' = [pid EXCEPT ![p] = NewPid]
        /\ \E r : role' = [role EXCEPT ![p] = r]
        /\ saved' = saved \/ saved' = [saved EXCEPT ![p] = NewContext(p)]
  BY DEF StartBody, NpAlloc, FirstFree, TakePage
<1>2. \A q \in Page \ used' : /\ next'[q] = next[q] /\ state'[q] = state[q]
                              /\ pid'[q] = pid[q] /\ role'[q] = role[q]
                              /\ saved'[q] = saved[q]
  BY <1>t, <1>1 DEF TypeOK
<1> QED
  BY <1>1, <1>2 DEF PG!Take, PG!Keeps

\* The filter loop gives the page of the process at the head back.
LEMMA GivesPage ==
  ASSUME IInv, NEW c \in Core, Reap(c)
  PROVE  \E p \in Page : PG!Give(p)
<1>t. TypeOK /\ head \in Page /\ head \in used
  BY TableInUse DEF IInv, TypeOK, Reap, Terminated
<1>1. /\ used' = used \ {head}
      /\ next' = [next EXCEPT ![head] = NULL]
      /\ state' = [state EXCEPT ![head] = "SLEEP"]
      /\ pid' = [pid EXCEPT ![head] = 0]
      /\ role' = [role EXCEPT ![head] = "prog"]
      /\ saved' = [saved EXCEPT ![head] = NewContext(head)]
  BY DEF Reap, FreePage
<1>2. \A q \in Page \ used : /\ next'[q] = next[q] /\ state'[q] = state[q]
                             /\ pid'[q] = pid[q] /\ role'[q] = role[q]
                             /\ saved'[q] = saved[q]
  BY <1>t, <1>1 DEF TypeOK
<1>3. PG!Keeps(used)
  BY <1>2 DEF PG!Keeps
<1>4. /\ next'[head] = NULL /\ state'[head] = "SLEEP" /\ pid'[head] = 0
      /\ role'[head] = "prog" /\ saved'[head] = NewContext(head)
  BY <1>t, <1>1 DEF TypeOK
<1> QED
  BY <1>t, <1>1, <1>3, <1>4 DEF PG!Give

\* All others store to the processes they found in the table, or to the page
\* in new_process's hand.
LEMMA WritesPages ==
  ASSUME IInv, NEW c \in Core,
         Switch(c) \/ NpLink(c) \/ Exit(c) \/ \E n \in 1 .. numProcs : Kill(c, n)
  PROVE  PG!Write
<1>t. TypeOK /\ OneCorePerProcess /\ PagesAccounted /\ CoreOK(c) /\ used \subseteq Page
  BY TableInUse DEF IInv
<1> DEFINE Kept == \A q \in Page \ used :
                     /\ next'[q] = next[q] /\ state'[q] = state[q]
                     /\ pid'[q] = pid[q] /\ role'[q] = role[q] /\ saved'[q] = saved[q]
<1>1. used' = used
  BY DEF Switch, NpLink, Exit, Kill
<1>2. thread[c].pc \notin BootPlaces => current[c] \in used /\ thread[c].self = current[c]
  BY <1>t, TableInUse DEF CoreOK, OneCorePerProcess, Executing
<1>3. ASSUME Switch(c) PROVE Kept
  <2>1. /\ head # NULL /\ thread[c].core = c /\ current[c] \in used /\ tail \in used
    BY <1>t, <1>2, <1>3, TableInUse DEF Switch, At, CoreOK, InSchedule, BootPlaces
  <2>2. /\ \A q \in Page \ used : next'[q] = next[q]
    BY <1>t, <1>3, <2>1 DEF Switch, Linked, TypeOK
  <2>3. \A q \in Page \ used : saved'[q] = saved[q]
    BY <1>t, <1>3, <2>1 DEF Switch, TypeOK
  <2> QED
    BY <1>3, <2>2, <2>3 DEF Switch
<1>4. ASSUME NpLink(c) PROVE Kept
  <2>1. newPage \in used
    <3>1. newPage # NULL
      BY <1>4, <1>t
      DEF IInv, NpLink, At, CoreOK, StackOK, InHandler, NewPageOK, InHand, Place,
          ShellPlaces
    <3> QED
      BY <1>t, <3>1 DEF PagesAccounted, TypeOK
  <2>2. \A q \in Page \ used : next'[q] = next[q] /\ pid'[q] = pid[q]
    BY <1>t, <1>4, <2>1, TableInUse DEF NpLink, TypeOK
  <2> QED
    BY <1>4, <2>2 DEF NpLink
<1>5. ASSUME Exit(c) PROVE Kept
  <2>1. current[c] \in used
    BY <1>2, <1>5 DEF Exit, At, BootPlaces
  <2> QED
    BY <1>t, <1>5, <2>1 DEF Exit, TypeOK
<1>6. ASSUME NEW n, Kill(c, n) PROVE Kept
  <2>1. PICK p \in InTable : state' = [state EXCEPT ![p] = "ZOMBIE"]
    BY <1>6 DEF Kill
  <2>2. p \in used
    BY KillFindsLive, Whereabouts
  <2> QED
    BY <1>t, <1>6, <2>1, <2>2 DEF Kill, TypeOK
<1>7. Kept
  BY <1>3, <1>4, <1>5, <1>6
<1> QED
  BY <1>1, <1>7 DEF PG!Write, PG!Keeps

\* The scheduler keeps its side of the interface of Pages: it takes the first
\* free page, gives back what it reaps, and no link, rotation, kill or exit
\* stores into a page that was freed.
THEOREM SchedulerKeepsToItsPages == ASSUME NoStaleCore PROVE Spec => UsesPages
<1>1. Init => PG!Init
  BY SchedulerAssumption DEF Init, PG!Init
<1>2. ASSUME IInv, [Next]_vars PROVE [PG!Next]_PG!vars
  <2>1. ASSUME NEW c \in Core,
               \/ StartAcquire(c) \/ StartTimer(c) \/ CallSchedule(c) \/ DisableIrq(c)
               \/ SchedAcquire(c) \/ Idle(c) \/ SchedReturn(c)
               \/ ScheduleTail(c) \/ IrqExit(c) \/ NpLockMem(c) \/ NpNoPage(c)
               \/ NpLock(c) \/ KillMiss(c) \/ PrintPtable(c) \/ GetPid(c)
               \/ Input(c) \/ TimerIrq(c)
        PROVE  UNCHANGED <<used, process>>
    BY <2>1
    DEF StartAcquire, StartTimer, CallSchedule, DisableIrq, SchedAcquire, Idle,
        SchedReturn, ScheduleTail, IrqExit, NpLockMem, NpNoPage, NpLock, KillMiss,
        PrintPtable, GetPid, Input, ShellSpawn, ShellKill, ShellPrint, CallGetPid,
        CallExit, TimerIrq
  <2>2. ASSUME UNCHANGED vars PROVE UNCHANGED <<used, process>>
    BY <2>2 DEF vars
  <2>3. ASSUME UNCHANGED <<used, process>> PROVE UNCHANGED PG!vars
    BY <2>3 DEF process, PG!vars
  <2>4. ASSUME NEW c \in Core, CoreStep(c) \/ Input(c) \/ TimerIrq(c)
        PROVE  PG!Next \/ UNCHANGED <<used, process>>
    <3>1. CASE StartBody(c) \/ NpAlloc(c)
      BY <1>2, <3>1, TakesPage DEF PG!Next
    <3>2. CASE Reap(c)
      BY <1>2, <3>2, GivesPage DEF PG!Next
    <3>3. CASE Switch(c) \/ NpLink(c) \/ Exit(c) \/ \E n \in 1 .. numProcs : Kill(c, n)
      BY <1>2, <3>3, WritesPages DEF PG!Next
    <3> QED
      BY <2>1, <2>4, <3>1, <3>2, <3>3 DEF CoreStep
  <2> QED
    BY <1>2, <2>2, <2>3, <2>4 DEF Next
<1> QED
  BY <1>1, <1>2, Invariance, PTL DEF Spec, UsesPages, PG!Spec
-----------------------------------------------------------------------------
(* The two locks.  new_process takes them with interrupts enabled; what is  *)
(* shown is for executions without an interrupt while it holds one.         *)
NoIrqUnderLock == {"np_alloc", "np_link"} \cap IrqPoints = {}

\* mem_map_lock is held only by the process that is in get_free_page.
PagesLockedByAllocator ==
  memLock # NULL => \E c \in Core : thread[c].self = memLock /\ At(c, "np_alloc")

\* A step of another core, or of this one when it is not in get_free_page.
LEMMA ElsewhereStep ==
  ASSUME TypeOK, PagesLockedByAllocator, memLock' = memLock, NEW c \in Core, ~At(c, "np_alloc"),
         \A d \in Core \ {c} : thread'[d] = thread[d]
  PROVE  PagesLockedByAllocator'
  BY DEF PagesLockedByAllocator, At

LEMMA PagesLockedStep == NoIrqUnderLock /\ TypeOK /\ PagesLockedByAllocator /\ [Next]_vars => PagesLockedByAllocator'
<1> SUFFICES ASSUME NoIrqUnderLock, TypeOK, PagesLockedByAllocator, [Next]_vars PROVE PagesLockedByAllocator'
  OBVIOUS
<1>1. CASE UNCHANGED vars
  BY <1>1 DEF vars, PagesLockedByAllocator, At
<1>2. ASSUME NEW c \in Core, NpLockMem(c) PROVE PagesLockedByAllocator'
  <2>1. thread' = [thread EXCEPT ![c].pc = "np_alloc"] /\ memLock' = thread[c].self /\ thread \in [Core -> Thread]
    BY <1>2 DEF NpLockMem, Goto, TypeOK
  <2>2. thread'[c].self = memLock' /\ thread'[c].pc = "np_alloc"
    BY <2>1 DEF Thread
  <2> QED
    BY <2>2 DEF PagesLockedByAllocator, At
<1>3. ASSUME NEW c \in Core, NpAlloc(c) \/ NpNoPage(c) PROVE PagesLockedByAllocator'
  BY <1>3 DEF NpAlloc, NpNoPage, PagesLockedByAllocator
<1>4. ASSUME NEW c \in Core, Switch(c) PROVE PagesLockedByAllocator'
  <2>1. memLock' = memLock /\ ~At(c, "np_alloc") /\ thread' = [thread EXCEPT ![c] = saved'[head]]
    BY <1>4 DEF Switch, At
  <2>2. \A d \in Core \ {c} : thread'[d] = thread[d]
    BY <2>1 DEF TypeOK
  <2> QED
    BY <2>1, <2>2, ElsewhereStep
<1>5. ASSUME NEW c \in Core, StartAcquire(c) \/ StartBody(c) \/ StartTimer(c) \/ CallSchedule(c) \/ DisableIrq(c) \/ SchedAcquire(c)
      PROVE  PagesLockedByAllocator'
  <2>1. memLock' = memLock /\ ~At(c, "np_alloc") /\ \A d \in Core \ {c} : thread'[d] = thread[d]
    BY <1>5 DEF StartAcquire, StartBody, StartTimer, CallSchedule, DisableIrq, SchedAcquire, Goto, GotoIrqsOn, GotoIrqsOff, At, TypeOK
  <2> QED
    BY <2>1, ElsewhereStep
<1>6. ASSUME NEW c \in Core, Reap(c) \/ Idle(c) \/ SchedReturn(c) \/ ScheduleTail(c) PROVE PagesLockedByAllocator'
  <2>1. memLock' = memLock /\ ~At(c, "np_alloc")
    BY <1>6 DEF Reap, Idle, SchedReturn, ScheduleTail, At
  <2>2. CASE thread' = thread \/ Return(c)
    BY <2>1, <2>2, ElsewhereStep DEF Return, TypeOK
  <2>3. CASE ScheduleTail(c)
    <3> DEFINE place == IF role[thread[c].self] = "shell" THEN "sh" ELSE "prog"
    <3>1. thread' = [thread EXCEPT ![c].pc = place]
      BY <2>3 DEF ScheduleTail, GotoIrqsOn, Goto
    <3> HIDE DEF place
    <3> QED
      BY <3>1, <2>1, ElsewhereStep DEF TypeOK
  <2> QED
    BY <1>6, <2>2, <2>3 DEF Reap, Idle, SchedReturn
<1>7. ASSUME NEW c \in Core, IrqExit(c) \/ TimerIrq(c) PROVE PagesLockedByAllocator'
  <2>1. memLock' = memLock /\ ~At(c, "np_alloc") /\ \A d \in Core \ {c} : thread'[d] = thread[d]
    BY <1>7 DEF IrqExit, TimerIrq, At, TypeOK, NoIrqUnderLock
  <2> QED
    BY <2>1, ElsewhereStep
<1>8. ASSUME NEW c \in Core, NpLock(c) \/ NpLink(c) \/ KillMiss(c) \/ PrintPtable(c) \/ GetPid(c) \/ Exit(c)
      PROVE  PagesLockedByAllocator'
  <2>1. memLock' = memLock /\ ~At(c, "np_alloc") /\ \A d \in Core \ {c} : thread'[d] = thread[d]
    BY <1>8 DEF NpLock, NpLink, KillMiss, PrintPtable, GetPid, Exit, Goto, GotoIrqsOn, At, TypeOK
  <2> QED
    BY <2>1, ElsewhereStep
<1>9. ASSUME NEW c \in Core, NEW n \in 1 .. numProcs, Kill(c, n) PROVE PagesLockedByAllocator'
  <2>1. memLock' = memLock /\ ~At(c, "np_alloc") /\ \A d \in Core \ {c} : thread'[d] = thread[d]
    BY <1>9 DEF Kill, Goto, At, TypeOK
  <2> QED
    BY <2>1, ElsewhereStep
<1>10. ASSUME NEW c \in Core, Input(c) PROVE PagesLockedByAllocator'
  <2>1. memLock' = memLock /\ ~At(c, "np_alloc") /\ \A d \in Core \ {c} : thread'[d] = thread[d]
    BY <1>10 DEF Input, ShellSpawn, ShellKill, ShellPrint, CallGetPid, CallExit, Goto, GotoIrqsOff, At, TypeOK
  <2> QED
    BY <2>1, ElsewhereStep
<1> QED
  BY <1>1, <1>2, <1>3, <1>4, <1>5, <1>6, <1>7, <1>8, <1>9, <1>10 DEF Next, CoreStep

\* No core waits for a lock that it holds itself, and the two locks are never
\* waited for in a circle (schedule.c:75, mm.c:111): the interrupts excluded
\* are the ones of run lock_cycle.
THEOREM LocksNeverCycle == ASSUME NoStaleCore, NoIrqUnderLock PROVE Spec => []NoLockCycle
<1>1. Init => PagesLockedByAllocator
  BY DEF Init, PagesLockedByAllocator
<1>2. PagesLockedByAllocator /\ IInv /\ [Next]_vars => PagesLockedByAllocator'
  BY PagesLockedStep DEF IInv
<1>3. ASSUME IInv, PagesLockedByAllocator PROVE NoLockCycle
  <2>1. ASSUME lock # NULL PROVE ~WaitsForTable(lock)
    <3>1. lock \in Core
      BY <1>3, <2>1 DEF IInv, TypeOK
    <3>2. HoldsTable(thread[lock]) /\ StackOK(thread[lock])
      BY <1>3, <3>1 DEF IInv, LockFollowsCore, CoreOK
    <3>3. thread[lock].pc \in Holding
      BY <3>2 DEF HoldsTable, StackOK, NoIrqUnderLock
    <3> QED
      BY <3>3 DEF Holding, WaitsForTable
  <2> QED
    BY <1>3, <2>1 DEF NoLockCycle, PagesLockedByAllocator
<1> QED
  BY <1>1, <1>2, <1>3, Invariance, PTL DEF Spec
-----------------------------------------------------------------------------
(* exit() never returns: there is always a process to switch to.  The       *)
(* reason is a count.  Every core that left start_scheduler brought one     *)
(* kernel thread along, no kernel thread ends, so with an empty list the    *)
(* kernel threads are exactly what the cores execute.                       *)

\* No kernel thread is given to kill: with one gone the count is off.
KernelThreadsSpared == "kthread" \notin KillTargets

KThreads == {p \in Page : role[p] = "kthread"}
Booted == {c \in Core : thread[c].self # NULL}

\* Where a kernel thread is, and where a process is that calls schedule() itself.
KernelPlaces == {"ss_timer", "loop", "sched_ret"} \cup InSchedule
CallingPlaces == {"exit_sched", "sched_ret"} \cup InSchedule

\* Only kernel threads are in the scheduler's loop, they are nowhere else, and
\* any other process that calls schedule() has ended.
RoleOK(t) ==
  /\ Place(t) \in {"ss_timer", "loop"} => role[t.self] = "kthread"
  /\ role[t.self] = "kthread" => Place(t) \in KernelPlaces
  /\ Place(t) \in CallingPlaces => role[t.self] = "kthread" \/ state[t.self] = "ZOMBIE"

ExitInv ==
  /\ IsFiniteSet(KThreads) /\ Cardinality(KThreads) = Cardinality(Booted)
  /\ \A p \in KThreads : (Queued(p) \/ Executing(p)) /\ state[p] # "ZOMBIE"
  /\ \A c \in Booted : RoleOK(thread[c])
  /\ \A p \in Page : Queued(p) => RoleOK(saved[p])
  /\ \A c \in Core : At(c, "sched_ret") => state[thread[c].self] # "ZOMBIE"
  /\ ExitNeverReturns

\* A core that moves on with its process, the table left alone.
LEMMA StayStep ==
  ASSUME IInv, ExitInv, NEW c \in Core, NEW t,
         UNCHANGED <<role, state, queue, saved>>,
         thread' = [thread EXCEPT ![c] = t],
         t.self = thread[c].self, t.self # NULL => RoleOK(t),
         t.pc = "sched_ret" => thread[c].pc = "sched_ret",
         t.pc # "fell_through"
  PROVE  ExitInv'
<1>1. /\ thread'[c] = t
      /\ \A d \in Core \ {c} : thread'[d] = thread[d]
      /\ \A d \in Core : thread'[d].self = thread[d].self
  BY DEF IInv, TypeOK
<1>2. KThreads' = KThreads /\ Booted' = Booted
  BY <1>1 DEF KThreads, Booted
<1>3. \A p \in Page : (Queued(p)' <=> Queued(p)) /\ (Executing(p)' <=> Executing(p))
  BY <1>1 DEF Queued, Executing
<1>4. \A p \in KThreads' : (Queued(p) \/ Executing(p))' /\ state'[p] # "ZOMBIE"
  BY <1>2, <1>3 DEF ExitInv, KThreads
<1>5. \A d \in Booted' : RoleOK(thread[d])'
  BY <1>1, <1>2 DEF ExitInv, Booted, RoleOK, Place
<1>6. \A p \in Page : Queued(p)' => RoleOK(saved[p])'
  BY <1>3 DEF ExitInv, RoleOK, Place
<1>7. \A d \in Core : At(d, "sched_ret")' => state'[thread'[d].self] # "ZOMBIE"
  BY <1>1 DEF ExitInv, At
<1>8. ExitNeverReturns'
  BY <1>1 DEF ExitInv, ExitNeverReturns, At
<1> QED
  BY <1>2, <1>4, <1>5, <1>6, <1>7, <1>8 DEF ExitInv

\* Outside of the scheduler a process stays outside of it.
LEMMA OutsideStep ==
  ASSUME IInv, ExitInv, NEW c \in Core, NEW b,
         UNCHANGED <<role, state, queue, saved>>,
         thread' = [thread EXCEPT ![c].pc = b],
         thread[c].pc \notin InHandler \cup KernelPlaces,
         b \notin KernelPlaces \cup CallingPlaces \cup {"fell_through"}
  PROVE  ExitInv'
<1> DEFINE t == [thread[c] EXCEPT !.pc = b]
<1>1. thread[c] \in Thread /\ thread[c].frames = <<>>
  BY DEF IInv, TypeOK, CoreOK, StackOK
<1>2. t.self = thread[c].self /\ t.pc = b /\ t.frames = <<>>
  BY <1>1 DEF Thread
<1>3. t.self # NULL => RoleOK(t)
  BY <1>1, <1>2 DEF ExitInv, Booted, RoleOK, Place, KernelPlaces
<1> QED
  BY <1>2, <1>3, StayStep DEF KernelPlaces

\* The shell, the programs, and new_process but for its two writes.
LEMMA OutsideExit ==
  ASSUME IInv, ExitInv, NEW c \in Core,
         \/ StartAcquire(c) \/ NpLockMem(c) \/ NpNoPage(c) \/ NpLock(c) \/ KillMiss(c)
         \/ PrintPtable(c) \/ GetPid(c) \/ ScheduleTail(c) \/ Input(c)
  PROVE  ExitInv'
<1> USE DEF KernelPlaces, CallingPlaces, InSchedule, InHandler, At, Goto, GotoIrqsOn,
            GotoIrqsOff, table, process
<1>1. CASE StartAcquire(c)
  BY <1>1, OutsideStep DEF StartAcquire
<1>2. CASE NpLockMem(c)
  BY <1>2, OutsideStep DEF NpLockMem
<1>3. CASE NpNoPage(c)
  BY <1>3, OutsideStep DEF NpNoPage
<1>4. CASE NpLock(c)
  BY <1>4, OutsideStep DEF NpLock
<1>5. CASE KillMiss(c)
  BY <1>5, OutsideStep DEF KillMiss
<1>6. CASE PrintPtable(c)
  BY <1>6, OutsideStep DEF PrintPtable
<1>7. CASE GetPid(c)
  BY <1>7, OutsideStep DEF GetPid
<1>8. CASE ScheduleTail(c)
  <2> DEFINE b == IF role[thread[c].self] = "shell" THEN "sh" ELSE "prog"
  <2>1. /\ UNCHANGED <<role, state, queue, saved>>
        /\ thread' = [thread EXCEPT ![c].pc = b] /\ b \in {"sh", "prog"}
        /\ thread[c].pc = "ret_from_fork"
    BY <1>8 DEF ScheduleTail
  <2> HIDE DEF b
  <2> QED
    BY <2>1, OutsideStep
<1>9. CASE Input(c)
  <2>1. CASE ShellSpawn(c)
    BY <2>1, OutsideStep DEF ShellSpawn
  <2>2. CASE ShellKill(c)
    BY <2>2, OutsideStep DEF ShellKill
  <2>3. CASE ShellPrint(c)
    BY <2>3, OutsideStep DEF ShellPrint
  <2>4. CASE CallGetPid(c)
    BY <2>4, OutsideStep DEF CallGetPid
  <2>5. CASE CallExit(c)
    BY <2>5, OutsideStep DEF CallExit
  <2> QED
    BY <1>9, <2>1, <2>2, <2>3, <2>4, <2>5 DEF Input
<1> QED
  BY <1>1, <1>2, <1>3, <1>4, <1>5, <1>6, <1>7, <1>8, <1>9

\* The way into schedule(), from the loop, from exit() and from the handler.
LEMMA EnterExit ==
  ASSUME IInv, ExitInv, NEW c \in Core,
         \/ StartTimer(c) \/ CallSchedule(c) \/ DisableIrq(c) \/ SchedAcquire(c)
  PROVE  ExitInv'
<1>t. /\ TypeOK /\ thread[c] \in Thread /\ CoreOK(c)
      /\ thread[c].self # NULL => RoleOK(thread[c])
  BY DEF IInv, TypeOK, ExitInv, Booted
<1> USE DEF At, Goto, GotoIrqsOn, GotoIrqsOff, table, process
<1>1. CASE StartTimer(c)
  <2> DEFINE t == [thread[c] EXCEPT !.pc = "loop"]
  <2>1. /\ thread' = [thread EXCEPT ![c] = t] /\ thread[c].pc = "ss_timer"
        /\ UNCHANGED <<role, state, queue, saved>>
    BY <1>t, <1>1 DEF StartTimer, TypeOK
  <2>2. /\ t.self = thread[c].self /\ t.pc = "loop"
        /\ t.frames = <<>> /\ thread[c].frames = <<>>
    BY <1>t, <2>1 DEF Thread, CoreOK, StackOK, InHandler
  <2>3. t.self # NULL => RoleOK(t)
    BY <1>t, <2>1, <2>2 DEF RoleOK, Place, KernelPlaces, CallingPlaces, InSchedule
  <2> HIDE DEF t
  <2> QED
    BY <2>1, <2>2, <2>3, StayStep
<1>2. CASE CallSchedule(c)
  <2> DEFINE t == [thread[c] EXCEPT !.pc = "sched_irqoff", !.core = c]
  <2>1. /\ thread' = [thread EXCEPT ![c] = t] /\ thread[c].pc \in {"loop", "exit_sched"}
        /\ UNCHANGED <<role, state, queue, saved>>
    BY <1>t, <1>2 DEF CallSchedule, TypeOK
  <2>2. /\ t.self = thread[c].self /\ t.pc = "sched_irqoff"
        /\ t.frames = <<>> /\ thread[c].frames = <<>>
    BY <1>t, <2>1 DEF Thread, CoreOK, StackOK, InHandler
  <2>3. t.self # NULL => RoleOK(t)
    BY <1>t, <2>1, <2>2 DEF RoleOK, Place, KernelPlaces, CallingPlaces, InSchedule
  <2> HIDE DEF t
  <2> QED
    BY <2>1, <2>2, <2>3, StayStep
<1>3. CASE DisableIrq(c)
  <2> DEFINE t == [thread[c] EXCEPT !.pc = "sched_acquire"]
  <2>1. /\ thread' = [thread EXCEPT ![c] = t] /\ thread[c].pc = "sched_irqoff"
        /\ UNCHANGED <<role, state, queue, saved>>
    BY <1>t, <1>3 DEF DisableIrq, TypeOK
  <2>2. /\ t.self = thread[c].self /\ t.pc = "sched_acquire"
        /\ t.frames = <<>> /\ thread[c].frames = <<>>
    BY <1>t, <2>1 DEF Thread, CoreOK, StackOK, InHandler
  <2>3. t.self # NULL => RoleOK(t)
    BY <1>t, <2>1, <2>2 DEF RoleOK, Place, KernelPlaces, CallingPlaces, InSchedule
  <2> HIDE DEF t
  <2> QED
    BY <2>1, <2>2, <2>3, StayStep
<1>4. CASE SchedAcquire(c)
  <2> DEFINE t == [thread[c] EXCEPT !.pc = "sched_body"]
  <2>1. /\ thread' = [thread EXCEPT ![c] = t] /\ thread[c].pc = "sched_acquire"
        /\ UNCHANGED <<role, state, queue, saved>>
    BY <1>t, <1>4 DEF SchedAcquire, TypeOK
  <2>2. t.self = thread[c].self /\ t.pc = "sched_body" /\ t.frames = thread[c].frames
    BY <1>t, <2>1 DEF Thread
  <2>3. t.self # NULL => RoleOK(t)
    BY <1>t, <2>1, <2>2 DEF RoleOK, Place, KernelPlaces, CallingPlaces, InSchedule
  <2> HIDE DEF t
  <2> QED
    BY <2>1, <2>2, <2>3, StayStep
<1> QED
  BY <1>1, <1>2, <1>3, <1>4

\* With nothing in the list, the cores execute the kernel threads: there are
\* as many of the one as of the other, and the cores share no process.
LEMMA AllKernelThreadsRun ==
  ASSUME IInv, ExitInv, queue = <<>>, NEW c \in Booted
  PROVE  role[thread[c].self] = "kthread"
<1> DEFINE f == [d \in Booted |-> thread[d].self]
           E == {thread[d].self : d \in Booted}
<1>1. IsFiniteSet(Booted)
  BY SchedulerAssumption, FS_Subset DEF Booted
<1>2. f \in Surjection(Booted, E)
  BY DEF Surjection
<1>3. IsFiniteSet(E) /\ Cardinality(E) <= Cardinality(Booted)
  BY <1>1, <1>2, FS_Surjection
<1>4. \A p : ~Queued(p)
  BY DEF Queued
<1>5. KThreads \in SUBSET E
  <2>1. ASSUME NEW p \in KThreads PROVE p \in E
    <3>1. PICK d \in Core : thread[d].self = p
      BY <1>4, <2>1 DEF ExitInv, Executing
    <3>2. d \in Booted
      BY <2>1, <3>1, SchedulerAssumption DEF Booted, KThreads
    <3> QED
      BY <3>1, <3>2
  <2> QED
    BY <2>1
<1>6. E = KThreads
  <2>1. Cardinality(KThreads) <= Cardinality(E) /\ (Cardinality(E) = Cardinality(KThreads) => E = KThreads)
    BY <1>3, <1>5, FS_Subset
  <2>2. Cardinality(E) \in Nat /\ Cardinality(KThreads) \in Nat
    BY <1>3, FS_CardinalityType DEF ExitInv
  <2>3. Cardinality(KThreads) = Cardinality(Booted)
    BY DEF ExitInv
  <2> HIDE DEF E
  <2> QED
    BY <1>3, <2>1, <2>2, <2>3
<1>7. thread[c].self \in E
  OBVIOUS
<1> QED
  BY <1>6, <1>7 DEF KThreads

\* The ways out of schedule(): nothing to switch to, back from a switch, the
\* interrupt and its return.
LEMMA LeaveExit ==
  ASSUME IInv, ExitInv, NEW c \in Core,
         Idle(c) \/ SchedReturn(c) \/ TimerIrq(c) \/ IrqExit(c)
  PROVE  ExitInv'
<1>t. /\ TypeOK /\ thread[c] \in Thread /\ CoreOK(c) /\ StackOK(thread[c])
      /\ thread[c].frames \in Seq(Frame)
      /\ thread[c].self # NULL => RoleOK(thread[c])
  BY DEF IInv, TypeOK, ExitInv, Booted, CoreOK, Thread
<1> USE DEF At, table, process
<1>1. CASE Idle(c) \/ SchedReturn(c)
  <2> DEFINE t == [thread[c] EXCEPT !.pc = ReturnPoint(c), !.core = NULL]
  <2>1. /\ thread' = [thread EXCEPT ![c] = t] /\ thread[c].pc \in {"sched_body", "sched_ret"}
        /\ UNCHANGED <<role, state, queue, saved>>
    BY <1>t, <1>1 DEF Idle, SchedReturn, Return, TypeOK
  <2>2. t.self = thread[c].self /\ t.pc = ReturnPoint(c) /\ t.frames = thread[c].frames
    BY <1>t DEF Thread
  <2>3. thread[c].self # NULL
    BY <1>t, <2>1 DEF CoreOK, BootPlaces
  <2>4. thread[c].frames = <<>> => role[thread[c].self] = "kthread"
    <3>1. CASE Idle(c)
      <4>1. queue = <<>>
        BY <3>1, Whereabouts DEF Idle
      <4> QED
        BY <2>3, <4>1, AllKernelThreadsRun DEF Booted
    <3>2. CASE SchedReturn(c)
      BY <1>t, <2>3, <3>2 DEF SchedReturn, ExitInv, RoleOK, Place, CallingPlaces
    <3> QED
      BY <1>1, <3>1, <3>2
  <2>5. t.pc \in {"irq_exit", "loop"} /\ (t.frames = <<>> => t.pc = "loop")
    BY <2>2, <2>4 DEF ReturnPoint
  <2> HIDE DEF t
  <2>6. RoleOK(t)
    BY <1>t, <2>2, <2>3, <2>4, <2>5
    DEF RoleOK, Place, KernelPlaces, CallingPlaces, InSchedule
  <2> QED
    BY <2>1, <2>2, <2>5, <2>6, StayStep
<1>2. CASE TimerIrq(c)
  <2> DEFINE x == [pc |-> thread[c].pc, core |-> thread[c].core]
             f == Append(thread[c].frames, x)
             t == [self |-> thread[c].self, pc |-> "sched_acquire", core |-> c, frames |-> f]
  <2>1. /\ thread' = [thread EXCEPT ![c] = t] /\ thread[c].pc \in IrqPoints
        /\ UNCHANGED <<role, state, queue, saved>>
    BY <1>2 DEF TimerIrq
  <2>2. x \in Frame
    BY <1>t, <2>1, SchedulerAssumption DEF Thread, Frame
  <2>3. /\ f # <<>> /\ (thread[c].frames # <<>> => f[1] = thread[c].frames[1])
        /\ (thread[c].frames = <<>> => f[1] = x)
    <3>1. Len(thread[c].frames) \in Nat /\ (thread[c].frames = <<>> <=> Len(thread[c].frames) = 0)
      BY <1>t, EmptySeq
    <3> HIDE DEF x
    <3> QED
      BY <1>t, <2>2, <3>1, PushFrame
  <2> HIDE DEF f
  <2>4. Place(t) = Place(thread[c])
    BY <2>3 DEF Place
  <2>5. t.self # NULL => RoleOK(t)
    BY <1>t, <2>4 DEF RoleOK
  <2>6. t.self = thread[c].self /\ t.pc = "sched_acquire"
    OBVIOUS
  <2> HIDE DEF t
  <2> QED
    BY <2>1, <2>5, <2>6, StayStep
<1>3. CASE IrqExit(c)
  <2> DEFINE g == thread[c].frames
             n == Len(g)
             f == SubSeq(g, 1, n - 1)
             t == [self |-> thread[c].self, pc |-> g[n].pc, core |-> g[n].core, frames |-> f]
  <2>1. /\ thread' = [thread EXCEPT ![c] = t] /\ thread[c].pc = "irq_exit"
        /\ UNCHANGED <<role, state, queue, saved>>
    BY <1>3 DEF IrqExit
  <2>2. g # <<>>
    BY <1>t, <2>1 DEF StackOK
  <2>3. /\ n \in Nat /\ n >= 1
        /\ \A k \in 1 .. n - 1 : f[k] = g[k]
        /\ f = <<>> <=> n = 1
    BY <1>t, <2>2, PopFrame
  <2> HIDE DEF f, n
  <2>4. Place(t) = Place(thread[c])
    BY <2>2, <2>3 DEF Place
  <2>5. t.self # NULL => RoleOK(t)
    BY <1>t, <2>4 DEF RoleOK
  <2>6. g[n].pc \in Open
    BY <1>t, <2>3, SchedulerAssumption DEF StackOK, n
  <2>7. t.self = thread[c].self /\ t.pc \notin {"sched_ret", "fell_through"}
    BY <2>6 DEF Open
  <2> HIDE DEF t
  <2> QED
    BY <2>1, <2>5, <2>7, StayStep
<1> QED
  BY <1>1, <1>2, <1>3

\* A process p other than a kernel thread ends, by exit or by kill; the core
\* goes on at b.
Ends(c, p, b) ==
  /\ p \in Page /\ role[p] # "kthread"
  /\ lock = NULL /\ UNCHANGED <<role, queue, saved>>
  /\ state' = [state EXCEPT ![p] = "ZOMBIE"]
  /\ thread' = [thread EXCEPT ![c].pc = b]
  /\ thread[c].pc \in {"kill_wait", "exit_wait"}
  /\ b = "sh" \/ (b = "exit_sched" /\ thread[c].self = p)

LEMMA EndExit ==
  ASSUME IInv, ExitInv, NEW c \in Core, NEW p, NEW b, Ends(c, p, b)
  PROVE  ExitInv'
<1> USE DEF Ends
<1> DEFINE t == [thread[c] EXCEPT !.pc = b]
<1>1. /\ TypeOK /\ LockFollowsCore /\ thread[c] \in Thread /\ thread[c].frames = <<>>
      /\ thread[c].self # NULL => RoleOK(thread[c])
  BY DEF IInv, TypeOK, CoreOK, StackOK, InHandler, ExitInv, Booted
<1>2. /\ thread'[c] = t /\ t.self = thread[c].self /\ t.pc = b /\ t.frames = <<>>
      /\ \A d \in Core \ {c} : thread'[d] = thread[d]
      /\ \A d \in Core : thread'[d].self = thread[d].self
  BY <1>1 DEF TypeOK, Thread
<1> HIDE DEF t
<1>3. KThreads' = KThreads /\ Booted' = Booted
  BY <1>2 DEF KThreads, Booted
<1>4. \A q \in Page : (Queued(q)' <=> Queued(q)) /\ (Executing(q)' <=> Executing(q))
  BY <1>2 DEF Queued, Executing
<1>5. \A q : state[q] = "ZOMBIE" => state'[q] = "ZOMBIE" \/ q \notin Page
  BY <1>1 DEF TypeOK
<1>6. \A q \in KThreads' : (Queued(q) \/ Executing(q))' /\ state'[q] # "ZOMBIE"
  BY <1>1, <1>3, <1>4 DEF ExitInv, KThreads, TypeOK
<1>7. \A d \in Booted' : RoleOK(thread[d])'
  <2>1. ASSUME NEW d \in Booted, d # c PROVE RoleOK(thread[d])'
    <3>1. RoleOK(thread[d]) /\ thread[d].self \in Page
      BY <1>1, <2>1 DEF ExitInv, Booted, TypeOK, Thread
    <3> QED
      BY <1>2, <1>5, <2>1, <3>1 DEF RoleOK, Place, Booted
  <2>2. ASSUME c \in Booted PROVE RoleOK(thread[c])'
    <3>1. role[t.self] # "kthread"
      BY <1>1, <1>2, <2>2 DEF RoleOK, Place, Booted, KernelPlaces, InSchedule
    <3>2. b = "exit_sched" => state'[t.self] = "ZOMBIE"
      BY <1>1, <1>2 DEF TypeOK
    <3> QED
      BY <1>2, <3>1, <3>2 DEF RoleOK, Place, CallingPlaces, InSchedule
  <2> QED
    BY <1>3, <2>1, <2>2
<1>8. \A q \in Page : Queued(q)' => RoleOK(saved[q])'
  <2>1. ASSUME NEW q \in Page, Queued(q) PROVE RoleOK(saved[q])'
    BY <1>5, <2>1, Whereabouts DEF ExitInv, RoleOK, Place
  <2> QED
    BY <1>4, <2>1
<1>9. \A d \in Core : ~At(d, "sched_ret")'
  <2>1. \A d \in Core : thread[d].pc # "sched_ret"
    BY <1>1, SchedulerAssumption DEF LockFollowsCore, HoldsTable, Holding
  <2> QED
    BY <1>2, <2>1 DEF At
<1>10. ExitNeverReturns'
  BY <1>2 DEF ExitInv, ExitNeverReturns, At
<1> QED
  BY <1>3, <1>6, <1>7, <1>8, <1>9, <1>10 DEF ExitInv

LEMMA EndsExit ==
  ASSUME KernelThreadsSpared, IInv, ExitInv, NEW c \in Core, NEW n,
         Exit(c) \/ Kill(c, n)
  PROVE  ExitInv'
<1>t. TypeOK /\ OneCorePerProcess /\ CoreOK(c)
  BY DEF IInv
<1>1. CASE Exit(c)
  <2>1. thread[c].self # NULL /\ current[c] = thread[c].self /\ current[c] \in Page
        /\ thread[c].frames = <<>>
    BY <1>t, <1>1
    DEF Exit, At, CoreOK, StackOK, BootPlaces, InHandler, OneCorePerProcess, TypeOK
  <2>2. role[current[c]] # "kthread"
    BY <1>1, <2>1 DEF Exit, At, ExitInv, Booted, RoleOK, Place, KernelPlaces, InSchedule
  <2>3. /\ thread' = [thread EXCEPT ![c].pc = "exit_sched"] /\ thread[c].pc = "exit_wait"
        /\ state' = [state EXCEPT ![current[c]] = "ZOMBIE"]
        /\ lock = NULL /\ UNCHANGED <<role, queue, saved>>
    BY <1>1 DEF Exit, At, Goto, GotoIrqsOn
  <2>4. Ends(c, current[c], "exit_sched")
    BY <2>1, <2>2, <2>3 DEF Ends
  <2> QED
    BY <2>4, EndExit
<1>2. CASE Kill(c, n)
  <2>1. PICK p \in InTable : role[p] \in KillTargets /\ state' = [state EXCEPT ![p] = "ZOMBIE"]
    BY <1>2 DEF Kill
  <2>2. p \in Page
    BY KillFindsLive
  <2>4. role[p] # "kthread"
    BY <2>1 DEF KernelThreadsSpared
  <2>3. /\ thread' = [thread EXCEPT ![c].pc = "sh"] /\ thread[c].pc = "kill_wait"
        /\ lock = NULL /\ UNCHANGED <<role, queue, saved>>
    BY <1>2 DEF Kill, At, Goto
  <2>5. Ends(c, p, "sh")
    BY <2>1, <2>2, <2>3, <2>4 DEF Ends
  <2> QED
    BY <2>5, EndExit
<1> QED
  BY <1>1, <1>2

\* Of any process that new_process has in hand: it is no kernel thread.
LEMMA AllocExit ==
  ASSUME IInv, ExitInv, NEW c \in Core, NpAlloc(c)
  PROVE  ExitInv'
<1>t. /\ TypeOK /\ thread[c] \in Thread /\ thread[c].frames = <<>>
  BY DEF IInv, TypeOK, CoreOK, StackOK, InHandler, NpAlloc, At
<1>1. PICK p \in Page \ used :
        /\ role' = [role EXCEPT ![p] = "prog"]
        /\ state' = [state EXCEPT ![p] = "RUNNING"]
        /\ saved' = [saved EXCEPT ![p] = NewContext(p)]
  BY DEF NpAlloc, FirstFree
<1>2. /\ thread'[c].pc = "np_lock" /\ thread[c].pc = "np_alloc" /\ queue' = queue
      /\ thread'[c].frames = <<>> /\ thread'[c].self = thread[c].self
      /\ \A d \in Core \ {c} : thread'[d] = thread[d]
  BY <1>t DEF NpAlloc, At, Goto, TypeOK, Thread
<1>3. /\ \A q \in Page : (Queued(q)' <=> Queued(q)) /\ (Executing(q)' <=> Executing(q))
      /\ \A d \in Core : thread'[d].self = thread[d].self
  BY <1>2 DEF Queued, Executing
<1>4. \A q \in Page : Queued(q) \/ Executing(q) =>
        role'[q] = role[q] /\ state'[q] = state[q] /\ saved'[q] = saved[q]
  BY <1>t, <1>1, Whereabouts DEF TypeOK
<1>5. KThreads' = KThreads /\ Booted' = Booted
  BY <1>t, <1>1, <1>3, <1>4 DEF KThreads, Booted, ExitInv, TypeOK
<1>6. \A q \in KThreads' : (Queued(q) \/ Executing(q))' /\ state'[q] # "ZOMBIE"
  BY <1>3, <1>4, <1>5 DEF ExitInv, KThreads
<1>7. \A d \in Booted : thread[d].self \in Page /\ Executing(thread[d].self)
  BY Whereabouts DEF Booted, Executing
<1>8. \A d \in Booted' : RoleOK(thread[d])'
  <2>1. ASSUME NEW d \in Booted, d # c PROVE RoleOK(thread[d])'
    BY <1>2, <1>4, <1>7, <2>1 DEF ExitInv, RoleOK, Place, Booted
  <2>2. ASSUME c \in Booted PROVE RoleOK(thread[c])'
    BY <1>t, <1>2, <1>4, <1>7, <2>2
    DEF ExitInv, RoleOK, Place, KernelPlaces, CallingPlaces, InSchedule
  <2> QED
    BY <1>5, <2>1, <2>2
<1>9. \A q \in Page : Queued(q)' => RoleOK(saved[q])'
  BY <1>3, <1>4, Whereabouts DEF ExitInv, RoleOK, Place
<1>10. \A d \in Core : At(d, "sched_ret")' => state'[thread'[d].self] # "ZOMBIE"
  <2>1. ASSUME NEW d \in Core, At(d, "sched_ret")' PROVE d \in Booted /\ d # c /\ At(d, "sched_ret")
    BY <1>2, <2>1 DEF IInv, CoreOK, At, BootPlaces, Booted
  <2> QED
    BY <1>2, <1>4, <1>7, <2>1 DEF ExitInv
<1>11. ExitNeverReturns'
  BY <1>2 DEF ExitInv, ExitNeverReturns, At
<1> QED
  BY <1>5, <1>6, <1>8, <1>9, <1>10, <1>11 DEF ExitInv

LEMMA LinkExit ==
  ASSUME IInv, ExitInv, NEW c \in Core, NpLink(c)
  PROVE  ExitInv'
<1>t. /\ TypeOK /\ NewPageOK /\ thread[c] \in Thread /\ thread[c].frames = <<>>
      /\ StackOK(thread[c])
  BY DEF IInv, TypeOK, CoreOK, StackOK, InHandler, NpLink, At
<1>1. newPage \in Page /\ ~Queued(newPage) /\ ~Executing(newPage) /\ saved[newPage] = NewContext(newPage)
  BY <1>t DEF NpLink, At, NewPageOK, InHand, StackOK, Place, ShellPlaces, TypeOK
<1>2. /\ thread'[c].pc = "sh" /\ thread[c].pc = "np_link"
      /\ thread'[c].frames = <<>> /\ thread'[c].self = thread[c].self
      /\ \A d \in Core \ {c} : thread'[d] = thread[d]
  BY <1>t DEF NpLink, At, Goto, TypeOK, Thread
<1>3. /\ \A d \in Core : thread'[d].self = thread[d].self
      /\ \A q \in Page : Executing(q)' <=> Executing(q)
  BY <1>2 DEF Executing
<1>4. \A q \in Page : Queued(q)' <=> Queued(q) \/ q = newPage
  <2>1. /\ queue \in Seq(Page) /\ Len(queue') = Len(queue) + 1 /\ Len(queue) \in Nat
        /\ queue'[Len(queue) + 1] = newPage
        /\ \A k \in 1 .. Len(queue) : queue'[k] = queue[k]
    BY <1>t, <1>1 DEF NpLink, TypeOK
  <2> QED
    BY <2>1 DEF Queued
<1>5. UNCHANGED <<role, state, saved>>
  BY DEF NpLink
<1>6. KThreads' = KThreads /\ Booted' = Booted
  BY <1>3, <1>5 DEF KThreads, Booted
<1>7. \A q \in KThreads' : (Queued(q) \/ Executing(q))' /\ state'[q] # "ZOMBIE"
  BY <1>3, <1>4, <1>5, <1>6 DEF ExitInv, KThreads
<1>8. \A d \in Booted' : RoleOK(thread[d])'
  <2>1. ASSUME NEW d \in Booted, d # c PROVE RoleOK(thread[d])'
    BY <1>2, <1>5, <2>1 DEF ExitInv, RoleOK, Place, Booted
  <2>2. ASSUME c \in Booted PROVE RoleOK(thread[c])'
    BY <1>t, <1>2, <1>5, <2>2
    DEF ExitInv, RoleOK, Place, KernelPlaces, CallingPlaces, InSchedule
  <2> QED
    BY <1>6, <2>1, <2>2
<1>9. \A q \in Page : Queued(q)' => RoleOK(saved[q])'
  <2>1. role[newPage] # "kthread"
    BY <1>1 DEF ExitInv, KThreads
  <2>2. RoleOK(saved[newPage])
    BY <1>1, <2>1 DEF RoleOK, Place, NewContext, CallingPlaces, InSchedule
  <2>3. \A q \in Page : Queued(q)' => RoleOK(saved[q])
    BY <1>4, <2>2 DEF ExitInv
  <2> QED
    BY <1>5, <2>3 DEF RoleOK, Place
<1>10. \A d \in Core : At(d, "sched_ret")' => state'[thread'[d].self] # "ZOMBIE"
  BY <1>2, <1>5 DEF ExitInv, At
<1>11. ExitNeverReturns'
  BY <1>2 DEF ExitInv, ExitNeverReturns, At
<1> QED
  BY <1>6, <1>7, <1>8, <1>9, <1>10, <1>11 DEF ExitInv

\* A list without its first member, and with one more at the end.
LEMMA ShorterList ==
  ASSUME NEW q \in Seq(Page), q # <<>>,
         \A j, k \in 1 .. Len(q) : q[j] = q[k] => j = k
  PROVE  \A p : (\E k \in 1 .. Len(Tail(q)) : Tail(q)[k] = p)
                <=> (\E k \in 1 .. Len(q) : q[k] = p) /\ p # q[1]
<1>1. /\ Len(q) \in Nat /\ Len(q) >= 1 /\ Len(Tail(q)) = Len(q) - 1
      /\ \A k \in 1 .. Len(q) - 1 : Tail(q)[k] = q[k + 1]
  BY TailOfQueue, EmptySeq
<1>2. ASSUME NEW p, NEW k \in 1 .. Len(q), q[k] = p, p # q[1]
      PROVE  k - 1 \in 1 .. Len(q) - 1 /\ Tail(q)[k - 1] = p
  BY <1>1, <1>2
<1>3. ASSUME NEW k \in 1 .. Len(q) - 1
      PROVE  k + 1 \in 1 .. Len(q) /\ q[k + 1] # q[1] /\ Tail(q)[k] = q[k + 1]
  BY <1>1, <1>3
<1> QED
  BY <1>1, <1>2, <1>3

LEMMA LongerList ==
  ASSUME NEW q \in Seq(Page), NEW x \in Page
  PROVE  \A p : (\E k \in 1 .. Len(Append(q, x)) : Append(q, x)[k] = p)
                <=> (\E k \in 1 .. Len(q) : q[k] = p) \/ p = x
<1>1. /\ Len(q) \in Nat /\ Len(Append(q, x)) = Len(q) + 1
      /\ \A k \in 1 .. Len(q) : Append(q, x)[k] = q[k]
      /\ Append(q, x)[Len(q) + 1] = x
  BY AppendProperties, LenProperties
<1> QED
  BY <1>1

\* So a rotation loses nobody but the first.
LEMMA RotatedMembers ==
  ASSUME NEW q \in Seq(Page), q # <<>>, NEW x \in Page,
         \A j, k \in 1 .. Len(q) : q[j] = q[k] => j = k
  PROVE  \A p : (\E k \in 1 .. Len(Append(Tail(q), x)) : Append(Tail(q), x)[k] = p)
                <=> ((\E k \in 1 .. Len(q) : q[k] = p) /\ p # q[1]) \/ p = x
<1> DEFINE r == Tail(q)
<1>1. r \in Seq(Page)
  BY TailOfQueue
<1>2. \A p : (\E k \in 1 .. Len(r) : r[k] = p)
             <=> (\E k \in 1 .. Len(q) : q[k] = p) /\ p # q[1]
  BY ShorterList
<1> HIDE DEF r
<1>3. \A p : (\E k \in 1 .. Len(Append(r, x)) : Append(r, x)[k] = p)
             <=> (\E k \in 1 .. Len(r) : r[k] = p) \/ p = x
  BY <1>1, LongerList
<1> QED
  BY <1>2, <1>3 DEF r

\* The filter loop frees a terminated process, so no kernel thread.
LEMMA ReapExit ==
  ASSUME IInv, ExitInv, NEW c \in Core, Reap(c)
  PROVE  ExitInv'
<1>t. TypeOK /\ ListIsQueue /\ OneCorePerProcess
  BY DEF IInv
<1>1. /\ queue \in Seq(Page) /\ queue # <<>> /\ head = queue[1] /\ head \in Page
      /\ Queued(head) /\ state[head] = "ZOMBIE"
  BY <1>t, Whereabouts DEF Reap, Terminated, ListIsQueue, TypeOK
<1>2. /\ role' = [role EXCEPT ![head] = "prog"]
      /\ state' = [state EXCEPT ![head] = "SLEEP"]
      /\ saved' = [saved EXCEPT ![head] = NewContext(head)]
      /\ queue' = Tail(queue) /\ thread' = thread
  BY DEF Reap
<1>3. \A p : Queued(p)' <=> Queued(p) /\ p # head
  <2>1. \A j, k \in 1 .. Len(queue) : queue[j] = queue[k] => j = k
    BY <1>t DEF OneCorePerProcess
  <2>2. \A p : (\E k \in 1 .. Len(Tail(queue)) : Tail(queue)[k] = p)
               <=> (\E k \in 1 .. Len(queue) : queue[k] = p) /\ p # queue[1]
    BY <1>1, <2>1, ShorterList
  <2> QED
    BY <1>1, <1>2, <2>2 DEF Queued
<1>4. \A p : Executing(p)' <=> Executing(p)
  BY <1>2 DEF Executing
<1>5. \A p \in Page \ {head} : role'[p] = role[p] /\ state'[p] = state[p] /\ saved'[p] = saved[p]
  BY <1>t, <1>2 DEF TypeOK
<1>6. KThreads' = KThreads /\ head \notin KThreads /\ Booted' = Booted
  BY <1>t, <1>1, <1>2, <1>5 DEF ExitInv, KThreads, Booted, TypeOK
<1>7. \A p \in KThreads' : (Queued(p) \/ Executing(p))' /\ state'[p] # "ZOMBIE"
  BY <1>3, <1>4, <1>5, <1>6 DEF ExitInv, KThreads
<1>8. \A d \in Booted : thread[d].self \in Page \ {head}
  BY <1>1, Whereabouts DEF Booted
<1>9. \A d \in Booted' : RoleOK(thread[d])'
  BY <1>2, <1>5, <1>6, <1>8 DEF ExitInv, RoleOK, Place
<1>10. \A p \in Page : Queued(p)' => RoleOK(saved[p])'
  BY <1>3, <1>5, Whereabouts DEF ExitInv, RoleOK, Place
<1>11. \A d \in Core : At(d, "sched_ret")' => state'[thread'[d].self] # "ZOMBIE"
  <2>1. \A d \in Core : At(d, "sched_ret") => d \in Booted
    BY DEF IInv, CoreOK, At, BootPlaces, Booted
  <2> QED
    BY <1>2, <1>5, <1>8, <2>1 DEF ExitInv, At
<1>12. ExitNeverReturns'
  BY <1>2 DEF ExitInv, ExitNeverReturns, At
<1> QED
  BY <1>6, <1>7, <1>9, <1>10, <1>11, <1>12 DEF ExitInv

\* A core that starts brings one kernel thread along.
LEMMA BootExit ==
  ASSUME IInv, IInv', ExitInv, NEW c \in Core, StartBody(c)
  PROVE  ExitInv'
<1>t. TypeOK /\ thread[c] \in Thread /\ CoreOK(c) /\ IsFiniteSet(Core)
  BY SchedulerAssumption DEF IInv, TypeOK
<1>1. PICK p \in Page \ used :
        /\ role' = [role EXCEPT ![p] = "kthread"]
        /\ state' = [state EXCEPT ![p] = "RUNNING"]
        /\ thread' = [thread EXCEPT ![c].self = p, ![c].pc = "ss_timer"]
  BY DEF StartBody, FirstFree
<1>2. thread[c].self = NULL /\ thread[c].frames = <<>> /\ queue' = queue /\ saved' = saved
  BY <1>t DEF StartBody, At, CoreOK, BootPlaces
<1>3. /\ thread'[c].self = p /\ thread'[c].pc = "ss_timer" /\ thread'[c].frames = <<>>
      /\ \A d \in Core \ {c} : thread'[d] = thread[d]
  BY <1>t, <1>1, <1>2 DEF TypeOK, Thread
<1>4. /\ \A q : Queued(q)' <=> Queued(q)
      /\ \A q \in Page : Executing(q)' <=> Executing(q) \/ q = p
  BY <1>2, <1>3, SchedulerAssumption DEF Queued, Executing
<1>5. /\ \A q \in Page \ {p} : role'[q] = role[q] /\ state'[q] = state[q]
      /\ role'[p] = "kthread" /\ state'[p] = "RUNNING"
  BY <1>t, <1>1 DEF TypeOK
<1>6. ~Queued(p) /\ ~Executing(p) /\ p \in Page /\ p # NULL
  BY <1>1, Whereabouts, SchedulerAssumption
<1>7. KThreads' = KThreads \cup {p} /\ p \notin KThreads
  BY <1>5, <1>6 DEF KThreads, ExitInv
<1>8. Booted' = Booted \cup {c} /\ c \notin Booted
  BY <1>2, <1>3, <1>6 DEF Booted
<1>9. IsFiniteSet(KThreads)' /\ Cardinality(KThreads)' = Cardinality(Booted)'
  <2>1. IsFiniteSet(Booted)
    BY <1>t, FS_Subset DEF Booted
  <2>2. Cardinality(Booted') = Cardinality(Booted) + 1
    BY <1>8, <2>1, FS_AddElement
  <2>3. IsFiniteSet(KThreads') /\ Cardinality(KThreads') = Cardinality(KThreads) + 1
    BY <1>7, FS_AddElement DEF ExitInv
  <2> QED
    BY <2>2, <2>3 DEF ExitInv
<1>10. \A q \in KThreads' : (Queued(q) \/ Executing(q))' /\ state'[q] # "ZOMBIE"
  BY <1>4, <1>5, <1>7 DEF ExitInv, KThreads
<1>11. \A d \in Booted' : RoleOK(thread[d])'
  <2>1. ASSUME NEW d \in Booted PROVE RoleOK(thread[d])'
    <3>1. thread[d].self \in Page \ {p} /\ d # c /\ d \in Core
      BY <1>6, <1>8, Whereabouts DEF Booted, Executing
    <3> QED
      BY <1>3, <1>5, <3>1 DEF ExitInv, RoleOK, Place
  <2>2. RoleOK(thread[c])'
    BY <1>3, <1>5 DEF RoleOK, Place, KernelPlaces, CallingPlaces, InSchedule
  <2> QED
    BY <1>8, <2>1, <2>2
<1>12. \A q \in Page : Queued(q)' => RoleOK(saved[q])'
  BY <1>2, <1>4, <1>5, <1>6, Whereabouts DEF ExitInv, RoleOK, Place
<1>13. \A d \in Core : At(d, "sched_ret")' => state'[thread'[d].self] # "ZOMBIE"
  <2>1. ASSUME NEW d \in Core, At(d, "sched_ret")' PROVE d # c /\ At(d, "sched_ret") /\ d \in Booted
    BY <1>3, <2>1 DEF IInv, CoreOK, At, BootPlaces, Booted
  <2>2. \A d \in Booted : thread[d].self \in Page \ {p}
    BY <1>6, Whereabouts DEF Booted, Executing
  <2> QED
    BY <1>3, <1>5, <2>1, <2>2 DEF ExitInv
<1>14. ExitNeverReturns'
  BY <1>3 DEF ExitInv, ExitNeverReturns, At
<1> QED
  BY <1>9, <1>10, <1>11, <1>12, <1>13, <1>14 DEF ExitInv

\* A switch dispatches no terminated process, and whoever it lets wait is a
\* kernel thread or has ended, unless the handler called.
LEMMA SwitchExit ==
  ASSUME IInv, ExitInv, NEW c \in Core, Switch(c)
  PROVE  ExitInv'
<1> DEFINE prev == thread[c].self
           kept == [thread[c] EXCEPT !.pc = "sched_ret", !.core = NULL]
<1>t. /\ TypeOK /\ ListIsQueue /\ OneCorePerProcess /\ CoreOK(c)
      /\ LockFollowsCore /\ thread[c] \in Thread
      /\ \A p \in Page : Queued(p) => SavedOK(p)
  BY DEF IInv, TypeOK
<1>1. /\ thread[c].pc = "sched_body" /\ thread[c].core = c
      /\ prev \in Page /\ prev # NULL /\ current[c] = prev /\ ~Queued(prev)
  BY <1>t, SchedulerAssumption
  DEF Switch, At, CoreOK, InSchedule, BootPlaces, TypeOK, OneCorePerProcess, Thread
<1>2. /\ queue \in Seq(Page) /\ queue # <<>> /\ head = queue[1] /\ head \in Page
      /\ Queued(head) /\ state[head] # "ZOMBIE" /\ head # prev
  <2>1. head # NULL /\ (state[head] # "ZOMBIE")
    BY DEF Switch, Terminated
  <2>2. queue # <<>> /\ queue \in Seq(Page) /\ head = queue[1]
    BY <1>t, <2>1, Whereabouts DEF ListIsQueue, TypeOK
  <2>3. head \in Page /\ Queued(head)
    BY <2>2, Whereabouts
  <2> QED
    BY <1>1, <2>1, <2>2, <2>3
<1>3. /\ saved' = [saved EXCEPT ![prev] = kept]
      /\ thread' = [thread EXCEPT ![c] = saved'[head]]
      /\ queue' = Append(Tail(queue), prev)
      /\ UNCHANGED <<role, state, lock>>
  BY <1>1 DEF Switch
<1>4. /\ kept.self = prev /\ kept.pc = "sched_ret" /\ kept.frames = thread[c].frames
  BY <1>t DEF Thread
<1> HIDE DEF prev, kept
<1>5. /\ saved'[prev] = kept /\ \A p \in Page \ {prev} : saved'[p] = saved[p]
      /\ thread'[c] = saved[head] /\ thread'[c].self = head
      /\ thread'[c].pc \in {"sched_ret", "ret_from_fork"}
      /\ \A d \in Core \ {c} : thread'[d] = thread[d]
  BY <1>t, <1>1, <1>2, <1>3 DEF TypeOK, SavedOK
<1>6. \A p : Queued(p)' <=> (Queued(p) /\ p # head) \/ p = prev
  <2>1. \A j, k \in 1 .. Len(queue) : queue[j] = queue[k] => j = k
    BY <1>t DEF OneCorePerProcess
  <2>2. \A p : (\E k \in 1 .. Len(queue') : queue'[k] = p)
               <=> ((\E k \in 1 .. Len(queue) : queue[k] = p) /\ p # queue[1]) \/ p = prev
    <3>1. \A p : (\E k \in 1 .. Len(Append(Tail(queue), prev)) : Append(Tail(queue), prev)[k] = p)
                 <=> ((\E k \in 1 .. Len(queue) : queue[k] = p) /\ p # queue[1]) \/ p = prev
      BY <1>1, <1>2, <2>1, RotatedMembers
    <3> QED
      BY <1>3, <3>1
  <2> QED
    BY <1>2, <2>2 DEF Queued
<1>7. \A p : Queued(p) \/ Executing(p) => Queued(p)' \/ Executing(p)'
  <2>1. \A p : (p = prev => Queued(p)') /\ (p = head => Executing(p)')
    BY <1>5, <1>6 DEF Executing
  <2>2. \A p : Executing(p) => p = prev \/ Executing(p)'
    BY <1>5 DEF Executing, prev
  <2> QED
    BY <1>6, <2>1, <2>2
<1>8. KThreads' = KThreads
  BY <1>3 DEF KThreads
<1>9. Booted' = Booted /\ c \in Booted
  BY <1>1, <1>2, <1>5, SchedulerAssumption DEF Booted, prev
<1>10. \A p \in KThreads' : (Queued(p) \/ Executing(p))' /\ state'[p] # "ZOMBIE"
  BY <1>3, <1>7, <1>8 DEF ExitInv
<1>11. RoleOK(kept)
  <2>1. RoleOK(thread[c])
    BY <1>9 DEF ExitInv
  <2> QED
    BY <1>1, <1>4, <2>1
    DEF prev, RoleOK, Place, KernelPlaces, CallingPlaces, InSchedule
<1>12. \A d \in Booted' : RoleOK(thread[d])'
  <2>1. RoleOK(saved[head])
    BY <1>2 DEF ExitInv
  <2> QED
    BY <1>3, <1>5, <1>9, <2>1 DEF ExitInv, RoleOK, Place
<1>13. \A p \in Page : Queued(p)' => RoleOK(saved[p])'
  BY <1>3, <1>5, <1>6, <1>11 DEF ExitInv, RoleOK, Place
<1>14. \A d \in Core : At(d, "sched_ret")' => state'[thread'[d].self] # "ZOMBIE"
  BY <1>2, <1>3, <1>5 DEF ExitInv, At
<1>15. ExitNeverReturns'
  BY <1>5 DEF ExitInv, ExitNeverReturns, At
<1>16. IsFiniteSet(KThreads)' /\ Cardinality(KThreads)' = Cardinality(Booted)'
  BY <1>8, <1>9 DEF ExitInv
<1> QED
  BY <1>10, <1>12, <1>13, <1>14, <1>15, <1>16 DEF ExitInv

LEMMA InitExit == Init => ExitInv
<1> SUFFICES ASSUME Init PROVE ExitInv
  OBVIOUS
<1>1. KThreads = {} /\ Booted = {}
  BY DEF Init, KThreads, Booted
<1>2. \A p \in Page : RoleOK(saved[p])
  BY DEF Init, RoleOK, Place, NewContext, CallingPlaces, InSchedule
<1>3. \A c \in Core : thread[c].pc = "ss_acquire"
  BY DEF Init
<1> QED
  BY <1>1, <1>2, <1>3, FS_EmptySet DEF ExitInv, ExitNeverReturns, At

LEMMA NextExit ==
  ASSUME KernelThreadsSpared, IInv, IInv', ExitInv, [Next]_vars
  PROVE  ExitInv'
<1>1. CASE UNCHANGED vars
  BY <1>1
  DEF vars, table, process, ExitInv, ExitNeverReturns, KThreads, Booted, Queued,
      Executing, RoleOK, Place, At
<1>2. ASSUME NEW c \in Core, CoreStep(c) \/ Input(c) \/ TimerIrq(c) PROVE ExitInv'
  BY <1>2, OutsideExit, EnterExit, LeaveExit, EndsExit, AllocExit, LinkExit, ReapExit,
     BootExit, SwitchExit DEF CoreStep
<1> QED
  BY <1>1, <1>2 DEF Next

\* exit() never comes back to ret_from_fork, which ends there (schedule.c:47,
\* entry.S): as long as no kernel thread is killed, schedule() always finds a
\* process to switch to, or a kernel thread called it.
THEOREM ExitIsFinal ==
  ASSUME NoStaleCore, KernelThreadsSpared PROVE Spec => []ExitNeverReturns
<1>1. Init => ExitInv
  BY InitExit
<1>2. IInv /\ IInv' /\ ExitInv /\ [Next]_vars => ExitInv'
  BY NextExit
<1>3. ExitInv => ExitNeverReturns
  BY DEF ExitInv
<1> QED
  BY <1>1, <1>2, <1>3, Invariance, PTL DEF Spec
-----------------------------------------------------------------------------
(* The list is never empty: the shell is in it or on a core.  So schedule() *)
(* never enables interrupts inside a handler, and interrupts never nest.    *)

\* The shell types pids of programs only, and so not its own.
OnlyProgramsKilled == KillTargets \subseteq {"prog"}

\* The shell neither ends nor schedules by itself, and of no stack more than
\* one interrupt is handled.
ShellAt(t) == t.self = Shell => Place(t) \in ShellPlaces \cup {"ret_from_fork"}
Shallow(t) == Len(t.frames) <= 1 /\ ShellAt(t)

ShellInv ==
  /\ role[Shell] = "shell" /\ state[Shell] # "ZOMBIE"
  /\ Queued(Shell) \/ Executing(Shell)
  /\ \A c \in Core : Shallow(thread[c])
  /\ \A p \in Page : Queued(p) => Shallow(saved[p])
  /\ IrqExitMasked

\* Cores that run nothing but kernel threads leave the shell in the list.
LEMMA ShellKeepsList ==
  ASSUME IInv, ExitInv, ShellInv
  PROVE  head # NULL
<1> SUFFICES ASSUME head = NULL PROVE FALSE
  OBVIOUS
<1>1. queue = <<>> /\ ~Queued(Shell)
  BY Whereabouts DEF Queued
<1>2. PICK c \in Core : thread[c].self = Shell
  BY <1>1 DEF ShellInv, Executing
<1>3. c \in Booted
  BY <1>2, SchedulerAssumption DEF Booted
<1>4. role[Shell] = "kthread"
  BY <1>1, <1>2, <1>3, AllKernelThreadsRun
<1> QED
  BY <1>4 DEF ShellInv

\* A core that moves on with its process, the table left alone.
LEMMA StayShell ==
  ASSUME IInv, ShellInv, NEW c \in Core, NEW t,
         UNCHANGED <<role, state, queue, saved>>,
         thread' = [thread EXCEPT ![c] = t], t.self = thread[c].self, Shallow(t),
         t.pc = "irq_exit" => masked'[c],
         \A d \in Core \ {c} : masked'[d] = masked[d]
  PROVE  ShellInv'
<1>1. /\ thread'[c] = t
      /\ \A d \in Core \ {c} : thread'[d] = thread[d]
      /\ \A d \in Core : thread'[d].self = thread[d].self
  BY DEF IInv, TypeOK
<1>2. \A p \in Page : (Queued(p)' <=> Queued(p)) /\ (Executing(p)' <=> Executing(p))
  BY <1>1 DEF Queued, Executing
<1>3. (Queued(Shell) \/ Executing(Shell))'
  BY <1>2, SchedulerAssumption DEF ShellInv
<1>4. \A d \in Core : Shallow(thread[d])'
  BY <1>1 DEF ShellInv, Shallow, ShellAt, Place
<1>5. \A p \in Page : Queued(p)' => Shallow(saved[p])'
  BY <1>2 DEF ShellInv, Shallow, ShellAt, Place
<1>6. IrqExitMasked'
  BY <1>1 DEF ShellInv, IrqExitMasked, At
<1> QED
  BY <1>3, <1>4, <1>5, <1>6 DEF ShellInv

\* The same from one place to another outside of the handler.
LEMMA WalkShell ==
  ASSUME IInv, ShellInv, NEW c \in Core, NEW b,
         UNCHANGED <<role, state, queue, saved>>,
         thread' = [thread EXCEPT ![c].pc = b],
         thread[c].pc \notin InHandler, b # "irq_exit",
         thread[c].pc \in ShellPlaces \cup {"ret_from_fork"} => b \in ShellPlaces,
         \A d \in Core \ {c} : masked'[d] = masked[d]
  PROVE  ShellInv'
<1> DEFINE t == [thread[c] EXCEPT !.pc = b]
<1>1. thread[c] \in Thread /\ thread[c].frames = <<>>
  BY DEF IInv, TypeOK, CoreOK, StackOK
<1>2. t.self = thread[c].self /\ t.pc = b /\ t.frames = <<>>
  BY <1>1 DEF Thread
<1>3. thread' = [thread EXCEPT ![c] = t]
  OBVIOUS
<1>4. Shallow(t)
  BY <1>1, <1>2 DEF ShellInv, Shallow, ShellAt, Place
<1> HIDE DEF t
<1> QED
  BY <1>2, <1>3, <1>4, StayShell

LEMMA WalksShell ==
  ASSUME IInv, ShellInv, NEW c \in Core,
         \/ StartAcquire(c) \/ StartTimer(c) \/ DisableIrq(c) \/ NpLockMem(c)
         \/ NpNoPage(c) \/ NpLock(c) \/ KillMiss(c) \/ PrintPtable(c) \/ GetPid(c)
         \/ ScheduleTail(c) \/ Input(c)
  PROVE  ShellInv'
<1> USE DEF ShellPlaces, InHandler, At, Goto, GotoIrqsOn, GotoIrqsOff, table, process
<1>t. masked \in [Core -> BOOLEAN]
  BY DEF IInv, TypeOK
<1>1. CASE StartAcquire(c)
  BY <1>t, <1>1, WalkShell DEF StartAcquire
<1>2. CASE StartTimer(c)
  BY <1>t, <1>2, WalkShell DEF StartTimer
<1>3. CASE DisableIrq(c)
  BY <1>t, <1>3, WalkShell DEF DisableIrq
<1>4. CASE NpLockMem(c)
  BY <1>t, <1>4, WalkShell DEF NpLockMem
<1>5. CASE NpNoPage(c)
  BY <1>t, <1>5, WalkShell DEF NpNoPage
<1>6. CASE NpLock(c)
  BY <1>t, <1>6, WalkShell DEF NpLock
<1>7. CASE KillMiss(c)
  BY <1>t, <1>7, WalkShell DEF KillMiss
<1>8. CASE PrintPtable(c)
  BY <1>t, <1>8, WalkShell DEF PrintPtable
<1>9. CASE GetPid(c)
  BY <1>t, <1>9, WalkShell DEF GetPid
<1>10. CASE ScheduleTail(c)
  <2> DEFINE b == IF role[thread[c].self] = "shell" THEN "sh" ELSE "prog"
             t == [thread[c] EXCEPT !.pc = b]
  <2>1. /\ UNCHANGED <<role, state, queue, saved>>
        /\ thread' = [thread EXCEPT ![c] = t] /\ b \in {"sh", "prog"}
        /\ \A d \in Core \ {c} : masked'[d] = masked[d]
        /\ thread[c].pc = "ret_from_fork"
    BY <1>t, <1>10 DEF ScheduleTail
  <2>2. thread[c] \in Thread /\ thread[c].frames = <<>>
    BY <2>1 DEF IInv, TypeOK, CoreOK, StackOK
  <2>3. t.self = thread[c].self /\ t.pc = b /\ t.frames = <<>>
    BY <2>2 DEF Thread
  <2>4. thread[c].self = Shell => b = "sh"
    BY DEF ShellInv
  <2> HIDE DEF b, t
  <2>5. Shallow(t)
    BY <2>3, <2>4 DEF Shallow, ShellAt, Place
  <2> QED
    BY <2>1, <2>3, <2>5, StayShell
<1>11. CASE Input(c)
  <2>1. CASE ShellSpawn(c)
    BY <1>t, <2>1, WalkShell DEF ShellSpawn
  <2>2. CASE ShellKill(c)
    BY <1>t, <2>2, WalkShell DEF ShellKill
  <2>3. CASE ShellPrint(c)
    BY <1>t, <2>3, WalkShell DEF ShellPrint
  <2>4. CASE CallGetPid(c)
    BY <1>t, <2>4, WalkShell DEF CallGetPid
  <2>5. CASE CallExit(c)
    BY <1>t, <2>5, WalkShell DEF CallExit
  <2> QED
    BY <1>11, <2>1, <2>2, <2>3, <2>4, <2>5 DEF Input
<1> QED
  BY <1>1, <1>2, <1>3, <1>4, <1>5, <1>6, <1>7, <1>8, <1>9, <1>10, <1>11

\* Into the handler and schedule(), and out of them.
LEMMA HandlerShell ==
  ASSUME IInv, ShellInv, NEW c \in Core,
         \/ CallSchedule(c) \/ SchedAcquire(c) \/ SchedReturn(c)
         \/ TimerIrq(c) \/ IrqExit(c)
  PROVE  ShellInv'
<1>t. /\ TypeOK /\ masked \in [Core -> BOOLEAN] /\ CoreOK(c) /\ StackOK(thread[c])
      /\ thread[c] \in Thread /\ thread[c].frames \in Seq(Frame)
      /\ thread \in [Core -> Thread] /\ Shallow(thread[c])
      /\ thread[c].pc = "irq_exit" => masked[c]
  BY DEF IInv, TypeOK, CoreOK, Thread, ShellInv, IrqExitMasked, At
<1>1. CASE CallSchedule(c)
  <2> DEFINE t == [thread[c] EXCEPT !.pc = "sched_irqoff", !.core = c]
  <2>1. /\ thread[c].pc \in {"loop", "exit_sched"} /\ thread' = [thread EXCEPT ![c] = t]
        /\ UNCHANGED <<role, state, queue, saved, masked>>
    BY <1>1 DEF CallSchedule, At, table, process
  <2>2. thread[c].frames = <<>>
    BY <1>t, <2>1 DEF StackOK, InHandler
  <2>3. t.self = thread[c].self /\ t.pc = "sched_irqoff" /\ t.frames = <<>>
    BY <1>t, <2>2 DEF Thread
  <2> HIDE DEF t
  <2>4. Shallow(t)
    BY <1>t, <2>1, <2>2, <2>3 DEF Shallow, ShellAt, Place, ShellPlaces
  <2> QED
    BY <2>1, <2>3, <2>4, StayShell
<1>2. CASE SchedAcquire(c)
  <2> DEFINE t == [thread[c] EXCEPT !.pc = "sched_body"]
  <2>1. /\ thread[c].pc = "sched_acquire" /\ thread' = [thread EXCEPT ![c] = t]
        /\ UNCHANGED <<role, state, queue, saved, masked>>
    BY <1>2 DEF SchedAcquire, At, Goto, table, process
  <2>2. t.self = thread[c].self /\ t.pc = "sched_body" /\ t.frames = thread[c].frames
    BY <1>t DEF Thread
  <2> HIDE DEF t
  <2>3. Shallow(t)
    BY <1>t, <2>1, <2>2 DEF Shallow, ShellAt, Place, ShellPlaces
  <2> QED
    BY <2>1, <2>2, <2>3, StayShell
<1>3. CASE SchedReturn(c)
  <2> DEFINE t == [thread[c] EXCEPT !.pc = ReturnPoint(c), !.core = NULL]
  <2>1. /\ thread[c].pc = "sched_ret" /\ thread' = [thread EXCEPT ![c] = t]
        /\ UNCHANGED <<role, state, queue, saved, masked>>
    BY <1>3 DEF SchedReturn, Return, At, table, process
  <2>2. t.self = thread[c].self /\ t.frames = thread[c].frames
    BY <1>t DEF Thread
  <2> HIDE DEF t
  <2>3. masked[c]
    BY <1>t, <2>1 DEF CoreOK, Closed
  <2>4. Shallow(t)
    BY <1>t, <2>1, <2>2 DEF Shallow, ShellAt, Place, ShellPlaces
  <2> QED
    BY <2>1, <2>2, <2>3, <2>4, StayShell
<1>4. CASE TimerIrq(c)
  <2> DEFINE x == [pc |-> thread[c].pc, core |-> thread[c].core]
             f == Append(thread[c].frames, x)
             t == [self |-> thread[c].self, pc |-> "sched_acquire", core |-> c, frames |-> f]
  <2>1. /\ ~masked[c] /\ thread[c].pc \in IrqPoints
        /\ thread' = [thread EXCEPT ![c] = t]
        /\ \A d \in Core \ {c} : masked'[d] = masked[d]
        /\ UNCHANGED <<role, state, queue, saved>>
    BY <1>t, <1>4 DEF TimerIrq, table, process
  <2>2. thread[c].pc \in Open
    BY <2>1, SchedulerAssumption
  <2>3. thread[c].frames = <<>>
    BY <1>t, <2>1, <2>2 DEF StackOK, InHandler, Open
  <2>4. f = <<x>> /\ Len(f) = 1 /\ f[1] = x /\ f # <<>>
    BY <2>3
  <2> HIDE DEF f
  <2>5. Shallow(t)
    BY <1>t, <2>3, <2>4 DEF Shallow, ShellAt, Place
  <2> QED
    BY <2>1, <2>5, StayShell
<1>5. CASE IrqExit(c)
  <2> DEFINE n == Len(thread[c].frames)
             f == SubSeq(thread[c].frames, 1, n - 1)
             t == [self |-> thread[c].self, pc |-> thread[c].frames[n].pc,
                   core |-> thread[c].frames[n].core, frames |-> f]
  <2>1. /\ thread[c].pc = "irq_exit" /\ thread' = [thread EXCEPT ![c] = t]
        /\ \A d \in Core \ {c} : masked'[d] = masked[d]
        /\ UNCHANGED <<role, state, queue, saved>>
    BY <1>t, <1>5 DEF IrqExit, table, process
  <2>2. thread[c].frames # <<>>
    BY <1>t, <2>1 DEF StackOK
  <2>3. n = 1 /\ f = <<>>
    BY <1>t, <2>2, PopFrame DEF Shallow
  <2> HIDE DEF n, f
  <2>4. thread[c].frames[1].pc # "irq_exit"
    BY <1>t, <2>3 DEF StackOK, n
  <2>5. Shallow(t)
    BY <1>t, <2>2, <2>3 DEF Shallow, ShellAt, Place
  <2> QED
    BY <2>1, <2>3, <2>4, <2>5, StayShell
<1> QED
  BY <1>1, <1>2, <1>3, <1>4, <1>5

\* A step that leaves the shell's fields alone, its process where it is or
\* moved between the cores and the list.
LEMMA TableShell ==
  ASSUME IInv, ShellInv, role'[Shell] = role[Shell], state'[Shell] # "ZOMBIE",
         (Queued(Shell) \/ Executing(Shell))',
         \A d \in Core : Shallow(thread[d])',
         \A p \in Page : Queued(p)' => Shallow(saved[p])',
         \A d \in Core : At(d, "irq_exit")' => At(d, "irq_exit"),
         masked' = masked
  PROVE  ShellInv'
<1>1. IrqExitMasked'
  BY DEF ShellInv, IrqExitMasked
<1> QED
  BY <1>1 DEF ShellInv

\* start_scheduler and new_process take a page that is not the shell's.
LEMMA TakeShell ==
  ASSUME IInv, ShellInv, NEW c \in Core, StartBody(c) \/ NpAlloc(c)
  PROVE  ShellInv'
<1>t. TypeOK /\ thread[c] \in Thread /\ StackOK(thread[c])
  BY DEF IInv, TypeOK, CoreOK
<1>s. Shell \in used /\ Shell \in Page /\ Shell # NULL
  BY Whereabouts, SchedulerAssumption DEF ShellInv
<1>1. PICK p \in Page \ used :
        /\ \E r : role' = [role EXCEPT ![p] = r]
        /\ state' = [state EXCEPT ![p] = "RUNNING"]
        /\ saved' = saved \/ saved' = [saved EXCEPT ![p] = NewContext(p)]
        /\ \/ thread' = [thread EXCEPT ![c].self = p, ![c].pc = "ss_timer"]
           \/ thread' = [thread EXCEPT ![c].pc = "np_lock"]
        /\ StartBody(c) => thread' = [thread EXCEPT ![c].self = p, ![c].pc = "ss_timer"]
        /\ NpAlloc(c) => thread' = [thread EXCEPT ![c].pc = "np_lock"]
  BY DEF StartBody, NpAlloc, FirstFree, Goto
<1>2. role'[Shell] = role[Shell] /\ state'[Shell] = state[Shell]
  BY <1>t, <1>s, <1>1 DEF TypeOK
<1>3. thread[c].frames = <<>> /\ thread[c].pc \in {"ss_body", "np_alloc"}
  BY <1>t DEF StartBody, NpAlloc, At, StackOK, InHandler
<1>4. /\ \A d \in Core \ {c} : thread'[d] = thread[d]
      /\ thread'[c].frames = <<>> /\ thread'[c].pc \in {"ss_timer", "np_lock"}
      /\ thread'[c].self = thread[c].self \/ thread[c].self = NULL
      /\ thread'[c].self = Shell => thread'[c].pc = "np_lock"
  <2>1. CASE StartBody(c)
    <3>1. thread[c].self = NULL
      BY <2>1 DEF StartBody, At, IInv, CoreOK, BootPlaces
    <3> QED
      BY <1>t, <1>s, <1>1, <1>3, <2>1, <3>1 DEF TypeOK, Thread
  <2>2. CASE NpAlloc(c)
    BY <1>t, <1>1, <1>3, <2>2 DEF TypeOK, Thread
  <2> QED
    BY <2>1, <2>2
<1>5. queue' = queue /\ masked' = masked
  BY DEF StartBody, NpAlloc
<1>6. \A p2 \in Page : Queued(p2)' <=> Queued(p2)
  BY <1>5 DEF Queued
<1>7. (Queued(Shell) \/ Executing(Shell))'
  BY <1>s, <1>4, <1>6 DEF ShellInv, Executing
<1>8. \A d \in Core : Shallow(thread[d])'
  BY <1>4 DEF ShellInv, Shallow, ShellAt, Place, ShellPlaces
<1>9. \A q \in Page : Queued(q)' => Shallow(saved[q])'
  <2>1. \A q \in Page : Queued(q) => saved'[q] = saved[q]
    BY <1>t, <1>1, Whereabouts DEF TypeOK
  <2> QED
    BY <1>6, <2>1 DEF ShellInv, Shallow, ShellAt, Place
<1>10. \A d \in Core : At(d, "irq_exit")' => At(d, "irq_exit")
  BY <1>4 DEF At
<1> QED
  BY <1>2, <1>5, <1>7, <1>8, <1>9, <1>10, TableShell DEF ShellInv

\* new_process links its page behind the others.
LEMMA LinkShell ==
  ASSUME IInv, ShellInv, NEW c \in Core, NpLink(c)
  PROVE  ShellInv'
<1>t. /\ TypeOK /\ NewPageOK /\ thread[c] \in Thread /\ StackOK(thread[c])
      /\ thread[c].frames = <<>>
  BY DEF IInv, TypeOK, CoreOK, StackOK, InHandler, NpLink, At
<1>1. newPage \in Page /\ saved[newPage] = NewContext(newPage)
  BY <1>t DEF NpLink, At, NewPageOK, InHand, StackOK, Place, ShellPlaces, TypeOK
<1>2. /\ thread'[c].pc = "sh" /\ thread[c].pc = "np_link"
      /\ thread'[c].frames = <<>> /\ thread'[c].self = thread[c].self
      /\ \A d \in Core \ {c} : thread'[d] = thread[d]
  BY <1>t DEF NpLink, At, Goto, TypeOK, Thread
<1>3. UNCHANGED <<role, state, saved, masked>> /\ queue' = Append(queue, newPage)
  BY DEF NpLink
<1>4. \A q : Queued(q)' <=> Queued(q) \/ q = newPage
  <2>1. \A q : (\E k \in 1 .. Len(Append(queue, newPage)) : Append(queue, newPage)[k] = q)
               <=> (\E k \in 1 .. Len(queue) : queue[k] = q) \/ q = newPage
    BY <1>t, <1>1, LongerList DEF TypeOK
  <2> QED
    BY <1>3, <2>1 DEF Queued
<1>5. (Queued(Shell) \/ Executing(Shell))'
  BY <1>2, <1>4 DEF ShellInv, Executing
<1>6. \A d \in Core : Shallow(thread[d])'
  BY <1>2 DEF ShellInv, Shallow, ShellAt, Place, ShellPlaces
<1>7. Shallow(NewContext(newPage))
  BY DEF Shallow, ShellAt, Place, NewContext
<1>8. \A q \in Page : Queued(q)' => Shallow(saved[q])'
  <2>1. \A q \in Page : Queued(q)' => Shallow(saved[q])
    BY <1>1, <1>4, <1>7 DEF ShellInv
  <2> QED
    BY <1>3, <2>1 DEF Shallow, ShellAt, Place
<1>9. \A d \in Core : At(d, "irq_exit")' => At(d, "irq_exit")
  BY <1>2 DEF At
<1> QED
  BY <1>3, <1>5, <1>6, <1>8, <1>9, TableShell DEF ShellInv

\* The filter loop frees a terminated process, so not the shell.
LEMMA ReapShell ==
  ASSUME IInv, ShellInv, NEW c \in Core, Reap(c)
  PROVE  ShellInv'
<1>t. TypeOK /\ ListIsQueue /\ OneCorePerProcess
  BY DEF IInv
<1>1. /\ queue \in Seq(Page) /\ queue # <<>> /\ head = queue[1] /\ head \in Page
      /\ state[head] = "ZOMBIE" /\ head # Shell
  BY <1>t, Whereabouts DEF Reap, Terminated, ListIsQueue, TypeOK, ShellInv
<1>2. /\ role' = [role EXCEPT ![head] = "prog"]
      /\ state' = [state EXCEPT ![head] = "SLEEP"]
      /\ saved' = [saved EXCEPT ![head] = NewContext(head)]
      /\ queue' = Tail(queue) /\ UNCHANGED <<thread, masked>>
  BY DEF Reap
<1>3. \A p : Queued(p)' <=> Queued(p) /\ p # head
  <2>1. \A j, k \in 1 .. Len(queue) : queue[j] = queue[k] => j = k
    BY <1>t DEF OneCorePerProcess
  <2>2. \A p : (\E k \in 1 .. Len(Tail(queue)) : Tail(queue)[k] = p)
               <=> (\E k \in 1 .. Len(queue) : queue[k] = p) /\ p # queue[1]
    BY <1>1, <2>1, ShorterList
  <2> QED
    BY <1>1, <1>2, <2>2 DEF Queued
<1>4. \A p \in Page \ {head} : role'[p] = role[p] /\ state'[p] = state[p] /\ saved'[p] = saved[p]
  BY <1>t, <1>2 DEF TypeOK
<1>5. Shell \in Page \ {head}
  BY <1>1, SchedulerAssumption
<1>6. (Queued(Shell) \/ Executing(Shell))'
  BY <1>1, <1>2, <1>3 DEF ShellInv, Executing
<1>7. \A d \in Core : Shallow(thread[d])'
  BY <1>2 DEF ShellInv, Shallow, ShellAt, Place
<1>8. \A p \in Page : Queued(p)' => Shallow(saved[p])'
  BY <1>3, <1>4 DEF ShellInv, Shallow, ShellAt, Place
<1>9. \A d \in Core : At(d, "irq_exit")' => At(d, "irq_exit")
  BY <1>2 DEF At
<1> QED
  BY <1>2, <1>4, <1>5, <1>6, <1>7, <1>8, <1>9, TableShell DEF ShellInv

\* A switch moves two processes between the core and the list.
LEMMA SwitchShell ==
  ASSUME IInv, ShellInv, NEW c \in Core, Switch(c)
  PROVE  ShellInv'
<1> DEFINE prev == thread[c].self
           kept == [thread[c] EXCEPT !.pc = "sched_ret", !.core = NULL]
<1>t. /\ TypeOK /\ ListIsQueue /\ OneCorePerProcess /\ CoreOK(c) /\ thread[c] \in Thread
      /\ \A p \in Page : Queued(p) => SavedOK(p)
  BY DEF IInv, TypeOK
<1>1. /\ thread[c].pc = "sched_body" /\ thread[c].core = c
      /\ prev \in Page /\ current[c] = prev /\ ~Queued(prev)
  BY <1>t, SchedulerAssumption
  DEF Switch, At, CoreOK, InSchedule, BootPlaces, TypeOK, OneCorePerProcess, Thread
<1>2. /\ queue \in Seq(Page) /\ queue # <<>> /\ head = queue[1] /\ head \in Page
      /\ Queued(head) /\ head # prev
  <2>1. queue # <<>> /\ queue \in Seq(Page) /\ head = queue[1]
    BY <1>t, Whereabouts DEF Switch, ListIsQueue, TypeOK
  <2>2. head \in Page /\ Queued(head)
    BY <2>1, Whereabouts
  <2> QED
    BY <1>1, <2>1, <2>2
<1>3. /\ saved' = [saved EXCEPT ![prev] = kept]
      /\ thread' = [thread EXCEPT ![c] = saved'[head]]
      /\ queue' = Append(Tail(queue), prev)
      /\ UNCHANGED <<role, state, masked>>
  BY <1>1 DEF Switch
<1>4. kept.self = prev /\ kept.pc = "sched_ret" /\ kept.frames = thread[c].frames
  BY <1>t DEF Thread
<1> HIDE DEF kept
<1>5. /\ saved'[prev] = kept /\ \A p \in Page \ {prev} : saved'[p] = saved[p]
      /\ thread'[c] = saved[head] /\ thread'[c].self = head
      /\ thread'[c].pc \in {"sched_ret", "ret_from_fork"}
      /\ \A d \in Core \ {c} : thread'[d] = thread[d]
  BY <1>t, <1>1, <1>2, <1>3 DEF TypeOK, SavedOK
<1>6. \A p : Queued(p)' <=> (Queued(p) /\ p # head) \/ p = prev
  <2>1. \A j, k \in 1 .. Len(queue) : queue[j] = queue[k] => j = k
    BY <1>t DEF OneCorePerProcess
  <2>2. \A p : (\E k \in 1 .. Len(queue') : queue'[k] = p)
               <=> ((\E k \in 1 .. Len(queue) : queue[k] = p) /\ p # queue[1]) \/ p = prev
    <3>1. \A p : (\E k \in 1 .. Len(Append(Tail(queue), prev)) : Append(Tail(queue), prev)[k] = p)
                 <=> ((\E k \in 1 .. Len(queue) : queue[k] = p) /\ p # queue[1]) \/ p = prev
      BY <1>1, <1>2, <2>1, RotatedMembers
    <3> QED
      BY <1>3, <3>1
  <2> QED
    BY <1>2, <2>2 DEF Queued
<1>7. (Queued(Shell) \/ Executing(Shell))'
  BY <1>5, <1>6 DEF ShellInv, Executing
<1>8. Shallow(kept) /\ Shallow(saved[head])
  <2>1. Shallow(thread[c])
    BY DEF ShellInv
  <2> QED
    BY <1>1, <1>2, <1>4, <2>1 DEF ShellInv, Shallow, ShellAt, Place, ShellPlaces
<1>9. \A d \in Core : Shallow(thread[d])'
  BY <1>5, <1>8 DEF ShellInv, Shallow, ShellAt, Place
<1>10. \A p \in Page : Queued(p)' => Shallow(saved[p])'
  BY <1>5, <1>6, <1>8 DEF ShellInv, Shallow, ShellAt, Place
<1>11. \A d \in Core : At(d, "irq_exit")' => At(d, "irq_exit")
  BY <1>5 DEF At
<1> QED
  BY <1>3, <1>7, <1>9, <1>10, <1>11, TableShell DEF ShellInv

\* Who ends is a program: the shell never gets to exit, and is not killed.
LEMMA EndShell ==
  ASSUME OnlyProgramsKilled, IInv, ShellInv, NEW c \in Core, NEW n,
         Exit(c) \/ Kill(c, n)
  PROVE  ShellInv'
<1>t. /\ TypeOK /\ OneCorePerProcess /\ thread[c] \in Thread /\ Shallow(thread[c])
      /\ thread[c].frames = <<>> /\ thread[c].pc \in {"exit_wait", "kill_wait"}
  BY DEF IInv, TypeOK, CoreOK, StackOK, InHandler, Exit, Kill, At, ShellInv
<1>1. PICK p : state' = [state EXCEPT ![p] = "ZOMBIE"] /\ p # Shell
  <2>1. CASE Exit(c)
    <3>1. current[c] = thread[c].self
      BY <1>t DEF OneCorePerProcess
    <3>2. thread[c].self # Shell
      BY <1>t, <2>1 DEF Exit, At, Shallow, ShellAt, Place, ShellPlaces
    <3> QED
      BY <2>1, <3>1, <3>2 DEF Exit
  <2>2. CASE Kill(c, n)
    BY <2>2 DEF Kill, OnlyProgramsKilled, ShellInv
  <2> QED
    BY <2>1, <2>2
<1>2. PICK b \in {"exit_sched", "sh"} :
        /\ thread' = [thread EXCEPT ![c].pc = b]
        /\ thread[c].pc = "kill_wait" => b = "sh"
  BY DEF Exit, Kill, At, Goto, GotoIrqsOn
<1>3. UNCHANGED <<role, queue, saved>> /\ \A d \in Core \ {c} : masked'[d] = masked[d]
  BY <1>t DEF Exit, Kill, GotoIrqsOn, TypeOK
<1>4. /\ thread'[c].pc = b /\ thread'[c].frames = <<>> /\ thread'[c].self = thread[c].self
      /\ \A d \in Core \ {c} : thread'[d] = thread[d]
  BY <1>t, <1>2 DEF TypeOK, Thread
<1>5. role'[Shell] = role[Shell] /\ state'[Shell] = state[Shell]
  BY <1>t, <1>1, <1>3, SchedulerAssumption DEF TypeOK
<1>6. \A q : (Queued(q)' <=> Queued(q)) /\ (Executing(q)' <=> Executing(q))
  BY <1>3, <1>4 DEF Queued, Executing
<1>7. \A d \in Core : Shallow(thread[d])'
  BY <1>t, <1>2, <1>4 DEF ShellInv, Shallow, ShellAt, Place, ShellPlaces
<1>8. \A q \in Page : Queued(q)' => Shallow(saved[q])'
  BY <1>3, <1>6 DEF ShellInv, Shallow, ShellAt, Place
<1>9. IrqExitMasked'
  BY <1>3, <1>4 DEF ShellInv, IrqExitMasked, At
<1> QED
  BY <1>5, <1>6, <1>7, <1>8, <1>9 DEF ShellInv

LEMMA InitShell == Init => ShellInv
<1> SUFFICES ASSUME Init PROVE ShellInv
  OBVIOUS
<1>1. role[Shell] = "shell" /\ state[Shell] # "ZOMBIE"
  BY SchedulerAssumption DEF Init
<1>2. Queued(Shell)
  <2>1. queue = <<Shell>>
    BY DEF Init
  <2> QED
    BY <2>1 DEF Queued
<1>3. \A c \in Core : Shallow(thread[c]) /\ ~At(c, "irq_exit")
  BY SchedulerAssumption DEF Init, Shallow, ShellAt, At
<1>4. \A p \in Page : Shallow(saved[p])
  BY DEF Init, NewContext, Shallow, ShellAt, Place
<1> QED
  BY <1>1, <1>2, <1>3, <1>4 DEF ShellInv, IrqExitMasked

LEMMA NextShell ==
  ASSUME OnlyProgramsKilled, IInv, ExitInv, ShellInv, [Next]_vars
  PROVE  ShellInv'
<1>1. CASE UNCHANGED vars
  BY <1>1
  DEF vars, table, process, ShellInv, IrqExitMasked, Queued, Executing, Shallow,
      ShellAt, Place, At
<1>2. \A c \in Core : ~Idle(c)
  BY ShellKeepsList DEF Idle
<1>3. ASSUME NEW c \in Core, CoreStep(c) \/ Input(c) \/ TimerIrq(c) PROVE ShellInv'
  BY <1>2, <1>3, WalksShell, HandlerShell, TakeShell, LinkShell, ReapShell, SwitchShell,
     EndShell DEF CoreStep
<1> QED
  BY <1>1, <1>3 DEF Next

\* As long as only programs are killed, the shell is a process that neither
\* ends nor is on every core.
LEMMA ShellInvariance ==
  ASSUME NoStaleCore, OnlyProgramsKilled PROVE Spec => [](IInv /\ ExitInv /\ ShellInv)
<1>1. KernelThreadsSpared
  BY DEF OnlyProgramsKilled, KernelThreadsSpared
<1>2. Init => ExitInv /\ ShellInv
  BY InitExit, InitShell
<1>3. IInv /\ IInv' /\ ExitInv /\ ShellInv /\ [Next]_vars => ExitInv' /\ ShellInv'
  BY <1>1, NextExit, NextShell
<1> QED
  BY <1>2, <1>3, Invariance, PTL DEF Spec

\* kernel_exit restores ELR_EL1 and SPSR_EL1 with interrupts masked
\* (entry.S:34): no second interrupt comes between the loads and the eret.
THEOREM HandlersReturnMasked ==
  ASSUME NoStaleCore, OnlyProgramsKilled PROVE Spec => []IrqExitMasked
<1>1. ShellInv => IrqExitMasked
  BY DEF ShellInv
<1> QED
  BY <1>1, ShellInvariance, PTL

\* schedule() never finds the list empty: what it does then (schedule.c:115),
\* interrupts enabled in the handler included, never happens.
THEOREM ListNeverEmpty ==
  ASSUME NoStaleCore, OnlyProgramsKilled PROVE Spec => [](head # NULL)
<1>1. IInv /\ ExitInv /\ ShellInv => head # NULL
  BY ShellKeepsList
<1> QED
  BY <1>1, ShellInvariance, PTL

\* A stack holds at most one interrupt, whatever bound MaxNest sets: of the
\* 4096 bytes for a process and its stack the registers saved take 256 once.
THEOREM InterruptsNeverNest ==
  ASSUME NoStaleCore, OnlyProgramsKilled
  PROVE  Spec => [](\A c \in Core : Len(thread[c].frames) <= 1)
<1>1. ShellInv => \A c \in Core : Len(thread[c].frames) <= 1
  BY DEF ShellInv, Shallow
<1> QED
  BY <1>1, ShellInvariance, PTL
=============================================================================
