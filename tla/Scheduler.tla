----------------------------- MODULE Scheduler -----------------------------
(***************************************************************************)
(* The process table of src/scheduler/schedule.c and everything that runs  *)
(* on it: the schedulers of the cores (kernel.c), the timer interrupt that *)
(* enters and leaves them (entry.S, irq.c, timer.c), the context switch,   *)
(* and the shell and its programs, which create, kill, list and end        *)
(* processes.                                                              *)
(*                                                                         *)
(* A step that only runs inside ptable.lock with interrupts masked is one  *)
(* action with the acquire and the release around it, schedule() excepted: *)
(* it takes the lock on one stack and releases it on another.              *)
(***************************************************************************)
EXTENDS Integers, Sequences, FiniteSets

CONSTANTS
  Core,        \* the cores, four on the board
  Page,        \* the 64 KiB pages by number; a process is its page
  NULL,        \* no page, no core
  Shell,       \* the page of the shell
  MaxProcs,    \* bound: how many processes are created
  MaxNest,     \* bound: how deep interrupts nest on one stack
  IrqPoints,   \* the places where the timer interrupt may hit
  Commands,    \* the calls that the user and the programs make
  KillTargets  \* the kinds of process whose pid is given to kill

\* Places in the code.  Where interrupts may be enabled:
Open == {"loop", "exit_sched", "sched_irqoff", "irq_exit", "sh", "np_lock_mem",
         "np_alloc", "np_lock", "np_link", "prog"}
\* Where they are masked:
Closed == {"ss_acquire", "ss_body", "ss_timer", "sched_acquire", "sched_body",
           "sched_ret", "ret_from_fork", "kill_wait", "print_wait", "pid_wait",
           "exit_wait"}
Pc == Open \cup Closed \cup {"fell_through"}
Role == {"kthread", "shell", "prog"}
Command == {"new_process", "kill", "print_ptable", "get_pid", "exit"}

ASSUME SchedulerAssumption ==
  /\ NULL \notin Core \cup Page
  /\ IsFiniteSet(Core)
  /\ Page \subseteq Nat /\ Shell \in Page
  /\ MaxProcs \in Nat /\ MaxNest \in Nat
  /\ IrqPoints \subseteq Open
  /\ Commands \subseteq Command /\ KillTargets \subseteq Role

VARIABLES
  lock,      \* the core that holds ptable.lock, or NULL
  memLock,   \* the process inside get_free_page for new_process, or NULL
  used,      \* the pages marked in page_map
  head,      \* ptable.head
  tail,      \* ptable.tail
  current,   \* ptable.current[]
  numProcs,  \* ptable.num_procs
  next,      \* p->next
  state,     \* p->state
  pid,       \* p->pid
  role,      \* which entry point p was created for
  saved,     \* p->ctx and the part of p's stack below it
  thread,    \* thread[c]: what core c executes
  masked,    \* masked[c]: PSTATE.I of core c
  newPage,   \* the local p of the shell's new_process
  queue      \* history: the order in which processes will run

table == <<head, tail, current, numProcs>>
process == <<next, state, pid, role, saved>>
vars == <<lock, memLock, used, table, process, thread, masked, newPage, queue>>

\* An interrupted place, as kernel_entry saves it, with schedule()'s local.
Frame == [pc : Open, core : Core \cup {NULL}]

\* self: whose stack; core: the local of schedule(), NULL when dead;
\* frames: the interrupts on the stack, the latest last.
Thread == [self : Page \cup {NULL}, pc : Pc, core : Core \cup {NULL},
           frames : Seq(Frame)]

At(c, place) == thread[c].pc = place
Goto(c, place) == thread' = [thread EXCEPT ![c].pc = place]
GotoIrqsOff(c, place) == Goto(c, place) /\ masked' = [masked EXCEPT ![c] = TRUE]
GotoIrqsOn(c, place) == Goto(c, place) /\ masked' = [masked EXCEPT ![c] = FALSE]

\* The context new_process prepares.
NewContext(p) == [self |-> p, pc |-> "ret_from_fork", core |-> NULL, frames |-> <<>>]

\* kernel_main has created the shell; every core is about to take the lock
\* in start_scheduler.
Init ==
  /\ lock = NULL /\ memLock = NULL
  /\ used = {Shell}
  /\ head = Shell /\ tail = Shell
  /\ current = [c \in Core |-> NULL]
  /\ numProcs = 1
  /\ next = [p \in Page |-> NULL]
  /\ state = [p \in Page |-> IF p = Shell THEN "RUNNING" ELSE "SLEEP"]
  /\ pid = [p \in Page |-> IF p = Shell THEN 1 ELSE 0]
  /\ role = [p \in Page |-> IF p = Shell THEN "shell" ELSE "prog"]
  /\ saved = [p \in Page |-> NewContext(p)]
  /\ thread = [c \in Core |->
       [self |-> NULL, pc |-> "ss_acquire", core |-> NULL, frames |-> <<>>]]
  /\ masked = [c \in Core |-> TRUE]
  /\ newPage = NULL
  /\ queue = <<Shell>>

\* ++ptable.num_procs, and as a faulty variant ptable.num_procs++.
OldPid == numProcs
NewPid == numProcs + 1

\* get_free_page takes the first page that is not in use.
FirstFree(p) == p \in Page \ used /\ \A q \in Page \ used : p <= q

\* It marks the page; a faulty variant does not.
TakeUnmarked(p) == used' = used
TakePage(p) == used' = used \cup {p}

\* free_page, and a faulty variant that leaves the page marked.
LeakPage(p) == used' = used
FreePage(p) == used' = used \ {p}
-----------------------------------------------------------------------------
(* start_scheduler, then the loop of smp_scheduler. *)

StartAcquire(c) ==
  /\ At(c, "ss_acquire")
  /\ lock = NULL
  /\ lock' = c
  /\ Goto(c, "ss_body")
  /\ UNCHANGED <<memLock, used, table, process, masked, newPage, queue>>

StartBody(c) ==
  /\ At(c, "ss_body")
  /\ memLock = NULL
  /\ \E p \in Page :
       /\ FirstFree(p)
       /\ TakePage(p)
       /\ state' = [state EXCEPT ![p] = "RUNNING"]
       /\ next' = [next EXCEPT ![p] = NULL]
       /\ pid' = [pid EXCEPT ![p] = NewPid]
       /\ role' = [role EXCEPT ![p] = "kthread"]
       /\ current' = [current EXCEPT ![c] = p]
       /\ thread' = [thread EXCEPT ![c].self = p, ![c].pc = "ss_timer"]
  /\ numProcs' = numProcs + 1
  /\ lock' = NULL
  /\ UNCHANGED <<memLock, head, tail, saved, masked, newPage, queue>>

\* core_timer_init and irq_enable.
StartTimer(c) ==
  /\ At(c, "ss_timer")
  /\ GotoIrqsOn(c, "loop")
  /\ UNCHANGED <<lock, memLock, used, table, process, newPage, queue>>
-----------------------------------------------------------------------------
(* schedule(). *)

\* The call reads get_core() before it masks interrupts.
CallSchedule(c) ==
  /\ At(c, "loop") \/ At(c, "exit_sched")
  /\ thread' = [thread EXCEPT ![c].pc = "sched_irqoff", ![c].core = c]
  /\ UNCHANGED <<lock, memLock, used, table, process, masked, newPage, queue>>

DisableIrq(c) ==
  /\ At(c, "sched_irqoff")
  /\ GotoIrqsOff(c, "sched_acquire")
  /\ UNCHANGED <<lock, memLock, used, table, process, newPage, queue>>

SchedAcquire(c) ==
  /\ At(c, "sched_acquire")
  /\ lock = NULL
  /\ lock' = c
  /\ Goto(c, "sched_body")
  /\ UNCHANGED <<memLock, used, table, process, masked, newPage, queue>>

\* The test of the filter loop, and a faulty variant without the loop.
NeverTerminated(p) == FALSE
Terminated(p) == p # NULL /\ state[p] = "ZOMBIE"

\* The filter loop: one terminated process at the head is unlinked and its
\* page freed and cleared.  ptable.tail is left alone.
Reap(c) ==
  /\ At(c, "sched_body")
  /\ Terminated(head)
  /\ memLock = NULL
  /\ head' = next[head]
  /\ FreePage(head)
  /\ next' = [next EXCEPT ![head] = NULL]
  /\ state' = [state EXCEPT ![head] = "SLEEP"]
  /\ pid' = [pid EXCEPT ![head] = 0]
  /\ role' = [role EXCEPT ![head] = "prog"]
  /\ saved' = [saved EXCEPT ![head] = NewContext(head)]
  /\ queue' = Tail(queue)
  /\ UNCHANGED <<lock, memLock, tail, current, numProcs, thread, masked, newPage>>

\* Where schedule() returns to: handle_irq's caller, smp_scheduler's loop, or
\* exit() and through it past the end of ret_from_fork.
ReturnPoint(c) ==
  IF thread[c].frames # <<>> THEN "irq_exit"
  ELSE IF role[thread[c].self] = "kthread" THEN "loop"
  ELSE "fell_through"

Return(c) == thread' = [thread EXCEPT ![c].pc = ReturnPoint(c), ![c].core = NULL]

\* Nothing to switch to.  Interrupts are enabled in an interrupt handler too.
Idle(c) ==
  /\ At(c, "sched_body")
  /\ head = NULL
  /\ tail' = NULL
  /\ lock' = NULL
  /\ masked' = [masked EXCEPT ![c] = FALSE]
  /\ Return(c)
  /\ UNCHANGED <<memLock, used, head, current, numProcs, process, newPage, queue>>

\* prev is linked behind the tail, or alone if the list is empty now; a faulty
\* variant without line 131, prev->next = 0.
LinkedOnly(prev) == IF next[head] = NULL THEN next ELSE [next EXCEPT ![tail] = prev]
Linked(prev) ==
  IF next[head] = NULL THEN [next EXCEPT ![prev] = NULL]
                       ELSE [next EXCEPT ![prev] = NULL, ![tail] = prev]

\* Pull the head, append the process of ptable.current[core], switch the
\* stacks.  The next field of the process pulled keeps its old value.
Switch(c) ==
  LET core == thread[c].core
      prev == current[core]
      nxt  == head
      rest == next[head]
  IN
  /\ At(c, "sched_body")
  /\ head # NULL
  /\ ~Terminated(head)
  /\ head' = IF rest = NULL THEN prev ELSE rest
  /\ tail' = prev
  /\ next' = Linked(prev)
  /\ current' = [current EXCEPT ![core] = nxt]
  /\ saved' = [saved EXCEPT ![prev] =
                 [thread[c] EXCEPT !.pc = "sched_ret", !.core = NULL]]
  /\ thread' = [thread EXCEPT ![c] = saved'[nxt]]
  /\ queue' = Append(Tail(queue), prev)
  /\ UNCHANGED <<lock, memLock, used, numProcs, state, pid, role, masked, newPage>>

\* Faulty variant: schedule() returns with the lock held.
ReturnLocked(c) ==
  /\ At(c, "sched_ret")
  /\ Return(c)
  /\ UNCHANGED <<lock, memLock, used, table, process, masked, newPage, queue>>

\* Faulty variant: interrupts are enabled on this way out as well.
ReturnUnmasked(c) ==
  /\ At(c, "sched_ret")
  /\ lock' = NULL
  /\ masked' = [masked EXCEPT ![c] = FALSE]
  /\ Return(c)
  /\ UNCHANGED <<memLock, used, table, process, newPage, queue>>

\* Back from cpu_switch_to, on whatever core it is now.
SchedReturn(c) ==
  /\ At(c, "sched_ret")
  /\ lock' = NULL
  /\ Return(c)
  /\ UNCHANGED <<memLock, used, table, process, masked, newPage, queue>>

\* Faulty variants: schedule_tail does not release the lock, or does not enable
\* interrupts.
TailLocked(c) ==
  /\ At(c, "ret_from_fork")
  /\ GotoIrqsOn(c, IF role[thread[c].self] = "shell" THEN "sh" ELSE "prog")
  /\ UNCHANGED <<lock, memLock, used, table, process, newPage, queue>>

TailMasked(c) ==
  /\ At(c, "ret_from_fork")
  /\ lock' = NULL
  /\ Goto(c, IF role[thread[c].self] = "shell" THEN "sh" ELSE "prog")
  /\ UNCHANGED <<memLock, used, table, process, masked, newPage, queue>>

\* ret_from_fork and schedule_tail: the first time a process runs.
ScheduleTail(c) ==
  /\ At(c, "ret_from_fork")
  /\ lock' = NULL
  /\ GotoIrqsOn(c, IF role[thread[c].self] = "shell" THEN "sh" ELSE "prog")
  /\ UNCHANGED <<memLock, used, table, process, newPage, queue>>
-----------------------------------------------------------------------------
(* The core timer's interrupt. *)

\* kernel_entry, handle_irq and core_timer_handle_irq up to acquire.
TimerIrq(c) ==
  LET t == thread[c] IN
  /\ ~masked[c]
  /\ t.pc \in IrqPoints
  /\ Len(t.frames) < MaxNest
  /\ thread' = [thread EXCEPT ![c] =
       [self |-> t.self, pc |-> "sched_acquire", core |-> c,
        frames |-> Append(t.frames, [pc |-> t.pc, core |-> t.core])]]
  /\ masked' = [masked EXCEPT ![c] = TRUE]
  /\ UNCHANGED <<lock, memLock, used, table, process, newPage, queue>>

\* kernel_exit: eret restores the interrupted place and its PSTATE.
IrqExit(c) ==
  LET t == thread[c]
      n == Len(t.frames)
  IN
  /\ t.pc = "irq_exit"
  /\ thread' = [thread EXCEPT ![c] =
       [self |-> t.self, pc |-> t.frames[n].pc, core |-> t.frames[n].core,
        frames |-> SubSeq(t.frames, 1, n - 1)]]
  /\ masked' = [masked EXCEPT ![c] = FALSE]
  /\ UNCHANGED <<lock, memLock, used, table, process, newPage, queue>>
-----------------------------------------------------------------------------
(* new_process, called by the shell with interrupts enabled. *)

\* The cores that have yet to take a page in start_scheduler.
BootReserve == {c \in Core : thread[c].self = NULL}
FreePages == Page \ used

ShellSpawn(c) ==
  /\ At(c, "sh")
  /\ "new_process" \in Commands /\ numProcs < MaxProcs
  /\ Goto(c, "np_lock_mem")
  /\ UNCHANGED <<lock, memLock, used, table, process, masked, newPage, queue>>

NpLockMem(c) ==
  /\ At(c, "np_lock_mem")
  /\ memLock = NULL
  /\ memLock' = thread[c].self
  /\ Goto(c, "np_alloc")
  /\ UNCHANGED <<lock, used, table, process, masked, newPage, queue>>

\* A page is found; new_process fills in the process it is to hold.
NpAlloc(c) ==
  /\ At(c, "np_alloc")
  /\ Cardinality(FreePages) > Cardinality(BootReserve)
  /\ \E p \in Page :
       /\ FirstFree(p)
       /\ TakePage(p)
       /\ newPage' = p
       /\ state' = [state EXCEPT ![p] = "RUNNING"]
       /\ role' = [role EXCEPT ![p] = "prog"]
       /\ saved' = [saved EXCEPT ![p] = NewContext(p)]
       /\ next' = [next EXCEPT ![p] = NULL]
  /\ memLock' = NULL
  /\ Goto(c, "np_lock")
  /\ UNCHANGED <<lock, table, pid, masked, queue>>

\* Faulty variant: new_process does not check what get_free_page returned.
NpNoPageUnchecked(c) ==
  /\ At(c, "np_alloc")
  /\ Cardinality(FreePages) <= Cardinality(BootReserve)
  /\ memLock' = NULL
  /\ Goto(c, "np_lock")
  /\ UNCHANGED <<lock, used, table, process, masked, newPage, queue>>

\* No page: new_process returns 0.
NpNoPage(c) ==
  /\ At(c, "np_alloc")
  /\ Cardinality(FreePages) <= Cardinality(BootReserve)
  /\ memLock' = NULL
  /\ Goto(c, "sh")
  /\ UNCHANGED <<lock, used, table, process, masked, newPage, queue>>

NpLock(c) ==
  /\ At(c, "np_lock")
  /\ lock = NULL
  /\ lock' = c
  /\ Goto(c, "np_link")
  /\ UNCHANGED <<memLock, used, table, process, masked, newPage, queue>>

NpLink(c) ==
  /\ At(c, "np_link")
  /\ numProcs' = numProcs + 1
  /\ pid' = [pid EXCEPT ![newPage] = NewPid]
  /\ head' = IF head = NULL THEN newPage ELSE head
  /\ next' = IF head = NULL THEN next ELSE [next EXCEPT ![tail] = newPage]
  /\ tail' = newPage
  /\ queue' = Append(queue, newPage)
  /\ newPage' = NULL
  /\ lock' = NULL
  /\ Goto(c, "sh")
  /\ UNCHANGED <<memLock, used, current, state, role, saved, masked>>
-----------------------------------------------------------------------------
(* The other commands of the shell. *)

ShellKill(c) ==
  /\ At(c, "sh") /\ "kill" \in Commands
  /\ GotoIrqsOff(c, "kill_wait")
  /\ UNCHANGED <<lock, memLock, used, table, process, newPage, queue>>

\* The pages the search of kill visits: ptable.current, then the list from the
\* head on, which is the least set that head and next do not lead out of.
InList ==
  {p \in Page : \A S \in SUBSET Page :
     head \in S \cup {NULL} /\ (\A q \in S : next[q] \in S \cup {NULL}) => p \in S}
InTable == ({current[c] : c \in Core} \ {NULL}) \cup InList

\* The pid n is found: kill returns with interrupts still masked.
Kill(c, n) ==
  /\ At(c, "kill_wait")
  /\ lock = NULL
  /\ \E p \in InTable :
       /\ pid[p] = n
       /\ role[p] \in KillTargets
       /\ state' = [state EXCEPT ![p] = "ZOMBIE"]
  /\ Goto(c, "sh")
  /\ UNCHANGED <<lock, memLock, used, table, next, pid, role, saved, masked,
                 newPage, queue>>

\* No process has the pid given.
KillMiss(c) ==
  /\ At(c, "kill_wait")
  /\ lock = NULL
  /\ GotoIrqsOn(c, "sh")
  /\ UNCHANGED <<lock, memLock, used, table, process, newPage, queue>>

ShellPrint(c) ==
  /\ At(c, "sh") /\ "print_ptable" \in Commands
  /\ GotoIrqsOff(c, "print_wait")
  /\ UNCHANGED <<lock, memLock, used, table, process, newPage, queue>>

PrintPtable(c) ==
  /\ At(c, "print_wait")
  /\ lock = NULL
  /\ GotoIrqsOn(c, "sh")
  /\ UNCHANGED <<lock, memLock, used, table, process, newPage, queue>>
-----------------------------------------------------------------------------
(* What a program does. *)

CallGetPid(c) ==
  /\ At(c, "prog") /\ "get_pid" \in Commands
  /\ GotoIrqsOff(c, "pid_wait")
  /\ UNCHANGED <<lock, memLock, used, table, process, newPage, queue>>

GetPid(c) ==
  /\ At(c, "pid_wait")
  /\ lock = NULL
  /\ GotoIrqsOn(c, "prog")
  /\ UNCHANGED <<lock, memLock, used, table, process, newPage, queue>>

\* The program returns to ret_from_fork, or calls exit itself.
CallExit(c) ==
  /\ At(c, "prog") /\ "exit" \in Commands
  /\ GotoIrqsOff(c, "exit_wait")
  /\ UNCHANGED <<lock, memLock, used, table, process, newPage, queue>>

Exit(c) ==
  /\ At(c, "exit_wait")
  /\ lock = NULL
  /\ state' = [state EXCEPT ![current[c]] = "ZOMBIE"]
  /\ GotoIrqsOn(c, "exit_sched")
  /\ UNCHANGED <<lock, memLock, used, table, next, pid, role, saved, newPage, queue>>
-----------------------------------------------------------------------------
\* What a core goes on to do by itself.
CoreStep(c) ==
  \/ StartAcquire(c) \/ StartBody(c) \/ StartTimer(c)
  \/ CallSchedule(c) \/ DisableIrq(c) \/ SchedAcquire(c) \/ Reap(c) \/ Idle(c)
  \/ Switch(c) \/ SchedReturn(c) \/ ScheduleTail(c) \/ IrqExit(c)
  \/ NpLockMem(c) \/ NpAlloc(c) \/ NpNoPage(c) \/ NpLock(c) \/ NpLink(c)
  \/ \E n \in 1 .. numProcs : Kill(c, n)
  \/ KillMiss(c) \/ PrintPtable(c) \/ GetPid(c) \/ Exit(c)

\* What the user types and what a program happens to do.
Input(c) ==
  \/ ShellSpawn(c) \/ ShellKill(c) \/ ShellPrint(c) \/ CallGetPid(c) \/ CallExit(c)

Next == \E c \in Core : CoreStep(c) \/ Input(c) \/ TimerIrq(c)

\* A core executes its code.  The timer interrupt stays pending until it is
\* taken, so it is taken when interrupts are enabled again and again.  The
\* shell's allocations cannot keep the other cores from mem_map_lock for ever:
\* it is free during every key press.  Nobody has to type, and a program may
\* run for ever.
Fairness ==
  \A c \in Core :
    /\ WF_vars(CoreStep(c))
    /\ SF_vars(TimerIrq(c))
    /\ SF_vars(StartBody(c) \/ Reap(c))

Spec == Init /\ [][Next]_vars
FairSpec == Spec /\ Fairness
-----------------------------------------------------------------------------
TypeOK ==
  /\ lock \in Core \cup {NULL}
  /\ memLock \in Page \cup {NULL}
  /\ used \subseteq Page
  /\ head \in Page \cup {NULL}
  /\ tail \in Page \cup {NULL}
  /\ current \in [Core -> Page \cup {NULL}]
  /\ numProcs \in Nat
  /\ next \in [Page -> Page \cup {NULL}]
  /\ state \in [Page -> {"SLEEP", "RUNNING", "ZOMBIE"}]
  /\ pid \in [Page -> Nat]
  /\ role \in [Page -> Role]
  /\ saved \in [Page -> Thread]
  /\ thread \in [Core -> Thread]
  /\ masked \in [Core -> BOOLEAN]
  /\ newPage \in Page \cup {NULL}
  /\ queue \in Seq(Page)

Queued(p) == \E k \in 1 .. Len(queue) : queue[k] = p
Executing(p) == \E c \in Core : thread[c].self = p

\* head, tail and the next fields spell out the queue, whatever order cores
\* append, rotate and reap in.  tail dangles only between the filter loop and
\* the end of the schedule() that emptied the list.
ListIsQueue ==
  /\ head = IF queue = <<>> THEN NULL ELSE queue[1]
  /\ \A k \in 1 .. Len(queue) :
       next[queue[k]] = IF k = Len(queue) THEN NULL ELSE queue[k + 1]
  /\ queue # <<>> => tail = queue[Len(queue)]
  /\ queue = <<>> => tail = NULL \/ \E c \in Core : At(c, "sched_body")

\* ptable.current names what each core executes; no process is on two cores,
\* on a core and in the list, or in the list twice; and a listed process will
\* resume on its own stack.
OneCorePerProcess ==
  /\ \A c \in Core : current[c] = thread[c].self
  /\ \A c, d \in Core : current[c] = current[d] => c = d \/ current[c] = NULL
  /\ \A c \in Core : ~Queued(current[c])
  /\ \A j, k \in 1 .. Len(queue) : queue[j] = queue[k] => j = k
  /\ \A k \in 1 .. Len(queue) : saved[queue[k]].self = queue[k]

\* Every allocated page is a listed process, a running one or the one
\* new_process is filling in: none leaks, none is used after it was freed.
PagesAccounted ==
  used = {p \in Page : Queued(p) \/ Executing(p) \/ p = newPage}

\* ptable.lock passes from stack to stack: it is held exactly from an acquire
\* to the release that follows it on that core, on another stack after a
\* switch.
Holding == {"ss_body", "sched_body", "sched_ret", "ret_from_fork", "np_link"}
HoldsTable(t) ==
  \/ t.pc \in Holding
  \/ \E k \in 1 .. Len(t.frames) : t.frames[k].pc = "np_link"
LockFollowsCore == \A c \in Core : lock = c <=> HoldsTable(thread[c])

\* A pid names one process, so kill ends the one that was meant.
UniquePids ==
  \A p, q \in {r \in Page : Queued(r) \/ Executing(r)} :
    pid[p] = pid[q] => p = q

\* A program never runs with interrupts masked: it would keep its core.
\* schedule() returns masked in several ways; the timer's eret and
\* schedule_tail make up for it.
ProgramsRunUnmasked == \A c \in Core : At(c, "prog") => ~masked[c]

WaitsForTable(c) ==
  thread[c].pc \in {"ss_acquire", "sched_acquire", "np_lock", "kill_wait",
                    "print_wait", "pid_wait", "exit_wait"}
WaitsForPages(c) ==
  \/ thread[c].pc \in {"ss_body", "np_lock_mem"}
  \/ At(c, "sched_body") /\ Terminated(head)

\* No core waits for a lock it holds itself, nor for one whose owner cannot
\* run before the waiting core lets go of ptable.lock.
NoLockCycle ==
  /\ lock # NULL => ~WaitsForTable(lock)
  /\ lock # NULL /\ memLock # NULL /\ WaitsForPages(lock) =>
       \E c \in Core : thread[c].self = memLock /\ At(c, "np_alloc")

\* exit never returns to the code behind it: as long as no kernel thread is
\* killed there is always another process to switch to.
ExitNeverReturns == \A c \in Core : ~At(c, "fell_through")

\* kernel_exit (entry.S:34) loads ELR_EL1 and SPSR_EL1 with interrupts masked,
\* or one that came now would overwrite both.  schedule() unmasks them in the
\* handler when the list is empty (schedule.c:119), so it must not be empty.
IrqExitMasked == \A c \in Core : At(c, "irq_exit") => masked[c]

-----------------------------------------------------------------------------
(* The inductive invariant behind the safety properties. *)

ShellPlaces == {"sh", "np_lock_mem", "np_alloc", "np_lock", "np_link",
                "kill_wait", "print_wait"}
BootPlaces == {"ss_acquire", "ss_body"}
InSchedule == {"sched_irqoff", "sched_acquire", "sched_body"}
InHandler == {"sched_acquire", "sched_body", "sched_ret", "irq_exit"}

\* Where the process of a stack is, interrupts on top left aside.
Place(t) == IF t.frames = <<>> THEN t.pc ELSE t.frames[1].pc

\* Of any stack: interrupts hit a process once and handlers thereafter; one
\* that hit new_process inside the lock never gets past acquire.
StackOK(t) ==
  /\ t.frames # <<>> => t.pc \in InHandler
  /\ t.pc = "irq_exit" => t.frames # <<>>
  /\ \A k \in 1 .. Len(t.frames) :
       /\ t.frames[k].pc \in IrqPoints
       /\ t.frames[k].pc = "irq_exit" <=> k > 1
       /\ t.frames[k].pc = "np_link" => t.pc = "sched_acquire"
  /\ Place(t) \in ShellPlaces => t.self = Shell /\ role[Shell] = "shell"

\* Of the stack a core is on.
CoreOK(c) ==
  /\ StackOK(thread[c])
  /\ thread[c].self = NULL <=> thread[c].pc \in BootPlaces
  /\ thread[c].pc \in BootPlaces => thread[c].frames = <<>>
  /\ thread[c].pc \in InSchedule => thread[c].core = c
  /\ thread[c].pc \in Closed => masked[c]
  /\ At(c, "prog") => ~masked[c]

\* Of the stack of a process that waits.
SavedOK(p) ==
  /\ StackOK(saved[p])
  /\ saved[p].self = p
  /\ saved[p].pc \in {"sched_ret", "ret_from_fork"}

\* The page new_process has in hand belongs to nobody else, and there is one
\* exactly while the shell is on its way to link it.
InHand(t) ==
  t.self = Shell /\ role[Shell] = "shell" =>
    (newPage # NULL <=> Place(t) \in {"np_lock", "np_link"})
NewPageOK ==
  /\ newPage # NULL => /\ ~Queued(newPage) /\ ~Executing(newPage)
                       /\ saved[newPage] = NewContext(newPage)
                       /\ next[newPage] = NULL
  /\ \A c \in Core : InHand(thread[c])
  /\ \A p \in Page : Queued(p) => InHand(saved[p])

IInv ==
  /\ TypeOK
  /\ ListIsQueue
  /\ OneCorePerProcess
  /\ PagesAccounted
  /\ LockFollowsCore
  /\ \A c \in Core : CoreOK(c)
  /\ \A p \in Page : Queued(p) => SavedOK(p)
  /\ NewPageOK
  /\ \A p \in Page : role[p] = "shell" => p = Shell
-----------------------------------------------------------------------------
\* What the comment at line 128 of schedule() says: the process appended to the
\* list is the one that called.
SwitchQueuesCaller ==
  [][\A c \in Core : Switch(c) => tail' = thread[c].self]_vars

\* A process that waits in the list leaves it: it is dispatched, or its page
\* is freed if it was terminated.  With the cores at war for one unfair lock,
\* this is as much as the code guarantees: that a given core gets the lock,
\* and so gives up its process, is not.
NobodyWaitsForever == \A p \in Page : Queued(p) ~> ~Queued(p)

RR == INSTANCE RoundRobin WITH
        Proc <- Page,
        running <- [c \in Core |-> thread[c].self],
        zombie <- {p \in Page : state[p] = "ZOMBIE"}
ImplementsRoundRobin == RR!Spec

\* struct process and the stack are stored in pages in use only: whoever links,
\* rotates, kills, ends or reaps a process never follows a pointer into a page
\* that was freed or given to somebody else (schedule.h:27, schedule.c:107-139).
PG == INSTANCE Pages WITH
        content <- [p \in Page |-> <<next[p], state[p], pid[p], role[p], saved[p]>>],
        Clear <- [p \in Page |-> <<NULL, "SLEEP", 0, "prog", NewContext(p)>>]
UsesPages == PG!Spec
=============================================================================
