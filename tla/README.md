# A TLA+ verification of rpios

rpios is a small kernel for the Raspberry Pi 3: four Cortex-A53 cores, one
process table under one spinlock, a 100 Hz timer interrupt on each core, a shell
on the serial line that starts kernel processes. This directory holds TLA+
models of it, TLC configurations that check them, and TLAPS proofs about them.
Source paths below are relative to the repository (`src/scheduler/schedule.c`).

1. [Inventory](#1-inventory)
2. [Modules and how they correspond to the code](#2-modules-and-how-they-correspond-to-the-code)
3. [Runs](#3-runs)
4. [Fairness](#4-fairness)
5. [Proofs](#5-proofs)
6. [What the code does not do](#6-what-the-code-does-not-do)
7. [Not modelled](#7-not-modelled)
8. [Plan](#8-plan)

## 1. Inventory

| Component | Source | State it keeps | Operations |
|---|---|---|---|
| Spinlock | `scheduler/spinlock.S` | lock word; the cores' exclusive monitors | `acquire`, `release` |
| Page allocator | `memory/mm.c` | `page_map`, 256 pages, `mem_map_lock` | `get_free_page`, `free_page` |
| Process table, scheduler | `scheduler/schedule.c` | `ptable` (head, tail, current[4], num_procs, lock), `struct process` in each page | `start_scheduler`, `schedule`, `schedule_tail`, `new_process`, `kill`, `exit`, `get_pid`, `print_ptable` |
| Interrupts, context switch | `entry.S`, `irq/irq.S` | PSTATE.I, frames on stacks, saved contexts | `kernel_entry`, `kernel_exit`, `ret_from_fork`, `cpu_switch_to`, `irq_enable`, `irq_disable` |
| Timers, dispatch | `timer/timer.c`, `irq/irq.c`, `util/utils.S` | timer registers, `cur_val_1`, `cur_val_3` | `core_timer_init`, `core_timer_handle_irq`, `handle_irq`, `handle_sys_timer1_irq`, `handle_sys_timer3_irq`, `local_timer_init`, `sys_timer_sleep_ms` |
| Boot | `boot.S`, `kernel.c` | mailboxes, event registers, order of initialisation | `_start`, `el1_entry`, `kernel_main`, `core_execute`, `slave_core_sleep`, `smp_scheduler` |
| Shell | `shell.c` | command buffer, args | `shell`, `parse_command`, programs |
| Mini UART | `drivers/mini_uart.c` | transmit and receive register | `uart_putc`, `uart_getc` |
| Page tables | `memory/mm.c`, `memory/mm.S` | translation tables, MAIR, TCR | `init_page_tables`, `mmu_init` |
| Text, arithmetic | `util/*.c` | none | `strtol`, `strcmp`, `printf`, `gcd`, `floor_sqrt`, ... |
| Framebuffer, VideoCore mailbox | `graphics/*.c` | `fb`, `mbox`, the mailbox registers | `fbinit`, `fbsetres`, `mbox_call`, `fbputc`, `draw_rect`, ... (`fbinit` is commented out in `kernel_main`; the shell's programs draw all the same) |
| GPIO, device registers | `drivers/gpio.c`, `headers/regstruct.h` | function of each pin | `gpio_pin_set_func`, `gpio_pin_enable`, `uart_init` |

**How they interact.** Core 0 prepares memory and the process table, wakes the
other cores through their mailboxes, and all four enter `smp_scheduler`, whose
loop calls `schedule()`. From then on everything meets in `ptable`. `schedule()`
is entered from three places: the idle loop of a kernel thread, the timer
interrupt, and `exit`. It takes `ptable.lock`, frees the terminated processes at
the head (which takes `mem_map_lock` inside `ptable.lock`), rotates the list and
switches stacks *with the lock held*; the process that runs next releases it, in
`schedule()` if it was switched out before, in `schedule_tail` if it is new. The
shell calls `new_process`, which takes the two locks one after the other, with
interrupts enabled.

**What is hard.** The lock changes stacks in the middle; interrupts are masked
and unmasked on paths that do not pair up (`kill` returns masked, the empty
`schedule()` unmasks inside a handler); a process may move between cores at any
place where interrupts are enabled; a page is cleared and freed while other
cores still look at the list; `ldaxrb`/`stlxrb` loops store into a lock that
somebody else holds; a sleeping core depends on a store and an event that
travel independently. Cores also share registers without any lock: the pending
interrupts of the VideoCore, the write-1-to-clear status of the system timers, the
transmitter; and a program shares the shell's command buffer.

**What makes the components correct.** Spinlock: mutual exclusion, and no
spinner's store survives a release. Allocator: a page has one owner, is clean
when handed out, and is only refused when there is none. Scheduler: the list is
a queue; a process is on one core or in the list once; no page leaks; the lock
is held exactly from an acquire to the matching release; pids are unique;
programs run with interrupts enabled; a listed process is dispatched at some
time; the locks do not deadlock. Boot: no core runs on unprepared memory, none
sleeps through its call. Timers: each goes on for ever, once a period, however
late it is handled; a sleep is not short. Console: a byte is written once, a
command line becomes the arguments that were typed, a program can read them.
Routines: they compute what their names say for every value of their types, or
it is known where they stop doing so; memory has the types it should have; an
interrupted process gets all its registers back. `PROJECT.json` lists the hazards behind these
properties, each at its line, and which property is about it.

## 2. Modules and how they correspond to the code

| Module | Role |
|---|---|
| `Mutex` | abstract: a lock with a holder and a set of waiters |
| `Spinlock`, `MCSpinlock`, `SpinlockProofs` | `spinlock.S`; implements `Mutex` |
| `Pages` | abstract: pages in use and free, taken, given back and written atomically |
| `PageAllocator`, `MCPageAllocator`, `PageAllocatorProofs` | `get_free_page`, `free_page`; implements `Pages` |
| `RoundRobin` | abstract: one FIFO queue, a running process per core, a set of zombies |
| `Scheduler`, `MCScheduler`, `SchedulerProofs` | process table, timer interrupt, context switch, shell; implements `RoundRobin`, uses pages as `Pages` asks |
| `Boot`, `MCBoot`, `BootProofs` | from reset to `start_scheduler` |
| `SysTimer`, `MCSysTimer`, `SysTimerProofs` | `handle_irq`, system timers, local timer, sleeping |
| `Uart` | the transmitter and the writers on all cores |
| `Console`, `MCConsole`, `ConsoleProofs` | the shell at the UART, its command buffer, programs reading it; extends `Uart` and `Text` |
| `Machine` | the integers of C, of any width |
| `Arithmetic`, `Text`, `PageTables`, `Registers`, `Gpio`, `Context` | the pure routines: `math.c`; `printf.c` and `string.c`; translation tables and MAIR; structures over device registers; pins and UART set-up; saved registers, frames and stacks |
| `Graphics` | framebuffer, text, drawing, `mbox_call` and the VideoCore |
| `Font` | the picture of all characters in `font.h`, dot by dot |
| `Library`, `MCLibrary`, `LibraryProofs` | the routines as a program calls them |
| `Numbers` | no part of the kernel: induction, recursion and division for the proofs |

`Boot` ends where `Scheduler` begins: its state "all that `kernel_main` prepares
is visible, a core stands in front of `start_scheduler`" is `Scheduler`'s `Init`,
in which any core may be arbitrarily late. `Scheduler` uses the locks as
`Mutex` describes them. Pages are where two layers meet in one specification, `Pages`:
the allocator implements it (`ImplementsPages`: a page is taken when it is marked, and
given back when it has been cleared), and the scheduler keeps to it (`UsesPages`: the
contents of a page are the `struct process` and the stack in it, and none is stored to
while it is free). So `Scheduler` may take and free a page in one step.

**Spinlock.** One action per instruction that touches memory: `Ldaxrb`,
`StlxrbOk`, `StlxrbFail`, `Cbnz` (both tests), `Release`. `monitor[c]` is core
c's reservation. It is lost when any store to the word takes effect, and may be
lost for no reason (`LoseMonitor`): exceptions, evictions. `acquire` stores 1
also when it read 1, so the word is written by cores that do not own the lock;
`LockedIffHeld` says that this does no harm.

**PageAllocator.** `Caller` is a context of execution, not a core, because
`new_process` runs the code with interrupts enabled. The scan, the clearing
loops and the lock operations are separate actions; `Write` is an owner's store
into its page. `held` is what the callers have. The clearing of a page is one
action, as nobody who keeps the rules reads it in between, and
`ClearsOnlyFreePages` and `FreshPageIsZero` say that nobody else has it.

**Scheduler.** A process is its page. `thread[c]` is the stack core c is on:
whose it is (`self`), the place in the code (`pc`), the local `core` of
`schedule()`, and the frames that interrupts have pushed. `saved[p]` is the
stack of a process that waits. `Switch` is `schedule()` from pulling the head to
`cpu_switch_to`: it files the caller's stack, resumes the other, and leaves the
lock where it is; `SchedReturn` and `ScheduleTail` release it. `masked[c]` is
PSTATE.I. `TimerIrq` is `kernel_entry` through `irq_disable` in `schedule()`, and
may happen at any place of `IrqPoints` with interrupts enabled; `IrqExit` is
`kernel_exit`. The places with interrupts enabled (`Open`) are the idle loop,
`exit` and `schedule()` before they mask, `kernel_exit` after an empty
`schedule()`, the shell, four places inside `new_process`, and programs.

Code that runs with `ptable.lock` held and interrupts masked is one action
around its acquire and release (`Exit`, `GetPid`, `Kill`, `PrintPtable`);
nobody can observe it half done. `schedule()` and `new_process` are cut at every
lock operation because their locks are the point. `mem_map_lock` inside
`schedule()` and `start_scheduler` is one step for the same reason, enabled only
when `new_process` does not hold that lock. `queue` is a history variable: the
order in which processes will run. `ListIsQueue` ties the code's pointers to it.

What the user does (type a command, name a pid) is in `Input`; a program may run
for ever, ask for its pid, or end. `KillTargets` restricts the kind of process
whose pid is typed, since killing a kernel thread and killing a program lead to
different paths and different guarantees.

**Boot.** A store of core 0 enters `writes` or `calls` with the number of the
`dmb`s before it (`epoch`) and becomes visible later, oldest epoch first. `Dsb`
waits until there is none left. `event` is the event register of each core,
arbitrary at reset; `wfe` may also end for no reason (`WakeUp`). `Posted` tells
whether `sev` may overtake the store in front of it. In the code there is no
`dsb` between the two, so `Posted = TRUE` is the code on a memory system that
delays stores; `Posted = FALSE` is the code on one that does not, or the code
with a `dsb`.

**SysTimer.** Each access to a shared word is an action: `cur_val_1 += CLOCKHZ` is
`LoadCur` and `StoreCur`, `timer_c1 = cur_val_1` is `ReloadCur` and `Arm`,
`timer_cs |= bit` is `ReadCs` and `Ack`, which clears whatever was read. The code is
built without optimisation, so the compiler makes these accesses. `handle_irq` reads
one register of pending interrupts on every core, also when the core's own timer
interrupted it. The hardware is `Tick` (a compare value is reached), and the two
other timers. `Tick` stops while a handler is older than `MaxLate`: code is not
arbitrarily slow. Three history variables name the races the properties exclude:
`extra` (one match was handled twice, or was left from before the start), `lost` (a
match was cleared by the handler of the other timer), `torn` (the two words of the
counter were read around a wrap). The timers are looked at without a sleeping
process and the process without timers: all they share is the counter.

**Uart, Console.** `uart_putc` is `Check` (bit 0x20 is seen) and `Store`. In `Console`
every operation of the shell that prints ends with bytes left to write, and the next
one waits for them, as the code does; programs print meanwhile. `parse_command` is a
function of the buffer and the array of pointers, pointers being offsets: it cuts the
buffer into strings, and `prog` records what a program was given. The buffer keeps
what older lines left in it.

**Library.** `call` and `res` hold the last call and its result, so that a property
relates the two for every input of the run. A loop of the code is a recursive function
of the variables that change in it, with the width of each. What C leaves undefined is a
choice: the shifts of an `int` by 32 and 40 in `mmu_init` are folded to 0 or take their
count modulo 32 (`ShiftBeyond`). `Graphics` is the part with
state of its own: `mbox_call` waits twice, and its VideoCore answers with what was
asked or something else or an error, while words of others arrive. A pixel is its
number; drawing operators give the set of the pixels written. What `fbinit` prints and
what programs print goes to the screen a character at a time (`Fbputs`), since every
character moves the cursor that the next one starts from. `colors` and `pi_logo` exit when
they have too few arguments; `last` keeps the shape that was asked for next to the pixels
that were written, so that the two can be compared. `Font` holds the table of
`font.h` as the dots it is drawn with: `TextReadable` decides whether every character is a
picture of its own that stays within its cell.

Each module has *faulty variants* in front of some of its definitions (marked as
such in their comments): the definition with a plausible bug. They are used by
nothing; replacing the definition by its variant makes the property they stand
for fail, which shows that the property is about that part of the code.

## 3. Runs

| Run | Configuration | Shows |
|---|---|---|
| `spinlock` | 3 cores; 3,704 states | mutual exclusion, no lost release, the invariant of the proof, and that the assembly implements `Mutex` with its fairness |
| `page_alloc` | 3 callers, 3 pages, symmetric; 685,000 states | one owner per page, clean pages, 0 only when full; implements `Pages` |
| `sched_safety` | 2 cores, 4 pages, 4 processes, interrupts nested twice; about 1.0 million states | list, cores, pages, lock, pids, masks; implements `RoundRobin`, keeps to `Pages` |
| `sched_liveness` | 2 cores, 4 pages, programs are killed; 92,000 states | no deadlock of the locks, `exit` does not return, handlers return with interrupts masked, every listed process leaves the list |
| `boot` | 4 cores, `Posted = FALSE`; 15,000 states | prepared memory, no lost wake-up, all cores start |
| `systimer` | 2 cores, a counter with a low word of 64 values, periods 4 and 20; 3.4 million states | the timers go on, once a period, and sleeps are long enough, up to the races named |
| `console` | buffer of 6, lines of 4, 2 arguments and one more, a program, a FIFO of 2; 4.1 million states | bytes are lost only by a race, a line becomes its arguments, a program's arguments stay until they are typed over |
| `library` | ints of 8 and longs of 12 bits, a screen of 7 by 6 pixels; 257,000 states | every routine does what it is for; text and drawing stay where they belong; every character can be told from the others; no answer is used before it came |
| `boot_posted` | 4 cores, `Posted = TRUE` | violation: a core sleeps for ever |
| `stale_core` | interrupts between `get_core` and `irq_disable` | violation: the wrong process is queued |
| `lock_cycle` | interrupts inside `new_process` | violation: a core waits for itself |
| `library_comments` | as `library` | violation: three comments are not true of the program, on DRAM, on the last vector and on `mbox_call` |

**Bounds, and why they are enough.** Three cores for the lock: one owner, one
spinner with a fresh and one with an old reservation. Three pages and three
callers: a page can be wanted by two callers while a third gives it back, and
the map fills up. Two cores and four pages for the scheduler: after both kernel
threads and the shell one page remains, so pages run out and are reused, the list
is empty, has one, and has several members, and a process migrates between
cores. `MaxProcs = 4` (the processes ever created) lets one more program be
created after the boot; a pid is not reused. `MaxNest = 2` is an interrupt inside
the tail of a handler, the only nesting the code allows; deeper nesting repeats
it, and the proofs hold for every depth.

`sched_safety` leaves two places out of `IrqPoints`. `sched_irqoff` is the window
of `stale_core`: with it the properties are false. `loop` is left out only to
keep the number of states down, since a kernel thread's handler does what its
loop does; the proofs include it. The run keeps the interrupts inside
`new_process`: the deadlock they cause is a state the machine stays in, not a
violation of a safety property, so this run does not treat a state without a
successor as an error. It kills kernel threads, which empties the list and
reaches the path where `schedule()` enables interrupts in a handler. `exit` then returns into
`cpu_switch_to` (the place `fell_through`, where the model stops: from there on
the machine executes with whatever the registers hold).

`sched_liveness` keeps interrupts to the shell, to programs and to the tail of a handler,
where none gets in as long as programs alone are killed (`IrqExitMasked`), which is what it
kills, and checks for deadlock. `BootReserve` in `NpAlloc` is a bound too: the
shell leaves a page for each core that has not started. On the board 256 pages
and a user's typing make it so, and `start_scheduler` does not test for 0.

`boot` allows the system to stop: all cores stand in front of `start_scheduler`.

`systimer`: the widths keep the ratios of the code (a match comes well before the low
word wraps; a handler is done well before the next match: `WordAssumption`), the start
values put the wrap inside the run, and `MaxTime` is ten ticks behind it. Two cores
suffice for one match to be taken twice.

`console`: with `MaxArgs = 1` a line of four characters has too many arguments or none
too many; the buffer of 6 holds a longer line than the one typed last. `MaxLine` is a
bound the code does not have: see below.

`library`: 8 bits for `int` and 12 for `u64` let the run try every value of a type where
the routine takes one number, and overflow as in the code. `floor_sqrt` is tried up to
the numbers from which on it need not return. The page tables, the font map, the device
structures, the stacks and the registers have the numbers of the code. The page-table
entries looked at are those at the limits of the regions and every 61st.

`library_comments` has the bounds of `library`. Its property says that at least one of three
comments is true; the state that violates it refutes all three, for both outcomes of the
undefined shifts.

`systimer`, `console` and `library` state safety only, and no fairness: what the timers and the shell promise
in the end depends on a user who types and a device that answers.

## 4. Fairness

*Spinlock.* Each core executes its instructions; an exclusive store that is tried
again and again succeeds at some time, which is the architecture's promise for
loops of this form. Nothing is assumed about who wins.

*Scheduler.* `WF(CoreStep(c))`: a core executes its code. `SF(TimerIrq(c))`: the
timer interrupt stays pending until it is taken, and a core that enables
interrupts again and again takes it. `SF(StartBody(c) \/ Reap(c))`: these wait for
`mem_map_lock`, which is free while the shell waits for a key, so a core that
spins for it gets it. Input is not fair: nobody has to type, and programs need not end. Under this fairness
one core may lose the race for `ptable.lock` for ever, because idle kernel
threads take it in a closed loop and the lock has no order. What holds is that a
process in the *list* leaves it, dispatched by some core
(`NobodyWaitsForever`); that a *given* core gets to switch is not true of the
code and is not claimed.

*Boot.* Awake cores execute, and a store arrives at some time. A sleeping core
is only woken by an event; waking for no reason is possible and not fair.

## 5. Proofs

All theorems are for any values of the constants that satisfy the assumptions named
below. The proof of an invariant is `Init => IInv`, one step per action for
`IInv /\ [Next]_vars => IInv'`, and `IInv => Inv`. In `Spinlock`, `PageAllocator`,
`Scheduler` and `Boot` the inductive invariant `IInv` stands in the module; the runs
`spinlock` and `sched_safety` check it as well. The invariants of the other proofs stand in
the proof modules, next to the theorem that needs them.

* `SpinlockProofs`: `SpinlockMutualExclusion`, `NoLostRelease`, and
  `SpinlockImplementsMutex` (initial state and steps of `Mutex`). The
  strengthening is `ReservationIsFresh`: a reservation that has survived since
  the load vouches that the loaded value is still in memory. Without it a store
  after somebody else's release could not be excluded.
* `PageAllocatorProofs`: `NoPageIsLost`, `PagesHaveOneOwner`, `ClearingIsSafe`,
  `NewPagesAreClear`, `ZeroOnlyWhenFull`. The strengthening is the lock discipline and what the scan
  has seen so far. `AllocatorKeepsPromise` is the whole of `Pages` for any callers: the pages in use
  are those marked and the one being cleared (`InUseIsMarked`), so that only `Mark` and
  `FpZero` change them.
* `SchedulerProofs`: `TypesHold`, `ListStaysConsistent`, `NoProcessOnTwoCores`, `NoPageLeaks`,
  `LockStaysWithCore`, `ProgramsArePreemptible`, `PidsStayUnique` and
  `SchedulerIsRoundRobin`, which is the whole of `RoundRobin`'s specification.
  All assume `NoStaleCore`: no interrupt in the window of `schedule()` between
  `get_core()` and `irq_disable()`. The run `stale_core` shows that without
  the assumption they are false. `IInv` adds to the properties what every stack
  looks like, running (`CoreOK`) or waiting (`SavedOK`): whose it is, what a
  frame may hold, where interrupts are masked, and who has the page that
  `new_process` is filling in. Uniqueness of pids needs a ledger besides: no
  pid is larger than `num_procs`. `LocksNeverCycle` assumes besides that no
  interrupt is taken inside `new_process` (`NoIrqUnderLock`), which is what run
  `lock_cycle` violates; it follows from who can hold which lock at which place, and
  from `PagesLockedByAllocator`: `mem_map_lock` is held only by a core inside
  `new_process`. `ExitIsFinal` assumes, besides `NoStaleCore`, that nobody kills a
  kernel thread (`KernelThreadsSpared`): `sched_safety` shows `exit` returning when all of
  them are dead. It rests on a count. There are as many kernel threads as cores that
  have started, none of them is a zombie, and each is in the list or runs on one core
  (`ExitInv`); so when a program calls `exit` at least one of them is in the list. This
  is where the number of cores has to be finite. `HandlersReturnMasked`, `ListNeverEmpty` and
  `InterruptsNeverNest` assume that only programs are killed (`OnlyProgramsKilled`). Then the
  shell is in the list or on a core (`ShellInv`), and an empty list would mean, by the same
  count, that every core runs a kernel thread and none the shell. So `schedule()` never enables interrupts in
  a handler, and a stack holds one interrupt at most, whatever `MaxNest` is.
  `SchedulerKeepsToItsPages` is the whole of `Pages` for the other side: whatever a link, a
  rotation, a kill, an exit or the filter loop stores to is a page of the table, and those
  are in use (`TableInUse`).
* `BootProofs`: `MemoryIsPrepared` for the code as it is, and `CallsAreHeard`
  assuming that `sev` does not overtake the store (`~Posted`). The strengthening
  is `CallsAreLast`: a call has a later epoch than all that was prepared for it,
  and when it has arrived nothing is on its way.

* `SysTimerProofs`: for `SleepLongEnough`, what is inductive is that the value the sleeper
  starts from is not before the time it began, up to a torn reading. `TimerGoesOn` and
  `MatchesEverySecond` are about the timers that were spared by the races named in section 6:
  such a timer is armed for its next match, pending, or in the handler of one core, and
  `cur_val` and the compare register are what the place in that handler says (`TimersInv`). A word loaded from `cur_val` or
  `timer_cs` is stored a few steps later on one of any number of cores, so `Phase` and `InHand`
  say for every place of a handler what it holds, and `HandlerOK` how old it may be. The
  counter is not bounded; `WordAssumption` (a handler is done within a third of a
  period, and a period is less than a register holds) is all that is used of the widths.
* `ConsoleProofs`: `NoLossAlone` for the transmitter, `ConsoleLoss` for the console: a
  writer that has seen room, and before whom nobody stored since, finds room. Each step
  of `Console` is a step of `Uart` or leaves the transmitter alone. `CommandsAreParsed` and
  `ArgumentsStay` hold for any size of the buffer and of the argument table, for lines that fit
  the buffer (`ConsoleAssumption`) and for a user who types no NUL (`NoNul`), which would end the line early
  for `parse_command`. `ConsoleInv` says what is in the buffer up to `ci`, what
  `parse_command` has cut of it, character by character, and which part a running program
  still finds as it was.
* `LibraryProofs`, the state machine of `Graphics`: `NoAnswerBeforeUse`, with the invariant
  that at most one word of the queue is ours and that it came after the answer;
  `ProgramsDrawWhereTheyMean`, with the invariant `ScreenInv`: a line of text fits, and the
  cursor is where the next character does, but for the line feeds since the last. It assumes that the screen takes the first line of text
  (`BigScreen`), because `fbputc` tests for the end of the screen only after a character.
  `ShapeInv` ties a square or a logo that was asked for to the pixels written last:
  they are the shape's, at its place, on the framebuffer there is now. `ScreenAssumption` says that the
  picture of the logo lies within its width and height.
* `LibraryProofs`, memory and registers: `IdentityMap`, `MemoryIsMapped` for all 24,576
  entries, any place of the locks in the kernel image and both outcomes of the undefined
  shifts: DRAM is write-back in both, the peripherals are device memory if the shifts are
  folded; `InterruptIsTransparent`, for any
  registers, any stack, any handler that keeps its callers' words, and an interrupt inside
  it; `SwitchIsTransparent`, `NewProcessStarts`, and with them `CoresKeepTheirContext`, for any
  end of `.bss`; `DevicesAreFound`, for any contents of the pins' registers at reset. What it
  says of the exceptions is that all but the interrupt and the last report their own number,
  and that the last does not; of the devices, that they lie in device memory if the shifts are folded.
* `LibraryProofs`, the routines: `ArithmeticIsCorrect` (`gcd`, `lcm`, `ord`, `phi`,
  `floor_sqrt`, `prime_factors`, `uptime`) and `TextIsCorrect` (`printf`, `strtol`, `strcmp`, `strcpy`), for every
  argument of their types and for any width of `int` and `u64`. `WidthAssumption` asks for
  4 bits at least. `PowerAssumption` and the second line of `BufferAssumption` state
  arithmetic that the provers do not compute. `TextAssumption` has names of less than 20
  characters, and `BufferAssumption` a buffer that holds the longest number, which the 12
  bytes of `tfp_printf` are for 32 bits.

*How loops and recursion are proved.* The library's induction theorems take an operator
as a parameter and cannot be used. `Numbers` states the same with sets and functions: a set of
natural numbers has a least member (`Least`), from the well-foundedness of `<`; a set
that holds 0 and the successor of each of its members is all of `Nat` (`NatInduct`); a function
whose value uses only values of smaller measure exists (`MeasuredRecursion`). A loop of the
code is a function of its variables, so each is first shown to exist and to satisfy its
equation, and then to compute what its property says: `gcd` by the round of
Euclid's algorithm, `floor_sqrt` by its bounds, `ui2a` as writing the digits of a number
to the powers of its base, `a2i` and `strtol` as reading them back, `tfp_format` walked
backwards from the end of its format, `strcmp` from the first place where two strings differ.

**Only model-checked.** Liveness: `NobodyWaitsForever`, `EveryCoreStarts`, and the fairness
part of `ImplementsMutex` (its steps are `SpinlockImplementsMutex`). TLAPS does not prove
properties that rest on fairness or on ENABLED. `TextReadable` has no parameter: it is about one
picture, and the run looks at every pair of its characters.

## 6. What the code does not do

Four runs check sentences of the documentation or of comments that the code
does not keep, the last run three of them. Details, with the lines, are under "findings" in `PROJECT.json`.

* `schedule()` (line 101) reads `get_core()` before it masks interrupts; a
  process preempted there and resumed on another core files the wrong process.
* `new_process` (line 75) and `get_free_page` (`mm.c`, line 111) take their locks
  with interrupts enabled, and the timer interrupt on the same core then spins
  for them for ever.
* `core_execute` (`boot.S`, lines 125 and 126) has no `dsb` between the mailbox
  store and `sev`.
* DRAM but for the page of the locks uses attribute 4, "Inner + Outer non-cacheable" (`mm.c`, line 91), and only that
  page is to be write-back (line 54). But a negative `int` at bit 24 fills the
  bytes above with ones, so that attribute 4 is 0xFF, write-back, whatever becomes of the shifts
  by 32 and 40. Lines 87 and 88 name attributes 1 and 0 as DRAM's and the devices': DRAM uses 4,
  and attribute 0 is not the 0x04 written there.
* The last vector passes the address of a label in place of `ERROR_INVALID_EL0_32`, 15
  (`entry.S`, line 131; `entry.h`, line 21), an index far behind the messages of `irq.c`.
* `mbox_call` "returns 0 on failure" (`mbox.c`, line 7), but when the VideoCore reports an error it
  returns that response code, which is not 0 (line 22). `fbinit` (`fb.c`, line 54) takes it for success.

What else the models show, where no sentence of the repository says otherwise or where it has
no run of its own:

* *Filter loop.* "Filter out any terminated processes" (`schedule.c:107`): the loop stops at
  the first live process, and a terminated one behind it keeps its place and its page until it
  gets to the front. That is a delay: `NobodyWaitsForever` speaks of it too.
* *Interrupt entry.* `kernel_entry` stores SPSR one word above its frame
  (`entry.S:26`), over the word at the stack pointer of the interrupted code. `HCR_VALUE` is
  an `int` with its sign bit set and becomes a `u64` with bits 31 to 63 set.
* *Timers.* A match of one timer that arrives between the load and the store of
  `timer_cs |=` in the handler of the other is cleared unhandled, and the timer stops.
  Two cores may handle one match (`irq.c:50`), and the timer then skips a period, against
  "Timer 1 will go off every 1 second" (`timer.c:33`). With a third core it may stop until the
  counter wraps: the second handler stores a value of `cur_val` that it loaded before the first one's handler was done, so `cur_val` falls
  behind `timer_c1`, and the handler of the next match arms a value that has passed.
  `TimerStaysArmed` and `EverySecond` are therefore stated for the timers no match of which was handled
  twice or cleared by the other's handler.
  `sys_timer_init` leaves timer 3 at 0, as the lines for it are commented out (`timer.c:40`), so it
  matches first when the counter wraps, and "every 5 seconds" (`timer.c:34`) is true of no timer. A
  sleep may end early when the low word wraps between the two loads of
  `sys_timer_get_ticks`. `kernel_main` starts none of these timers; programs sleep.
* *Console.* Two writers that see room both store, and a byte is lost. Lines with 17 spaces
  or more before their last character are ignored without a message. Backspace
  does not take a character back, and a line may run past the buffer
  (`shell.c:148`); the model assumes that it does not. A program's arguments change as
  the user types on.
* *Memory types.* The shifts by 32 and 40 in `mmu_init` are of an `int`, and undefined. A
  compiler that folds them to 0 makes the peripherals device memory; if the count is taken
  modulo 32, their attribute is 0x44, normal memory.
* *Arithmetic, text.* `floor_sqrt` is right for every non-negative `int`, too small above
  46341 squared, and does not return close to 2^64. `prime_factors(0)` does not return.
  `strtol` takes characters that are no digits; `strcpy` stores no terminator.
* *Graphics.* `fbsetres` looks at no result, and keeps the bus address. A line feed is not
  followed by the test for the end of the screen. `fbclear` writes twice the framebuffer. `colors` and `pi_logo` draw
  without looking whether there is a framebuffer. Characters above 139 are read
  from behind the font.

## 7. Not modelled

* An interrupt between the instructions of `kernel_exit`: `IrqExit` and `kernel_exit` are
  one step each. It takes the empty list, and so a killed kernel thread or shell:
  `HandlersReturnMasked` excludes it where only programs are killed.
* Stack depth: what a C function uses of its stack depends on the compiler.
* The `preempt`, `counter` and `priority` fields, which nothing reads, and with them
  `enable_preempt`: a store to whatever page is at the head by then, the only one that
  `UsesPages` does not speak of.
* Code that nothing calls: `enter_el0`, `atomic_set`, `atomic_increment_asm`,
  `print_pa_range_support`, `flush_cache`, most accessors of `utils.S`, and the demo
  processes of `proc.c`. The long conversions of `printf.c` are not compiled.
* The colours of `pi_logo.h`. The model has its extent and which of its pixels are
  transparent.
* Colours, except those of `wheel`; the layout of the VideoCore's request; caches, and with
  them whether the VideoCore sees the request in time. `struct VideoCoreMailbox` has four
  reserved words after `mbox_read`; whether `mbox_status` is where the device has it cannot
  be decided from the repository.
* The text of `print_ptable` and `help`, which count as bytes.
* Build and deployment.

`PROJECT.json` gives the status of each component.

## 8. Plan

Done, the most important behaviour first: `Spinlock` and `Mutex`; `PageAllocator`;
`Scheduler` and `RoundRobin`; `Boot`; the safety proofs of each; `SysTimer`; `Uart` and
`Console`; the pure routines and `Graphics` in `Library`; `Pages` between the allocator and
the scheduler; a theorem for every safety property
of the runs but the one that has no parameter.

What is left:

1. A finer `IrqExit` with ELR and SPSR per core, for what the registers hold after a kernel
   thread or the shell was killed and an interrupt came inside `kernel_exit`.
2. `enable_preempt` as a step of its own.
3. `Scheduler`'s lock steps as users of `Mutex`, as its page steps are of `Pages`.
