------------------------------- MODULE Context -------------------------------
(***************************************************************************)
(* The registers of a core: as _start leaves them (boot.S, reg.h,          *)
(* linker.ld), and what kernel_entry, kernel_exit, cpu_switch_to and       *)
(* ret_from_fork of entry.S do with them.  Memory is a function of words   *)
(* of eight bytes, and sp a word in it; boot stacks are in bytes.          *)
(***************************************************************************)
EXTENDS Integers, Sequences

X == 0 .. 30
FrameSize == 32     \* S_FRAME_SIZE: 256 bytes

\* elr and spsr hold the interrupted pc and state.  The last store, of spsr,
\* is one word above the frame.
kernel_entry(s) ==
  LET base == s.cpu.sp - FrameSize
  IN [cpu |-> [s.cpu EXCEPT !.sp = base, !.x[22] = s.cpu.elr, !.x[23] = s.cpu.spsr],
      mem |-> [a \in DOMAIN s.mem |-> CASE a - base \in X -> s.cpu.x[a - base]
                                        [] a - base = 31 -> s.cpu.elr
                                        [] a - base = 32 -> s.cpu.spsr
                                        [] OTHER -> s.mem[a]]]

\* Faulty: x22 and x23 take elr and spsr after the registers are loaded.
ExitSwapped(s) ==
  [s EXCEPT !.cpu = [x |-> [k \in X |-> IF k \in {22, 23} THEN s.mem[@.sp + k + 9] ELSE s.mem[@.sp + k]],
                     elr |-> s.mem[@.sp + 31], spsr |-> s.mem[@.sp + 32], sp |-> @.sp + FrameSize]]

kernel_exit(s) ==
  [s EXCEPT !.cpu = [x |-> [k \in X |-> s.mem[@.sp + k]],
                     elr |-> s.mem[@.sp + 31], spsr |-> s.mem[@.sp + 32], sp |-> @.sp + FrameSize]]

\* A C function that keeps its words of the stack and is interrupted or
\* returns: it has changed every register and the words below its caller's.
Run(s, words, junk) ==
  [cpu |-> [x |-> [k \in X |-> junk], elr |-> junk, spsr |-> junk, sp |-> s.cpu.sp - words],
   mem |-> [a \in DOMAIN s.mem |-> IF a < s.cpu.sp THEN junk ELSE s.mem[a]]]

\* irq_el1: handle_irq runs, schedule() may enable interrupts inside it, and
\* then another interrupt is taken on its stack.
irq_el1(s, words, nested) ==
  LET entered == kernel_entry(s)
      handler == Run(entered, words, 7)
      inner == IF nested THEN kernel_exit(Run(kernel_entry(handler), 0, 8)) ELSE handler
  IN kernel_exit([inner EXCEPT !.cpu.sp = entered.cpu.sp])

\* struct context, and what new_process puts there: the page is clear.
Saved(cpu) == [x |-> [k \in 19 .. 30 |-> cpu.x[k]], sp |-> cpu.sp]
RetFromFork == 1
FirstContext(page, entry, argc, argv) ==
  [x |-> [k \in 19 .. 30 |-> CASE k = 19 -> entry [] k = 20 -> argc [] k = 21 -> argv [] k = 30 -> RetFromFork [] OTHER -> 0],
   sp |-> page + 512]

\* cpu_switch_to(prev, next): what prev's context holds, and the registers
\* next goes on with; x8 and x9 are scratch, ret goes to x30.
cpu_switch_to(cpu, next, ptr) ==
  [prev |-> Saved(cpu),
   cpu |-> [cpu EXCEPT !.x = [k \in X |-> CASE k \in 19 .. 30 -> next.x[k] [] k = 8 -> ptr [] k = 9 -> next.sp [] OTHER -> @[k]],
                       !.sp = next.sp]]

\* The call that ret_from_fork makes after schedule_tail.
ret_from_fork(cpu) == [pc |-> cpu.x[19], x0 |-> cpu.x[20], x1 |-> cpu.x[21], sp |-> cpu.sp]
-----------------------------------------------------------------------------
\* reg.h as sets of bits.  A constant is an int: bit 31 is its sign, and the
\* u64 it initialises gets every bit above.
Const(bits) == IF 31 \in bits THEN bits \cup 32 .. 63 ELSE bits
BootRegisters ==
  [sctlr_el1 |-> Const({28, 29} \cup {22, 23} \cup {20, 11}),
   hcr_el2   |-> Const({31}),
   scr_el3   |-> Const({4, 5} \cup {10, 0}),
   spsr_el3  |-> Const({6, 7, 8} \cup {0, 2})]

\* mmu_init_asm ors 4101 into sctlr_el1.
MmuBits == {0, 2, 12}

\* linker.ld: the stacks for EL0, EL1 and EL2 of each core, after .bss; what
\* _start puts into sp_el0, sp_el1 and sp_el2 is their top.
StackSize == <<1024, 32768, 512>>
Stacks(bssEnd) ==
  LET start(c) == ((bssEnd + 15) \div 16) * 16 + c * 34304  \* a multiple of 16: only the first ALIGN moves
      top(c, n) == start(c) + StackSize[1] + (IF n > 1 THEN StackSize[2] ELSE 0) + (IF n > 2 THEN StackSize[3] ELSE 0)
  IN [core \in 0 .. 3 |-> [n \in 1 .. 3 |-> top(core, n)]]

\* memzero, by which core 0 clears .bss: the first byte it leaves.  It stores
\* words of eight bytes until no byte is left, and one at least.
memzero(from, size) == from + 8 * (IF size <= 8 THEN 1 ELSE (size + 7) \div 8)
=============================================================================
