------------------------------- MODULE Library -------------------------------
(***************************************************************************)
(* The kernel's routines as a program calls them: the pure ones of math.c, *)
(* printf.c, string.c, gpio.c, mm.c and entry.S one call at a time, or the *)
(* framebuffer of Graphics.  The two share no state, so that a behaviour   *)
(* is about one of them.                                                   *)
(***************************************************************************)
EXTENDS Arithmetic, Text, PageTables, Registers, Gpio, Context, Graphics, Font

CONSTANTS Number,     \* arguments of the arithmetic
          Width,      \* field widths of printf
          Word,       \* strings
          BssEnd,     \* ends of .bss
          Uptime,     \* times since the start, in ms
          BfSize,     \* sizeof bf in tfp_format: 12 for 32 bits
          Entry       \* the level 3 entries looked at

ASSUME InputAssumption == Number \subseteq Nat /\ Uptime \subseteq Nat
ASSUME TextAssumption ==  \* a name fits the memory of Copy
  /\ Width \subseteq PosInt /\ 256 <= 2^LongBits
  /\ Word \subseteq Seq(1 .. 255) /\ \A s \in Word : Len(s) < 20
ASSUME BufferAssumption ==  \* a sign, the digits and the terminator; the rest is arithmetic, for the provers
  /\ BfSize \in Nat /\ 2 < BfSize /\ 2^IntBits <= 10^(BfSize - 2)
  /\ 10^0 = 1 /\ \A k \in 0 .. BfSize - 3 : 10^(k + 1) = 10 * 10^k
ASSUME BssEndAssumption == BssEnd \subseteq Nat
ASSUME EntryAssumption == Entry \subseteq (0 .. NumTables - 1) \X (0 .. NumEntries - 1)

VARIABLES call, res  \* the call made, what it gave

lvars == <<call, res>>

Idle == [op |-> "none"]
None == [none |-> TRUE]

LInit == call = Idle /\ res = None

Return(c, value) == call' = c /\ res' = [v |-> value]

Multiples(a, b) == [gcd |-> gcd[a][b], lcm |-> lcm(a, b), ord |-> ord(a, b)]
Calculate == \E a, b \in Number :
  \/ Return([op |-> "gcd", a |-> a, b |-> b], Multiples(a, b))
  \/ b # 0 /\ Return([op |-> "mod", a |-> a, b |-> b], mod(a, b))

\* From the least negative int as a u64 on, floor_sqrt need not return.
Factor == \E n \in 0 .. ToULong(-(2^(IntBits - 1))) - 1 :
  \/ Return([op |-> "sqrt", n |-> n], floor_sqrt(n))
  \/ n \in PosInt \ {0} /\ Return([op |-> "factors", n |-> n], [factors |-> prime_factors[n], phi |-> phi(n)])

ReadUptime == \E ms \in Uptime : Return([op |-> "uptime", ms |-> ms], uptime(ms))

Conversions == {[dir |-> d, lz |-> z, w |-> w] : d \in {"d", "u", "x", "X"}, z \in BOOLEAN, w \in Width}
Fmt(c) == <<Percent>> \o (IF c.lz THEN <<Zero>> ELSE <<>>)
                      \o (IF c.w > 0 THEN ui2a(c.w, 10, FALSE) ELSE <<>>) \o <<Directives[c.dir]>>

\* printf of one number between two characters, and of a string and a number.
PrintNumber == \E n \in UInt, c \in Conversions :
  Return([op |-> "print", n |-> n, c |-> c], tfp_format(<<Minus>> \o Fmt(c) \o <<Percent, Percent>>, Slots(<<Slot(n, <<>>)>>)))

PrintString == \E s \in Word, w \in Width :
  Return([op |-> "sprintf", s |-> s, w |-> w],
         tfp_sprintf(Fmt([dir |-> "s", lz |-> FALSE, w |-> w]) \o Fmt([dir |-> "c", lz |-> TRUE, w |-> 0]),
                     Slots(<<Slot(0, s), Slot(88, <<>>)>>)))

Compare == \E s, t \in Word : Return([op |-> "strcmp", s |-> s, t |-> t], strcmp(s, t))

\* new_process copies a name into a page that get_free_page cleared.
Copy == \E s \in Word : Return([op |-> "strcpy", s |-> s], strcpy([j \in 0 .. 20 |-> 0], 1, s))

Parse == \E n \in PosInt : Return([op |-> "strtol", n |-> n], strtol(ui2a(n, 10, FALSE)))

\* What the compiler makes of the shifts in mmu_init is not determined.
Translate == \E e \in Entry, offset \in {0, PageSize - 1}, shift \in ShiftBeyond :
  Return([op |-> "walk", va |-> VirtAddr(e[1], e[2]) + offset, shift |-> shift], Walk(VirtAddr(e[1], e[2]) + offset, shift))

\* A driver reads or writes the registers of a device through its structure.
Access == \E d \in Device, shift \in ShiftBeyond : \E k \in 1 .. Len(Layout[d]) :
  Return([op |-> "access", d |-> d, k |-> k, shift |-> shift], [at |-> RegAddr(d, k), seen |-> Walk(RegAddr(d, k), shift)])

SetFunc == \E v \in FuncSelect, pin \in Pin, func \in 0 .. 7 :
  Return([op |-> "gpio", v |-> v, pin |-> pin, func |-> func], gpio_pin_set_func([r \in 0 .. 5 |-> v], pin, func))

InitUart == \E v \in FuncSelect :
  Return([op |-> "uart", v |-> v], <<uart_init([r \in 0 .. 5 |-> v]), uart_init_alt([r \in 0 .. 5 |-> v])>>)

\* The vectors of entry.S: what a slot's handler is, or passes as its type.  The
\* last slot passes a label for the constant that is named like it.
VectorSlot(k) == CASE k = 5 -> [handler |-> "irq_el1"]
                   [] k = 15 -> [label |-> "error_invalid_el0_32"]
                   [] OTHER -> [type |-> k]
TakeException == \E k \in 0 .. 15 : Return([op |-> "exception", k |-> k], VectorSlot(k))

\* A process is interrupted with its stack at word sp.
Registers(sp) == [x |-> [k \in X |-> 100 + k], elr |-> 5, spsr |-> 6, sp |-> sp]
Stack == [a \in 0 .. 150 |-> 1000 + a]
TakeIrq == \E sp \in 140 .. 142, words \in {1, 2, 30}, nested \in BOOLEAN :
  Return([op |-> "irq", sp |-> sp], irq_el1([cpu |-> Registers(sp), mem |-> Stack], words, nested))

\* It is switched out for a new process, which is switched out again.
SwitchTasks == \E sp \in 140 .. 142, page \in {8192, 16384} :
  LET away == cpu_switch_to(Registers(sp), FirstContext(page, 2, 3, 4), page + 12)
      later == Run([cpu |-> away.cpu, mem |-> Stack], 9, 7)
  IN Return([op |-> "switch", sp |-> sp, page |-> page],
            [away |-> away, started |-> ret_from_fork(away.cpu), back |-> cpu_switch_to(later.cpu, away.prev, 0)])

\* linker.ld aligns the begin of .bss, and not its end.
BootCores == \E bssEnd \in BssEnd, size \in 1 .. 24 :
  /\ (bssEnd - size) % 8 = 0
  /\ Return([op |-> "boot", end |-> bssEnd], [stacks |-> Stacks(bssEnd), cleared |-> memzero(bssEnd - size, size)])

Shade == \E color \in 0 .. 255 : Return([op |-> "wheel", color |-> color], wheel(color))
Cell == \E c \in 0 .. 255 : Return([op |-> "glyph", c |-> c], Glyph(c))

Done == call # Idle /\ call' = Idle /\ res' = None

LNext ==
  \/ /\ call = Idle
     /\ \/ Calculate \/ Factor \/ ReadUptime \/ PrintNumber \/ PrintString \/ Compare \/ Copy \/ Parse
        \/ Translate \/ Access \/ SetFunc \/ InitUart \/ TakeException \/ Shade \/ Cell
        \/ TakeIrq \/ SwitchTasks \/ BootCores
  \/ Done

Init == LInit /\ GInit
Next ==
  \/ caller = "none" /\ last = Nothing /\ LNext /\ UNCHANGED gvars
  \/ call = Idle /\ GNext /\ UNCHANGED lvars

vars == <<call, res, pc, caller, full, fifo, mbox, fb, chars, last>>
Spec == Init /\ [][Next]_vars
-----------------------------------------------------------------------------
(* Properties *)

Is(op) == call.op = op

\* math.c computes what its comments name: the greatest common divisor, the
\* least common multiple while the product fits, the additive order, the
\* totient, the root rounded down for every int, and the prime factors; the
\* time that uptime prints is the time read.
ArithmeticCorrect ==
  /\ Is("gcd") =>
       LET a == call.a   b == call.b   common == Divisors(a) \cap Divisors(b)
       IN /\ a * b # 0 => res.v.gcd = Max(common)
          /\ a * b \in ULong \ {0} => res.v.lcm = Min({m \in 1 .. a * b : Divides(a, m) /\ Divides(b, m)})
          /\ a * b # 0 => res.v.ord = Min({k \in 1 .. b : (a * k) % b = 0})
          /\ a * b = 0 => res.v.gcd = a + b /\ res.v.lcm = 0
  /\ Is("mod") => Divides(call.b, call.a - res.v)
  /\ Is("sqrt") /\ call.n \in PosInt => IsSqrt(res.v, call.n)
  /\ Is("factors") =>
       /\ Product(res.v.factors) = call.n
       /\ \A i \in DOMAIN res.v.factors : IsPrime(res.v.factors[i])
       /\ res.v.phi = Cardinality({k \in 1 .. call.n : Divisors(k) \cap Divisors(call.n) = {1}})
  /\ Is("uptime") =>
       /\ (((res.v.d * 24 + res.v.h) * 60 + res.v.m) * 60 + res.v.s) * 1000 + res.v.ms = call.ms
       /\ res.v.h < 24 /\ res.v.m < 60 /\ res.v.s < 60 /\ res.v.ms < 1000

\* The value of a string of digits.
Value(s, base) == LET upto[i \in 0 .. Len(s)] == IF i = 0 THEN 0 ELSE base * upto[i - 1] + a2d(s[i]) IN upto[Len(s)]

\* What printf prints for a number: the padding that fills the field, zeros too
\* before the sign (00-5), then the sign and the digits without leading zeros.
Printed(n, c, out) ==
  \E k \in 0 .. Len(out) :
    LET pad == SubSeq(out, 1, k)
        text == SubSeq(out, k + 1, Len(out))
        neg == c.dir = "d" /\ n \notin PosInt
        digits == IF neg THEN Tail(text) ELSE text
    IN /\ Len(text) > 0 /\ (neg => Len(text) > 1 /\ text[1] = Minus)
       /\ \A i \in 1 .. k : pad[i] = (IF c.lz THEN Zero ELSE Space)
       /\ k > 0 => Len(out) = c.w
       /\ \A i \in DOMAIN digits : a2d(digits[i]) \in 0 .. 15 /\ (digits[i] > 96 => c.dir = "x")
       /\ Value(digits, IF c.dir \in {"x", "X"} THEN 16 ELSE 10) = (IF neg THEN 2^IntBits - n ELSE n)
       /\ Len(digits) = 1 \/ digits[1] # Zero
       /\ Len(text) < BfSize

\* printf prints every number so that what follows the padding reads back as the
\* number, in the field asked for and within its buffer; strtol reads what it
\* printed without padding; a string compares equal only to itself; and a name
\* copied into a fresh page ends where it should, although strcpy stores no
\* terminator.
TextCorrect ==
  /\ Is("print") => /\ res.v[1] = Minus /\ res.v[Len(res.v)] = Percent
                    /\ Printed(call.n, call.c, SubSeq(res.v, 2, Len(res.v) - 1))
  /\ Is("sprintf") => res.v = [i \in 1 .. (IF call.w > Len(call.s) THEN call.w - Len(call.s) ELSE 0) |-> Space] \o call.s \o <<88, 0>>
  /\ Is("strtol") => res.v = call.n
  /\ Is("strcmp") => (res.v = 0 <=> call.s = call.t)
  /\ Is("strcpy") => StringAt(res.v, 1) = call.s /\ strlen(res.v, 1) = Len(call.s) /\ res.v[0] = 0

\* Memory is mapped to itself.  The peripherals, and nothing else, have a type
\* of their own: device memory (0) if the compiler folds the shifts of mmu_init,
\* else non-cacheable memory (68).  All the rest is write-back memory (255), the
\* page of the locks or not, whatever it does with them: the sign of the term at
\* bit 24 fills attribute 4.  The comments want DRAM otherwise: see DramUncached.
MemoryTypes ==
  Is("walk") =>
    /\ res.v.pa = call.va
    /\ res.v.type = (IF call.va \notin PBASE .. LastMmio THEN 255 ELSE IF call.shift = "fold" THEN 0 ELSE 68)

\* What mmu_init says of the memory that init_page_tables gives attribute 4:
\* "Normal memory, Inner + Outer non-cacheable" (mm.c:91), all DRAM but the page
\* of the locks, which is marked "as write-back" (mm.c:54).  It would be so for
\* some outcome of the undefined shifts.
DramUncached ==
  \E shift \in ShiftBeyond : \A e \in Entry :
    LET page == VirtAddr(e[1], e[2])
    IN /\ MairAttr(page) = 4 => Walk(page, shift).type = 68
       /\ page = LocksPage => Walk(page, shift).type = 255

\* Every register of a structure lies in device memory, if the shifts of
\* mmu_init are folded, and two structures put the same register at the same
\* place: the local timer is a part of QA7, and no other devices overlap.
DevicesApart ==
  Is("access") =>
    LET Words(d, k) == RegAddr(d, k) .. RegAddr(d, k) + 4 * Layout[d][k][2] - 1
        QA7Field(name) == CHOOSE k \in DOMAIN QA7Registers : QA7Registers[k][1] = name
        Same == {<<"routing", "local_interrupt_0_routing">>, <<"control_status", "local_timer_ctrl_and_status">>,
                 <<"set_clear_reload", "local_timer_write_flags">>, <<"timer_control_core0", "core_timer_interrupt_control">>}
    IN /\ res.v.seen.pa = res.v.at /\ res.v.at % 4 = 0
       /\ call.shift = "fold" => res.v.seen.type = 0
       /\ \A d \in Device \ {call.d}, k \in 1 .. 22 :
            k \in DOMAIN Layout[d] /\ Words(d, k) \cap Words(call.d, call.k) # {} => {d, call.d} = {"QA7", "LOCAL_TIMER"}
       /\ \A p \in Same : call.d = "LOCAL_TIMER" /\ LocalTimer[call.k][1] = p[1] => res.v.at = RegAddr("QA7", QA7Field(p[2]))

\* The pins of the UART get their function and no other pin loses its own; the
\* two initialisations differ in the UART's interrupts alone.  Of the exceptions
\* that nothing serves each reports its own number, but the last, which does not
\* (entry.S:131; see EveryVectorNumbered).  The colours of the wheel are
\* colours, and every character of the font is read from the cell that is its own.
RegistersCorrect ==
  /\ DevicesApart
  /\ Is("gpio") => \A p \in Pin : Field(res.v[p \div 10], (p * 3) % 30)
                                   = (IF p = call.pin THEN call.func ELSE Field(call.v, (p * 3) % 30))
  /\ Is("uart") => /\ res.v[1].sel = res.v[2].sel /\ res.v[1].pupd = res.v[2].pupd
                   /\ \A p \in {TXD, RXD} : Field(res.v[1].sel[1], (p * 3) % 30) = GFAlt5
  /\ Is("exception") => (res.v = [type |-> call.k] <=> call.k \notin {5, 15})
  /\ Is("wheel") => res.v[1] + res.v[2] + res.v[3] = 255 /\ \A i \in 1 .. 3 : res.v[i] \in 0 .. 255
  /\ Is("glyph") /\ call.c \in 32 .. 139 =>
       res.v = {p \in fontmap_data : <<(p \div fontmap.width) \div char_height, (p % fontmap.width) \div char_width>>
                                       = <<(call.c - 32) \div fontmap.cols, (call.c - 32) % fontmap.cols>>}

\* A slot of the vectors that does not serve an interrupt passes its number:
\* "#define ERROR_INVALID_EL0_32  15" (entry.h:21), the last of the 16 messages
\* that show_invalid_entry_message chooses from (irq.c:30).
EveryVectorNumbered == \A k \in 0 .. 15 \ {5} : VectorSlot(k) = [type |-> k]

\* One of three comments is true of the program: the memory type of mm.c:91, the
\* number of the last vector in entry.h:21, the 0 that mbox_call returns on
\* failure, mbox.c:7.  So a state without it refutes all three.
LibraryAsCommented == DramUncached \/ EveryVectorNumbered \/ FramebufferGranted

\* Text on the screen can be read: every printing character has dots, the
\* space has none, no two look the same, and none reaches the border of its
\* cell, so that neighbours stay apart.
Shapes == [c \in 33 .. 126 |-> Shape(c)]
TextReadable ==
  Is("glyph") /\ call.c \in 32 .. 126 =>
    LET shape == {p - GlyphStart(call.c) : p \in {q \in res.v : Ink(q)}}
    IN /\ shape = {} <=> call.c = 32
       /\ \A c \in 33 .. 126 \ {call.c} : Shapes[c] # shape
       /\ \A p \in shape : /\ p \div fontmap.width \in 2 .. char_height - 3
                          /\ p % fontmap.width \in 2 .. char_width - 3

\* A process that was interrupted goes on with every register it had, also
\* when an interrupt was taken inside the handler, and with its stack, but for
\* the word at sp, which holds spsr now: kernel_entry stores one word above its
\* frame (entry.S:26).
InterruptKeeps ==
  Is("irq") =>
    /\ res.v.cpu = Registers(call.sp)
    /\ \A a \in DOMAIN Stack : a >= call.sp => res.v.mem[a] = (IF a = call.sp THEN Registers(call.sp).spsr ELSE Stack[a])

\* One that was switched out gets back the registers a call keeps, and a new
\* one starts at its entry with its arguments.
SwitchKeeps ==
  Is("switch") =>
    /\ Saved(res.v.back.cpu) = Saved(Registers(call.sp))
    /\ res.v.away.cpu.x[30] = RetFromFork
    /\ res.v.started = [pc |-> 2, x0 |-> 3, x1 |-> 4, sp |-> call.page + 512]

\* The boot stacks lie apart, the word above the frame included, and behind
\* all that core 0 clears, which is no less than .bss; _start leaves to EL1
\* with the MMU and the caches off and all exceptions masked.
BootStateGood ==
  Is("boot") =>
    LET bottom(c, n) == res.v.stacks[c][n] - StackSize[n]
        region(c, n) == bottom(c, n) .. res.v.stacks[c][n] + (IF n = 2 THEN 7 ELSE -1)
        Nested(p, q) == p[1] = q[1] /\ p[2] = 2 /\ q[2] = 3  \* the word goes to the unused stack above
    IN /\ \A c \in 0 .. 3, n \in 1 .. 3 : res.v.stacks[c][n] % 16 = 0 /\ bottom(c, 1) >= res.v.cleared
       /\ res.v.cleared >= call.end
       /\ \A p, q \in (0 .. 3) \X (1 .. 3) : p # q /\ ~Nested(p, q) =>
            {bottom(q[1], q[2]), res.v.stacks[q[1]][q[2]] - 1} \cap region(p[1], p[2]) = {}
       /\ MmuBits \cap BootRegisters.sctlr_el1 = {}
       /\ BootRegisters.spsr_el3 \cap 0 .. 3 = {0, 2} /\ 6 .. 8 \subseteq BootRegisters.spsr_el3

\* What a core's registers and stacks have to keep, from its start on.
ContextKept == InterruptKeeps /\ SwitchKeeps /\ BootStateGood
=============================================================================
