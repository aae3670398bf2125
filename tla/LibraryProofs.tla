---------------------------- MODULE LibraryProofs ----------------------------
(***************************************************************************)
(* What holds of the memory map for every address, of the mailbox for      *)
(* every traffic on it, of the registers and stacks of a core through      *)
(* interrupts and switches, of what is drawn on every screen, of the       *)
(* registers of the devices, and of the arithmetic for every argument:     *)
(* whatever a program calls and in whatever order.                         *)
(***************************************************************************)
EXTENDS Library, SequenceTheorems, FiniteSetTheorems, Numbers, TLAPS

\* An offset in a unit is less than its size; with the start of the unit it
\* gives the address back.
LEMMA InUnit == ASSUME NEW n \in Nat, NEW k \in Nat \ {0} PROVE n % k \in 0 .. k - 1 /\ (n - (n % k)) + (n % k) = n
OBVIOUS

\* In particular in a page.
LEMMA InPage == ASSUME NEW n \in Nat PROVE n % PageSize \in 0 .. PageSize - 1 /\ (n - (n % PageSize)) + (n % PageSize) = n
<1>1. PageSize \in Nat \ {0}
  BY DEF PageSize
<1> QED  BY <1>1, InUnit, Zenon

\* The tables cover natural numbers.
LEMMA AddressType == ASSUME NEW va \in Address PROVE va \in Nat /\ va % PageSize \in 0 .. PageSize - 1
<1>1. va \in Nat
  BY SMT DEF Address
<1> QED  BY <1>1, InPage, Zenon

\* The entry that init_page_tables writes for the page of an address gives back
\* that address, and the index of its memory type.
LEMMA Entries ==
  ASSUME NEW va \in Address
  PROVE  LET i == va \div 536870912
             j == (va % 536870912) \div PageSize
         IN /\ VirtAddr(i, j) = va - (va % PageSize)
            /\ MairAttr(VirtAddr(i, j)) \in {0, 1, 4}
            /\ OutputAddr(Level3(i, j)) = va - (va % PageSize)
            /\ Attr(Level3(i, j)) = MairAttr(VirtAddr(i, j))
<1> DEFINE i == va \div 536870912
           j == (va % 536870912) \div 65536
           page == va \div 65536
<1>1. va \in Nat
  BY AddressType
<1>2. page \in Nat
  BY <1>1
<1>3. va - (va % 65536) = page * 65536
  BY <1>1
<1>4. i * 536870912 + j * 65536 = va - (va % 65536)
  BY <1>1
<1>5. VirtAddr(i, j) = page * 65536
  BY <1>3, <1>4 DEF VirtAddr, PageSize
<1>6. MairAttr(page * 65536) \in {0, 1, 4}
  BY DEF MairAttr
<1> DEFINE m == MairAttr(page * 65536)
           entry == Level3(i, j)
<1>7. entry = page * 65536 + 1024 + 3 * 256 + m * 4 + 3
  BY <1>5 DEF Level3
<1> HIDE DEF i, j, page, m, entry
<1>8. m \in {0, 1, 4}
  BY <1>6 DEF m
<1>9. entry % 65536 = 1024 + 3 * 256 + m * 4 + 3
  BY <1>2, <1>7, <1>8, SMT
<1>10. (entry \div 4) % 8 = m
  BY <1>2, <1>7, <1>8, SMT
<1>11. entry - (entry % 65536) = page * 65536
  BY <1>2, <1>7, <1>8, <1>9, SMT
<1>12. VirtAddr(i, j) = va - (va % 65536)
  BY <1>3, <1>5, SMT
<1>13. OutputAddr(entry) = va - (va % 65536) /\ Attr(entry) = MairAttr(VirtAddr(i, j))
  BY <1>3, <1>5, <1>10, <1>11, SMT DEF OutputAddr, Attr, PageSize, m
<1>14. MairAttr(VirtAddr(i, j)) \in {0, 1, 4}
  BY <1>5, <1>6, SMT
<1> QED  BY <1>12, <1>13, <1>14, SMT DEF PageSize, i, j, entry

\* The bytes of mair_el1 for the indices in use: both kinds of DRAM are
\* write-back; the peripherals are device memory if the undefined shifts are
\* folded to 0, and otherwise what attribute 4 was meant to be.
DeviceType(shift) == IF shift = "fold" THEN 0 ELSE 68

LEMMA Mair ==
  ASSUME NEW shift \in ShiftBeyond
  PROVE  mair_el1(shift)[0] = DeviceType(shift) /\ mair_el1(shift)[1] = 255 /\ mair_el1(shift)[4] = 255
<1>1. mair_el1("fold")[0] = 0 /\ mair_el1("fold")[1] = 255 /\ mair_el1("fold")[4] = 255
  BY DEF mair_el1, Shifted
<1>2. mair_el1("modulo")[0] = 68 /\ mair_el1("modulo")[1] = 255 /\ mair_el1("modulo")[4] = 255
  <2>1. /\ Shifted(240, 5, "modulo")[0] = 0 /\ Shifted(240, 5, "modulo")[1] = 240 /\ Shifted(240, 5, "modulo")[4] = 0
        /\ Shifted(68, 4, "modulo")[0] = 68 /\ Shifted(68, 4, "modulo")[1] = 0 /\ Shifted(68, 4, "modulo")[4] = 0
    BY DEF Shifted
  <2>2. /\ Shifted(187, 3, "modulo")[0] = 0 /\ Shifted(187, 3, "modulo")[1] = 0 /\ Shifted(187, 3, "modulo")[4] = 255
        /\ Shifted(12, 2, "modulo")[0] = 0 /\ Shifted(12, 2, "modulo")[1] = 0 /\ Shifted(12, 2, "modulo")[4] = 0
    BY DEF Shifted
  <2>3. /\ Shifted(255, 1, "modulo")[0] = 0 /\ Shifted(255, 1, "modulo")[1] = 255 /\ Shifted(255, 1, "modulo")[4] = 0
        /\ Shifted(0, 0, "modulo")[0] = 0 /\ Shifted(0, 0, "modulo")[1] = 0 /\ Shifted(0, 0, "modulo")[4] = 0
    BY DEF Shifted
  <2> QED  BY <2>1, <2>2, <2>3 DEF mair_el1
<1>3. DeviceType("fold") = 0 /\ DeviceType("modulo") = 68
  BY DEF DeviceType
<1> QED  BY <1>1, <1>2, <1>3 DEF ShiftBeyond

\* mmu_init (mm.c:72): every address the tables cover is mapped to itself, DRAM
\* as write-back; another type is had exactly in the range of the peripherals.
THEOREM IdentityMap ==
  ASSUME NEW va \in Address, NEW shift \in ShiftBeyond
  PROVE  Walk(va, shift) = [pa |-> va, type |-> IF va \in PBASE .. LastMmio THEN DeviceType(shift) ELSE 255]
<1> DEFINE pa == va - (va % PageSize)
<1>1. va \in Nat /\ va % PageSize \in 0 .. PageSize - 1
  BY AddressType
<1>2. (1056964608 <= pa <=> 1056964608 <= va) /\ (pa <= 1073807359 <=> va <= 1073807359)
  <2>1. 1056964608 <= va - (va % 65536) <=> 1056964608 <= va
    BY <1>1, SMT
  <2>2. va - (va % 65536) <= 1073807359 <=> va <= 1073807359
    BY <1>1, SMT
  <2> QED  BY <2>1, <2>2, SMT DEF PageSize
<1> DEFINE device == PBASE <= pa /\ pa <= LastMmio
<1>3. mair_el1(shift)[MairAttr(pa)] = IF device THEN DeviceType(shift) ELSE 255
  BY Mair, SMT DEF MairAttr
<1>5. device <=> va \in PBASE .. LastMmio
  <2> HIDE DEF pa
  <2>1. PBASE \in Int /\ LastMmio \in Int
    BY DEF PBASE, LastMmio
  <2>2. device <=> PBASE <= va /\ va <= LastMmio
    BY <1>2, SMT DEF PBASE, LastMmio
  <2> QED  BY <1>1, <2>1, <2>2, SMT
<1>4. pa + (va % PageSize) = va
  BY <1>1, InPage, Zenon
<1> QED  BY <1>3, <1>4, <1>5, Entries DEF Walk
-----------------------------------------------------------------------------
\* What a call of the memory map left is the translation of its address.
WalkInv ==
  call.op = "walk" => call.va \in Address /\ call.shift \in ShiftBeyond /\ res.v = Walk(call.va, call.shift)

\* The addresses looked at are covered by the tables.
LEMMA Covered ==
  ASSUME NEW e \in Entry, NEW offset \in {0, PageSize - 1}
  PROVE  VirtAddr(e[1], e[2]) + offset \in Address
<1>1. NumTables * NumEntries * PageSize - 1 = 1610612735
  BY SMT DEF NumTables, NumEntries, PageSize
<1>2. e \in (0 .. 2) \X (0 .. 8191)
  BY EntryAssumption, SMT DEF NumTables, NumEntries
<1>3. e[1] \in 0 .. 2 /\ e[2] \in 0 .. 8191
  BY <1>2
<1>4. offset \in 0 .. 65535
  BY SMTT(40) DEF PageSize
<1> DEFINE i == e[1]   j == e[2]   va == VirtAddr(i, j) + offset   N == NumTables * NumEntries * PageSize - 1
<1>5. va = i * 536870912 + j * 65536 + offset
  BY SMT DEF VirtAddr, PageSize
<1> HIDE DEF i, j
<1>6. i \in Nat /\ i <= 2 /\ j \in Nat /\ j <= 8191 /\ offset \in Nat /\ offset <= 65535
  <2>1. i \in 0 .. 2 /\ j \in 0 .. 8191
    BY <1>3, SMTT(40) DEF i, j
  <2> QED  BY <2>1, <1>4, SMTT(40)
<1>7. va \in Nat /\ va <= 1610612735
  <2> HIDE DEF va
  <2> QED  BY <1>5, <1>6, SMT
<1> HIDE DEF va, N
<1>8. va \in 0 .. N
  <2>1. N \in Int /\ va <= N
    BY <1>1, <1>7, SMT DEF N
  <2> QED  BY <1>7, <2>1, SMT
<1> QED  BY <1>8 DEF Address, va, N, i, j

\* Every step calls one routine, or returns, or is one of the framebuffer.
LEMMA Calls ==
  ASSUME [Next]_vars
  PROVE  \/ UNCHANGED lvars
         \/ call'.op = "none"
         \/ Calculate /\ call'.op \in {"gcd", "mod"}
         \/ Factor /\ call'.op \in {"sqrt", "factors"}
         \/ ReadUptime /\ call'.op = "uptime"
         \/ PrintNumber /\ call'.op = "print"
         \/ PrintString /\ call'.op = "sprintf"
         \/ Compare /\ call'.op = "strcmp"
         \/ Copy /\ call'.op = "strcpy"
         \/ Parse /\ call'.op = "strtol"
         \/ Translate /\ call'.op = "walk"
         \/ Access /\ call'.op = "access"
         \/ SetFunc /\ call'.op = "gpio"
         \/ InitUart /\ call'.op = "uart"
         \/ TakeException /\ call'.op = "exception"
         \/ Shade /\ call'.op = "wheel"
         \/ Cell /\ call'.op = "glyph"
         \/ TakeIrq /\ call'.op = "irq"
         \/ SwitchTasks /\ call'.op = "switch"
         \/ BootCores /\ call'.op = "boot"
<1>1. Calculate => call'.op \in {"gcd", "mod"}
  BY DEF Calculate, Return
<1>2. Factor => call'.op \in {"sqrt", "factors"}
  BY DEF Factor, Return
<1>3. ReadUptime => call'.op = "uptime"
  BY DEF ReadUptime, Return
<1>4. PrintNumber => call'.op = "print"
  BY DEF PrintNumber, Return
<1>5. PrintString => call'.op = "sprintf"
  BY DEF PrintString, Return
<1>6. Compare => call'.op = "strcmp"
  BY DEF Compare, Return
<1>7. Copy => call'.op = "strcpy"
  BY DEF Copy, Return
<1>8. Parse => call'.op = "strtol"
  BY DEF Parse, Return
<1>9. Translate => call'.op = "walk"
  BY DEF Translate, Return
<1>10. Access => call'.op = "access"
  BY DEF Access, Return
<1>11. SetFunc => call'.op = "gpio"
  BY DEF SetFunc, Return
<1>12. InitUart => call'.op = "uart"
  BY DEF InitUart, Return
<1>13. TakeException => call'.op = "exception"
  BY DEF TakeException, Return
<1>14. Shade => call'.op = "wheel"
  BY DEF Shade, Return
<1>15. Cell => call'.op = "glyph"
  BY DEF Cell, Return
<1>16. TakeIrq => call'.op = "irq"
  BY DEF TakeIrq, Return
<1>17. SwitchTasks => call'.op = "switch"
  BY DEF SwitchTasks, Return
<1>18. BootCores => call'.op = "boot"
  BY DEF BootCores, Return
<1>19. Done => call'.op = "none"
  BY DEF Done, Idle
<1> QED  BY <1>1, <1>2, <1>3, <1>4, <1>5, <1>6, <1>7, <1>8, <1>9, <1>10, <1>11, <1>12, <1>13, <1>14, <1>15, <1>16, <1>17, <1>18, <1>19 DEF Next, LNext, vars, lvars

\* The other routines leave something else.
LEMMA WalkStep == ASSUME WalkInv, [Next]_vars PROVE WalkInv'
<1>1. CASE Translate
  <2>1. PICK e \in Entry, offset \in {0, PageSize - 1}, shift \in ShiftBeyond :
          Return([op |-> "walk", va |-> VirtAddr(e[1], e[2]) + offset, shift |-> shift],
                 Walk(VirtAddr(e[1], e[2]) + offset, shift))
    BY <1>1 DEF Translate
  <2> DEFINE x == VirtAddr(e[1], e[2]) + offset
  <2>2. x \in Address
    BY Covered
  <2>3. call' = [op |-> "walk", va |-> x, shift |-> shift] /\ res' = [v |-> Walk(x, shift)]
    BY <2>1 DEF Return
  <2> HIDE DEF x
  <2>4. call'.va = x /\ call'.shift = shift /\ res'.v = Walk(x, shift)
    BY <2>3
  <2> QED  BY <2>2, <2>4 DEF WalkInv
<1>2. CASE UNCHANGED lvars
  BY <1>2 DEF lvars, WalkInv
<1>3. CASE call'.op # "walk"
  BY <1>3 DEF WalkInv
<1> QED  BY <1>1, <1>2, <1>3, Calls

\* The memory map as programs see it (mm.c:35,72).
THEOREM MemoryIsMapped == Spec => []MemoryTypes
<1>1. Init => WalkInv
  BY DEF Init, LInit, Idle, WalkInv
<1>2. WalkInv => MemoryTypes
  BY IdentityMap DEF WalkInv, MemoryTypes, Is, DeviceType
<1> QED  BY <1>1, <1>2, WalkStep, PTL DEF Spec
-----------------------------------------------------------------------------
\* What is inductive: one word of the mailbox at most is ours; it is there
\* while mbox_call waits for it, and the answer was written before it.
MailInv ==
  /\ fifo \in Seq({"own", "other"})
  /\ \A i \in 1 .. Len(fifo) : fifo[i] = "own" =>
       /\ pc = "mbox_read" /\ mbox.code # "request"
       /\ \A j \in 1 .. Len(fifo) : fifo[j] = "own" => i = j
  /\ AnswerBeforeUse

\* Words come in at the back and are taken at the front.
LEMMA Taken ==
  ASSUME NEW s \in Seq({"own", "other"}), s # <<>>
  PROVE  /\ Tail(s) \in Seq({"own", "other"}) /\ Len(Tail(s)) = Len(s) - 1 /\ Head(s) = s[1]
         /\ \A i \in 1 .. Len(Tail(s)) : Tail(s)[i] = s[i + 1]
BY HeadTailProperties

LEMMA Arrived ==
  ASSUME NEW s \in Seq({"own", "other"}), NEW e \in {"own", "other"}
  PROVE  /\ Append(s, e) \in Seq({"own", "other"}) /\ Len(Append(s, e)) = Len(s) + 1
         /\ \A i \in 1 .. Len(s) : Append(s, e)[i] = s[i]
         /\ Append(s, e)[Len(s) + 1] = e
BY AppendProperties

\* Each step of mbox_call and of the VideoCore.
LEMMA MailStep == ASSUME MailInv, [Next]_vars PROVE MailInv'
<1> USE DEF AnswerBeforeUse
<1>1. ASSUME NEW who \in {"fbinit", "fbsetres"}, NEW r \in Resolution, Ask(who, r) PROVE MailInv'
  BY <1>1 DEF Ask, MailInv
<1>2. CASE MboxWrite
  BY <1>2 DEF MboxWrite, MailInv
<1>3. CASE MboxDiscard
  <2>1. fifo' = Tail(fifo) /\ UNCHANGED <<pc, mbox>> /\ fifo # <<>>
    BY <1>3 DEF MboxDiscard
  <2> QED  BY <2>1, Taken DEF MailInv
<1>4. CASE MboxReturn
  <2>1. fifo' = Tail(fifo) /\ mbox' = mbox /\ fifo # <<>> /\ Head(fifo) = "own" /\ pc' = "returned"
    BY <1>4 DEF MboxReturn
  <2>2. fifo[1] = "own" /\ 1 \in 1 .. Len(fifo)
    BY <2>1, Taken DEF MailInv
  <2>3. \A i \in 1 .. Len(fifo') : fifo'[i] # "own"
    BY <2>1, <2>2, Taken DEF MailInv
  <2> QED  BY <2>1, <2>2, <2>3, Taken DEF MailInv
<1>5. CASE VcAnswer
  <2>1. fifo' = Append(fifo, "own") /\ pc' = pc /\ pc = "mbox_read" /\ mbox.code = "request"
    BY <1>5 DEF VcAnswer
  <2>3. mbox'.code # "request"
    <3>1. CASE mbox' = [mbox EXCEPT !.code = "error"]
      BY <2>1, <3>1
    <3>2. ASSUME NEW r \in Resolution, NEW depth \in {32, 16}, NEW p \in {"bus", "zero"},
                 mbox' = [code |-> "ok", depth |-> depth, width |-> r[1], height |-> r[2], pitch |-> 4 * r[1], ptr |-> p]
          PROVE  mbox'.code = "ok"
      BY <3>2
    <3> QED  BY <1>5, <3>1, <3>2 DEF VcAnswer
  <2>2. \A i \in 1 .. Len(fifo) : fifo[i] # "own"
    BY <2>1 DEF MailInv
  <2> QED  BY <2>1, <2>2, <2>3, Arrived DEF MailInv
<1>6. CASE VcOther
  <2>1. fifo' = Append(fifo, "other") /\ UNCHANGED <<pc, mbox>>
    BY <1>6 DEF VcOther
  <2> QED  BY <2>1, Arrived DEF MailInv
<1>7. CASE VcQueue
  BY <1>7 DEF VcQueue, MailInv
<1>8. CASE FbInitDone \/ FbSetResDone
  BY <1>8 DEF FbInitDone, FbSetResDone, MailInv
<1>9. ASSUME UNCHANGED <<pc, fifo, mbox>> PROVE MailInv'
  BY <1>9 DEF MailInv
<1>10. ASSUME UNCHANGED <<fifo, mbox>>, pc \notin {"mbox_read", "returned"}, pc' # "returned" PROVE MailInv'
  BY <1>10 DEF MailInv
<1>11. ASSUME NEW c \in {"glyph", "lf", "cr"}, PfFbputc(c) PROVE MailInv'
  BY <1>11, <1>10 DEF PfFbputc
<1>12. CASE Fbputs \/ FbputsReturn
  BY <1>12, <1>10 DEF Fbputs, FbputsReturn, Draws
<1>14. CASE ClearFramebuffer
  BY <1>14, <1>9 DEF ClearFramebuffer, Draws
<1>15. ASSUME NEW argc \in 1 .. 3, NEW x \in Place, NEW y \in Place,
              RainbowSquare(argc, x, y) \/ DrawPiLogo(argc, x, y)
       PROVE  MailInv'
  BY <1>15, <1>9 DEF RainbowSquare, DrawPiLogo, TooFewArguments, DrawShape, Draws
<1>13. CASE UNCHANGED gvars
  BY <1>13, <1>9 DEF gvars
<1> QED  BY <1>1, <1>2, <1>3, <1>4, <1>5, <1>6, <1>7, <1>8, <1>11, <1>12, <1>13, <1>14, <1>15 DEF Next, GNext, vars, gvars

\* mbox_call (mbox.c:8): with any number of other words in the mailbox, whatever
\* the answers are and however often it is called.
THEOREM NoAnswerBeforeUse == Spec => []AnswerBeforeUse
<1>1. Init => MailInv
  BY DEF Init, GInit, MailInv, AnswerBeforeUse
<1>2. MailInv => AnswerBeforeUse
  BY DEF MailInv
<1> QED  BY <1>1, <1>2, MailStep, PTL DEF Spec
-----------------------------------------------------------------------------
\* Registers, and the words of a stack, of any values.
Cpu(Val) == [x : [X -> Val], elr : Val, spsr : Val, sp : Int]
CoreState(Val, W) == [cpu : Cpu(Val), mem : [W -> Val]]

\* The stack has room for the frame; 7 and 8 are the words that the C code and
\* the one that interrupts it leave in Run.
Interruptible(Val, W, s) ==
  W \subseteq Int /\ s \in CoreState(Val, W) /\ s.cpu.sp - 32 .. s.cpu.sp \subseteq W /\ {7, 8} \subseteq Val

\* What kernel_entry stores, word by word.
Stored(s, base, a) ==
  CASE a - base \in X -> s.cpu.x[a - base] [] a - base = 31 -> s.cpu.elr [] a - base = 32 -> s.cpu.spsr [] OTHER -> s.mem[a]

\* Where a register is.
LEMMA RegisterStored == ASSUME NEW s, NEW base \in Int, NEW k \in X PROVE Stored(s, base, base + k) = s.cpu.x[k]
BY DEF Stored, X

\* The 33 words that kernel_entry writes (entry.S:3), and that it writes no other.
LEMMA Entered ==
  ASSUME NEW Val, NEW W \in SUBSET Int, NEW s \in CoreState(Val, W)
  PROVE  /\ kernel_entry(s).cpu.sp = s.cpu.sp - 32 /\ kernel_entry(s).mem \in [W -> Val]
         /\ \A a \in W : kernel_entry(s).mem[a] = Stored(s, s.cpu.sp - 32, a)
<1> DEFINE base == s.cpu.sp - FrameSize
<1>0. /\ s.mem \in [W -> Val] /\ s.cpu.x \in [X -> Val] /\ s.cpu.sp \in Int /\ s.cpu.elr \in Val /\ s.cpu.spsr \in Val
      /\ s.cpu = [x |-> s.cpu.x, elr |-> s.cpu.elr, spsr |-> s.cpu.spsr, sp |-> s.cpu.sp]
  BY DEF CoreState, Cpu
<1>1. kernel_entry(s).mem = [a \in W |-> Stored(s, base, a)]
  BY <1>0, DOMAIN s.mem = W DEF kernel_entry, Stored
<1>2. kernel_entry(s).cpu.sp = base
  <2>1. kernel_entry(s).cpu = [s.cpu EXCEPT !.sp = base, !.x[22] = s.cpu.elr, !.x[23] = s.cpu.spsr]
    BY DEF kernel_entry
  <2> HIDE DEF base
  <2> QED  BY <1>0, <2>1
<1>3. ASSUME NEW a \in W PROVE Stored(s, base, a) \in Val
  <2> HIDE DEF base
  <2> QED  BY <1>0 DEF Stored
<1>4. base = s.cpu.sp - 32
  BY DEF FrameSize
<1> HIDE DEF base
<1> QED  BY <1>1, <1>2, <1>3, <1>4

\* After it the core has the registers of before, and the stack but for one word.
Kept(W, before, after) ==
  /\ after.cpu = before.cpu
  /\ after.mem[before.cpu.sp] = before.cpu.spsr
  /\ \A a \in W : a > before.cpu.sp => after.mem[a] = before.mem[a]

\* An interrupt is transparent (entry.S:3,29): whatever the registers and the
\* stack hold, if the handler has a word of the stack when it is interrupted
\* itself, the process gets back its registers, elr and spsr, and its stack
\* from sp + 1 word on; the word at sp is lost to spsr.
THEOREM InterruptIsTransparent ==
  ASSUME NEW Val, NEW W, NEW s, Interruptible(Val, W, s), NEW words \in Nat \ {0}, NEW nested \in BOOLEAN
  PROVE  Kept(W, s, irq_el1(s, words, nested))
<1>i. W \in SUBSET Int /\ s \in CoreState(Val, W) /\ s.cpu.sp - 32 .. s.cpu.sp \subseteq W /\ 7 \in Val /\ 8 \in Val
  BY DEF Interruptible
<1> DEFINE e == kernel_entry(s)
           h == Run(e, words, 7)
           n == kernel_entry(h)
           r == Run(n, 0, 8)
           inner == IF nested THEN kernel_exit(r) ELSE h
           b == e.cpu.sp
           popped == [inner EXCEPT !.cpu.sp = b]
\* The frame and all above it once kernel_entry is done.
<1> DEFINE Frame(m) == \A a \in W : a >= b => m[a] = Stored(s, b, a)
<1>0. /\ s.mem \in [W -> Val] /\ s.cpu.x \in [X -> Val] /\ s.cpu.sp \in Int /\ s.cpu.elr \in Val /\ s.cpu.spsr \in Val
      /\ s.cpu = [x |-> s.cpu.x, elr |-> s.cpu.elr, spsr |-> s.cpu.spsr, sp |-> s.cpu.sp]
  BY <1>i DEF CoreState, Cpu
<1>1. b = s.cpu.sp - 32 /\ b \in Int /\ e.mem \in [W -> Val] /\ Frame(e.mem)
  <2>1. /\ kernel_entry(s).cpu.sp = s.cpu.sp - 32 /\ kernel_entry(s).mem \in [W -> Val]
        /\ \A a \in W : kernel_entry(s).mem[a] = Stored(s, s.cpu.sp - 32, a)
    BY <1>i, Entered
  <2>2. b = s.cpu.sp - 32
    BY <2>1
  <2> HIDE DEF b
  <2> QED  BY <1>0, <2>1, <2>2
<1>2. h.mem \in [W -> Val] /\ h.cpu.sp = b - words /\ \A a \in W : a >= b => h.mem[a] = e.mem[a]
  BY <1>i, <1>1 DEF Run
<1>3. Frame(h.mem)
  <2> HIDE DEF e, h
  <2> QED  BY <1>1, <1>2
<1>4. n.mem \in [W -> Val] /\ n.cpu.sp = b - words - 32 /\ \A a \in W : a > b - words => n.mem[a] = h.mem[a]
  <2>1. h = [cpu |-> [x |-> [k \in X |-> 7], elr |-> 7, spsr |-> 7, sp |-> b - words], mem |-> h.mem]
    BY DEF Run
  <2>2. h \in CoreState(Val, W)
    <3>1. b - words \in Int /\ h.mem \in [W -> Val]
      BY <1>1, <1>2
    <3> HIDE DEF e, h, b
    <3>2. [x |-> [k \in X |-> 7], elr |-> 7, spsr |-> 7, sp |-> b - words] \in Cpu(Val)
      BY <1>i, <3>1 DEF Cpu
    <3> QED  BY <2>1, <3>1, <3>2 DEF CoreState
  <2> HIDE DEF e, h, n
  <2>3. n.mem \in [W -> Val] /\ n.cpu.sp = b - words - 32 /\ \A a \in W : n.mem[a] = Stored(h, b - words - 32, a)
    BY <1>i, <1>1, <1>2, <2>2, Entered DEF n
  <2>4. ASSUME NEW a \in W, a > b - words PROVE Stored(h, b - words - 32, a) = h.mem[a]
    BY <1>i, <1>1, <2>4 DEF Stored, X
  <2> QED  BY <2>3, <2>4
<1>5. r.mem \in [W -> Val] /\ \A a \in W : a >= b => r.mem[a] = h.mem[a]
  <2> HIDE DEF e, h, n
  <2> QED  BY <1>i, <1>1, <1>4 DEF Run
<1>6. inner.mem \in [W -> Val] /\ Frame(inner.mem)
  <2>1. CASE nested
    <3>1. inner.mem = r.mem
      BY <2>1 DEF kernel_exit, Run
    <3> HIDE DEF e, h, n, r, inner
    <3> QED  BY <3>1, <1>1, <1>3, <1>5
  <2>2. CASE ~nested
    <3>1. inner.mem = h.mem
      BY <2>2
    <3> HIDE DEF e, h, n, r, inner
    <3> QED  BY <3>1, <1>2, <1>3
  <2> QED  BY <2>1, <2>2
<1>7. popped.mem = inner.mem /\ popped.cpu.sp = b
  BY ZenonT(60) DEF kernel_exit, Run
<1>8. irq_el1(s, words, nested) = kernel_exit(popped)
  BY DEF irq_el1
<1> HIDE DEF e, h, n, r, inner, popped
<1>9. kernel_exit(popped).mem = inner.mem
  BY <1>7 DEF kernel_exit
<1>w. \A k \in 0 .. 32 : b + k \in W /\ b + k >= b
  BY <1>i, <1>0, <1>1
<1>v. inner.mem[b + 31] = s.cpu.elr /\ inner.mem[b + 32] = s.cpu.spsr
  <2>1. b + 31 \in W /\ b + 32 \in W /\ b + 31 >= b /\ b + 32 >= b /\ (b + 31) - b = 31 /\ (b + 32) - b = 32
    BY <1>w, <1>1
  <2>2. inner.mem[b + 31] = Stored(s, b, b + 31) /\ inner.mem[b + 32] = Stored(s, b, b + 32)
    BY <2>1, <1>6
  <2> QED  BY <2>1, <2>2 DEF Stored, X
<1>10. kernel_exit(popped).cpu = s.cpu
  <2>1. ASSUME NEW k \in X PROVE popped.mem[b + k] = s.cpu.x[k]
    <3>1. b + k \in W /\ b + k >= b
      BY <1>w DEF X
    <3>2. popped.mem[b + k] = Stored(s, b, b + k)
      BY <3>1, <1>6, <1>7
    <3> QED  BY <3>2, <1>1, RegisterStored
  <2>2. popped.mem[b + 31] = s.cpu.elr /\ popped.mem[b + 32] = s.cpu.spsr
    BY <1>7, <1>v
  <2>3. kernel_exit(popped).cpu = [x |-> [k \in X |-> popped.mem[popped.cpu.sp + k]], elr |-> popped.mem[popped.cpu.sp + 31],
                                spsr |-> popped.mem[popped.cpu.sp + 32], sp |-> popped.cpu.sp + 32]
    BY DEF kernel_exit, FrameSize
  <2>4. [k \in X |-> popped.mem[popped.cpu.sp + k]] = s.cpu.x
    BY <2>1, <1>0, <1>7
  <2> QED  BY <2>2, <2>3, <2>4, <1>0, <1>1, <1>7
<1>11. ASSUME NEW a \in W, a > s.cpu.sp PROVE Stored(s, b, a) = s.mem[a]
  BY <1>i, <1>1, <1>0, <1>11 DEF Stored, X
<1>12. inner.mem[s.cpu.sp] = s.cpu.spsr
  <2>1. b + 32 = s.cpu.sp
    BY <1>0, <1>1
  <2> QED  BY <2>1, <1>v
<1>13. \A a \in W : a > s.cpu.sp => inner.mem[a] = s.mem[a]
  <2>1. \A a \in W : a > s.cpu.sp => a >= b
    BY <1>i, <1>0, <1>1
  <2> QED  BY <2>1, <1>6, <1>11
<1> QED  BY <1>8, <1>9, <1>10, <1>12, <1>13 DEF Kept

\* A process that cpu_switch_to left gets back every register of its context
\* (entry.S:155), whatever ran in between.
THEOREM SwitchIsTransparent ==
  ASSUME NEW Val, NEW cpu \in Cpu(Val), NEW other \in Cpu(Val), NEW ptr
  PROVE  Saved(cpu_switch_to(other, Saved(cpu), ptr).cpu) = Saved(cpu)
<1> DEFINE next == Saved(cpu)
           new == cpu_switch_to(other, next, ptr).cpu
<1>1. next.x = [k \in 19 .. 30 |-> cpu.x[k]] /\ next.sp = cpu.sp
  BY DEF Saved
<1> HIDE DEF next
<1>2. new.sp = next.sp /\ new.x = [k \in X |-> CASE k \in 19 .. 30 -> next.x[k] [] k = 8 -> ptr [] k = 9 -> next.sp [] OTHER -> other.x[k]]
  BY DEF cpu_switch_to, Cpu
<1>3. \A k \in 19 .. 30 : new.x[k] = cpu.x[k]
  BY <1>1, <1>2 DEF X
<1> HIDE DEF new
<1> QED  BY <1>1, <1>2, <1>3 DEF Saved, new, next

\* A new process starts in ret_from_fork with its entry and arguments, its stack
\* at the end of the 512 words of its page (schedule.c:68, entry.S:147).
THEOREM NewProcessStarts ==
  ASSUME NEW Val, NEW cpu \in Cpu(Val), NEW page \in Nat, NEW entry, NEW argc, NEW argv, NEW ptr
  PROVE  LET new == cpu_switch_to(cpu, FirstContext(page, entry, argc, argv), ptr).cpu
         IN /\ new.x[30] = RetFromFork
            /\ ret_from_fork(new) = [pc |-> entry, x0 |-> argc, x1 |-> argv, sp |-> page + 512]
<1> DEFINE next == FirstContext(page, entry, argc, argv)
           new == cpu_switch_to(cpu, next, ptr).cpu
<1>1. next.x[19] = entry /\ next.x[20] = argc /\ next.x[21] = argv /\ next.x[30] = RetFromFork /\ next.sp = page + 512
  BY DEF FirstContext
<1> HIDE DEF next
<1>2. new.sp = next.sp /\ new.x = [k \in X |-> CASE k \in 19 .. 30 -> next.x[k] [] k = 8 -> ptr [] k = 9 -> next.sp [] OTHER -> cpu.x[k]]
  BY DEF cpu_switch_to, Cpu
<1>3. \A k \in 19 .. 30 : new.x[k] = next.x[k]
  BY <1>2 DEF X
<1> HIDE DEF new
<1> QED  BY <1>1, <1>2, <1>3 DEF ret_from_fork, new, next

\* What each call leaves is what the properties say, whatever was called before.
LEMMA IrqKept == ASSUME TakeIrq PROVE InterruptKeeps'
<1>1. PICK sp \in 140 .. 142, words \in {1, 2, 30}, nested \in BOOLEAN :
        Return([op |-> "irq", sp |-> sp], irq_el1([cpu |-> Registers(sp), mem |-> Stack], words, nested))
  BY DEF TakeIrq
<1> DEFINE s == [cpu |-> Registers(sp), mem |-> Stack]
           after == irq_el1(s, words, nested)
<1>2. s \in CoreState(Nat, 0 .. 150) /\ s.cpu = Registers(sp) /\ s.mem = Stack /\ s.cpu.sp = sp /\ DOMAIN Stack = 0 .. 150
  <2>1. Stack \in [0 .. 150 -> Nat] /\ DOMAIN Stack = 0 .. 150
    BY DEF Stack
  <2>2. Registers(sp) \in Cpu(Nat) /\ Registers(sp).sp = sp
    BY DEF Registers, Cpu, X
  <2> QED  BY <2>1, <2>2 DEF CoreState
<1>3. Interruptible(Nat, 0 .. 150, s) /\ words \in Nat \ {0}
  BY <1>2 DEF Interruptible
<1> HIDE DEF s
<1>4. Kept(0 .. 150, s, after)
  BY <1>3, InterruptIsTransparent
<1>5. call'.sp = sp /\ res'.v = after
  BY <1>1 DEF Return, s
<1> HIDE DEF after
<1>6. \A a \in 0 .. 150 : a >= sp => a = sp \/ a > sp
  OBVIOUS
<1> QED  BY <1>2, <1>4, <1>5, <1>6 DEF InterruptKeeps, Kept

LEMMA SwitchKept == ASSUME SwitchTasks PROVE SwitchKeeps'
<1>1. PICK sp \in 140 .. 142, page \in {8192, 16384} :
        LET away == cpu_switch_to(Registers(sp), FirstContext(page, 2, 3, 4), page + 12)
            later == Run([cpu |-> away.cpu, mem |-> Stack], 9, 7)
        IN Return([op |-> "switch", sp |-> sp, page |-> page],
                  [away |-> away, started |-> ret_from_fork(away.cpu), back |-> cpu_switch_to(later.cpu, away.prev, 0)])
  BY DEF SwitchTasks
<1> DEFINE away == cpu_switch_to(Registers(sp), FirstContext(page, 2, 3, 4), page + 12)
           later == Run([cpu |-> away.cpu, mem |-> Stack], 9, 7)
           back == cpu_switch_to(later.cpu, away.prev, 0)
<1>2. Registers(sp) \in Cpu(Nat) /\ page \in Nat
  BY DEF Cpu, Registers, X
<1>3. away.prev = Saved(Registers(sp))
  BY DEF cpu_switch_to
<1>4. away.cpu.x[30] = RetFromFork /\ ret_from_fork(away.cpu) = [pc |-> 2, x0 |-> 3, x1 |-> 4, sp |-> page + 512]
  BY <1>2, NewProcessStarts
<1>5. away.cpu.sp = page + 512
  BY <1>4 DEF ret_from_fork
<1> HIDE DEF away
<1>6. later.cpu \in Cpu(Nat)
  BY <1>2, <1>5 DEF Run, Cpu
<1> HIDE DEF later
<1>7. Saved(back.cpu) = Saved(Registers(sp))
  BY <1>2, <1>3, <1>6, SwitchIsTransparent
<1> HIDE DEF back
<1>8. /\ call' = [op |-> "switch", sp |-> sp, page |-> page]
      /\ res' = [v |-> [away |-> away, started |-> ret_from_fork(away.cpu), back |-> back]]
  BY <1>1 DEF Return, away, later, back
<1>9. /\ call'.sp = sp /\ call'.page = page
      /\ res'.v.away = away /\ res'.v.started = ret_from_fork(away.cpu) /\ res'.v.back = back
  BY <1>8
<1> QED  BY <1>4, <1>7, <1>9 DEF SwitchKeeps

\* Where the stacks are, and that what core 0 clears ends before them.
LEMMA StacksLieBehind ==
  ASSUME NEW end \in Nat, NEW size \in 1 .. 24, (end - size) % 8 = 0
  PROVE  LET first == ((end + 15) \div 16) * 16
         IN /\ first \in Nat /\ first % 16 = 0
            /\ memzero(end - size, size) >= end /\ memzero(end - size, size) <= first /\ memzero(end - size, size) \in Int
<1> DEFINE from == end - size
           words == IF size <= 8 THEN 1 ELSE (size + 7) \div 8
           first == ((end + 15) \div 16) * 16
<1>1. PICK k \in Int : from = 8 * k
  OBVIOUS
<1>2. words \in {1, 2, 3} /\ size <= 8 * words /\ size > 8 * (words - 1)
  OBVIOUS
<1>3. first \in Nat /\ first % 16 = 0 /\ first >= end
  OBVIOUS
<1>4. memzero(from, size) = 8 * (k + words)
  BY <1>1, <1>2 DEF memzero
<1>5. end = 8 * k + size
  BY <1>1
<1> HIDE DEF from, words
<1>6. 8 * (k + words) >= end /\ 8 * (k + words) <= first
  <2>1. PICK n \in Int : first = 16 * n
    BY <1>3
  <2> HIDE DEF first
  <2> QED  BY <1>2, <1>3, <1>5, <2>1
<1> QED  BY <1>2, <1>3, <1>4, <1>6 DEF from

\* The tops of the stacks, counted from the first word behind .bss.
Above(c, n) == c * 34304 + (IF n = 1 THEN 1024 ELSE IF n = 2 THEN 33792 ELSE 34304)

LEMMA StackTops ==
  ASSUME NEW end \in Nat, NEW c \in 0 .. 3, NEW n \in 1 .. 3
  PROVE  /\ Stacks(end)[c][n] = ((end + 15) \div 16) * 16 + Above(c, n)
         /\ StackSize[n] = (IF n = 1 THEN 1024 ELSE IF n = 2 THEN 32768 ELSE 512)
<1>1. StackSize[1] = 1024 /\ StackSize[2] = 32768 /\ StackSize[3] = 512
  BY DEF StackSize
<1> DEFINE first == ((end + 15) \div 16) * 16
<1>2. first \in Nat
  OBVIOUS
<1>3. Stacks(end)[c][n] = ((first + c * 34304) + StackSize[1]) + (IF n > 1 THEN StackSize[2] ELSE 0) + (IF n > 2 THEN StackSize[3] ELSE 0)
  BY DEF Stacks
<1> HIDE DEF first
<1>4. Stacks(end)[c][n] = first + Above(c, n)
  <2>1. CASE n = 1
    BY <1>1, <1>2, <1>3, <2>1 DEF Above
  <2>2. CASE n = 2
    BY <1>1, <1>2, <1>3, <2>2 DEF Above
  <2>3. CASE n = 3
    BY <1>1, <1>2, <1>3, <2>3 DEF Above
  <2> QED  BY <2>1, <2>2, <2>3
<1> QED  BY <1>1, <1>4 DEF first

\* The same as numbers alone: no stack, and no word above an EL1 stack, reaches
\* the lowest or the highest byte of another one, but for the EL2 stack above.
LEMMA StacksApart ==
  ASSUME NEW c \in 0 .. 3, NEW n \in 1 .. 3, NEW d \in 0 .. 3, NEW m \in 1 .. 3, <<c, n>> # <<d, m>>,
         ~(c = d /\ n = 2 /\ m = 3)
  PROVE  LET size(k) == IF k = 1 THEN 1024 ELSE IF k = 2 THEN 32768 ELSE 512
             low == Above(c, n) - size(n)
             high == Above(c, n) + (IF n = 2 THEN 7 ELSE -1)
             from == Above(d, m) - size(m)
             to == Above(d, m) - 1
         IN ~(low <= from /\ from <= high) /\ ~(low <= to /\ to <= high)
<1>1. CASE c = d
  BY <1>1 DEF Above
<1>2. CASE c < d
  BY <1>2 DEF Above
<1>3. CASE d < c
  BY <1>3 DEF Above
<1> QED  BY <1>1, <1>2, <1>3

LEMMA BootKept == ASSUME BootCores PROVE BootStateGood'
<1>1. PICK end \in BssEnd, size \in 1 .. 24 :
        /\ (end - size) % 8 = 0
        /\ Return([op |-> "boot", end |-> end], [stacks |-> Stacks(end), cleared |-> memzero(end - size, size)])
  BY DEF BootCores
<1>2. end \in Nat
  BY BssEndAssumption
<1> DEFINE first == ((end + 15) \div 16) * 16
           cleared == memzero(end - size, size)
<1>3. first \in Nat /\ first % 16 = 0 /\ cleared >= end /\ cleared <= first /\ cleared \in Int
  BY <1>1, <1>2, StacksLieBehind
<1>4. call'.end = end /\ res'.v.stacks = Stacks(end) /\ res'.v.cleared = cleared
  BY <1>1 DEF Return
<1>5. ASSUME NEW c \in 0 .. 3, NEW n \in 1 .. 3
      PROVE  Stacks(end)[c][n] = first + Above(c, n) /\ StackSize[n] = (IF n = 1 THEN 1024 ELSE IF n = 2 THEN 32768 ELSE 512)
  BY <1>2, StackTops
<1> HIDE DEF first, cleared
<1> DEFINE st == Stacks(end)
<1> HIDE DEF st
<1>6. ASSUME NEW c \in 0 .. 3, NEW n \in 1 .. 3
      PROVE  st[c][n] = first + Above(c, n) /\ StackSize[n] = (IF n = 1 THEN 1024 ELSE IF n = 2 THEN 32768 ELSE 512)
  BY <1>5 DEF st
<1>7. ASSUME NEW c \in 0 .. 3, NEW n \in 1 .. 3
      PROVE  st[c][n] % 16 = 0 /\ st[c][1] - StackSize[1] >= cleared
  <2>1. st[c][1] - StackSize[1] = first + c * 34304
    BY <1>3, <1>6 DEF Above
  <2>2. Above(c, n) \in Nat /\ \E k \in Nat : Above(c, n) = 16 * k
    <3>1. Above(c, n) = 16 * (c * 2144 + (IF n = 1 THEN 64 ELSE IF n = 2 THEN 2112 ELSE 2144))
      BY DEF Above
    <3> QED  BY <3>1
  <2>3. (first + Above(c, n)) % 16 = 0
    BY <1>3, <2>2
  <2> QED  BY <1>3, <1>6, <2>1, <2>3
<1>8. ASSUME NEW p \in (0 .. 3) \X (1 .. 3), NEW q \in (0 .. 3) \X (1 .. 3), p # q, ~(p[1] = q[1] /\ p[2] = 2 /\ q[2] = 3)
      PROVE  {st[q[1]][q[2]] - StackSize[q[2]], st[q[1]][q[2]] - 1}
               \cap (st[p[1]][p[2]] - StackSize[p[2]]) .. (st[p[1]][p[2]] + (IF p[2] = 2 THEN 7 ELSE -1)) = {}
  <2>1. PICK c \in 0 .. 3, n \in 1 .. 3, d \in 0 .. 3, m \in 1 .. 3 : p = <<c, n>> /\ q = <<d, m>>
    OBVIOUS
  <2> DEFINE room(k) == IF k = 1 THEN 1024 ELSE IF k = 2 THEN 32768 ELSE 512
             low == Above(c, n) - room(n)
             high == Above(c, n) + (IF n = 2 THEN 7 ELSE -1)
             from == Above(d, m) - room(m)
             to == Above(d, m) - 1
  <2>2. ~(low <= from /\ from <= high) /\ ~(low <= to /\ to <= high)
    BY <1>8, <2>1, StacksApart
  <2>3. low \in Int /\ high \in Int /\ from \in Int /\ to \in Int
    BY DEF Above
  <2>4. /\ st[d][m] - StackSize[m] = first + from /\ st[d][m] - 1 = first + to
        /\ st[c][n] - StackSize[n] = first + low /\ st[c][n] + (IF n = 2 THEN 7 ELSE -1) = first + high
    <3>1. Above(c, n) \in Int /\ Above(d, m) \in Int
      BY DEF Above
    <3> QED  BY <1>3, <1>6, <3>1
  <2> HIDE DEF low, high, from, to
  <2>5. {first + from, first + to} \cap (first + low) .. (first + high) = {}
    BY <1>3, <2>2, <2>3
  <2> QED  BY <2>1, <2>4, <2>5
<1>9. MmuBits \cap BootRegisters.sctlr_el1 = {}
  BY DEF MmuBits, BootRegisters, Const
<1>10. BootRegisters.spsr_el3 \cap 0 .. 3 = {0, 2} /\ 6 .. 8 \subseteq BootRegisters.spsr_el3
  BY DEF BootRegisters, Const
<1> QED  BY <1>3, <1>4, <1>7, <1>8, <1>9, <1>10 DEF BootStateGood, st

\* What a core keeps through interrupts and switches of processes, and what it
\* starts with, whatever is called and in whatever order (entry.S, boot.S).
THEOREM CoresKeepTheirContext == Spec => []ContextKept
<1>1. Init => ContextKept
  BY DEF ContextKept, Init, LInit, Idle, InterruptKeeps, SwitchKeeps, BootStateGood, Is
<1>2. ASSUME ContextKept, [Next]_vars PROVE ContextKept'
  <2>1. CASE TakeIrq
    <3>1. call'.op = "irq"
      BY <2>1 DEF TakeIrq, Return
    <3> QED  BY <2>1, <3>1, IrqKept DEF ContextKept, SwitchKeeps, BootStateGood, Is
  <2>2. CASE SwitchTasks
    <3>1. call'.op = "switch"
      BY <2>2 DEF SwitchTasks, Return
    <3> QED  BY <2>2, <3>1, SwitchKept DEF ContextKept, InterruptKeeps, BootStateGood, Is
  <2>3. CASE BootCores
    <3>1. call'.op = "boot"
      BY <2>3 DEF BootCores, Return
    <3> QED  BY <2>3, <3>1, BootKept DEF ContextKept, InterruptKeeps, SwitchKeeps, Is
  <2>4. CASE UNCHANGED lvars
    <3>1. call' = call /\ res' = res
      BY <2>4 DEF lvars
    <3>2. InterruptKeeps' /\ SwitchKeeps'
      BY <1>2, <3>1 DEF ContextKept, InterruptKeeps, SwitchKeeps, Is
    <3>3. BootStateGood'
      BY <1>2, <3>1 DEF ContextKept, BootStateGood, Is
    <3> QED  BY <3>2, <3>3 DEF ContextKept
  <2>5. CASE call'.op \notin {"irq", "switch", "boot"}
    BY <2>5 DEF ContextKept, InterruptKeeps, SwitchKeeps, BootStateGood, Is
  <2> QED  BY <1>2, <2>1, <2>2, <2>3, <2>4, <2>5, Calls
<1> QED  BY <1>1, <1>2, PTL DEF Spec
-----------------------------------------------------------------------------
(* The framebuffer.                                                         *)

\* An unsigned int holds what fits.
LEMMA Unsigned ==
  ASSUME NEW n \in Int
  PROVE  ToUInt(n) \in UInt /\ (n \in UInt => ToUInt(n) = n) /\ UInt \subseteq Nat
<1>1. ASSUME NEW m \in Nat \ {0}
      PROVE  n % m \in 0 .. m - 1 /\ (n \in 0 .. m - 1 => n % m = n) /\ 0 .. m - 1 \subseteq Nat
  OBVIOUS
<1>2. 2^IntBits \in Nat \ {0}
  BY PowerAssumption
<1> QED  BY <1>1, <1>2 DEF ToUInt, UInt

\* The pixels that the steps through memory reach for the dots D of a shape
\* that is w wide, and those of the screen that the shape should cover.
Strokes(W, x, y, w, D) == {x + W * y + d[1] * (w + ToUInt(W - w)) + d[2] : d \in D}
Region(W, H, x, y, D) == {p \in 0 .. W * H - 1 : <<(p \div W) - y, (p % W) - x>> \in D}

Fits(W, H, x, y, w, h, D) ==
  /\ W \in UInt /\ H \in UInt /\ x \in Nat /\ y \in Nat /\ w \in Nat \ {0} /\ h \in Nat \ {0}
  /\ D \in SUBSET ((0 .. h - 1) \X (0 .. w - 1)) /\ x + w <= W /\ y + h <= H

\* A shape that fits is drawn where it was asked for and nowhere else: for
\* every screen, place and size (gfx.c:11,44).
LEMMA DotsInPlace ==
  ASSUME NEW W, NEW H, NEW x, NEW y, NEW w, NEW h, NEW D, Fits(W, H, x, y, w, h, D)
  PROVE  Strokes(W, x, y, w, D) = Region(W, H, x, y, D) /\ Strokes(W, x, y, w, D) \subseteq Nat
<1> SUFFICES ASSUME W \in UInt, H \in UInt, x \in Nat, y \in Nat, w \in Nat \ {0}, h \in Nat \ {0},
                    D \in SUBSET ((0 .. h - 1) \X (0 .. w - 1)), x + w <= W, y + h <= H
             PROVE  Strokes(W, x, y, w, D) = Region(W, H, x, y, D) /\ Strokes(W, x, y, w, D) \subseteq Nat
  BY Zenon DEF Fits
<1>1. W \in Nat \ {0} /\ H \in Nat /\ W - w \in UInt
  <2>1. ASSUME NEW m \in Nat, NEW v \in 0 .. m - 1, w <= v PROVE v \in Nat \ {0} /\ v - w \in 0 .. m - 1
    BY <2>1
  <2>2. H \in Nat /\ w <= W
    <3>1. 0 \in Int
      OBVIOUS
    <3>2. W \in Nat /\ H \in Nat
      BY <3>1, Unsigned
    <3> QED  BY <3>2
  <2> QED  BY <2>1, <2>2, PowerAssumption DEF UInt
<1>2. w + ToUInt(W - w) = W
  <2>1. ToUInt(W - w) = W - w
    BY <1>1, Unsigned
  <2> QED  BY <1>1, <2>1
<1> DEFINE Pixel(row, col) == x + W * y + row * W + col
           S == {Pixel(d[1], d[2]) : d \in D}
           T == {p \in 0 .. W * H - 1 : <<(p \div W) - y, (p % W) - x>> \in D}
<1>3. ASSUME NEW d \in D PROVE Pixel(d[1], d[2]) \in T
  <2> DEFINE row == d[1]   col == d[2]
  <2>0. row \in 0 .. h - 1 /\ col \in 0 .. w - 1 /\ d = <<row, col>>
    OBVIOUS
  <2> HIDE DEF row, col
  <2>1. Pixel(row, col) = W * (y + row) + (x + col)
    BY <1>1, <2>0
  <2>2. y + row \in Int /\ x + col \in 0 .. W - 1 /\ y + row <= H - 1 /\ 0 <= y + row
    BY <1>1, <2>0
  <2>3. Pixel(row, col) % W = x + col /\ Pixel(row, col) \div W = y + row
    BY <1>1, <2>1, <2>2, Division, ZenonT(60)
  <2>4. Pixel(row, col) \in 0 .. W * H - 1
    <3> DEFINE q == y + row
    <3>1. W * q <= W * (H - 1) /\ 0 <= W * q
      <4>1. ASSUME NEW a \in Int, NEW b \in Int, a <= b PROVE W * a <= W * b
        BY <1>1, <4>1
      <4>2. W * 0 <= W * q /\ W * q <= W * (H - 1)
        BY <1>1, <2>2, <4>1
      <4> QED  BY <1>1, <4>2
    <3>2. W * (H - 1) = W * H - W
      BY <1>1
    <3> HIDE DEF q
    <3>3. W * q \in Int /\ W * H \in Int
      BY <1>1, <2>2 DEF q
    <3> QED  BY <1>1, <2>1, <2>2, <3>1, <3>2, <3>3 DEF q
  <2>5. (y + row) - y = row /\ (x + col) - x = col
    BY <2>0
  <2> HIDE DEF Pixel
  <2>6. Pixel(row, col) \in T
    BY <2>0, <2>3, <2>4, <2>5
  <2> QED  BY <2>6 DEF row, col
<1>4. ASSUME NEW p \in T PROVE p \in S
  <2> DEFINE row == (p \div W) - y
             col == (p % W) - x
             d == <<row, col>>
  <2>1. d \in D /\ p \in Nat
    BY <1>1
  <2>2. p = W * (p \div W) + (p % W) /\ p \div W \in Int /\ p % W \in Int
    BY <1>1, <2>1
  <2>3. p = Pixel(row, col)
    BY <1>1, <2>2
  <2>4. p = Pixel(d[1], d[2])
    BY <2>3
  <2> HIDE DEF d, Pixel
  <2> QED  BY <2>1, <2>4
<1>5. S = T
  <2> HIDE DEF Pixel
  <2>1. \A p \in S : p \in T
    <3> HIDE DEF T
    <3> QED  BY <1>3
  <2> HIDE DEF S
  <2>2. \A p \in T : p \in S
    BY <1>4
  <2>3. \A p : p \in S <=> p \in T
    <3> HIDE DEF T
    <3> QED  BY <2>1, <2>2
  <2> QED  BY <2>3, Zenon
<1>6. T \subseteq Nat
  BY <1>1
<1> QED  BY <1>2, <1>5, <1>6 DEF Strokes, Region

\* What clearing writes, from the numbers that it depends on.
Pixels(w, h, pitch) == {2 * (y * (w + ToUInt(pitch - 4 * w)) + x) + k : x \in 0 .. w - 1, y \in 0 .. h - 1, k \in {0, 1}}

LEMMA WipedPixels == ASSUME NEW f PROVE Wiped(f) = Pixels(f.width, f.height, f.pitch)
BY DEF Wiped, Pixels

\* With four bytes a pixel, clearing leaves none: pixel p is one of the two of
\* the store for pixel p \div 2 (fb.c).
LEMMA AllPixels ==
  ASSUME NEW w \in UInt, NEW h \in UInt
  PROVE  0 .. w * h - 1 \subseteq Pixels(w, h, 4 * w)
<1>1. w \in Nat /\ h \in Nat
  <2>1. 0 \in Int
    OBVIOUS
  <2> QED  BY <2>1, Unsigned
<1>2. w + ToUInt(4 * w - 4 * w) = w
  <2>1. 0 \in UInt
    BY PowerAssumption DEF UInt
  <2>2. 0 \in Int /\ 4 * w - 4 * w = 0
    BY <1>1
  <2>3. ToUInt(0) = 0
    BY <2>1, <2>2, Unsigned
  <2> QED  BY <1>1, <2>2, <2>3
<1>3. ASSUME NEW p \in 0 .. w * h - 1
      PROVE  \E x \in 0 .. w - 1, y \in 0 .. h - 1, k \in {0, 1} : p = 2 * (y * w + x) + k
  <2>1. w \in Nat \ {0}
    <3>1. CASE w = 0
      <4>1. w * h = 0
        BY <1>1, <3>1
      <4> QED  BY <1>3, <4>1
    <3> QED  BY <1>1, <3>1
  <2>2. w * h \in Int /\ p \in Int /\ 0 <= p /\ p < w * h
    BY <1>1
  <2> DEFINE q == p \div 2   x == q % w   y == q \div w   k == p % 2
  <2>3. p = 2 * q + k /\ k \in {0, 1} /\ q \in Nat /\ q <= p
    BY <2>2
  <2>4. q = w * y + x /\ x \in 0 .. w - 1 /\ y \in Nat
    <3> HIDE DEF q
    <3>1. ASSUME NEW n \in Nat, NEW m \in Nat \ {0} PROVE n = m * (n \div m) + (n % m) /\ n % m \in 0 .. m - 1 /\ n \div m \in Nat
      OBVIOUS
    <3> QED  BY <2>1, <2>3, <3>1
  <2> HIDE DEF q, x, y, k
  <2>5. y <= h - 1
    <3>1. CASE y >= h
      <4>1. ASSUME NEW d \in Nat PROVE w * d \in Nat
        BY <1>1
      <4>2. y - h \in Nat
        BY <1>1, <2>4, <3>1
      <4>3. w * (y - h) \in Nat
        BY <4>1, <4>2
      <4>4. w * y = w * h + w * (y - h)
        BY <1>1, <2>4
      <4>5. w * y \in Int /\ x \in Int /\ 0 <= x
        BY <1>1, <2>4
      <4> QED  BY <2>2, <2>3, <2>4, <4>3, <4>4, <4>5
    <3> QED  BY <1>1, <2>4, <3>1
  <2>6. y * w = w * y
    BY <1>1, <2>4
  <2>7. p = 2 * (y * w + x) + k
    BY <2>3, <2>4, <2>6
  <2>8. y \in 0 .. h - 1
    BY <1>1, <2>4, <2>5
  <2> QED  BY <2>3, <2>4, <2>7, <2>8
<1>4. Pixels(w, h, 4 * w) = {2 * (y * w + x) + k : x \in 0 .. w - 1, y \in 0 .. h - 1, k \in {0, 1}}
  BY <1>2 DEF Pixels
<1> DEFINE S == {2 * (y * w + x) + k : x \in 0 .. w - 1, y \in 0 .. h - 1, k \in {0, 1}}
<1>5. ASSUME NEW p \in 0 .. w * h - 1 PROVE p \in S
  <2>1. PICK x \in 0 .. w - 1, y \in 0 .. h - 1, k \in {0, 1} : p = 2 * (y * w + x) + k
    BY <1>3, <1>5
  <2> QED  BY <2>1
<1> HIDE DEF S
<1>6. 0 .. w * h - 1 \subseteq S
  BY <1>5
<1> QED  BY <1>4, <1>6 DEF S
-----------------------------------------------------------------------------
\* The screen takes the text of fbinit: a line is as wide as one glyph at
\* least, and there is room for a line where the cursor starts.
BigScreen == \A r \in Resolution : CharWidth <= r[1] /\ FirstLine + CharHeight <= r[2]

\* The cursor may be behind the end of the screen by the line feeds.
Slack(n) == n * CharHeight

LEMMA Lines ==
  /\ CharHeight \in Nat /\ CharWidth \in Nat
  /\ Slack(0) = 0
  /\ \A n \in Nat : Slack(n) \in Nat /\ Slack(n + 1) = Slack(n) + CharHeight
<1>1. ASSUME NEW h \in Nat PROVE 0 * h = 0 /\ \A n \in Nat : n * h \in Nat /\ (n + 1) * h = n * h + h
  OBVIOUS
<1>2. CharHeight \in Nat /\ CharWidth \in Nat
  BY ScreenAssumption
<1> QED  BY <1>1, <1>2 DEF Slack

FrameBuffer == [by : {"none", "fbinit", "fbsetres"}, ptr : {"null", "zero", "bus", "arm", "align"},
                width : UInt, height : UInt, pitch : Nat, x : Nat, y : Nat, lf : Nat]
Mailbox == [code : {"request", "ok", "error"}, depth : {32, 16}, width : UInt, height : UInt,
            pitch : Nat, ptr : {"zero", "bus", "align"}]
Char == {"glyph", "lf", "cr"}

\* A line of text fits, and the cursor is where the next one does, but for the
\* line feeds.
RoomForText(f) == f.by = "fbinit" =>
  CharWidth <= f.width /\ CharHeight <= f.height /\ f.y + CharHeight <= f.height + Slack(f.lf)
Inside(f, l) == f.by = "fbinit" =>
  \A g \in l.glyphs : g.x + CharWidth <= f.width /\ g.y <= f.height + Slack(g.lf)
Screen(f, l) == f \in FrameBuffer /\ RoomForText(f) /\ Inside(f, l) /\ l.wiped \in {{}, Wiped(f)}

\* What is inductive.
ScreenInv ==
  /\ Screen(fb, last)
  /\ chars \in Seq(Char)
  /\ mbox \in Mailbox
  /\ pc \in {"mbox_write", "mbox_read", "returned"} => <<mbox.width, mbox.height>> \in Resolution

\* One framebuffer with its cursor elsewhere.
Same(f, h) == /\ h \in FrameBuffer /\ h.by = f.by /\ h.width = f.width /\ h.height = f.height
              /\ Wiped(h) = Wiped(f)
MoveTo(f, x, y, n) == [f EXCEPT !.x = x, !.y = y, !.lf = n]
CursorAt(h, x, y, n) == h.x = x /\ h.y = y /\ h.lf = n

\* Moving it changes nothing else.
LEMMA Moved ==
  ASSUME NEW f \in FrameBuffer, NEW x \in Nat, NEW y \in Nat, NEW n \in Nat
  PROVE  Same(f, MoveTo(f, x, y, n)) /\ CursorAt(MoveTo(f, x, y, n), x, y, n)
<1> DEFINE h == MoveTo(f, x, y, n)
<1>1. /\ h \in FrameBuffer /\ h.by = f.by /\ h.width = f.width /\ h.height = f.height /\ h.pitch = f.pitch
      /\ h.x = x /\ h.y = y /\ h.lf = n
  BY DEF FrameBuffer, MoveTo
<1> HIDE DEF h
<1>2. Wiped(h) = Wiped(f)
  BY <1>1, WipedPixels
<1>3. Same(f, h) /\ CursorAt(h, x, y, n)
  BY <1>1, <1>2 DEF Same, CursorAt
<1> QED  BY <1>3 DEF h

LEMMA Fields ==
  ASSUME NEW f \in FrameBuffer
  PROVE  /\ f.x \in Nat /\ f.y \in Nat /\ f.lf \in Nat /\ f.width \in Nat /\ f.height \in Nat
         /\ f.width \in UInt /\ f.height \in UInt
<1>1. f.x \in Nat /\ f.y \in Nat /\ f.lf \in Nat /\ f.width \in UInt /\ f.height \in UInt /\ 0 \in Int
  BY DEF FrameBuffer
<1>2. UInt \subseteq Nat
  BY <1>1, Unsigned
<1> QED  BY <1>1, <1>2

\* fbclear leaves the cursor at the top.
LEMMA Cleared ==
  ASSUME NEW f \in FrameBuffer, NEW g, NEW m,
         m = fbclear([fb |-> f, last |-> [glyphs |-> g, pixels |-> {}, wiped |-> {}, asked |-> NoShape]]),
         Inside(f, [glyphs |-> g, pixels |-> {}, wiped |-> {}, asked |-> NoShape]),
         f.by = "fbinit" => CharWidth <= f.width /\ CharHeight <= f.height
  PROVE  Screen(m.fb, m.last)
<1>1. m.fb = [f EXCEPT !.x = 0, !.y = 0] /\ m.last = [glyphs |-> g, pixels |-> {}, wiped |-> Wiped(f), asked |-> NoShape]
  BY DEF fbclear
<1>2. /\ m.fb \in FrameBuffer /\ m.fb.by = f.by /\ m.fb.width = f.width /\ m.fb.height = f.height
      /\ m.fb.y = 0 /\ m.fb.lf = f.lf
      /\ Wiped(m.fb) = Wiped(f)
  <2>1. m.fb = MoveTo(f, 0, 0, f.lf)
    <3>1. [f EXCEPT !.x = 0, !.y = 0] = MoveTo(f, 0, 0, f.lf)
      BY DEF FrameBuffer, MoveTo
    <3> QED  BY <1>1, <3>1
  <2>2. f.lf \in Nat
    BY Fields
  <2> QED  BY <2>1, <2>2, Moved DEF Same, CursorAt
<1>3. m.last.glyphs = g /\ m.last.wiped = Wiped(f)
  BY <1>1
<1>4. RoomForText(m.fb)
  <2>1. Slack(f.lf) \in Nat /\ f.height \in Nat
    BY Lines, Fields
  <2> QED  BY <1>2, <2>1, Lines DEF RoomForText
<1>5. Inside(m.fb, m.last)
  BY <1>2, <1>3 DEF Inside
<1> QED  BY <1>2, <1>3, <1>4, <1>5 DEF Screen

\* A glyph is drawn where the line has room for it; the next one follows it.
LEMMA Wrapped ==
  ASSUME NEW f \in FrameBuffer, RoomForText(f)
  PROVE  /\ Same(f, Wrap(f)) /\ Wrap(f).lf = f.lf
         /\ f.by = "fbinit" => Wrap(f).x + CharWidth <= f.width /\ Wrap(f).y <= f.height + Slack(f.lf)
<1>1. f.x \in Nat /\ f.y \in Nat /\ f.lf \in Nat /\ f.width \in Nat /\ f.height \in Nat /\ f.width \in UInt
  BY Fields
<1>2. CharHeight \in Nat /\ CharWidth \in Nat /\ Slack(f.lf) \in Nat
  BY <1>1, Lines
<1>3. f.width - CharWidth \in Int
  BY <1>1, <1>2
<1>4. ToUInt(f.width - CharWidth) \in Nat
  BY <1>3, Unsigned
<1>5. f.by = "fbinit" => /\ ToUInt(f.width - CharWidth) = f.width - CharWidth
                         /\ f.y + CharHeight <= f.height + Slack(f.lf) /\ CharWidth <= f.width
  <2>1. ASSUME NEW m \in Nat, NEW v \in 0 .. m - 1, CharWidth <= v PROVE v - CharWidth \in 0 .. m - 1
    BY <1>2, <2>1
  <2>2. CharWidth <= f.width => f.width - CharWidth \in UInt
    BY <1>1, <2>1, PowerAssumption DEF UInt
  <2> QED  BY <1>3, <2>2, Unsigned DEF RoomForText
<1>6. CASE f.x >= ToUInt(f.width - CharWidth)
  <2> DEFINE y == f.y + CharHeight
  <2>1. Wrap(f) = [f EXCEPT !.x = 0, !.y = y]
    BY <1>6 DEF Wrap
  <2>2. y \in Nat /\ 0 \in Nat
    BY <1>1, <1>2
  <2> HIDE DEF y
  <2>3. [f EXCEPT !.x = 0, !.y = y] = MoveTo(f, 0, y, f.lf)
    BY <2>2 DEF FrameBuffer, MoveTo
  <2>5. Wrap(f) = MoveTo(f, 0, y, f.lf)
    BY <2>1, <2>3, Zenon
  <2>6. Same(f, Wrap(f)) /\ Wrap(f).lf = f.lf /\ Wrap(f).x = 0 /\ Wrap(f).y = y
    <3>1. Same(f, MoveTo(f, 0, y, f.lf)) /\ CursorAt(MoveTo(f, 0, y, f.lf), 0, y, f.lf)
      BY <1>1, <2>2, Moved
    <3>2. Same(f, Wrap(f)) /\ CursorAt(Wrap(f), 0, y, f.lf)
      BY <2>5, <3>1, Zenon
    <3> QED  BY <3>2 DEF CursorAt
  <2>4. Wrap(f).y = f.y + CharHeight
    BY <2>6 DEF y
  <2> QED  BY <1>1, <1>2, <1>5, <2>4, <2>6
<1>7. CASE ~(f.x >= ToUInt(f.width - CharWidth))
  <2>1. Wrap(f) = f
    BY <1>7 DEF Wrap
  <2> QED  BY <1>1, <1>2, <1>4, <1>5, <1>7, <2>1 DEF Same
<1> QED  BY <1>6, <1>7

LEMMA Advanced ==
  ASSUME NEW f \in FrameBuffer
  PROVE  Same(f, [Advance(f) EXCEPT !.lf = 0]) /\ [Advance(f) EXCEPT !.lf = 0].lf = 0
<1>1. f.x \in Nat /\ f.y \in Nat /\ f.lf \in Nat /\ CharHeight \in Nat /\ CharWidth \in Nat
  BY Fields, Lines
<1> DEFINE x == f.x + CharWidth
           y == f.y + CharHeight
<1>2. x \in Nat /\ y \in Nat /\ 0 \in Nat
  BY <1>1
<1>3. ASSUME NEW h \in FrameBuffer PROVE Same(h, [h EXCEPT !.lf = 0]) /\ [h EXCEPT !.lf = 0].lf = 0
  <2>1. [h EXCEPT !.lf = 0] = MoveTo(h, h.x, h.y, 0)
    BY DEF FrameBuffer, MoveTo
  <2>2. h.x \in Nat /\ h.y \in Nat
    BY Fields
  <2>3. Same(h, MoveTo(h, h.x, h.y, 0)) /\ CursorAt(MoveTo(h, h.x, h.y, 0), h.x, h.y, 0)
    BY <1>2, <2>2, Moved
  <2> QED  BY <2>1, <2>3 DEF CursorAt
<1>4. Advance(f) = [f EXCEPT !.x = x] \/ Advance(f) = [f EXCEPT !.x = 0, !.y = y]
  BY DEF Advance
<1> HIDE DEF x, y
<1>5. [f EXCEPT !.x = x] = MoveTo(f, x, f.y, f.lf) /\ [f EXCEPT !.x = 0, !.y = y] = MoveTo(f, 0, y, f.lf)
  BY DEF FrameBuffer, MoveTo
<1>6. Same(f, MoveTo(f, x, f.y, f.lf)) /\ Same(f, MoveTo(f, 0, y, f.lf))
  BY <1>1, <1>2, Moved
<1>7. Same(f, Advance(f))
  BY <1>4, <1>5, <1>6, Zenon
<1>8. Same(Advance(f), [Advance(f) EXCEPT !.lf = 0]) /\ [Advance(f) EXCEPT !.lf = 0].lf = 0
  <2>1. Advance(f) \in FrameBuffer
    BY <1>7 DEF Same
  <2> QED  BY <1>3, <2>1, Zenon
<1> QED  BY <1>7, <1>8 DEF Same

\* fbputc keeps the screen as it should be (font.c).
LEMMA PutChar ==
  ASSUME NEW f \in FrameBuffer, RoomForText(f), NEW c \in Char, NEW m,
         m = fbputc([fb |-> f, last |-> Nothing], c)
  PROVE  Screen(m.fb, m.last)
<1>1. f.x \in Nat /\ f.y \in Nat /\ f.lf \in Nat /\ f.width \in Nat /\ f.height \in Nat
  BY Fields
<1>2. CharHeight \in Nat /\ CharWidth \in Nat /\ Slack(f.lf) \in Nat /\ Slack(f.lf + 1) = Slack(f.lf) + CharHeight
  BY <1>1, Lines
<1>3. ASSUME NEW x \in Nat, NEW y \in Nat, NEW n \in Nat, m.fb = MoveTo(f, x, y, n), m.last = Nothing,
             f.by = "fbinit" => y + CharHeight <= f.height + Slack(n)
      PROVE  Screen(m.fb, m.last)
  <2>1. m.fb \in FrameBuffer /\ m.fb.by = f.by /\ m.fb.width = f.width /\ m.fb.height = f.height /\ m.fb.y = y /\ m.fb.lf = n
    <3>1. Same(f, m.fb) /\ CursorAt(m.fb, x, y, n)
      BY <1>3, Moved
    <3> QED  BY <3>1 DEF Same, CursorAt
  <2>2. RoomForText(m.fb)
    BY <1>3, <2>1 DEF RoomForText
  <2>3. Inside(m.fb, m.last) /\ m.last.wiped = {}
    BY <1>3 DEF Inside, Nothing
  <2> QED  BY <2>1, <2>2, <2>3 DEF Screen
<1>4. CASE c = "lf"
  <2> DEFINE y == f.y + CharHeight
             n == f.lf + 1
  <2>1. m.fb = [f EXCEPT !.y = y, !.lf = n] /\ m.last = Nothing
    BY <1>4 DEF fbputc
  <2>2. y \in Nat /\ n \in Nat
    BY <1>1, <1>2
  <2>3. f.by = "fbinit" => y + CharHeight <= f.height + Slack(n)
    BY <1>1, <1>2 DEF RoomForText
  <2> HIDE DEF y, n
  <2>4. [f EXCEPT !.y = y, !.lf = n] = MoveTo(f, f.x, y, n)
    BY DEF FrameBuffer, MoveTo
  <2>5. m.fb = MoveTo(f, f.x, y, n)
    BY <2>1, <2>4, Zenon
  <2> QED  BY <1>1, <1>3, <2>1, <2>2, <2>3, <2>5
<1>5. CASE c = "cr"
  <2>1. m.fb = [f EXCEPT !.x = 0] /\ m.last = Nothing
    BY <1>5 DEF fbputc
  <2>2. 0 \in Nat
    OBVIOUS
  <2>3. [f EXCEPT !.x = 0] = MoveTo(f, 0, f.y, f.lf)
    BY DEF FrameBuffer, MoveTo
  <2>4. m.fb = MoveTo(f, 0, f.y, f.lf)
    BY <2>1, <2>3, Zenon
  <2> QED  BY <1>1, <1>3, <2>1, <2>2, <2>4 DEF RoomForText
<1>6. CASE c = "glyph"
  <2> DEFINE at == Wrap(f)
             next == [Advance(at) EXCEPT !.lf = 0]
             glyphs == {[x |-> at.x, y |-> at.y, lf |-> at.lf]}
             l == [Nothing EXCEPT !.glyphs = @ \cup glyphs]
             drawn == [fb |-> next, last |-> l]
  <2>1. m = IF next.y + CharHeight > at.height THEN fbclear(drawn) ELSE drawn
    BY <1>6, Zenon DEF fbputc
  <2>8. l = [glyphs |-> glyphs, pixels |-> {}, wiped |-> {}, asked |-> NoShape]
    BY DEF Nothing
  <2>2. /\ Same(f, at) /\ at.lf = f.lf
        /\ f.by = "fbinit" => at.x + CharWidth <= f.width /\ at.y <= f.height + Slack(f.lf)
    BY Wrapped
  <2>3. Same(f, next) /\ next.lf = 0
    <3>1. at \in FrameBuffer /\ Same(f, at)
      BY <2>2 DEF Same
    <3>2. Same(at, next) /\ next.lf = 0
      BY <3>1, Advanced
    <3> QED  BY <3>1, <3>2 DEF Same
  <2>4. Inside(next, [glyphs |-> glyphs, pixels |-> {}, wiped |-> {}, asked |-> NoShape])
    <3> HIDE DEF at, next
    <3> QED  BY <2>2, <2>3 DEF Same, Inside
  <2> HIDE DEF at, next, l
  <2>5. next \in FrameBuffer /\ (next.by = "fbinit" => CharWidth <= next.width /\ CharHeight <= next.height)
    BY <2>3 DEF Same, RoomForText
  <2>6. CASE next.y + CharHeight > at.height
    <3>1. m = fbclear([fb |-> next, last |-> [glyphs |-> glyphs, pixels |-> {}, wiped |-> {}, asked |-> NoShape]])
      BY <2>1, <2>6, <2>8
    <3> HIDE DEF glyphs
    <3> QED  BY <2>4, <2>5, <3>1, Cleared
  <2>7. CASE ~(next.y + CharHeight > at.height)
    <3>1. m.fb = next /\ m.last = l
      BY <2>1, <2>7
    <3>2. RoomForText(next)
      <4>1. next.y \in Nat /\ next.height \in Nat /\ at.height = next.height
        BY <2>2, <2>5, <2>3, Fields DEF Same
      <4> QED  BY <1>2, <2>3, <2>5, <2>7, <4>1, Lines DEF RoomForText
    <3> QED  BY <2>4, <2>5, <2>8, <3>1, <3>2 DEF Screen
  <2> QED  BY <2>6, <2>7
<1> QED  BY <1>4, <1>5, <1>6 DEF Char

\* What the VideoCore may set is a screen.
LEMMA Resolutions ==
  ASSUME NEW r \in Resolution
  PROVE  r[1] \in UInt /\ r[2] \in UInt /\ 4 * r[1] \in Nat /\ <<r[1], r[2]>> \in Resolution
<1>1. r \in UInt \X UInt
  BY ScreenAssumption
<1>2. r[1] \in UInt /\ r[2] \in UInt /\ r = <<r[1], r[2]>>
  BY <1>1
<1>3. UInt \subseteq Nat
  <2>1. 0 \in Int
    OBVIOUS
  <2> QED  BY <2>1, Unsigned
<1> QED  BY <1>2, <1>3

\* A framebuffer on which nothing was drawn but pixels.
LEMMA Drawn ==
  ASSUME NEW f \in FrameBuffer, RoomForText(f), NEW l, l.glyphs = {}, l.wiped = {}
  PROVE  Screen(f, l)
BY DEF Screen, Inside

LEMMA AfterFbInit == ASSUME BigScreen, ScreenInv, FbInitDone PROVE ScreenInv'
<1>1. pc = "returned" /\ mbox' = mbox /\ pc' \in {"fbputs", "idle"}
  BY DEF FbInitDone
<1>2. mbox' \in Mailbox /\ mbox \in Mailbox /\ <<mbox.width, mbox.height>> \in Resolution
  BY <1>1 DEF ScreenInv
<1>3. CASE UNCHANGED <<fb, chars, last>>
  BY <1>1, <1>2, <1>3 DEF ScreenInv
<1>4. CASE ~UNCHANGED <<fb, chars, last>>
  <2> DEFINE f == [by |-> "fbinit", ptr |-> ArmAddress(mbox.ptr), width |-> mbox.width, height |-> mbox.height,
                   pitch |-> mbox.pitch, x |-> 0, y |-> FirstLine, lf |-> 0]
             pixels == draw_pi_logo_at_pos(f, 0, 0)
  <2>1. fb' = f /\ last' = [Nothing EXCEPT !.pixels = pixels, !.asked = [shape |-> "logo", x |-> 0, y |-> 0]] /\ chars' = BootText
    BY <1>4 DEF FbInitDone
  <2>2. f \in FrameBuffer
    <3>1. ArmAddress(mbox.ptr) \in {"null", "zero", "bus", "arm", "align"}
      BY <1>2 DEF Mailbox, ArmAddress
    <3>2. mbox.width \in UInt /\ mbox.height \in UInt /\ mbox.pitch \in Nat /\ FirstLine \in Nat /\ 0 \in Nat
      BY <1>2, ScreenAssumption DEF Mailbox
    <3> QED  BY <3>1, <3>2 DEF FrameBuffer
  <2>3. f.width = mbox.width /\ f.height = mbox.height /\ f.y = FirstLine /\ f.lf = 0
    OBVIOUS
  <2> HIDE DEF f, pixels
  <2>4. RoomForText(f)
    <3>1. CharWidth <= f.width /\ FirstLine + CharHeight <= f.height
      BY <1>2, <2>3 DEF BigScreen
    <3>2. FirstLine \in Nat /\ f.height \in Nat /\ CharHeight \in Nat /\ Slack(0) = 0
      BY <2>2, ScreenAssumption, Fields, Lines
    <3> QED  BY <2>3, <3>1, <3>2 DEF RoomForText
  <2>5. last'.glyphs = {} /\ last'.wiped = {}
    BY <2>1 DEF Nothing
  <2>6. Screen(fb', last')
    BY <2>1, <2>2, <2>4, <2>5, Drawn
  <2>7. chars' \in Seq(Char)
    BY <2>1, ScreenAssumption DEF Char
  <2> QED  BY <1>1, <1>2, <2>6, <2>7 DEF ScreenInv
<1> QED  BY <1>3, <1>4

LEMMA AfterFbSetRes == ASSUME ScreenInv, FbSetResDone PROVE ScreenInv'
<1>1. /\ mbox' = mbox /\ pc' = "idle" /\ last' = Nothing /\ chars' = chars
      /\ fb' = [fb EXCEPT !.by = "fbsetres", !.width = mbox.width, !.height = mbox.height, !.pitch = mbox.pitch, !.ptr = mbox.ptr]
  BY DEF FbSetResDone
<1>2. mbox.width \in UInt /\ mbox.height \in UInt /\ mbox.pitch \in Nat /\ mbox.ptr \in {"null", "zero", "bus", "arm", "align"}
  BY DEF ScreenInv, Mailbox
<1>3. fb \in FrameBuffer
  BY DEF ScreenInv, Screen
<1>4. fb' \in FrameBuffer /\ fb'.by = "fbsetres"
  <2> DEFINE w == mbox.width   h == mbox.height   n == mbox.pitch   p == mbox.ptr
  <2>1. fb' = [fb EXCEPT !.by = "fbsetres", !.width = w, !.height = h, !.pitch = n, !.ptr = p]
    BY <1>1
  <2>2. w \in UInt /\ h \in UInt /\ n \in Nat /\ p \in {"null", "zero", "bus", "arm", "align"}
    BY <1>2
  <2> HIDE DEF w, h, n, p
  <2> QED  BY <1>3, <2>1, <2>2 DEF FrameBuffer
<1>5. Screen(fb', last')
  <2>1. RoomForText(fb')
    BY <1>4 DEF RoomForText
  <2>2. last'.glyphs = {} /\ last'.wiped = {}
    BY <1>1 DEF Nothing
  <2> QED  BY <1>4, <2>1, <2>2, Drawn
<1> QED  BY <1>1, <1>5 DEF ScreenInv

LEMMA AfterFbputs == ASSUME ScreenInv, Fbputs PROVE ScreenInv'
<1>1. chars \in Seq(Char) /\ chars # <<>> /\ fb \in FrameBuffer /\ RoomForText(fb)
  BY DEF ScreenInv, Screen, Fbputs
<1>2. chars' = Tail(chars) /\ Draws(fbputc([fb |-> fb, last |-> Nothing], Head(chars))) /\ pc' = pc
  BY DEF Fbputs
<1>3. chars' \in Seq(Char) /\ Head(chars) \in Char
  BY <1>1, <1>2, HeadTailProperties
<1> DEFINE m == fbputc([fb |-> fb, last |-> Nothing], Head(chars))
<1>4. fb' = m.fb /\ last' = m.last /\ mbox' = mbox
  BY <1>2 DEF Draws
<1>5. Screen(m.fb, m.last)
  BY <1>1, <1>3, PutChar
<1> HIDE DEF m
<1> QED  BY <1>2, <1>3, <1>4, <1>5 DEF ScreenInv

LEMMA AfterClear == ASSUME ScreenInv, ClearFramebuffer PROVE ScreenInv'
<1>1. fb \in FrameBuffer /\ RoomForText(fb)
  BY DEF ScreenInv, Screen
<1> DEFINE m == fbclear([fb |-> fb, last |-> Nothing])
<1>2. \/ fb' = fb /\ last' = Nothing
      \/ fb' = m.fb /\ last' = m.last
  BY DEF ClearFramebuffer, Draws
<1>3. mbox' = mbox /\ pc' = pc /\ chars' = chars
  BY DEF ClearFramebuffer, Draws
<1>4. Screen(fb, Nothing)
  BY <1>1, Drawn DEF Nothing
<1>5. Screen(m.fb, m.last)
  <2>1. m = fbclear([fb |-> fb, last |-> [glyphs |-> {}, pixels |-> {}, wiped |-> {}, asked |-> NoShape]])
    BY DEF Nothing
  <2>2. Inside(fb, [glyphs |-> {}, pixels |-> {}, wiped |-> {}, asked |-> NoShape])
    BY DEF Inside
  <2> HIDE DEF m
  <2> QED  BY <1>1, <2>1, <2>2, Cleared DEF RoomForText
<1> HIDE DEF m
<1> QED  BY <1>2, <1>3, <1>4, <1>5 DEF ScreenInv

LEMMA AfterDrawing ==
  ASSUME ScreenInv, fb' = fb, last'.glyphs = {}, last'.wiped = {}, UNCHANGED <<mbox, pc, chars>>
  PROVE  ScreenInv'
<1>1. fb \in FrameBuffer /\ RoomForText(fb)
  BY DEF ScreenInv, Screen
<1>3. Screen(fb, last')
  BY <1>1, Drawn
<1> QED  BY <1>3 DEF ScreenInv

\* Every step keeps the invariant.
LEMMA ScreenStep == ASSUME BigScreen, ScreenInv, [Next]_vars PROVE ScreenInv'
<1>1. ASSUME NEW who \in {"fbinit", "fbsetres"}, NEW r \in Resolution, Ask(who, r) PROVE ScreenInv'
  <2>1. mbox' = Request(r) /\ UNCHANGED <<fb, chars, last>>
    BY <1>1 DEF Ask
  <2>2. mbox' \in Mailbox /\ mbox'.width = r[1] /\ mbox'.height = r[2]
    BY <2>1, Resolutions DEF Request, Mailbox
  <2>3. <<mbox'.width, mbox'.height>> \in Resolution
    BY <2>2, Resolutions
  <2> QED  BY <2>1, <2>2, <2>3 DEF ScreenInv
<1>2. CASE MboxWrite \/ MboxDiscard \/ MboxReturn \/ VcOther \/ VcQueue
  <2>1. UNCHANGED <<fb, chars, last, mbox>> /\ pc \in {"mbox_write", "mbox_read"}
    BY <1>2 DEF MboxWrite, MboxDiscard, MboxReturn, VcOther, VcQueue
  <2> QED  BY <2>1 DEF ScreenInv
<1>3. CASE VcAnswer
  <2>1. UNCHANGED <<fb, chars, last, pc>> /\ pc = "mbox_read"
    BY <1>3 DEF VcAnswer
  <2>2. CASE mbox' = [mbox EXCEPT !.code = "error"]
    <3>1. mbox' \in Mailbox /\ mbox'.width = mbox.width /\ mbox'.height = mbox.height
      BY <2>2 DEF ScreenInv, Mailbox
    <3> QED  BY <2>1, <3>1 DEF ScreenInv
  <2>3. ASSUME NEW r \in Resolution, NEW depth \in {32, 16}, NEW p \in {"bus", "zero"},
               mbox' = [code |-> "ok", depth |-> depth, width |-> r[1], height |-> r[2], pitch |-> 4 * r[1], ptr |-> p]
        PROVE  ScreenInv'
    <3>1. mbox' \in Mailbox /\ mbox'.width = r[1] /\ mbox'.height = r[2]
      BY <2>3, Resolutions DEF Mailbox
    <3>2. <<mbox'.width, mbox'.height>> \in Resolution
      BY <3>1, Resolutions
    <3> QED  BY <2>1, <3>1, <3>2 DEF ScreenInv
  <2> QED  BY <1>3, <2>2, <2>3 DEF VcAnswer
<1>4. CASE FbInitDone \/ FbSetResDone
  BY <1>4, AfterFbInit, AfterFbSetRes
<1>5. ASSUME NEW c \in {"glyph", "lf", "cr"}, PfFbputc(c) PROVE ScreenInv'
  <2>1. UNCHANGED <<fb, last, mbox>> /\ pc' = "fbputs" /\ chars' = (IF c = "lf" THEN <<"cr", "lf">> ELSE <<c>>)
    BY <1>5 DEF PfFbputc
  <2>2. chars' \in Seq(Char)
    <3>1. <<"cr", "lf">> \in Seq(Char) /\ <<c>> \in Seq(Char)
      BY DEF Char
    <3> QED  BY <2>1, <3>1
  <2> QED  BY <2>1, <2>2 DEF ScreenInv
<1>6. CASE Fbputs
  BY <1>6, AfterFbputs
<1>7. CASE FbputsReturn
  BY <1>7 DEF FbputsReturn, ScreenInv
<1>8. CASE ClearFramebuffer
  BY <1>8, AfterClear
<1>9. ASSUME NEW argc \in 1 .. 3, NEW x \in Place, NEW y \in Place,
             RainbowSquare(argc, x, y) \/ DrawPiLogo(argc, x, y)
      PROVE  ScreenInv'
  <2>1. fb' = fb /\ last'.glyphs = {} /\ last'.wiped = {} /\ UNCHANGED <<mbox, pc, chars>>
    <3>1. CASE TooFewArguments(argc)
      BY <3>1 DEF TooFewArguments, Draws, Nothing
    <3>2. ASSUME NEW what, NEW pixels, DrawShape(what, x, y, pixels)
          PROVE  fb' = fb /\ last'.glyphs = {} /\ last'.wiped = {} /\ UNCHANGED <<mbox, pc, chars>>
      BY <3>2 DEF DrawShape, Draws, Nothing
    <3> QED  BY <1>9, <3>1, <3>2, Zenon DEF RainbowSquare, DrawPiLogo
  <2> QED  BY <2>1, AfterDrawing
<1>11. CASE UNCHANGED gvars
  BY <1>11 DEF gvars, ScreenInv
<1> QED  BY <1>1, <1>2, <1>3, <1>4, <1>5, <1>6, <1>7, <1>8, <1>9, <1>11 DEF Next, GNext, vars, gvars

\* What a shape that was asked for wrote; it was drawn on the framebuffer that
\* there still is.
Drawing(f, a) ==
  IF a.shape = "square" THEN draw_rect(f, a.x, a.y, SquareSize, SquareSize) ELSE draw_pi_logo_at_pos(f, a.x, a.y)

ShapeInv ==
  \/ last.asked = NoShape
  \/ /\ last.asked.shape \in {"square", "logo"} /\ last.asked.x \in Nat /\ last.asked.y \in Nat
     /\ last.pixels = Drawing(fb, last.asked)

\* Printing and clearing leave nothing that was asked for.
LEMMA TextAsksNothing ==
  ASSUME NEW f, NEW c
  PROVE  /\ fbclear([fb |-> f, last |-> Nothing]).last.asked = NoShape
         /\ c \in {"lf", "cr", "glyph"} => fbputc([fb |-> f, last |-> Nothing], c).last.asked = NoShape
<1>1. ASSUME NEW s, s.last.asked = NoShape, NEW g, s.last = [glyphs |-> g, pixels |-> {}, wiped |-> {}, asked |-> NoShape]
      PROVE  fbclear(s).last.asked = NoShape
  BY <1>1 DEF fbclear
<1>2. Nothing.asked = NoShape /\ Nothing = [glyphs |-> {}, pixels |-> {}, wiped |-> {}, asked |-> NoShape]
  BY DEF Nothing
<1> DEFINE s == [fb |-> f, last |-> Nothing]   m == fbputc(s, c)
<1>3. s.last = Nothing
  OBVIOUS
<1>4. CASE c \in {"lf", "cr"}
  <2>1. m.last = s.last
    BY <1>4 DEF fbputc
  <2> QED  BY <1>1, <1>2, <1>3, <1>4, <2>1
<1>5. CASE c = "glyph"
  <2> DEFINE at == Wrap(f)
             next == [Advance(at) EXCEPT !.lf = 0]
             glyphs == {[x |-> at.x, y |-> at.y, lf |-> at.lf]}
             l == [Nothing EXCEPT !.glyphs = @ \cup glyphs]
             drawn == [fb |-> next, last |-> l]
  <2>1. m = IF next.y + CharHeight > at.height THEN fbclear(drawn) ELSE drawn
    BY <1>5, Zenon DEF fbputc
  <2>2. l = [glyphs |-> glyphs, pixels |-> {}, wiped |-> {}, asked |-> NoShape]
    BY DEF Nothing
  <2> HIDE DEF at, next, l, glyphs
  <2>3. l.asked = NoShape /\ drawn.last = l
    BY <2>2
  <2>4. fbclear(drawn).last.asked = NoShape
    BY <1>1, <2>2, <2>3
  <2> QED  BY <1>1, <1>2, <1>3, <2>1, <2>3, <2>4
<1>6. CASE c \notin {"lf", "cr", "glyph"}
  BY <1>1, <1>2, <1>3, <1>6
<1> QED  BY <1>4, <1>5, <1>6

LEMMA ShapeStep == ASSUME ScreenInv, ShapeInv, [Next]_vars PROVE ShapeInv'
<1>1. CASE UNCHANGED <<fb, last>>
  BY <1>1 DEF ShapeInv
<1>2. CASE last'.asked = NoShape
  BY <1>2 DEF ShapeInv
<1>3. ASSUME NEW who \in {"fbinit", "fbsetres"}, NEW r \in Resolution, Ask(who, r) PROVE ShapeInv'
  BY <1>1, <1>3 DEF Ask
<1>4. CASE MboxWrite \/ MboxDiscard \/ MboxReturn \/ VcAnswer \/ VcOther \/ VcQueue \/ FbputsReturn
  BY <1>1, <1>4 DEF MboxWrite, MboxDiscard, MboxReturn, VcAnswer, VcOther, VcQueue, FbputsReturn
<1>5. ASSUME NEW c \in {"glyph", "lf", "cr"}, PfFbputc(c) PROVE ShapeInv'
  BY <1>1, <1>5 DEF PfFbputc
<1>6. CASE FbSetResDone
  BY <1>2, <1>6 DEF FbSetResDone, Nothing
<1>7. CASE FbInitDone
  <2> DEFINE f == [by |-> "fbinit", ptr |-> ArmAddress(mbox.ptr), width |-> mbox.width, height |-> mbox.height,
                   pitch |-> mbox.pitch, x |-> 0, y |-> FirstLine, lf |-> 0]
             pixels == draw_pi_logo_at_pos(f, 0, 0)
  <2>1. CASE fb' = f /\ last' = [Nothing EXCEPT !.pixels = pixels, !.asked = [shape |-> "logo", x |-> 0, y |-> 0]]
    <3> HIDE DEF f
    <3>1. /\ last'.asked.shape = "logo" /\ last'.asked.x = 0 /\ last'.asked.y = 0
          /\ last'.pixels = draw_pi_logo_at_pos(fb', 0, 0)
      BY <2>1 DEF Nothing
    <3>2. Drawing(fb', last'.asked) = draw_pi_logo_at_pos(fb', 0, 0)
      BY <3>1 DEF Drawing
    <3> QED  BY <3>1, <3>2 DEF ShapeInv
  <2> QED  BY <1>1, <1>7, <2>1 DEF FbInitDone
<1>8. CASE Fbputs
  <2>1. chars \in Seq(Char) /\ chars # <<>> /\ last' = fbputc([fb |-> fb, last |-> Nothing], Head(chars)).last
    BY <1>8 DEF Fbputs, Draws, ScreenInv
  <2>2. Head(chars) \in {"lf", "cr", "glyph"}
    BY <2>1, HeadTailProperties DEF Char
  <2> QED  BY <1>2, <2>1, <2>2, TextAsksNothing
<1>9. CASE ClearFramebuffer
  <2>1. \/ last' = Nothing
        \/ last' = fbclear([fb |-> fb, last |-> Nothing]).last
    BY <1>9 DEF ClearFramebuffer, Draws
  <2>2. Nothing.asked = NoShape
    BY DEF Nothing
  <2> QED  BY <1>2, <2>1, <2>2, TextAsksNothing
<1>10. ASSUME NEW argc \in 1 .. 3, NEW x \in Place, NEW y \in Place,
              RainbowSquare(argc, x, y) \/ DrawPiLogo(argc, x, y)
       PROVE  ShapeInv'
  <2>1. CASE TooFewArguments(argc)
    BY <1>2, <2>1 DEF TooFewArguments, Draws, Nothing
  <2>2. ASSUME NEW what, NEW pixels, DrawShape(what, x, y, pixels)
        PROVE  fb' = fb /\ last'.asked = [shape |-> what, x |-> x, y |-> y] /\ last'.pixels = pixels
    BY <2>2 DEF DrawShape, Draws, Nothing
  <2>5. x \in Nat /\ y \in Nat
    BY ScreenAssumption
  <2>3. CASE DrawShape("square", x, y, draw_rect(fb, x, y, SquareSize, SquareSize))
    <3> DEFINE pixels == draw_rect(fb, x, y, SquareSize, SquareSize)
    <3>1. fb' = fb /\ last'.asked = [shape |-> "square", x |-> x, y |-> y] /\ last'.pixels = pixels
      BY <2>2, <2>3
    <3>2. last'.asked.shape = "square" /\ last'.asked.x = x /\ last'.asked.y = y
      BY <3>1
    <3>3. Drawing(fb', last'.asked) = pixels
      BY <3>1, <3>2 DEF Drawing
    <3> QED  BY <2>5, <3>1, <3>2, <3>3 DEF ShapeInv
  <2>4. CASE DrawShape("logo", x, y, draw_pi_logo_at_pos(fb, x, y))
    <3> DEFINE pixels == draw_pi_logo_at_pos(fb, x, y)
    <3>1. fb' = fb /\ last'.asked = [shape |-> "logo", x |-> x, y |-> y] /\ last'.pixels = pixels
      BY <2>2, <2>4
    <3>2. last'.asked.shape = "logo" /\ last'.asked.x = x /\ last'.asked.y = y
      BY <3>1
    <3>3. Drawing(fb', last'.asked) = pixels
      BY <3>1, <3>2 DEF Drawing
    <3> QED  BY <2>5, <3>1, <3>2, <3>3 DEF ShapeInv
  <2> QED  BY <1>10, <2>1, <2>3, <2>4 DEF RainbowSquare, DrawPiLogo
<1>11. CASE UNCHANGED gvars
  BY <1>1, <1>11 DEF gvars
<1> QED  BY <1>3, <1>4, <1>5, <1>6, <1>7, <1>8, <1>9, <1>10, <1>11 DEF Next, GNext, vars, gvars

\* Of every screen: what was asked for was drawn there.
LEMMA ShapesAreInPlace ==
  ASSUME ShapeInv, fb.width \in UInt, fb.height \in UInt
  PROVE  ShapesInPlace
<1> DEFINE S == SquareSize   D == (0 .. S - 1) \X (0 .. S - 1)   w == LogoWidth   h == LogoHeight
           W == fb.width   H == fb.height
<1>0. /\ S \in Nat \ {0} /\ w \in Nat \ {0} /\ h \in Nat \ {0} /\ D \in SUBSET ((0 .. S - 1) \X (0 .. S - 1))
      /\ Opaque \in SUBSET ((0 .. h - 1) \X (0 .. w - 1))
  BY ScreenAssumption
<1>1. ASSUME NEW x \in Nat, NEW y \in Nat, x + S <= W, y + S <= H
      PROVE  draw_rect(fb, x, y, S, S) = Region(W, H, x, y, D)
  <2> DEFINE step == S + ToUInt(W - S)
             at(row, col) == x + W * y + row * step + col
             L == {at(row, col) : row \in 0 .. S - 1, col \in 0 .. S - 1}
             R == {at(d[1], d[2]) : d \in D}
  <2>1. draw_rect(fb, x, y, S, S) = L
    BY DEF draw_rect
  <2>2. Strokes(W, x, y, S, D) = R
    BY Zenon DEF Strokes
  <2> HIDE DEF at
  <2>3. L = R
    <3>1. ASSUME NEW row \in 0 .. S - 1, NEW col \in 0 .. S - 1 PROVE at(row, col) \in R
      <4> DEFINE d == <<row, col>>
      <4>1. d \in D /\ d[1] = row /\ d[2] = col
        OBVIOUS
      <4> HIDE DEF d, D
      <4> QED  BY <4>1
    <3>2. ASSUME NEW d \in D PROVE at(d[1], d[2]) \in L
      <4>1. d[1] \in 0 .. S - 1 /\ d[2] \in 0 .. S - 1
        OBVIOUS
      <4> QED  BY <4>1
    <3> HIDE DEF D
    <3>3. (\A p \in L : p \in R) /\ (\A p \in R : p \in L)
      BY <3>1, <3>2
    <3> HIDE DEF L, R
    <3> QED  BY <3>3
  <2> HIDE DEF D, L, R
  <2>4. Fits(W, H, x, y, S, S, D)
    BY <1>0, <1>1 DEF Fits
  <2> QED  BY <2>1, <2>2, <2>3, <2>4, DotsInPlace
<1>2. ASSUME NEW x \in Nat, NEW y \in Nat, x + w <= W, y + h <= H
      PROVE  draw_pi_logo_at_pos(fb, x, y) = Region(W, H, x, y, Opaque)
  <2> DEFINE out == Strokes(W, x, y, w, Opaque)
  <2>1. draw_pi_logo_at_pos(fb, x, y) = {n \in out : n >= 0}
    BY DEF draw_pi_logo_at_pos, pi_logo, Strokes
  <2>5. Fits(W, H, x, y, w, h, Opaque)
    BY <1>0, <1>2 DEF Fits
  <2>2. out = Region(W, H, x, y, Opaque) /\ out \subseteq Nat
    BY <2>5, DotsInPlace
  <2> HIDE DEF out
  <2>3. \A n \in out : n >= 0
    BY <2>2
  <2>4. {n \in out : n >= 0} = out
    BY <2>3
  <2> QED  BY <2>1, <2>2, <2>4
<1>3. /\ ShapeDots["square"] = D /\ ShapeDots["logo"] = Opaque
      /\ ShapeSize["square"] = <<S, S>> /\ ShapeSize["logo"] = <<w, h>>
  BY DEF ShapeDots, ShapeSize
<1> HIDE DEF D, S, w, h, W, H
<1> DEFINE a == last.asked   x == a.x   y == a.y
<1>4. CASE a.shape = "none"
  BY <1>4 DEF ShapesInPlace
<1>5. CASE a.shape # "none"
  <2>1. a.shape \in {"square", "logo"} /\ x \in Nat /\ y \in Nat /\ last.pixels = Drawing(fb, a)
    <3>1. a # NoShape
      BY <1>5 DEF NoShape
    <3> QED  BY <3>1 DEF ShapeInv
  <2>2. CASE a.shape = "square"
    <3>1. ASSUME x + S <= W, y + S <= H PROVE last.pixels = Region(W, H, x, y, D)
      BY <1>1, <2>1, <2>2, <3>1 DEF Drawing, S
    <3>2. ShapeSize[a.shape][1] = S /\ ShapeSize[a.shape][2] = S /\ ShapeDots[a.shape] = D
      BY <1>3, <2>2
    <3> QED  BY <3>1, <3>2 DEF ShapesInPlace, Region, W, H
  <2>3. CASE a.shape = "logo"
    <3>1. ASSUME x + w <= W, y + h <= H PROVE last.pixels = Region(W, H, x, y, Opaque)
      BY <1>2, <2>1, <2>3, <3>1 DEF Drawing
    <3>2. ShapeSize[a.shape][1] = w /\ ShapeSize[a.shape][2] = h /\ ShapeDots[a.shape] = Opaque
      BY <1>3, <2>3
    <3> QED  BY <3>1, <3>2 DEF ShapesInPlace, Region, W, H
  <2> QED  BY <2>1, <2>2, <2>3
<1> QED  BY <1>4, <1>5

\* Text, clearing, squares and the logo write the pixels they should, with every
\* screen that takes the first line of fbinit and whatever is printed and drawn
\* on it (fb.c, font.c, gfx.c).
THEOREM ProgramsDrawWhereTheyMean == ASSUME BigScreen PROVE Spec => []DrawnWhereMeant
<1>1. Init => ScreenInv
  <2> SUFFICES ASSUME Init PROVE ScreenInv
    OBVIOUS
  <2>1. 0 \in UInt /\ 0 \in Nat
    BY PowerAssumption DEF UInt
  <2>2. fb \in FrameBuffer /\ RoomForText(fb)
    BY <2>1 DEF Init, GInit, NoFramebuffer, FrameBuffer, RoomForText
  <2>3. Screen(fb, last)
    BY <2>2, Drawn DEF Init, GInit, Nothing
  <2>4. mbox \in Mailbox
    BY <2>1 DEF Init, GInit, Request, Mailbox
  <2> QED  BY <2>3, <2>4 DEF Init, GInit, ScreenInv
<1>2. ScreenInv => GlyphsOnScreen /\ ClearFillsScreen
  <2> SUFFICES ASSUME ScreenInv PROVE GlyphsOnScreen /\ ClearFillsScreen
    OBVIOUS
  <2>1. fb \in FrameBuffer /\ Inside(fb, last) /\ last.wiped \in {{}, Wiped(fb)}
    BY DEF ScreenInv, Screen
  <2>2. fb.width \in UInt /\ fb.height \in UInt
    BY <2>1, Fields
  <2>3. GlyphsOnScreen
    BY <2>1 DEF Inside, GlyphsOnScreen, Slack
  <2>4. ClearFillsScreen
    <3>1. 0 .. fb.width * fb.height - 1 \subseteq Pixels(fb.width, fb.height, 4 * fb.width)
      BY <2>2, AllPixels
    <3> QED  BY <2>1, <3>1, WipedPixels DEF ClearFillsScreen
  <2> QED  BY <2>3, <2>4
<1>3. Init => ShapeInv
  BY DEF Init, GInit, Nothing, ShapeInv
<1>4. ScreenInv /\ ShapeInv => ShapesInPlace
  <2>1. ScreenInv => fb.width \in UInt /\ fb.height \in UInt
    BY Fields DEF ScreenInv, Screen
  <2> QED  BY <2>1, ShapesAreInPlace
<1>5. ScreenInv /\ ShapeInv => DrawnWhereMeant
  BY <1>2, <1>4 DEF DrawnWhereMeant
<1> QED  BY <1>1, <1>3, <1>5, ScreenStep, ShapeStep, PTL DEF Spec
-----------------------------------------------------------------------------
(* Registers: the fields of the function words, and where devices lie.      *)

\* v is the word w with f in the field of three bits that starts at P = 2^s.
Changed(w, P, f, v) == v = w - ((w \div P) % 8) * P + f * P

\* Its field, what is above and what is below.
Parts(w, P, f, v) ==
  \E a \in Nat, b \in 0 .. 7, r \in 0 .. P - 1 : w = P * (8 * a + b) + r /\ v = P * (8 * a + f) + r

LEMMA WordParts ==
  ASSUME NEW w \in Nat, NEW P \in Nat \ {0}, NEW f \in 0 .. 7, NEW v, Changed(w, P, f, v)
  PROVE  v \in Nat /\ Parts(w, P, f, v)
<1> DEFINE q == w \div P   r == w % P   a == q \div 8   b == q % 8
<1>1. q \in Nat /\ r \in 0 .. P - 1 /\ w = P * q + r
  OBVIOUS
<1>2. v = w - b * P + f * P
  BY DEF Changed
<1> HIDE DEF q, r
<1>3. a \in Nat /\ b \in 0 .. 7 /\ q = 8 * a + b
  BY <1>1
<1> HIDE DEF a, b
<1>4. P * (8 * a + b) = 8 * (P * a) + P * b /\ P * (8 * a + f) = 8 * (P * a) + P * f /\ b * P = P * b /\ f * P = P * f
  BY <1>3
<1>5. P * a \in Nat /\ P * b \in Nat /\ P * f \in Nat
  BY <1>3
<1>6. w = P * (8 * a + b) + r /\ v = P * (8 * a + f) + r
  BY <1>1, <1>2, <1>3, <1>4, <1>5
<1>7. v \in Nat
  BY <1>1, <1>4, <1>5, <1>6
<1> QED  BY <1>1, <1>3, <1>6, <1>7 DEF Parts

\* The new field is read back.
LEMMA FieldIn ==
  ASSUME NEW w \in Nat, NEW P \in Nat \ {0}, NEW f \in 0 .. 7, NEW v, Changed(w, P, f, v)
  PROVE  v \in Nat /\ (v \div P) % 8 = f
<1>0. v \in Nat /\ Parts(w, P, f, v)
  BY WordParts
<1>1. PICK a \in Nat, r \in 0 .. P - 1 : v = P * (8 * a + f) + r /\ v \in Nat
  BY <1>0 DEF Parts
<1>2. 8 * a + f \in Int /\ (8 * a + f) % 8 = f
  OBVIOUS
<1>3. v \div P = 8 * a + f
  BY <1>1, <1>2, Division
<1> QED  BY <1>1, <1>2, <1>3

\* A field above it is the same as before.
Apart(P, Q, d) == Q = 8 * P * d
LEMMA FieldAbove ==
  ASSUME NEW w \in Nat, NEW P \in Nat \ {0}, NEW f \in 0 .. 7, NEW v, Changed(w, P, f, v),
         NEW Q, NEW d \in Nat \ {0}, Apart(P, Q, d)
  PROVE  v \div Q = w \div Q
<1>a. Q = 8 * P * d
  BY DEF Apart
<1>0. Parts(w, P, f, v)
  BY WordParts
<1>1. PICK a \in Nat, b \in 0 .. 7, r \in 0 .. P - 1 : w = P * (8 * a + b) + r /\ v = P * (8 * a + f) + r
  BY <1>0 DEF Parts
<1> DEFINE g == a \div d   h == a % d
<1>2. g \in Nat /\ h \in 0 .. d - 1 /\ a = d * g + h
  OBVIOUS
<1> HIDE DEF g, h
<1>3. ASSUME NEW k \in 0 .. 7 PROVE (P * (8 * a + k) + r) \div Q = g
  <2> DEFINE x == 8 * (P * h) + (P * k + r)
  <2>1. P * (8 * a + k) + r = Q * g + x
    <3>1. P * (8 * a + k) = 8 * (P * a) + P * k
      OBVIOUS
    <3>2. P * a = P * d * g + P * h
      BY <1>2
    <3>3. Q * g = 8 * (P * d * g)
      BY <1>a, <1>2
    <3>4. P * a \in Int /\ P * d * g \in Int /\ P * h \in Int /\ P * k \in Int
      BY <1>2
    <3>5. P * (8 * a + k) = Q * g + 8 * (P * h) + P * k
      BY <3>1, <3>2, <3>3, <3>4
    <3>6. Q * g \in Int /\ 8 * (P * h) \in Int
      BY <3>3, <3>4
    <3> DEFINE A == Q * g   B == 8 * (P * h)   C == P * k
    <3>7. A + B + C + r = A + (B + (C + r))
      <4> HIDE DEF A, B, C
      <4>1. A \in Int /\ B \in Int /\ C \in Int
        BY <3>4, <3>6 DEF A, B, C
      <4> QED  BY <4>1
    <3> QED  BY <3>5, <3>7
  <2>2. Q = 8 * (P * d) /\ P * d \in Nat \ {0}
    BY <1>a
  <2>3. x \in 0 .. Q - 1
    <3>1. P * h \in Nat /\ P * k \in Nat /\ P * k <= 7 * P
      BY <1>2
    <3>2. P * h <= P * d - P
      <4>1. h <= d - 1 /\ P * (d - 1) = P * d - P /\ d - 1 \in Nat
        BY <1>2
      <4>2. \A i \in Nat, j \in Nat : i <= j => P * i <= P * j
        OBVIOUS
      <4>3. P * h <= P * (d - 1)
        BY <1>2, <4>1, <4>2
      <4> QED  BY <4>1, <4>3
    <3> QED  BY <2>2, <3>1, <3>2
  <2>4. Q \in Nat \ {0}
    BY <2>2
  <2> HIDE DEF x
  <2>5. (Q * g + x) \div Q = g
    <3>1. g \in Int
      BY <1>2
    <3> QED  BY <2>3, <2>4, <3>1, Division
  <2> QED  BY <2>1, <2>5
<1> QED  BY <1>1, <1>3

\* And so is one below it.
LEMMA FieldBelow ==
  ASSUME NEW w \in Nat, NEW P, NEW f \in 0 .. 7, NEW v, Changed(w, P, f, v),
         NEW Q \in Nat \ {0}, NEW d \in Nat \ {0}, Apart(Q, P, d)
  PROVE  (v \div Q) % 8 = (w \div Q) % 8
<1>1. P \in Nat \ {0}
  <2>1. Q * d \in Nat \ {0} /\ P = 8 * (Q * d)
    BY DEF Apart
  <2> QED  BY <2>1
<1> DEFINE b == (w \div P) % 8   z == f - b   k == d * z   m == w \div Q   r == w % Q
<1>2. v = w + z * P /\ z \in Int
  <2>1. b \in Nat
    BY <1>1
  <2> HIDE DEF b
  <2>2. v = w - b * P + f * P
    BY DEF Changed, b
  <2>3. (f - b) * P = f * P - b * P /\ f * P \in Int /\ b * P \in Int
    BY <1>1, <2>1
  <2> QED  BY <1>1, <2>1, <2>2, <2>3
<1>3. m \in Nat /\ r \in 0 .. Q - 1 /\ w = Q * m + r
  OBVIOUS
<1> HIDE DEF z, m, r
<1>4. k \in Int /\ z * P = Q * (8 * k)
  BY <1>2 DEF Apart
<1> HIDE DEF k
<1>5. v = Q * (m + 8 * k) + r
  <2>1. Q * (m + 8 * k) = Q * m + Q * (8 * k) /\ Q * m \in Int /\ Q * (8 * k) \in Int
    BY <1>3, <1>4
  <2> QED  BY <1>2, <1>3, <1>4, <2>1
<1>6. m + 8 * k \in Int /\ (m + 8 * k) % 8 = m % 8
  BY <1>3, <1>4
<1>7. v \div Q = m + 8 * k
  BY <1>3, <1>5, <1>6, Division
<1> QED  BY <1>6, <1>7 DEF m

\* The ten fields of a word, and how far they are apart.
Start == {0, 3, 6, 9, 12, 15, 18, 21, 24, 27}

Bit(s) == 2^s

LEMMA Powers ==
  /\ \A s \in Start : Bit(s) \in Nat \ {0}
  /\ \A s, t \in Start : s < t => \E d \in Nat \ {0} : Apart(Bit(s), Bit(t), d)
<1>1. /\ Bit(0) = 1 /\ Bit(3) = 8 /\ Bit(6) = 64 /\ Bit(9) = 512 /\ Bit(12) = 4096 /\ Bit(15) = 32768 /\ Bit(18) = 262144
      /\ Bit(21) = 2097152 /\ Bit(24) = 16777216 /\ Bit(27) = 134217728
  BY DEF Bit
<1>2. \A s \in Start : Bit(s) \in Nat \ {0}
  BY <1>1 DEF Start
<1>3. ASSUME NEW s \in Start, NEW t \in Start, s < t PROVE Bit(t) % (8 * Bit(s)) = 0
  <2>1. s = 0 \/ s = 3 \/ s = 6 \/ s = 9 \/ s = 12 \/ s = 15 \/ s = 18 \/ s = 21 \/ s = 24
    BY <1>3 DEF Start
  <2>2. t = 3 \/ t = 6 \/ t = 9 \/ t = 12 \/ t = 15 \/ t = 18 \/ t = 21 \/ t = 24 \/ t = 27
    BY <1>3 DEF Start
  <2> QED  BY <1>1, <1>3, <2>1, <2>2
<1>4. ASSUME NEW n \in Nat \ {0}, NEW m \in Nat \ {0}, n % m = 0 PROVE \E d \in Nat \ {0} : n = m * d
  <2>1. n = m * (n \div m) /\ n \div m \in Nat
    BY <1>4
  <2>2. n \div m # 0
    BY <2>1
  <2> QED  BY <2>1, <2>2
<1>5. ASSUME NEW s \in Start, NEW t \in Start, s < t PROVE \E d \in Nat \ {0} : Apart(Bit(s), Bit(t), d)
  <2> DEFINE m == 8 * Bit(s)   n == Bit(t)
  <2>1. m \in Nat \ {0} /\ n \in Nat \ {0}
    BY <1>2
  <2>2. n % m = 0
    BY <1>3, <1>5
  <2> HIDE DEF m, n
  <2>3. \E d \in Nat \ {0} : n = m * d
    BY <1>4, <2>1, <2>2, SMTT(40)
  <2> QED  BY <2>3 DEF m, n, Apart
<1> QED  BY <1>2, <1>5

\* gpio_pin_set_func (gpio.c:5) writes one field of a word.
LEMMA SetField ==
  ASSUME NEW w \in Nat, NEW s \in Start, NEW t \in Start, NEW f \in 0 .. 7
  PROVE  /\ WithField(w, s, f) \in Nat
         /\ t = s => Field(WithField(w, s, f), t) = f
         /\ t # s => Field(WithField(w, s, f), t) = Field(w, t)
<1> DEFINE P == Bit(s)   Q == Bit(t)   v == WithField(w, s, f)
<1>1. P \in Nat \ {0} /\ Q \in Nat \ {0}
  BY Powers
<1>2. Changed(w, P, f, v)
  BY DEF WithField, Field, Changed, Bit
<1>3. Field(v, t) = (v \div Q) % 8 /\ Field(w, t) = (w \div Q) % 8 /\ (s = t => P = Q)
  BY DEF Field, Bit
<1>4. s < t => \E d \in Nat \ {0} : Apart(P, Q, d)
  BY Powers
<1>5. t < s => \E d \in Nat \ {0} : Apart(Q, P, d)
  BY Powers
<1> HIDE DEF P, Q, v
<1>6. v \in Nat /\ (v \div P) % 8 = f
  BY <1>1, <1>2, FieldIn
<1>7. CASE s < t
  <2>1. PICK d \in Nat \ {0} : Apart(P, Q, d)
    BY <1>4, <1>7
  <2>2. v \div Q = w \div Q
    BY <1>1, <1>2, <2>1, FieldAbove
  <2> QED  BY <1>3, <1>6, <1>7, <2>2 DEF v, Start
<1>8. CASE t < s
  <2>1. PICK d \in Nat \ {0} : Apart(Q, P, d)
    BY <1>5, <1>8
  <2>2. (v \div Q) % 8 = (w \div Q) % 8
    BY <1>1, <1>2, <2>1, FieldBelow
  <2> QED  BY <1>3, <1>6, <1>8, <2>2 DEF v, Start
<1>9. CASE s = t
  BY <1>3, <1>6, <1>9 DEF v
<1>10. s < t \/ t < s \/ s = t
  BY DEF Start
<1> QED  BY <1>7, <1>8, <1>9, <1>10

\* Where the field of a pin is.
LEMMA Pins ==
  ASSUME NEW p \in Pin
  PROVE  /\ (p * 3) % 30 \in Start /\ p \div 10 \in 0 .. 5
         /\ \A q \in Pin : p \div 10 = q \div 10 /\ (p * 3) % 30 = (q * 3) % 30 => p = q
<1>1. ASSUME NEW q \in Pin PROVE q % 10 \in 0 .. 9 /\ (q * 3) % 30 = 3 * (q % 10) /\ q = 10 * (q \div 10) + (q % 10) /\ q \div 10 \in 0 .. 5
  BY DEF Pin
<1>2. (p * 3) % 30 \in Start
  BY <1>1 DEF Start
<1>3. ASSUME NEW q \in Pin, p \div 10 = q \div 10, (p * 3) % 30 = (q * 3) % 30 PROVE p = q
  BY <1>1, <1>3
<1> QED  BY <1>1, <1>2, <1>3

\* A pin gets its function, and no other pin loses its own.
OnlyPin(new, sel, pin, func) ==
  \A p \in Pin : Field(new[p \div 10], (p * 3) % 30) = IF p = pin THEN func ELSE Field(sel[p \div 10], (p * 3) % 30)

LEMMA PinSet ==
  ASSUME NEW sel \in [0 .. 5 -> Nat], NEW pin \in Pin, NEW func \in 0 .. 7
  PROVE  gpio_pin_set_func(sel, pin, func) \in [0 .. 5 -> Nat] /\ OnlyPin(gpio_pin_set_func(sel, pin, func), sel, pin, func)
<1> DEFINE new == gpio_pin_set_func(sel, pin, func)
           r == pin \div 10   s == (pin * 3) % 30
<1>1. r \in 0 .. 5 /\ s \in Start
  BY Pins
<1>2. new = [sel EXCEPT ![r] = WithField(sel[r], s, func)]
  BY DEF gpio_pin_set_func
<1> HIDE DEF new, r, s
<1>3. WithField(sel[r], s, func) \in Nat
  BY <1>1, SetField
<1>4. new \in [0 .. 5 -> Nat] /\ new[r] = WithField(sel[r], s, func) /\ \A i \in 0 .. 5 : i # r => new[i] = sel[i]
  BY <1>1, <1>2, <1>3
<1>5. ASSUME NEW p \in Pin PROVE Field(new[p \div 10], (p * 3) % 30) = IF p = pin THEN func ELSE Field(sel[p \div 10], (p * 3) % 30)
  <2> DEFINE i == p \div 10   t == (p * 3) % 30
  <2>1. i \in 0 .. 5 /\ t \in Start /\ (i = r /\ t = s => p = pin) /\ (p = pin => i = r /\ t = s)
    BY Pins DEF r, s
  <2> HIDE DEF i, t
  <2>2. CASE i # r
    BY <1>4, <2>1, <2>2 DEF i, t
  <2>3. CASE i = r
    <3>1. Field(new[i], t) = IF t = s THEN func ELSE Field(sel[i], t)
      <4> DEFINE w == sel[r]
      <4>1. w \in Nat /\ new[i] = WithField(w, s, func) /\ w = sel[i]
        BY <1>1, <1>4, <2>3
      <4> HIDE DEF w
      <4>2. /\ t = s => Field(WithField(w, s, func), t) = func
            /\ t # s => Field(WithField(w, s, func), t) = Field(w, t)
        <5>1. s \in Start
          BY <1>1, Zenon
        <5>2. t \in Start
          BY <2>1, Zenon
        <5>3. w \in Nat /\ func \in 0 .. 7
          BY <4>1, Zenon
        <5>4. WithField(w, s, func) \in Nat
          BY <5>1, <5>3, SetField, Zenon
        <5>5. t = s => Field(WithField(w, s, func), t) = func
          BY <5>1, <5>2, <5>3, SetField
        <5>6. ASSUME t # s PROVE Field(WithField(w, s, func), t) = Field(w, t)
          <6> HIDE <2>1
          <6> QED  BY <5>1, <5>2, <5>3, <5>6, SetField, SMTT(30)
        <5> QED  BY <5>5, <5>6
      <4> QED  BY <4>1, <4>2
    <3> QED  BY <2>1, <2>3, <3>1 DEF i, t
  <2> QED  BY <2>2, <2>3
<1> QED  BY <1>4, <1>5 DEF new, OnlyPin

LEMMA FieldSet ==
  ASSUME NEW w \in Nat, NEW s \in Start, NEW f \in 0 .. 7
  PROVE  WithField(w, s, f) \in Nat /\ Field(WithField(w, s, f), s) = f
BY SetField

LEMMA FieldKept ==
  ASSUME NEW w \in Nat, NEW s \in Start, NEW f \in 0 .. 7, NEW t \in Start, t # s
  PROVE  Field(WithField(w, s, f), t) = Field(w, t)
BY SetField

LEMMA SetPin ==
  ASSUME NEW sel, NEW pin, NEW func, NEW r, NEW s, r = pin \div 10, s = (pin * 3) % 30
  PROVE  gpio_pin_set_func(sel, pin, func) = [sel EXCEPT ![r] = WithField(sel[r], s, func)]
BY DEF gpio_pin_set_func

\* uart_init and uart_init_alt leave the same function words (mini_uart.c).
LEMMA UartPins ==
  ASSUME NEW sel \in [0 .. 5 -> Nat]
  PROVE  LET one == uart_init(sel)   two == uart_init_alt(sel)
         IN  /\ one.sel = two.sel /\ one.pupd = two.pupd
             /\ \A p \in {TXD, RXD} : Field(one.sel[1], (p * 3) % 30) = GFAlt5
<1> DEFINE w == sel[1]
           x == WithField(w, 12, 2)
           y == WithField(x, 15, 2)
           new == [sel EXCEPT ![1] = y]
<1>1. w \in Nat /\ 12 \in Start /\ 15 \in Start /\ 2 \in 0 .. 7
  BY DEF Start
<1>2. uart_init_alt(sel).sel = new /\ uart_init_alt(sel).pupd = uart_init(sel).pupd
  BY DEF uart_init_alt, uart_init, GFAlt5
<1>3. 14 \div 10 = 1 /\ 15 \div 10 = 1 /\ (14 * 3) % 30 = 12 /\ (15 * 3) % 30 = 15
  OBVIOUS
<1>4. x \in Nat /\ Field(x, 12) = 2
  BY <1>1, FieldSet
<1>5. uart_init(sel).sel = new
  <2> DEFINE mid == [sel EXCEPT ![1] = x]
  <2>1. uart_init(sel).sel = gpio_pin_set_func(gpio_pin_set_func(sel, TXD, GFAlt5), RXD, GFAlt5)
    BY DEF uart_init
  <2>2. gpio_pin_set_func(sel, TXD, GFAlt5) = mid
    BY <1>3, SetPin DEF TXD, GFAlt5
  <2> HIDE DEF x
  <2>3. mid \in [0 .. 5 -> Nat] /\ mid[1] = x /\ \A i \in 0 .. 5 : i # 1 => mid[i] = sel[i]
    BY <1>4
  <2> HIDE DEF mid
  <2>4. gpio_pin_set_func(mid, 15, 2) = [mid EXCEPT ![1] = WithField(mid[1], 15, 2)]
    BY <1>3 DEF gpio_pin_set_func
  <2>5. [mid EXCEPT ![1] = y] = new
    <3> HIDE DEF y
    <3> QED  BY <2>3
  <2>6. WithField(mid[1], 15, 2) = y
    BY <2>3
  <2> QED  BY <2>1, <2>2, <2>4, <2>5, <2>6 DEF RXD, GFAlt5
<1> HIDE DEF w, x
<1>6. Field(y, 15) = 2 /\ Field(y, 12) = Field(x, 12)
  <2>1. 12 # 15
    OBVIOUS
  <2> QED  BY <1>1, <1>4, <2>1, FieldSet, FieldKept
<1>7. new[1] = y
  OBVIOUS
<1> HIDE DEF new, y
<1>8. \A p \in {TXD, RXD} : Field(new[1], (p * 3) % 30) = GFAlt5
  BY <1>3, <1>4, <1>6, <1>7 DEF TXD, RXD, GFAlt5
<1> QED  BY <1>2, <1>5, <1>8

\* The three parts of the colour wheel (gfx.c).
IsColour(c) == c[1] + c[2] + c[3] = 255 /\ \A i \in 1 .. 3 : c[i] \in 0 .. 255

LEMMA WheelColours ==
  ASSUME NEW color \in 0 .. 255
  PROVE  IsColour(wheel(color))
<1> DEFINE pos == 255 - color
<1>1. CASE pos < 85
  BY <1>1 DEF wheel, IsColour
<1>2. CASE pos \in 85 .. 169
  BY <1>2 DEF wheel, IsColour
<1>3. CASE pos > 169
  BY <1>3 DEF wheel, IsColour
<1>4. pos \in 0 .. 255
  OBVIOUS
<1>5. pos < 85 \/ pos \in 85 .. 169 \/ pos > 169
  BY <1>4
<1> HIDE DEF pos
<1> QED  BY <1>1, <1>2, <1>3, <1>5, Zenon

\* fbputc reads the cell of its character, and all of it (fb.c).
CellOf(c) == {p \in fontmap_data : <<(p \div fontmap.width) \div char_height, (p % fontmap.width) \div char_width>>
                                     = <<(c - 32) \div fontmap.cols, (c - 32) % fontmap.cols>>}

LEMMA GlyphCells ==
  ASSUME NEW c \in 32 .. 139
  PROVE  Glyph(c) = CellOf(c)
<1> DEFINE n == c - 32   i == n \div 18   j == n % 18
           From(p) == \E y \in 0 .. 17, x \in 0 .. 13 : p = i * 252 * 18 + j * 14 + y * 252 + x
           In(p) == p \in 0 .. 27215 /\ (p \div 252) \div 18 = i /\ (p % 252) \div 14 = j
<1>1. fontmap.width = 252 /\ fontmap.cols = 18 /\ char_width = 14 /\ char_height = 18 /\ fontmap_data = 0 .. 27215
  <2>1. fontmap.width = 252 /\ fontmap.cols = 18 /\ fontmap.height = 108 /\ fontmap.rows = 6
    BY DEF fontmap
  <2> QED  BY <2>1 DEF char_width, char_height, fontmap_data
<1>2. n % 256 = n /\ i \in 0 .. 5 /\ j \in 0 .. 17
  OBVIOUS
<1>3. ASSUME NEW p PROVE p \in Glyph(c) <=> From(p)
  <2> DEFINE data == (((c - 32) % 256) \div fontmap.cols) * fontmap.width * char_height + (((c - 32) % 256) % fontmap.cols) * char_width
  <2>1. p \in Glyph(c) <=> \E y \in 0 .. char_height - 1, x \in 0 .. char_width - 1 : p = data + y * fontmap.width + x
    BY SMT DEF Glyph, GlyphStart
  <2>2. data = i * 252 * 18 + j * 14
    <3> HIDE DEF i, j
    <3>1. (c - 32) \div fontmap.cols = i /\ (c - 32) % fontmap.cols = j
      BY <1>1 DEF i, j
    <3>2. (c - 32) % 256 = c - 32
      BY <1>2
    <3>3. data = i * fontmap.width * char_height + j * char_width
      BY <3>1, <3>2, Zenon
    <3> HIDE DEF data, n
    <3> QED  BY <1>1, <1>2, <3>3
  <2>3. char_height - 1 = 17 /\ char_width - 1 = 13
    BY <1>1
  <2> HIDE DEF data, i, j
  <2> QED  BY <1>1, <2>1, <2>2, <2>3, SMTT(40)
<1>4. ASSUME NEW p PROVE p \in CellOf(c) <=> In(p)
  <2> HIDE DEF i, j
  <2>1. (c - 32) \div fontmap.cols = i /\ (c - 32) % fontmap.cols = j
    BY <1>1 DEF i, j
  <2> DEFINE row == (p \div fontmap.width) \div char_height   col == (p % fontmap.width) \div char_width
  <2>2. p \in CellOf(c) <=> p \in fontmap_data /\ row = (c - 32) \div fontmap.cols /\ col = (c - 32) % fontmap.cols
    BY DEF CellOf
  <2>3. row = (p \div 252) \div 18 /\ col = (p % 252) \div 14
    BY <1>1
  <2> HIDE DEF row, col
  <2> DEFINE all == 0 .. 27215
  <2>4. fontmap_data = all
    BY <1>1
  <2> HIDE DEF all
  <2>5. p \in CellOf(c) <=> p \in all /\ row = i /\ col = j
    BY <2>1, <2>2, <2>4, Zenon
  <2> QED  BY <2>3, <2>5, SMTT(40) DEF all
<1> HIDE DEF i, j
<1>5. ASSUME NEW y \in 0 .. 17, NEW x \in 0 .. 13 PROVE In(i * 252 * 18 + j * 14 + y * 252 + x)
  <2> DEFINE a == 18 * i + y   b == 14 * j + x   p == i * 252 * 18 + j * 14 + y * 252 + x
  <2>1. a \in 0 .. 107 /\ b \in 0 .. 251 /\ p = 252 * a + b
    BY <1>2
  <2>2. a \div 18 = i /\ b \div 14 = j
    BY <1>2
  <2> HIDE DEF a, b, p
  <2>3. p \in 0 .. 27215 /\ p \div 252 = a /\ p % 252 = b
    BY <2>1, SMTT(40)
  <2>4. In(p)
    BY <2>2, <2>3
  <2> HIDE DEF In
  <2> QED  BY <2>4, Zenon DEF p
<1>6. ASSUME NEW p, In(p) PROVE From(p)
  <2> DEFINE a == p \div 252   b == p % 252
  <2>1. p \in 0 .. 27215 /\ a \in Nat /\ b \in Nat /\ p = 252 * a + b
    BY <1>6, SMTT(40)
  <2>2. a \div 18 = i /\ b \div 14 = j
    BY <1>6
  <2> HIDE DEF a, b
  <2>3. a = 18 * i + (a % 18) /\ a % 18 \in 0 .. 17 /\ b = 14 * j + (b % 14) /\ b % 14 \in 0 .. 13
    BY <2>1, <2>2, SMTT(40)
  <2> QED  BY <1>2, <2>1, <2>3, SMTT(40)
<1>7. ASSUME NEW p, From(p) PROVE In(p)
  <2>1. PICK y \in 0 .. 17, x \in 0 .. 13 : p = i * 252 * 18 + j * 14 + y * 252 + x
    BY <1>7
  <2> HIDE DEF In, From
  <2>2. In(i * 252 * 18 + j * 14 + y * 252 + x)
    BY <1>5
  <2> QED  BY <2>1, <2>2, Zenon
<1> HIDE DEF From, In
<1> QED  BY <1>3, <1>4, <1>6, <1>7

\* The words before a field of a structure, field by field (regstruct.h).
LEMMA Offsets ==
  ASSUME NEW s, NEW n \in Nat \ {0}, DOMAIN s = 1 .. n, \A k \in 1 .. n : s[k][2] \in Nat
  PROVE  /\ Offset(s, 1) = 0
         /\ \A k \in 1 .. n : k # 1 => Offset(s, k) = Offset(s, k - 1) + s[k - 1][2]
<1> DEFINE size(m) == IF m + 1 \in 1 .. n THEN s[m + 1][2] ELSE 0
           G == [m \in Nat |-> [x \in Nat |-> x + size(m)]]
           Loop(f) == [i \in DOMAIN s |-> IF i = 1 THEN 0 ELSE f[i - 1] + s[i - 1][2]]
           words == CHOOSE f : f = Loop(f)
<1>1. G \in [Nat -> [Nat -> Nat]]
  OBVIOUS
<1>2. \E f : f = Loop(f)
  <2>1. PICK g : Computes(g, Nat, 0, G, n)
    BY <1>1, Recursion
  <2> DEFINE f == [i \in 1 .. n |-> g[i - 1]]
  <2>2. g \in [0 .. n -> Nat] /\ g[0] = 0
    BY <2>1 DEF Computes
  <2>3. ASSUME NEW i \in 1 .. n, i # 1 PROVE f[i] = f[i - 1] + s[i - 1][2]
    <3>1. i - 2 \in 0 .. n - 1 /\ i - 2 \in Nat /\ (i - 2) + 1 = i - 1 /\ i - 1 \in 1 .. n /\ g[i - 2] \in Nat /\ (i - 1) - 1 = i - 2
      BY <2>2, <2>3
    <3>2. g[(i - 2) + 1] = G[i - 2][g[i - 2]]
      BY <2>1, <3>1 DEF Computes
    <3>3. g[i - 1] = g[i - 2] + s[i - 1][2]
      BY <3>1, <3>2
    <3> QED  BY <3>1, <3>3
  <2>4. f[1] = 0 /\ f = [i \in DOMAIN s |-> f[i]]
    BY <2>2
  <2> HIDE DEF f
  <2>5. f = Loop(f)
    BY <2>3, <2>4
  <2> QED  BY <2>5
<1>3. words = Loop(words)
  BY <1>2, Zenon
<1>4. \A k : Offset(s, k) = words[k]
  BY Zenon DEF Offset, words
<1> HIDE DEF words
<1>5. words[1] = 0 /\ \A k \in 1 .. n : k # 1 => words[k] = words[k - 1] + s[k - 1][2]
  <2>1. \A k \in 1 .. n : words[k] = IF k = 1 THEN 0 ELSE words[k - 1] + s[k - 1][2]
    <3>1. words = [i \in 1 .. n |-> IF i = 1 THEN 0 ELSE words[i - 1] + s[i - 1][2]]
      BY <1>3, Zenon
    <3> QED  BY <3>1
  <2>2. 1 \in 1 .. n
    OBVIOUS
  <2> QED  BY <2>1, <2>2
<1> QED  BY <1>4, <1>5

\* A structure has at most 22 fields of at most 16 words.
Structure(s) == \E n \in 1 .. 22 : DOMAIN s = 1 .. n /\ Len(s) = n /\ \A k \in 1 .. n : s[k][2] \in 1 .. 16

LEMMA Structures == \A d \in Device : Structure(Layout[d])
<1>1. Structure(QA7Registers)
  <2>1. DOMAIN QA7Registers = 1 .. 22 /\ Len(QA7Registers) = 22 /\ \A k \in 1 .. 22 : QA7Registers[k][2] \in 1 .. 16
    BY DEF QA7Registers
  <2> QED  BY <2>1 DEF Structure
<1>2. Structure(LocalTimer)
  <2>1. DOMAIN LocalTimer = 1 .. 9 /\ Len(LocalTimer) = 9 /\ \A k \in 1 .. 9 : LocalTimer[k][2] \in 1 .. 16
    BY DEF LocalTimer
  <2> QED  BY <2>1 DEF Structure
<1>3. Structure(SysTimerRegs)
  <2>1. DOMAIN SysTimerRegs = 1 .. 7 /\ Len(SysTimerRegs) = 7 /\ \A k \in 1 .. 7 : SysTimerRegs[k][2] \in 1 .. 16
    BY DEF SysTimerRegs
  <2> QED  BY <2>1 DEF Structure
<1>4. Structure(AuxRegs)
  <2>1. DOMAIN AuxRegs = 1 .. 14 /\ Len(AuxRegs) = 14 /\ \A k \in 1 .. 14 : AuxRegs[k][2] \in 1 .. 16
    BY DEF AuxRegs
  <2> QED  BY <2>1 DEF Structure
<1>5. Structure(GpioRegs)
  <2>1. DOMAIN GpioRegs = 1 .. 14 /\ Len(GpioRegs) = 14 /\ \A k \in 1 .. 14 : GpioRegs[k][2] \in 1 .. 16
    BY DEF GpioRegs
  <2> QED  BY <2>1 DEF Structure
<1>6. Structure(VideoCoreMailbox)
  <2>1. DOMAIN VideoCoreMailbox = 1 .. 7 /\ Len(VideoCoreMailbox) = 7 /\ \A k \in 1 .. 7 : VideoCoreMailbox[k][2] \in 1 .. 16
    BY DEF VideoCoreMailbox
  <2> QED  BY <2>1 DEF Structure
<1>7. Structure(irq_regs)
  <2>1. DOMAIN irq_regs = 1 .. 10 /\ Len(irq_regs) = 10 /\ \A k \in 1 .. 10 : irq_regs[k][2] \in 1 .. 16
    BY DEF irq_regs
  <2> QED  BY <2>1 DEF Structure
<1> QED  BY <1>1, <1>2, <1>3, <1>4, <1>5, <1>6, <1>7 DEF Device, Addr, Layout

\* So that none is longer than 352 words.
LEMMA Bounded ==
  ASSUME NEW s, Structure(s), NEW k \in DOMAIN s
  PROVE  Offset(s, k) \in Nat /\ s[k][2] \in 1 .. 16 /\ Offset(s, k) + s[k][2] <= 352
<1>1. PICK n \in 1 .. 22 : DOMAIN s = 1 .. n /\ Len(s) = n /\ \A j \in 1 .. n : s[j][2] \in 1 .. 16
  BY DEF Structure
<1>2. Offset(s, 1) = 0 /\ \A j \in 1 .. n : j # 1 => Offset(s, j) = Offset(s, j - 1) + s[j - 1][2]
  <2>1. n \in Nat \ {0} /\ \A j \in 1 .. n : s[j][2] \in Nat
    <3>1. ASSUME NEW j \in 1 .. n PROVE s[j][2] \in Nat
      <4>1. s[j][2] \in 1 .. 16
        BY <1>1, Zenon
      <4> QED  BY <4>1
    <3> QED  BY <3>1
  <2> QED  BY <1>1, <2>1, Offsets, Zenon
<1> DEFINE S == {m \in Nat : m + 1 \in 1 .. n => Offset(s, m + 1) \in Nat /\ Offset(s, m + 1) <= 16 * m}
<1>3. 0 \in S
  BY <1>2
<1>4. ASSUME NEW m \in Nat, m \in S PROVE m + 1 \in S
  <2>1. CASE m + 2 \in 1 .. n
    <3>1. m + 1 \in 1 .. n /\ m + 2 # 1 /\ (m + 2) - 1 = m + 1 /\ (m + 1) + 1 = m + 2
      BY <1>1, <2>1
    <3>2. Offset(s, m + 2) = Offset(s, m + 1) + s[m + 1][2] /\ s[m + 1][2] \in 1 .. 16
      BY <1>1, <1>2, <2>1, <3>1
    <3>3. Offset(s, m + 1) \in Nat /\ Offset(s, m + 1) <= 16 * m
      BY <1>4, <3>1
    <3> QED  BY <3>1, <3>2, <3>3
  <2> QED  BY <2>1
<1> HIDE DEF S
<1>5. Nat \subseteq S
  BY <1>3, <1>4, NatInduct
<1>6. k - 1 \in Nat /\ k - 1 \in S /\ (k - 1) + 1 = k /\ k \in 1 .. n
  BY <1>1, <1>5
<1>7. Offset(s, k) \in Nat /\ Offset(s, k) <= 16 * (k - 1)
  BY <1>6 DEF S
<1>8. s[k][2] \in 1 .. 16 /\ k \in 1 .. 22
  <2>1. s[k][2] \in 1 .. 16
    BY <1>1, <1>6, Zenon
  <2> QED  BY <1>6, <2>1
<1> HIDE <1>1
<1> QED  BY <1>7, <1>8

\* Where a structure may lie.
Extent(d) == Addr[d] .. Addr[d] + 1407
LastWord(d, k) == RegAddr(d, k) + 4 * Layout[d][k][2] - 1

Partners(d, e) == {d, e} = {"QA7", "LOCAL_TIMER"}
Far(d, e) == Addr[d] + 1407 < Addr[e] \/ Addr[e] + 1407 < Addr[d]

Low(a) == a \in Nat /\ a >= 1056964608 /\ a <= 1073805952 /\ a % 4 = 0

LEMMA Bases ==
  /\ \A d \in Device : Low(Addr[d])
  /\ \A d, e \in Device : d # e /\ ~Partners(d, e) => Far(d, e)
<1>1. /\ Addr["QA7"] = 1073741824 /\ Addr["LOCAL_TIMER"] = 1073741860 /\ Addr["SYS_TIMER"] = 1056976896
      /\ Addr["AUX"] = 1059147776 /\ Addr["GPIO"] = 1059061760 /\ Addr["MAILBOX"] = 1057011840 /\ Addr["IRQ"] = 1057010176
  BY SMT DEF Addr, PBASE
<1>2. Device = {"QA7", "LOCAL_TIMER", "SYS_TIMER", "AUX", "GPIO", "MAILBOX", "IRQ"}
  BY SMT DEF Device, Addr
<1>3. ASSUME NEW d \in Device PROVE Low(Addr[d])
  <2>1. Addr[d] \in {1073741824, 1073741860, 1056976896, 1059147776, 1059061760, 1057011840, 1057010176}
    BY <1>1, <1>2, SMT
  <2> DEFINE a == Addr[d]
  <2> HIDE DEF a
  <2>2. a \in {1073741824, 1073741860, 1056976896, 1059147776, 1059061760, 1057011840, 1057010176}
    BY <2>1, SMT DEF a
  <2>3. Low(a)
    BY <2>2, SMT DEF Low
  <2> QED  BY <2>3 DEF a
<1>4. ASSUME NEW d \in Device, NEW e \in Device, d # e, ~Partners(d, e) PROVE Far(d, e)
  BY <1>1, <1>2, <1>4, SMT DEF Partners, Far
<1> QED  BY <1>3, <1>4

LEMMA Placed ==
  ASSUME NEW d \in Device, NEW k \in DOMAIN Layout[d]
  PROVE  /\ RegAddr(d, k) \in Extent(d) /\ LastWord(d, k) \in Extent(d)
         /\ RegAddr(d, k) % 4 = 0
         /\ \A shift \in ShiftBeyond : Walk(RegAddr(d, k), shift) = [pa |-> RegAddr(d, k), type |-> DeviceType(shift)]
<1> DEFINE at == RegAddr(d, k)   o == Offset(Layout[d], k)   n == Layout[d][k][2]
<1>1. o \in Nat /\ n \in 1 .. 16 /\ o + n <= 352
  BY Structures, Bounded, SMT
<1>2. at = Addr[d] + 4 * o /\ LastWord(d, k) = at + 4 * n - 1
  BY SMT DEF RegAddr, LastWord
<1> DEFINE base == Addr[d]
<1>3. Low(base)
  BY Bases, SMT
<1> HIDE DEF at, o, n, base
<1>4. base \in Nat /\ at = base + 4 * o /\ base % 4 = 0 /\ base >= 1056964608 /\ base <= 1073807359 - 1407
  <2>1. at = base + 4 * o
    BY <1>2, SMT DEF base
  <2> QED  BY <1>1, <1>3, <2>1, SMT DEF Low
<1>5. at \in base .. base + 1407 /\ at + 4 * n - 1 \in base .. base + 1407 /\ at % 4 = 0
  BY <1>1, <1>4, SMT
<1>6. at \in Address /\ at \in PBASE .. LastMmio
  <2>1. NumTables * NumEntries * PageSize - 1 = 1610612735
    BY SMT DEF NumTables, NumEntries, PageSize
  <2>2. at \in Nat /\ at >= 1056964608 /\ at <= 1073807359
    BY <1>4, <1>5, SMT
  <2> DEFINE top == NumTables * NumEntries * PageSize - 1
  <2>3. top \in Int /\ at <= top
    BY <2>1, <2>2, SMT
  <2> HIDE DEF top
  <2>4. at \in 0 .. top
    BY <2>2, <2>3
  <2>5. PBASE \in Int /\ LastMmio \in Int /\ PBASE <= at /\ at <= LastMmio
    BY <2>2, SMT DEF PBASE, LastMmio
  <2> QED  BY <2>2, <2>4, <2>5 DEF Address, top
<1>7. ASSUME NEW shift \in ShiftBeyond PROVE Walk(at, shift) = [pa |-> at, type |-> DeviceType(shift)]
  BY <1>6, IdentityMap, SMT
<1> QED  BY <1>2, <1>5, <1>7, SMT DEF at, Extent, base

\* Structures of two devices have no register in common, but for the local timer, which is a part of QA7.
LEMMA Distinct ==
  ASSUME NEW d \in Device, NEW k \in DOMAIN Layout[d], NEW e \in Device, NEW j \in DOMAIN Layout[e], d # e, ~Partners(d, e)
  PROVE  (RegAddr(d, k) .. LastWord(d, k)) \cap (RegAddr(e, j) .. LastWord(e, j)) = {}
<1>1. /\ RegAddr(d, k) \in Extent(d) /\ LastWord(d, k) \in Extent(d)
      /\ RegAddr(e, j) \in Extent(e) /\ LastWord(e, j) \in Extent(e)
  BY Placed, SMT
<1> DEFINE a == RegAddr(d, k)   b == LastWord(d, k)   c == RegAddr(e, j)   f == LastWord(e, j)   p == Addr[d]   q == Addr[e]
<1>2. p + 1407 < q \/ q + 1407 < p
  <2>1. Far(d, e)
    BY Bases, SMT
  <2> QED  BY <2>1, SMT DEF Far
<1>3. p \in Int /\ q \in Int
  <2>1. Low(Addr[d]) /\ Low(Addr[e])
    BY Bases, SMT
  <2> QED  BY <2>1, SMT DEF Low, p, q
<1>4. a \in p .. p + 1407 /\ b \in p .. p + 1407 /\ c \in q .. q + 1407 /\ f \in q .. q + 1407
  BY <1>1, SMT DEF Extent
<1> HIDE DEF a, b, c, f, p, q
<1>5. (a .. b) \cap (c .. f) = {}
  BY <1>2, <1>3, <1>4, SMT
<1> QED  BY <1>5, SMT DEF a, b, c, f

\* Four registers of the local timer are registers of QA7 (regstruct.h).
LEMMA SameRegister ==
  /\ RegAddr("LOCAL_TIMER", 1) = RegAddr("QA7", 10) /\ RegAddr("LOCAL_TIMER", 3) = RegAddr("QA7", 14)
  /\ RegAddr("LOCAL_TIMER", 4) = RegAddr("QA7", 15) /\ RegAddr("LOCAL_TIMER", 6) = RegAddr("QA7", 17)
<1>1. \A i \in 1 .. 17 : Offset(QA7Registers, i) = i - 1
  <2> DEFINE s == QA7Registers
             S == {m \in Nat : m + 1 \in 1 .. 17 => Offset(s, m + 1) = m}
  <2>1. DOMAIN s = 1 .. 22 /\ (\A k \in 1 .. 22 : s[k][2] \in Nat) /\ (\A k \in 1 .. 16 : s[k][2] = 1)
    BY DEF QA7Registers
  <2> HIDE DEF s
  <2>2. Offset(s, 1) = 0 /\ \A k \in 1 .. 22 : k # 1 => Offset(s, k) = Offset(s, k - 1) + s[k - 1][2]
    <3>1. 22 \in Nat \ {0}
      OBVIOUS
    <3> QED  BY <2>1, <3>1, Offsets, Zenon
  <2>3. 0 \in S
    BY <2>2
  <2>4. ASSUME NEW m \in Nat, m \in S PROVE m + 1 \in S
    <3>1. CASE m + 2 \in 1 .. 17
      <4>1. m + 2 \in 1 .. 22 /\ m + 2 # 1 /\ (m + 2) - 1 = m + 1 /\ m + 1 \in 1 .. 16 /\ (m + 1) + 1 = m + 2 /\ m + 1 \in 1 .. 17
        BY <3>1
      <4>2. Offset(s, m + 2) = Offset(s, m + 1) + s[m + 1][2] /\ s[m + 1][2] = 1
        BY <2>1, <2>2, <4>1
      <4> QED  BY <2>4, <4>1, <4>2
    <3> QED  BY <3>1
  <2> HIDE DEF S
  <2>5. Nat \subseteq S
    BY <2>3, <2>4, NatInduct
  <2>6. ASSUME NEW i \in 1 .. 17 PROVE Offset(s, i) = i - 1
    <3>1. i - 1 \in S /\ (i - 1) + 1 = i
      BY <2>5
    <3> QED  BY <3>1 DEF S
  <2> QED  BY <2>6 DEF s
<1>2. /\ Offset(LocalTimer, 1) = 0 /\ Offset(LocalTimer, 3) = 4 /\ Offset(LocalTimer, 4) = 5 /\ Offset(LocalTimer, 6) = 7
  <2> DEFINE s == LocalTimer
  <2>1. DOMAIN s = 1 .. 9 /\ (\A k \in 1 .. 9 : s[k][2] \in Nat)
    BY DEF LocalTimer
  <2>2. s[1][2] = 1 /\ s[2][2] = 3 /\ s[3][2] = 1 /\ s[4][2] = 1 /\ s[5][2] = 1 /\ s[6][2] = 1 /\ s[7][2] = 1
    BY DEF LocalTimer
  <2> HIDE DEF s
  <2>3. Offset(s, 1) = 0 /\ \A k \in 1 .. 9 : k # 1 => Offset(s, k) = Offset(s, k - 1) + s[k - 1][2]
    <3>1. 9 \in Nat \ {0}
      OBVIOUS
    <3> QED  BY <2>1, <3>1, Offsets, Zenon
  <2>4. /\ Offset(s, 2) = Offset(s, 1) + s[1][2] /\ Offset(s, 3) = Offset(s, 2) + s[2][2]
        /\ Offset(s, 4) = Offset(s, 3) + s[3][2] /\ Offset(s, 5) = Offset(s, 4) + s[4][2]
        /\ Offset(s, 6) = Offset(s, 5) + s[5][2]
    BY <2>3
  <2>5. Offset(s, 3) = 4 /\ Offset(s, 4) = 5 /\ Offset(s, 6) = 7
    BY <2>2, <2>3, <2>4
  <2> QED  BY <2>3, <2>5 DEF s
<1> QED  BY <1>1, <1>2, SMT DEF RegAddr, Addr, Layout

LEMMA AccessKept == ASSUME Access PROVE DevicesApart'
<1>0. PICK d \in Device, shift \in ShiftBeyond : \E k \in 1 .. Len(Layout[d]) :
        Return([op |-> "access", d |-> d, k |-> k, shift |-> shift], [at |-> RegAddr(d, k), seen |-> Walk(RegAddr(d, k), shift)])
  BY DEF Access
<1>1. PICK k \in 1 .. Len(Layout[d]) :
        Return([op |-> "access", d |-> d, k |-> k, shift |-> shift], [at |-> RegAddr(d, k), seen |-> Walk(RegAddr(d, k), shift)])
  BY <1>0
<1>2. k \in DOMAIN Layout[d]
  <2>1. Structure(Layout[d])
    BY Structures
  <2> QED  BY <2>1 DEF Structure
<1> DEFINE at == RegAddr(d, k)
<1>3. call'.d = d /\ call'.k = k /\ call'.shift = shift /\ res'.v.at = at /\ res'.v.seen = Walk(at, shift)
  BY <1>1 DEF Return
<1>4. Walk(at, shift) = [pa |-> at, type |-> DeviceType(shift)] /\ at % 4 = 0 /\ DeviceType("fold") = 0
  BY <1>2, Placed DEF DeviceType
<1>5. ASSUME NEW e \in Device \ {d}, NEW j \in 1 .. 22, j \in DOMAIN Layout[e],
             (RegAddr(e, j) .. LastWord(e, j)) \cap (RegAddr(d, k) .. LastWord(d, k)) # {}
      PROVE  Partners(e, d)
  BY <1>2, <1>5, Distinct
<1> DEFINE Pairs == {<<"routing", "local_interrupt_0_routing">>, <<"control_status", "local_timer_ctrl_and_status">>,
                    <<"set_clear_reload", "local_timer_write_flags">>, <<"timer_control_core0", "core_timer_interrupt_control">>}
           QA7Field(name) == CHOOSE i \in DOMAIN QA7Registers : QA7Registers[i][1] = name
<1>6. ASSUME NEW p \in Pairs, d = "LOCAL_TIMER", LocalTimer[k][1] = p[1] PROVE at = RegAddr("QA7", QA7Field(p[2]))
  <2>1. /\ QA7Field("local_interrupt_0_routing") = 10 /\ QA7Field("local_timer_ctrl_and_status") = 14
        /\ QA7Field("local_timer_write_flags") = 15 /\ QA7Field("core_timer_interrupt_control") = 17
    BY SMTT(40) DEF QA7Registers
  <2>2. k \in 1 .. 9
    BY <1>2, <1>6 DEF Layout, LocalTimer
  <2>3. /\ LocalTimer[k][1] = "routing" => k = 1 
        /\ LocalTimer[k][1] = "control_status" => k = 3
        /\ LocalTimer[k][1] = "set_clear_reload" => k = 4
        /\ LocalTimer[k][1] = "timer_control_core0" => k = 6
    BY <2>2 DEF LocalTimer
  <2> HIDE DEF QA7Field
  <2> QED  BY <1>6, <2>1, <2>3, SameRegister
<1>7. call'.shift = "fold" => res'.v.seen.type = 0
  <2>1. CASE shift = "fold"
    BY <1>3, <1>4, <2>1
  <2>2. CASE shift = "modulo"
    BY <1>3, <2>2, Zenon
  <2> QED  BY <2>1, <2>2 DEF ShiftBeyond
<1>8. res'.v.seen.pa = res'.v.at /\ res'.v.at % 4 = 0 /\ call'.d = d /\ call'.k = k /\ res'.v.at = at
  BY <1>3, <1>4
<1> QED  BY <1>5, <1>6, <1>7, <1>8 DEF DevicesApart, LastWord, Partners

LEMMA SetFuncKept ==
  ASSUME SetFunc
  PROVE  \A p \in Pin : Field(res'.v[p \div 10], (p * 3) % 30) = (IF p = call'.pin THEN call'.func ELSE Field(call'.v, (p * 3) % 30))
<1>0. PICK v \in FuncSelect, pin \in Pin, func \in 0 .. 7 :
        Return([op |-> "gpio", v |-> v, pin |-> pin, func |-> func], gpio_pin_set_func([r \in 0 .. 5 |-> v], pin, func))
  BY DEF SetFunc
<1> DEFINE sel == [r \in 0 .. 5 |-> v]   new == gpio_pin_set_func(sel, pin, func)
<1>1. call'.v = v /\ call'.pin = pin /\ call'.func = func /\ res'.v = new
  BY <1>0 DEF Return
<1>2. sel \in [0 .. 5 -> Nat]
  BY FuncSelectAssumption
<1>3. ASSUME NEW p \in Pin PROVE sel[p \div 10] = v
  <2>1. p \div 10 \in 0 .. 5
    BY Pins
  <2> QED  BY <2>1
<1> HIDE DEF sel
<1>4. OnlyPin(new, sel, pin, func)
  BY <1>0, <1>2, PinSet
<1> HIDE DEF new
<1>5. ASSUME NEW p \in Pin PROVE Field(new[p \div 10], (p * 3) % 30) = IF p = pin THEN func ELSE Field(v, (p * 3) % 30)
  BY <1>3, <1>4 DEF OnlyPin
<1> QED  BY <1>1, <1>5

\* A call of a device routine leaves what it should.
LEMMA DeviceCalls ==
  ASSUME Access \/ SetFunc \/ InitUart \/ TakeException \/ Shade \/ Cell
  PROVE  RegistersCorrect'
<1>1. CASE Access
  <2>1. call'.op = "access"
    BY <1>1 DEF Access, Return
  <2> QED  BY <1>1, <2>1, AccessKept DEF RegistersCorrect, Is
<1>2. CASE SetFunc
  <2>1. call'.op = "gpio"
    BY <1>2 DEF SetFunc, Return
  <2> QED  BY <1>2, <2>1, SetFuncKept DEF RegistersCorrect, DevicesApart, Is
<1>3. CASE InitUart
  <2>1. PICK v \in FuncSelect :
          Return([op |-> "uart", v |-> v], <<uart_init([r \in 0 .. 5 |-> v]), uart_init_alt([r \in 0 .. 5 |-> v])>>)
    BY <1>3 DEF InitUart
  <2> DEFINE sel == [r \in 0 .. 5 |-> v]
  <2>2. call'.op = "uart" /\ res'.v[1] = uart_init(sel) /\ res'.v[2] = uart_init_alt(sel)
    BY <2>1 DEF Return
  <2>3. sel \in [0 .. 5 -> Nat]
    BY FuncSelectAssumption
  <2> HIDE DEF sel
  <2> QED  BY <2>2, <2>3, UartPins DEF RegistersCorrect, DevicesApart, Is
<1>4. CASE TakeException
  <2>1. PICK k \in 0 .. 15 : Return([op |-> "exception", k |-> k], VectorSlot(k))
    BY <1>4 DEF TakeException
  <2>2. call'.op = "exception" /\ call'.k = k /\ res'.v = VectorSlot(k)
    BY <2>1 DEF Return
  <2>3. VectorSlot(k) = [type |-> k] <=> k \notin {5, 15}
    <3>1. CASE k \notin {5, 15}
      BY <3>1 DEF VectorSlot
    <3>2. CASE k = 5
      <4>1. DOMAIN VectorSlot(k) = {"handler"} /\ DOMAIN [type |-> k] = {"type"}
        BY <3>2 DEF VectorSlot
      <4> QED  BY <3>2, <4>1
    <3>3. CASE k = 15
      <4>1. DOMAIN VectorSlot(k) = {"label"} /\ DOMAIN [type |-> k] = {"type"}
        BY <3>3 DEF VectorSlot
      <4> QED  BY <3>3, <4>1
    <3> QED  BY <3>1, <3>2, <3>3
  <2> QED  BY <2>2, <2>3 DEF RegistersCorrect, DevicesApart, Is
<1>5. CASE Shade
  <2>1. PICK color \in 0 .. 255 : Return([op |-> "wheel", color |-> color], wheel(color))
    BY <1>5 DEF Shade
  <2>2. call'.op = "wheel" /\ res'.v = wheel(color)
    BY <2>1 DEF Return
  <2>3. IsColour(wheel(color))
    BY <2>1, WheelColours
  <2> QED  BY <2>2, <2>3 DEF IsColour, RegistersCorrect, DevicesApart, Is
<1>6. CASE Cell
  <2>1. PICK c \in 0 .. 255 : Return([op |-> "glyph", c |-> c], Glyph(c))
    BY <1>6 DEF Cell
  <2>2. call'.op = "glyph" /\ call'.c = c /\ res'.v = Glyph(c)
    BY <2>1 DEF Return
  <2>3. ASSUME call'.c \in 32 .. 139
        PROVE  res'.v = {p \in fontmap_data : <<(p \div fontmap.width) \div char_height, (p % fontmap.width) \div char_width>>
                                                = <<(call'.c - 32) \div fontmap.cols, (call'.c - 32) % fontmap.cols>>}
    <3>1. Glyph(c) = CellOf(c)
      BY <2>2, <2>3, GlyphCells
    <3> QED  BY <2>2, <3>1 DEF CellOf
  <2> QED  BY <2>2, <2>3 DEF RegistersCorrect, DevicesApart, Is
<1> QED  BY <1>1, <1>2, <1>3, <1>4, <1>5, <1>6

\* The registers of the devices, the pins, the font and the colours as programs
\* find them, for whatever the function registers hold at reset (regstruct.h,
\* gpio.c, mini_uart.c, entry.S, gfx.c, fb.c); the last exception is the one that
\* nothing serves and that does not report its number.
THEOREM DevicesAreFound == Spec => []RegistersCorrect
<1>1. Init => RegistersCorrect
  BY DEF Init, LInit, Idle, RegistersCorrect, DevicesApart, Is
<1>2. ASSUME RegistersCorrect, [Next]_vars PROVE RegistersCorrect'
  <2>1. CASE UNCHANGED lvars
    <3>1. call' = call /\ res' = res
      BY <2>1 DEF lvars
    <3>2. DevicesApart'
      BY <1>2, <3>1, Zenon DEF RegistersCorrect, DevicesApart, Is
    <3> QED  BY <1>2, <3>1, <3>2 DEF RegistersCorrect, Is
  <2>2. CASE call'.op \notin {"access", "gpio", "uart", "exception", "wheel", "glyph"}
    BY <2>2 DEF RegistersCorrect, DevicesApart, Is
  <2> QED  BY <1>2, <2>1, <2>2, DeviceCalls, Calls
<1> QED  BY <1>1, <1>2, PTL DEF Spec
-----------------------------------------------------------------------------
\* One call of gcd, f being what the inner calls return.
Euclid(f) == [a \in Nat |-> [b \in Nat |-> IF a = 0 THEN b ELSE f[b % a][a]]]

LEMMA GcdCall ==
  \A a, b \in Nat : gcd[a][b] = (IF a = 0 THEN b ELSE gcd[b % a][a])
<1> DEFINE V == [Nat -> Nat]
           F == [Nat -> V]
           row(a, f) == [b \in Nat |-> IF a = 0 THEN b ELSE f[b % a][a]]
           H == [a \in Nat |-> [f \in F |-> row(a, f)]]
<1>1. ASSUME NEW a \in Nat, NEW f \in F PROVE row(a, f) \in V
  <2>1. ASSUME NEW b \in Nat, a # 0 PROVE f[b % a][a] \in Nat
    <3>1. b % a \in Nat
      BY <2>1
    <3> QED  BY <3>1
  <2> QED  BY <2>1
<1>2. ASSUME NEW a \in Nat, NEW f \in F, NEW g \in F, \A m \in Nat : m < a => f[m] = g[m]
      PROVE  row(a, f) = row(a, g)
  <2>1. ASSUME NEW b \in Nat, a # 0 PROVE f[b % a] = g[b % a]
    <3>1. b % a \in Nat /\ b % a < a
      BY <2>1
    <3> QED  BY <1>2, <3>1
  <2> QED  BY <2>1
<1> HIDE DEF row
<1>3. [a \in Nat |-> row(a, gcd)] = Euclid(gcd)
  BY Zenon DEF row, Euclid
<1>4. H \in [Nat -> [F -> V]] /\ \A a \in Nat, f \in F : H[a][f] = row(a, f)
  BY <1>1
<1> HIDE DEF H
<1>5. LooksBack(Nat, V, H)
  <2>1. ASSUME NEW n \in Nat, NEW g \in F, NEW h \in F, \A m \in Nat : m < n => g[m] = h[m]
        PROVE  H[n][g] = H[n][h]
    <3>1. row(n, g) = row(n, h)
      BY <1>2, <2>1
    <3> QED  BY <1>4, <3>1, Zenon
  <2> QED  BY <1>4, <2>1 DEF LooksBack
<1>6. PICK v0 \in V : TRUE
  <2>1. [b \in Nat |-> b] \in V
    OBVIOUS
  <2> QED  BY <2>1
<1> HIDE DEF V
<1>7. PICK f \in F : \A a \in Nat : f[a] = H[a][f]
  <2>1. PICK f : Solves(f, Nat, V, H)
    BY <1>5, <1>6, StrongRecursion
  <2> QED  BY <2>1 DEF Solves
<1>8. f = [a \in Nat |-> row(a, f)]
  BY <1>4, <1>7
<1>9. f = Euclid(f)
  BY <1>8, Zenon DEF row, Euclid
<1>10. gcd = Euclid(gcd)
  BY <1>9, Zenon DEF gcd, Euclid
<1>11. ASSUME NEW g, NEW a \in Nat, NEW b \in Nat, g = Euclid(g) PROVE g[a][b] = (IF a = 0 THEN b ELSE g[b % a][a])
  BY <1>11 DEF Euclid
<1> QED  BY <1>10, <1>11

LEMMA GcdFound == \A a, b \in Nat : IsGcd(gcd[a][b], a, b)
<1> DEFINE Bad == {a \in Nat : \E b \in Nat : ~IsGcd(gcd[a][b], a, b)}
<1>1. CASE Bad = {}
  BY <1>1
<1>2. CASE Bad # {}
  <2>1. PICK a \in Bad : \A m \in Bad : a <= m
    BY <1>2, Least
  <2>2. PICK b \in Nat : ~IsGcd(gcd[a][b], a, b)
    BY <2>1
  <2>3. CASE a = 0
    <3>1. gcd[a][b] = b
      BY <2>3, GcdCall
    <3> QED  BY <2>2, <2>3, <3>1, GcdZero
  <2>4. CASE a # 0
    <3>1. a \in Nat \ {0} /\ a \in Nat /\ b % a \in Nat /\ b % a < a
      BY <2>1, <2>4
    <3>2. b % a \notin Bad
      BY <2>1, <3>1
    <3>3. IsGcd(gcd[b % a][a], b % a, a)
      BY <3>1, <3>2
    <3>4. gcd[a][b] = gcd[b % a][a]
      BY <3>1, <2>4, GcdCall
    <3> QED  BY <2>2, <3>1, <3>3, <3>4, GcdRound
  <2> QED  BY <2>3, <2>4
<1> QED  BY <1>1, <1>2

\* The divisors of the properties.
LEMMA DivisorsAre ==
  ASSUME NEW n \in Nat \ {0}
  PROVE  /\ \A d \in Nat : d \in Divisors(n) <=> Div(d, n)
         /\ Divisors(n) \subseteq Nat \ {0}
         /\ \A d \in Nat : Divides(d, n) <=> Div(d, n)
<1>1. ASSUME NEW d \in Nat PROVE Divides(d, n) <=> Div(d, n)
  <2>1. ASSUME NEW q \in Nat, n = d * q PROVE q \in 0 .. n
    <3>1. d # 0 /\ q # 0
      BY <2>1
    <3>2. Div(q, n)
      <4>1. n = q * d
        BY <2>1
      <4> QED  BY <4>1, DivIntro
    <3> QED  BY <3>2, DivBound
  <2> QED  BY <2>1 DEF Divides, Div
<1>2. ASSUME NEW d \in Nat, Div(d, n) PROVE d \in 1 .. n
  BY <1>2, DivBound
<1> QED  BY <1>1, <1>2 DEF Divisors

LEMMA GcdGreatest ==
  ASSUME NEW a \in Nat \ {0}, NEW b \in Nat \ {0}
  PROVE  gcd[a][b] = Max(Divisors(a) \cap Divisors(b))
<1> DEFINE g == gcd[a][b]
           C == Divisors(a) \cap Divisors(b)
<1>1. IsGcd(g, a, b)
  BY GcdFound
<1> HIDE DEF g
<1>2. g \in Nat /\ Div(g, a) /\ Div(g, b) /\ \A d \in Nat : Div(d, a) /\ Div(d, b) => Div(d, g)
  BY <1>1 DEF IsGcd
<1>3. g \in C /\ C \subseteq Nat
  BY <1>2, DivisorsAre
<1>4. g # 0
  BY <1>2, DivBasic
<1>5. ASSUME NEW d \in C PROVE g >= d
  <2>1. d \in Nat /\ Div(d, a) /\ Div(d, b)
    BY DivisorsAre
  <2>2. Div(d, g) /\ g \in Nat \ {0}
    BY <1>2, <1>4, <2>1
  <2> QED  BY <2>1, <2>2, DivBound
<1> HIDE DEF C
<1>6. \E x \in C : \A y \in C : x >= y
  BY <1>3, <1>5
<1>7. PICK x \in C : x = Max(C) /\ \A y \in C : x >= y
  BY <1>6, Zenon DEF Max
<1>8. x >= g /\ g >= x /\ g \in Nat /\ x \in Nat
  BY <1>3, <1>5, <1>7
<1>9. g = Max(C)
  BY <1>7, <1>8
<1> QED  BY <1>9 DEF g, C

\* a and b through their greatest common divisor, and the least common multiple.
IsLcm(m, a, b) == m \in Nat \ {0} /\ Div(a, m) /\ Div(b, m) /\ \A k \in Nat : Div(a, k) /\ Div(b, k) => Div(m, k)

LEMMA LcmExists ==
  ASSUME NEW a \in Nat \ {0}, NEW b \in Nat \ {0}
  PROVE  \E m : IsLcm(m, a, b)
<1> DEFINE T == {m \in Nat \ {0} : Div(a, m) /\ Div(b, m)}
<1>1. a * b \in Nat \ {0} /\ Div(a, a * b) /\ Div(b, b * a) /\ b * a = a * b
  BY DivBasic, DivMult
<1>2. T \subseteq Nat /\ T # {}
  BY <1>1
<1>3. PICK m \in T : \A k \in T : m <= k
  BY <1>2, Least
<1>4. m \in Nat \ {0} /\ Div(a, m) /\ Div(b, m)
  BY <1>3
<1>5. ASSUME NEW k \in Nat, Div(a, k), Div(b, k) PROVE Div(m, k)
  <2>1. k % m \in 0 .. m - 1 /\ k % m \in Nat
    BY <1>4
  <2>2. Div(a, k % m) /\ Div(b, k % m)
    BY <1>4, <1>5, DivRemainder
  <2>3. k % m = 0
    <3>1. ASSUME k % m # 0 PROVE FALSE
      <4>1. k % m \in T
        BY <2>1, <2>2, <3>1
      <4> QED  BY <1>3, <2>1, <4>1
    <3> QED  BY <3>1
  <2> QED  BY <1>4, <2>3, DivMod
<1> QED  BY <1>4, <1>5 DEF IsLcm

LEMMA Cancel == ASSUME NEW k \in Nat \ {0}, NEW x \in Nat, NEW y \in Nat, k * x = k * y PROVE x = y
<1>1. \A i, j, n \in Nat : n # 0 /\ i < j => n * i < n * j
  OBVIOUS
<1> QED  BY <1>1

\* The product divided by the greatest common divisor is the least common
\* multiple, and so is a times b divided by it.
LEMMA LcmOfGcd ==
  ASSUME NEW a \in Nat \ {0}, NEW b \in Nat \ {0}, NEW g, IsGcd(g, a, b), NEW m, IsLcm(m, a, b)
  PROVE  g \in Nat \ {0} /\ a * b = g * m /\ m = a * (b \div g) /\ b \div g \in 1 .. b
<1>1. g \in Nat /\ Div(g, a) /\ Div(g, b) /\ \A d \in Nat : Div(d, a) /\ Div(d, b) => Div(d, g)
  BY DEF IsGcd
<1>2. m \in Nat \ {0} /\ Div(a, m) /\ Div(b, m) /\ \A k \in Nat : Div(a, k) /\ Div(b, k) => Div(m, k)
  BY DEF IsLcm
<1>3. g # 0
  BY <1>1, DivBasic
<1>4. PICK x \in Nat : a = g * x
  BY <1>1 DEF Div
<1>5. PICK y \in Nat : b = g * y
  BY <1>1 DEF Div
<1> DEFINE l == g * (x * y)
<1>6. l \in Nat /\ l = a * y /\ l = b * x /\ g * l = a * b
  <2>1. x * y \in Nat
    OBVIOUS
  <2>2. g * (x * y) = (g * x) * y /\ g * (x * y) = (g * y) * x
    BY <1>1
  <2>3. g * (g * (x * y)) = (g * x) * (g * y)
    BY <1>1
  <2> QED  BY <1>1, <1>4, <1>5, <2>1, <2>2, <2>3
<1> HIDE DEF l
\* m divides the common multiple l.
<1>7. Div(m, l)
  <2>1. Div(a, l) /\ Div(b, l)
    BY <1>6, DivIntro
  <2> QED  BY <1>2, <1>6, <2>1
\* What is left of the product divides a and b, and therefore g.
<1>8. PICK q \in Nat : a * b = m * q
  <2>1. a * b \in Nat /\ Div(a, a * b) /\ Div(b, b * a) /\ b * a = a * b
    BY DivBasic, DivMult
  <2>2. Div(m, a * b)
    BY <1>2, <2>1
  <2> QED  BY <2>2 DEF Div
<1>9. Div(q, g)
  <2>1. PICK u \in Nat : m = a * u
    BY <1>2 DEF Div
  <2>2. PICK v \in Nat : m = b * v
    BY <1>2 DEF Div
  <2>3. a * b = a * (q * u) /\ b * a = b * (q * v) /\ q * u \in Nat /\ q * v \in Nat
    BY <1>8, <2>1, <2>2
  <2>4. b = q * u /\ a = q * v
    BY <2>3, Cancel
  <2>5. Div(q, b) /\ Div(q, a)
    BY <2>4, DivIntro
  <2> QED  BY <1>1, <2>5
<1>10. l = m
  <2>1. PICK t \in Nat : l = m * t
    BY <1>7 DEF Div
  <2>2. PICK k \in Nat : g = q * k
    BY <1>9 DEF Div
  <2>3. (m * q) * 1 = (m * q) * (t * k) /\ m * q \in Nat \ {0} /\ t * k \in Nat
    <3>1. (q * k) * (m * t) = (m * q) * (t * k)
      BY <1>2
    <3>2. a * b \in Nat \ {0}
      OBVIOUS
    <3>3. m * q = (q * k) * (m * t)
      BY <1>6, <1>8, <2>1, <2>2
    <3>4. (m * q) * 1 = m * q
      BY <1>2
    <3>5. m * q \in Nat \ {0}
      BY <3>2, <1>8
    <3> QED  BY <3>1, <3>3, <3>4, <3>5
  <2>4. 1 = t * k
    BY <2>3, Cancel
  <2>5. t = 1
    <3>1. Div(t, 1)
      BY <2>4, DivIntro
    <3> QED  BY <3>1, DivBound
  <2> QED  BY <2>1, <2>5, <1>2
<1>11. b \div g = y /\ y \in 1 .. b
  <2>1. (g * y) \div g = y
    BY <1>1, <1>3
  <2>2. b = y * g
    BY <1>5, <1>1
  <2>3. Div(y, b)
    BY <2>2, <1>1, DivIntro
  <2> QED  BY <1>5, <2>1, <2>3, DivBound
<1> QED  BY <1>1, <1>3, <1>6, <1>10, <1>11

LEMMA MinIs ==
  ASSUME NEW S, S \subseteq Nat, NEW x \in S, \A y \in S : x <= y
  PROVE  Min(S) = x
<1>1. PICK m \in S : m = Min(S) /\ \A y \in S : m <= y
  BY Zenon DEF Min
<1>2. x <= m /\ m <= x /\ x \in Nat /\ m \in Nat
  BY <1>1
<1> QED  BY <1>1, <1>2

LEMMA MultiplesFound ==
  ASSUME NEW a \in Nat, NEW b \in Nat
  PROVE  LET v == Multiples(a, b)
         IN /\ a * b # 0 => v.gcd = Max(Divisors(a) \cap Divisors(b))
            /\ a * b \in ULong \ {0} => v.lcm = Min({m \in 1 .. a * b : Divides(a, m) /\ Divides(b, m)})
            /\ a * b # 0 => v.ord = Min({k \in 1 .. b : (a * k) % b = 0})
            /\ a * b = 0 => v.gcd = a + b /\ v.lcm = 0
<1> DEFINE g == gcd[a][b]
<1>1. Multiples(a, b) = [gcd |-> g, lcm |-> UDiv(ToULong(a * b), g), ord |-> IF a = 0 THEN 1 ELSE b \div g]
  BY Zenon DEF Multiples, lcm, ord
<1>2. IsGcd(g, a, b) /\ g \in Nat
  BY GcdFound DEF IsGcd
<1>3. CASE a = 0 \/ b = 0
  <2>1. a * b = 0
    BY <1>3
  <2>2. g = a + b
    <3>1. CASE a = 0
      BY <3>1, GcdCall
    <3>2. CASE a # 0
      <4>1. b = 0 /\ b % a = 0
        BY <1>3, <3>2
      <4>2. gcd[a][b] = gcd[0][a]
        BY <3>2, <4>1, GcdCall
      <4>3. gcd[0][a] = a
        BY GcdCall
      <4> QED  BY <4>1, <4>2, <4>3
    <3> QED  BY <3>1, <3>2
  <2> HIDE DEF g
  <2>3. ToULong(0) = 0
    BY PowerAssumption, WidthAssumption DEF ToULong
  <2>4. UDiv(0, g) = 0
    BY <1>2 DEF UDiv
  <2> QED  BY <1>1, <2>1, <2>2, <2>3, <2>4
<1>4. CASE a # 0 /\ b # 0
  <2>1. PICK m : IsLcm(m, a, b)
    BY <1>4, LcmExists
  <2>2. g \in Nat \ {0} /\ a * b = g * m /\ m = a * (b \div g) /\ b \div g \in 1 .. b
    BY <1>2, <1>4, <2>1, LcmOfGcd
  <2>3. m \in Nat \ {0} /\ Div(a, m) /\ Div(b, m) /\ \A k \in Nat : Div(a, k) /\ Div(b, k) => Div(m, k)
    BY <2>1 DEF IsLcm
  <2>4. g = Max(Divisors(a) \cap Divisors(b))
    BY <1>4, GcdGreatest
  <2>5. a * b # 0
    BY <1>4
  <2> HIDE DEF g
  <2>6. ASSUME a * b \in ULong PROVE UDiv(ToULong(a * b), g) = m
    <3>1. ToULong(a * b) = a * b
      <4> DEFINE p == a * b
                 w == 2^LongBits
      <4>1. p \in 0 .. w - 1 /\ w \in Nat
        BY <2>6, PowerAssumption DEF ULong
      <4> HIDE DEF p, w
      <4>2. p % w = p
        BY <4>1
      <4> QED  BY <4>2 DEF p, w, ToULong
    <3>2. (g * m) \div g = m
      BY <2>2, <2>3
    <3> QED  BY <2>2, <3>1, <3>2 DEF UDiv
  <2>7. m = Min({k \in 1 .. a * b : Divides(a, k) /\ Divides(b, k)})
    <3> DEFINE S == {k \in 1 .. a * b : Divides(a, k) /\ Divides(b, k)}
    <3>1. m <= a * b
      <4>1. Div(a, a * b) /\ Div(b, b * a) /\ b * a = a * b /\ a * b \in Nat \ {0}
        BY <2>5, DivBasic, DivMult
      <4>2. Div(m, a * b)
        BY <2>3, <4>1
      <4> QED  BY <2>3, <4>1, <4>2, DivBound
    <3>2. m \in S
      BY <2>3, <3>1, DivisorsAre
    <3>3. ASSUME NEW k \in S PROVE m <= k
      <4>1. k \in Nat \ {0} /\ Div(a, k) /\ Div(b, k)
        BY DivisorsAre
      <4> QED  BY <2>3, <4>1, DivBound
    <3>4. S \subseteq Nat
      OBVIOUS
    <3> HIDE DEF S
    <3>5. Min(S) = m
      BY <3>2, <3>3, <3>4, MinIs
    <3> QED  BY <3>5 DEF S
  <2>8. b \div g = Min({k \in 1 .. b : (a * k) % b = 0})
    <3> DEFINE S == {k \in 1 .. b : (a * k) % b = 0}
               y == b \div g
    <3>1. y \in 1 .. b /\ m = a * y
      BY <2>2
    <3> HIDE DEF y
    <3>2. m % b = 0
      BY <1>4, <2>3, DivMod
    <3>3. y \in S
      BY <3>1, <3>2
    <3>4. ASSUME NEW k \in S PROVE y <= k
      <4>1. k \in 1 .. b /\ a * k \in Nat /\ (a * k) % b = 0
        OBVIOUS
      <4>2. Div(b, a * k) /\ Div(a, a * k)
        BY <1>4, <4>1, DivMod, DivIntro
      <4>3. a * k # 0
        BY <1>4, <4>1
      <4>4. m <= a * k
        BY <2>3, <4>1, <4>2, <4>3, DivBound
      <4>5. \A i, j, n \in Nat : n # 0 /\ i < j => n * i < n * j
        OBVIOUS
      <4>6. ~(k < y)
        BY <1>4, <3>1, <4>1, <4>4, <4>5
      <4> QED  BY <3>1, <4>1, <4>6
    <3>5. S \subseteq Nat
      OBVIOUS
    <3> HIDE DEF S
    <3>6. Min(S) = y
      BY <3>3, <3>4, <3>5, MinIs
    <3> QED  BY <3>6 DEF S, y
  <2> QED  BY <1>1, <1>4, <2>4, <2>5, <2>6, <2>7, <2>8
<1> QED  BY <1>3, <1>4

\* x is a square root rounded down: it exists.
LEMMA RootExists ==
  ASSUME NEW n \in Nat
  PROVE  \E r \in Nat : r <= n /\ IsSqrt(r, n)
<1> DEFINE T == {i \in Nat : i * i > n}
<1>1. T \subseteq Nat /\ n + 1 \in T
  <2>1. (n + 1) * (n + 1) = n * n + 2 * n + 1 /\ n * n \in Nat
    OBVIOUS
  <2> QED  BY <2>1
<1>2. PICK t \in T : \A i \in T : t <= i
  BY <1>1, Least
<1>3. t \in Nat /\ t * t > n /\ t <= n + 1
  BY <1>1, <1>2
<1>4. t # 0
  BY <1>3
<1>5. t - 1 \in Nat /\ t - 1 \notin T
  BY <1>2, <1>3, <1>4
<1>6. (t - 1) * (t - 1) <= n
  <2> DEFINE r == t - 1
  <2>1. r \in Nat /\ ~(r * r > n)
    BY <1>5
  <2>2. r * r \in Nat
    BY <2>1
  <2> HIDE DEF r
  <2>3. r * r <= n
    BY <2>1, <2>2
  <2> QED  BY <2>3 DEF r
<1> WITNESS t - 1 \in Nat
<1>7. t - 1 + 1 = t
  BY <1>3
<1> QED  BY <1>3, <1>6, <1>7 DEF IsSqrt

LEMMA SquareGrows == \A i, j \in Nat : i <= j => i * i <= j * j
<1> TAKE i, j \in Nat
<1> HAVE i <= j
<1>1. \A x, y, n \in Nat : x <= y => n * x <= n * y
  OBVIOUS
<1>2. i * i <= i * j /\ j * i <= j * j /\ i * j = j * i /\ i * i \in Nat /\ j * j \in Nat /\ i * j \in Nat
  BY <1>1
<1> QED  BY <1>2

\* floor_sqrt is right for every argument that is an int.
LEMMA SqrtFound == ASSUME NEW n \in PosInt PROVE floor_sqrt(n) \in Nat /\ IsSqrt(floor_sqrt(n), n)
<1> DEFINE h == 2^(IntBits - 1)
           w == 2^IntBits
           l == 2^LongBits
<1>1. h \in Nat /\ w \in Nat /\ l \in Nat /\ 8 <= h /\ w = 2 * h /\ w <= l
  BY PowerAssumption
<1>2. n \in Nat /\ n < h
  BY <1>1 DEF PosInt
<1> HIDE DEF h, w, l
<1>3. CASE n \in {0, 1}
  BY <1>3 DEF floor_sqrt, IsSqrt
<1>4. CASE n \notin {0, 1}
  <2>1. PICK r \in Nat : r <= n /\ IsSqrt(r, n)
    BY <1>2, RootExists
  <2>2. r * r <= n /\ n < (r + 1) * (r + 1) /\ r \in Nat
    BY <2>1 DEF IsSqrt
  <2>3. r # 0 /\ r < n
    <3>1. r # 0
      BY <1>2, <1>4, <2>2
    <3>2. ASSUME r = n PROVE FALSE
      <4>1. n * n <= n /\ n \in Nat /\ n > 1
        BY <1>2, <1>4, <2>2, <3>2
      <4>2. \A i, j, k \in Nat : i < j /\ k > 0 => k * i < k * j
        OBVIOUS
      <4>3. n * 1 < n * n /\ n * 1 = n
        BY <4>1, <4>2
      <4>4. n * n \in Nat
        BY <4>1
      <4> QED  BY <4>1, <4>3, <4>4
    <3> QED  BY <1>2, <2>1, <3>1, <3>2
  <2> DEFINE Stop(i) == ToULong(ToInt(i * i)) > n
             S == {i \in PosInt \ {0} : Stop(i)}
  \* A square that is not above n is not cut.
  <2>4. ASSUME NEW i \in Nat, i <= r PROVE ~Stop(i)
    <3>1. i * i \in Nat /\ i * i <= n
      <4>1. i * i <= r * r /\ i * i \in Nat /\ r * r \in Nat
        BY <2>4, SquareGrows
      <4> QED  BY <1>2, <2>2, <4>1
    <3> DEFINE p == i * i
    <3>2. p \in Nat /\ p <= n
      BY <3>1
    <3> HIDE DEF p
    <3>3. p % w = p /\ p % l = p /\ p \in 0 .. h - 1
      BY <1>1, <1>2, <3>2
    <3>4. ToInt(p) = p
      BY <3>3, Zenon DEF ToInt, ToUInt, w, h, PosInt
    <3>5. ToULong(p) = p
      BY <3>3 DEF ToULong, l
    <3>6. ToULong(ToInt(p)) = p
      BY <3>4, <3>5
    <3> QED  BY <1>2, <3>2, <3>6 DEF p
  \* The next is above n, or cut to a negative int, which is a large u64.
  <2>5. Stop(r + 1)
    <3> DEFINE p == (r + 1) * (r + 1)
    <3>1. p \in Nat /\ n < p /\ p < w
      <4>1. p = r * r + 2 * r + 1 /\ r * r \in Nat /\ p \in Nat
        OBVIOUS
      <4>2. CASE r = 1
        <5>1. p = 4
          BY <4>2
        <5> QED  BY <1>1, <2>2, <5>1
      <4>3. CASE r # 1
        <5>1. r * r >= 2 * r
          <6>1. \A x, y, k \in Nat : x <= y => k * x <= k * y
            OBVIOUS
          <6>2. r * 2 <= r * r /\ r * 2 = 2 * r
            BY <2>3, <4>3, <6>1
          <6> QED  BY <6>2
        <5> QED  BY <1>1, <1>2, <2>2, <4>1, <5>1
      <4> QED  BY <4>2, <4>3
    <3> HIDE DEF p
    <3>2. p % w = p
      BY <1>1, <3>1
    <3>3. ToUInt(p) = p
      BY <3>2 DEF ToUInt, w
    <3>4. CASE p < h
      <4>1. p \in PosInt
        BY <1>1, <3>1, <3>4 DEF PosInt, h
      <4>2. ToInt(p) = p
        BY <3>3, <4>1 DEF ToInt
      <4>3. p % l = p
        BY <1>1, <3>1
      <4>4. ToULong(p) = p
        BY <4>3 DEF ToULong, l
      <4> QED  BY <3>1, <4>2, <4>4 DEF p
    <3>5. CASE p >= h
      <4>1. p \notin PosInt
        BY <1>1, <3>1, <3>5 DEF PosInt, h
      <4>2. ToInt(p) = p - w
        BY <3>3, <4>1 DEF ToInt, w
      <4>3. (p - w) % l > n
        <5> DEFINE k == p - w
        <5>1. k \in Int /\ k < 0 /\ -h <= k
          BY <1>1, <3>1, <3>5
        <5> HIDE DEF k
        <5>2. k % l = k + l
          <6>1. 0 <= k + l /\ k + l < l /\ k = l * (-1) + (k + l) /\ l > 0
            BY <1>1, <5>1
          <6> QED  BY <1>1, <5>1, <6>1
        <5>3. k % l > n
          BY <1>1, <1>2, <5>1, <5>2
        <5> QED  BY <5>3 DEF k
      <4> QED  BY <4>2, <4>3 DEF p, ToULong, l
    <3> QED  BY <1>1, <3>1, <3>4, <3>5
  <2>6. r + 1 \in S /\ S \subseteq Nat
    <3>1. r + 1 \in PosInt \ {0}
      BY <1>1, <1>2, <2>2, <2>3 DEF PosInt, h
    <3> QED  BY <1>1, <2>5, <3>1 DEF PosInt
  <2>7. \A i \in S : r + 1 <= i
    BY <2>2, <2>4, <2>6
  <2>8. FirstAbove(n) = Min(S)
    BY Zenon DEF FirstAbove
  <2> HIDE DEF S
  <2>9. FirstAbove(n) = r + 1
    BY <2>6, <2>7, <2>8, MinIs
  <2>10. floor_sqrt(n) = r
    BY <1>4, <2>2, <2>9 DEF floor_sqrt
  <2> QED  BY <2>1, <2>10
<1> QED  BY <1>3, <1>4

-----------------------------------------------------------------------------
\* f[i] is the product of the first i numbers of s.
Products(f, s) == f \in [0 .. Len(s) -> Nat] /\ f[0] = 1 /\ \A i \in 1 .. Len(s) : f[i] = f[i - 1] * s[i]
Multiplies(s, n) == s \in Seq(Nat) /\ \E f : Products(f, s) /\ f[Len(s)] = n

LEMMA ProductIs == ASSUME NEW s, NEW n, Multiplies(s, n) PROVE Product(s) = n
<1> DEFINE Loop(f) == [i \in 0 .. Len(s) |-> IF i = 0 THEN 1 ELSE f[i - 1] * s[i]]
           of == CHOOSE f : f = Loop(f)
<1>1. PICK f : Products(f, s) /\ f[Len(s)] = n
  BY DEF Multiplies
<1>2. Len(s) \in Nat
  BY DEF Multiplies
<1>3. f = Loop(f)
  <2>1. f \in [0 .. Len(s) -> Nat] /\ \A i \in 0 .. Len(s) : f[i] = IF i = 0 THEN 1 ELSE f[i - 1] * s[i]
    BY <1>1, <1>2 DEF Products
  <2> QED  BY <2>1
<1>4. of = Loop(of)
  BY <1>3, Zenon
<1>5. Product(s) = of[Len(s)]
  BY Zenon DEF Product
<1> HIDE DEF of
<1>6. \A i \in 0 .. Len(s) : of[i] = IF i = 0 THEN 1 ELSE of[i - 1] * s[i]
  BY <1>4
<1> DEFINE T == {i \in 0 .. Len(s) : of[i] # f[i]}
<1>7. T = {}
  <2>1. SUFFICES ASSUME T # {} PROVE FALSE
    OBVIOUS
  <2>2. T \subseteq Nat
    OBVIOUS
  <2>3. PICK i \in T : \A j \in T : i <= j
    BY <2>1, <2>2, Least
  <2>4. i # 0
    BY <1>1, <1>2, <1>6, <2>3 DEF Products
  <2>5. i \in 1 .. Len(s) /\ i - 1 \in 0 .. Len(s) /\ i - 1 \notin T
    BY <1>2, <2>3, <2>4
  <2>6. of[i] = of[i - 1] * s[i] /\ f[i] = f[i - 1] * s[i] /\ of[i - 1] = f[i - 1]
    BY <1>1, <1>6, <2>4, <2>5 DEF Products
  <2> QED  BY <2>3, <2>6
<1> QED  BY <1>1, <1>2, <1>5, <1>7

LEMMA MultipliesNone == Multiplies(<<>>, 1)
<1>1. Products([i \in 0 .. 0 |-> 1], <<>>)
  BY DEF Products
<1> QED  BY <1>1 DEF Multiplies

LEMMA MultipliesMore ==
  ASSUME NEW s, NEW n \in Nat, NEW j \in Nat, Multiplies(s, n)
  PROVE  Multiplies(<<j>> \o s, j * n)
<1> DEFINE t == <<j>> \o s
<1>1. PICK f : Products(f, s) /\ f[Len(s)] = n
  BY DEF Multiplies
<1>2. s \in Seq(Nat) /\ Len(s) \in Nat
  BY DEF Multiplies
<1>3. t \in Seq(Nat) /\ Len(t) = Len(s) + 1 /\ t[1] = j /\ \A i \in 1 .. Len(s) : t[i + 1] = s[i]
  BY <1>2
<1> HIDE DEF t
<1> DEFINE g == [i \in 0 .. Len(s) + 1 |-> IF i = 0 THEN 1 ELSE j * f[i - 1]]
<1>4. f \in [0 .. Len(s) -> Nat] /\ f[0] = 1 /\ \A i \in 1 .. Len(s) : f[i] = f[i - 1] * s[i]
  BY <1>1 DEF Products
<1>5. ASSUME NEW i \in 1 .. Len(s) + 1 PROVE i - 1 \in 0 .. Len(s) /\ f[i - 1] \in Nat /\ j * f[i - 1] \in Nat
  <2>1. i - 1 \in 0 .. Len(s)
    BY <1>2
  <2>2. f[i - 1] \in Nat
    BY <1>4, <2>1
  <2> QED  BY <2>1, <2>2
<1>6. g \in [0 .. Len(s) + 1 -> Nat] /\ g[0] = 1 /\ \A i \in 1 .. Len(s) + 1 : g[i] = j * f[i - 1]
  <2>1. \A i \in 0 .. Len(s) + 1 : i # 0 => i \in 1 .. Len(s) + 1
    BY <1>2
  <2>2. \A i \in 0 .. Len(s) + 1 : (IF i = 0 THEN 1 ELSE j * f[i - 1]) \in Nat
    BY <1>5, <2>1
  <2>3. 0 \in 0 .. Len(s) + 1 /\ \A i \in 1 .. Len(s) + 1 : i # 0 /\ i \in 0 .. Len(s) + 1
    BY <1>2
  <2> QED  BY <2>2, <2>3
<1> HIDE DEF g
<1>7. ASSUME NEW i \in 1 .. Len(s) + 1 PROVE g[i] = g[i - 1] * t[i]
  <2>1. CASE i = 1
    <3>1. g[1] = j * f[0] /\ g[0] = 1
      <4>1. 1 \in 1 .. Len(s) + 1
        BY <1>2
      <4>2. g[1] = j * f[1 - 1]
        BY <1>6, <4>1
      <4> QED  BY <1>6, <4>2
    <3> QED  BY <1>3, <1>4, <2>1, <3>1
  <2>2. CASE i # 1
    <3> DEFINE k == i - 1
    <3>1. k \in 1 .. Len(s) /\ i = k + 1 /\ k \in 1 .. Len(s) + 1
      BY <1>2, <2>2
    <3> HIDE DEF k
    <3>2. g[i] = j * f[k] /\ g[k] = j * f[k - 1] /\ t[i] = s[k] /\ f[k] = f[k - 1] * s[k]
      BY <1>3, <1>4, <1>6, <3>1
    <3>3. f[k - 1] \in Nat /\ s[k] \in Nat
      BY <1>2, <1>5, <3>1
    <3>4. \A x, y \in Nat : j * (x * y) = (j * x) * y
      OBVIOUS
    <3>5. g[i] = g[k] * t[i]
      BY <3>2, <3>3, <3>4
    <3> QED  BY <3>5 DEF k
  <2> QED  BY <2>1, <2>2
<1>8. g[Len(s) + 1] = j * n
  <2>1. Len(s) + 1 \in 1 .. Len(s) + 1 /\ Len(s) + 1 - 1 = Len(s)
    BY <1>2
  <2> QED  BY <1>1, <1>6, <2>1
<1>9. Products(g, t)
  BY <1>3, <1>6, <1>7 DEF Products
<1> QED  BY <1>3, <1>8, <1>9 DEF Multiplies, t

\* The numbers of s are primes, and n their product.
Factors(s, n) == Multiplies(s, n) /\ \A i \in DOMAIN s : IsPrime(s[i])

LEMMA FactorsMore ==
  ASSUME NEW s, NEW n \in Nat, NEW j \in Nat, Factors(s, n), IsPrime(j)
  PROVE  Factors(<<j>> \o s, j * n)
<1>1. s \in Seq(Nat) /\ \A i \in DOMAIN s : IsPrime(s[i])
  BY DEF Factors, Multiplies
<1> DEFINE t == <<j>> \o s
<1>2. t \in Seq(Nat) /\ Len(t) = Len(s) + 1 /\ t[1] = j /\ \A i \in 1 .. Len(s) : t[i + 1] = s[i]
  BY <1>1
<1> HIDE DEF t
<1>3. ASSUME NEW i \in DOMAIN t PROVE IsPrime(t[i])
  <2>1. Len(s) \in Nat /\ DOMAIN s = 1 .. Len(s) /\ DOMAIN t = 1 .. Len(s) + 1
    BY <1>1, <1>2
  <2>2. CASE i = 1
    BY <1>2, <2>2
  <2>3. CASE i # 1
    <3>1. i - 1 \in DOMAIN s /\ i - 1 + 1 = i
      BY <2>1, <2>3
    <3>2. t[i - 1 + 1] = s[i - 1]
      BY <1>2, <2>1, <3>1
    <3> QED  BY <1>1, <3>1, <3>2
  <2> QED  BY <2>2, <2>3
<1>4. Multiplies(t, j * n)
  BY MultipliesMore DEF Factors, t
<1> QED  BY <1>3, <1>4 DEF Factors, t

LEMMA FactorsNone == Factors(<<>>, 1)
BY MultipliesNone DEF Factors

LEMMA FactorsOne == ASSUME NEW n \in Nat, IsPrime(n) PROVE Factors(<<n>>, n)
<1>1. Factors(<<n>> \o <<>>, n * 1)
  BY FactorsNone, FactorsMore
<1>2. <<n>> \o <<>> = <<n>> /\ n * 1 = n
  OBVIOUS
<1> QED  BY <1>1, <1>2

LEMMA PrimeIf ==
  ASSUME NEW n \in Nat, n > 1, \A d \in Nat : Div(d, n) => d = 1 \/ d = n
  PROVE  IsPrime(n)
<1>1. Div(1, n) /\ Div(n, n)
  BY DivBasic
<1>2. 1 \in Divisors(n) /\ n \in Divisors(n)
  BY <1>1, DivisorsAre
<1>3. \A d \in Divisors(n) : d = 1 \/ d = n
  BY DivisorsAre
<1>4. Divisors(n) = {1, n}
  BY <1>2, <1>3
<1> QED  BY <1>4 DEF IsPrime

LEMMA OddDivisor ==
  ASSUME NEW n \in Nat, n % 2 = 1, NEW d \in Nat, Div(d, n)
  PROVE  d % 2 = 1 /\ n # 0 /\ d # 0 /\ (d # 1 => d >= 3)
<1>1. d % 2 # 0
  <2>1. SUFFICES ASSUME d % 2 = 0 PROVE FALSE
    OBVIOUS
  <2>2. Div(2, d)
    BY <2>1, DivMod
  <2>3. Div(2, n)
    BY <2>2, DivTrans
  <2>4. n % 2 = 0
    BY <2>3, DivMod
  <2> QED  BY <2>4
<1> QED  BY <1>1

\* The loops have come to i: every divisor of what is left of n is i or above.
From(n, i) == n \in PosInt \ {0} /\ n % 2 = 1 /\ i \in Nat /\ \A d \in Nat : Div(d, n) /\ d > 1 => d >= i

LEMMA OddFactorsAre ==
  ASSUME NEW n \in Nat, NEW i \in Nat
  PROVE  /\ OddFactors(n, i) \subseteq 3 .. n
         /\ \A j \in Nat : j \in OddFactors(n, i) <=> j >= 3 /\ j <= n /\ j % 2 = 1 /\ Div(j, n) /\ (j = i \/ (i < j /\ j <= floor_sqrt(n)))
<1>1. \A j \in 3 .. n : Div(j, n) <=> n % j = 0
  BY DivMod
<1> QED  BY <1>1 DEF OddFactors

\* With nothing more to divide by, what is left is a prime.
LEMMA LastIsPrime ==
  ASSUME NEW n, NEW i, From(n, i), OddFactors(n, i) = {}, n > 2
  PROVE  IsPrime(n)
<1>1. n \in PosInt /\ n \in Nat \ {0} /\ n % 2 = 1 /\ i \in Nat /\ \A d \in Nat : Div(d, n) /\ d > 1 => d >= i
  BY PowerAssumption DEF From, PosInt
<1> DEFINE r == floor_sqrt(n)
<1>2. r \in Nat /\ r * r <= n /\ n < (r + 1) * (r + 1)
  BY <1>1, SqrtFound DEF IsSqrt
<1>3. \A j \in Nat : ~(j >= 3 /\ j <= n /\ j % 2 = 1 /\ Div(j, n) /\ (j = i \/ (i < j /\ j <= r)))
  BY <1>1, OddFactorsAre
<1> HIDE DEF r
<1>4. ASSUME NEW d \in Nat, Div(d, n), d # 1, d # n PROVE d > r
  <2>1. d % 2 = 1 /\ d >= 3 /\ d >= i
    BY <1>1, <1>4, OddDivisor
  <2>2. d \in 1 .. n
    BY <1>1, <1>4, DivBound
  <2> QED  BY <1>1, <1>2, <1>3, <1>4, <2>1, <2>2
<1>5. ASSUME NEW d \in Nat, Div(d, n), d # 1, d # n PROVE FALSE
  <2>1. PICK e \in Nat : n = d * e
    BY <1>5 DEF Div
  <2>2. n = e * d
    BY <2>1
  <2>3. Div(e, n) /\ e # 1 /\ e # n
    <3>1. Div(e, n)
      BY <2>2, DivIntro
    <3>2. e # 1
      BY <1>5, <2>1
    <3>3. e # n
      <4>1. SUFFICES ASSUME e = n PROVE FALSE
        OBVIOUS
      <4>2. n * 1 = n * d
        BY <1>1, <2>1, <4>1
      <4> QED  BY <1>1, <1>5, <4>2, Cancel
    <3> QED  BY <3>1, <3>2, <3>3
  <2>4. d >= r + 1 /\ e >= r + 1
    BY <1>2, <1>4, <1>5, <2>3
  <2>5. \A x, y, k \in Nat : x <= y => k * x <= k * y
    OBVIOUS
  <2>6. (r + 1) * (r + 1) <= (r + 1) * d /\ d * (r + 1) <= d * e /\ (r + 1) * d = d * (r + 1)
    BY <1>2, <2>4, <2>5
  <2>7. (r + 1) * (r + 1) \in Nat /\ d * e \in Nat /\ d * (r + 1) \in Nat
    BY <1>2
  <2> QED  BY <1>1, <1>2, <2>1, <2>6, <2>7
<1>6. n \in Nat /\ n > 1 /\ \A d \in Nat : Div(d, n) => d = 1 \/ d = n
  BY <1>1, <1>5
<1> QED  BY <1>6, PrimeIf

\* The first number they divide by is one, and what is left has come to it.
LEMMA NextIsPrime ==
  ASSUME NEW n, NEW i, From(n, i), NEW j \in OddFactors(n, i), \A k \in OddFactors(n, i) : j <= k
  PROVE  IsPrime(j) /\ j \in Nat /\ n = j * (n \div j) /\ From(n \div j, j)
<1>1. n \in PosInt /\ n \in Nat \ {0} /\ n % 2 = 1 /\ i \in Nat /\ \A d \in Nat : Div(d, n) /\ d > 1 => d >= i
  BY PowerAssumption DEF From, PosInt
<1> DEFINE r == floor_sqrt(n)
<1>2. r \in Nat
  BY <1>1, SqrtFound
<1>3. j \in Nat /\ j >= 3 /\ j <= n /\ j % 2 = 1 /\ Div(j, n) /\ (j = i \/ (i < j /\ j <= r))
  BY <1>1, OddFactorsAre
<1>4. \A k \in Nat : k >= 3 /\ k <= n /\ k % 2 = 1 /\ Div(k, n) /\ (k = i \/ (i < k /\ k <= r)) => j <= k
  BY <1>1, OddFactorsAre
<1> HIDE DEF r
<1>5. ASSUME NEW d \in Nat, Div(d, n), d # 1 PROVE d >= j
  <2>1. d % 2 = 1 /\ d >= 3 /\ d >= i
    BY <1>1, <1>5, OddDivisor
  <2>2. d \in 1 .. n
    BY <1>1, <1>5, DivBound
  <2> QED  BY <1>1, <1>2, <1>3, <1>4, <1>5, <2>1, <2>2
<1>6. IsPrime(j)
  <2>1. ASSUME NEW d \in Nat, Div(d, j), d # 1 PROVE d = j
    <3>1. Div(d, n)
      BY <1>1, <1>3, <2>1, DivTrans
    <3>2. d >= j
      BY <1>5, <2>1, <3>1
    <3>3. d \in 1 .. j
      BY <1>3, <2>1, DivBound
    <3> QED  BY <1>3, <3>2, <3>3
  <2>2. j > 1
    BY <1>3
  <2> QED  BY <1>3, <2>1, <2>2, PrimeIf
<1>7. PICK m \in Nat : n = j * m
  BY <1>3 DEF Div
<1>8. m = n \div j
  BY <1>3, <1>7
<1>9. Div(m, n)
  <2>1. n = m * j
    BY <1>3, <1>7
  <2> QED  BY <1>3, <2>1, DivIntro
<1>10. m % 2 = 1 /\ m # 0 /\ m \in 1 .. n
  BY <1>1, <1>9, OddDivisor, DivBound
<1>11. m \in PosInt \ {0}
  BY <1>1, <1>10, PowerAssumption DEF PosInt
<1>12. ASSUME NEW d \in Nat, Div(d, m), d > 1 PROVE d >= j
  <2>1. Div(d, n)
    BY <1>1, <1>9, <1>12, DivTrans
  <2> QED  BY <1>5, <1>12, <2>1
<1>13. From(m, j)
  BY <1>3, <1>10, <1>11, <1>12 DEF From
<1> QED  BY <1>3, <1>6, <1>7, <1>8, <1>13

\* One call of oddFactors, f being what the inner calls return.
Round(n, i, f) ==
  IF OddFactors(n, i) = {} THEN IF n > 2 THEN <<n>> ELSE <<>>
  ELSE LET j == Min(OddFactors(n, i)) IN <<j>> \o f[n \div j][j]
Odd(f) == [n \in Nat \ {0} |-> [i \in Nat |->
  IF OddFactors(n, i) = {} THEN IF n > 2 THEN <<n>> ELSE <<>>
  ELSE LET j == Min(OddFactors(n, i)) IN <<j>> \o f[n \div j][j]]]

LEMMA NextFactor ==
  ASSUME NEW n \in Nat \ {0}, NEW i \in Nat, OddFactors(n, i) # {}
  PROVE  LET j == Min(OddFactors(n, i))
         IN /\ j \in OddFactors(n, i) /\ \A k \in OddFactors(n, i) : j <= k
            /\ j \in Nat /\ n \div j \in Nat \ {0} /\ n \div j < n
<1> DEFINE S == OddFactors(n, i)
<1>1. S \subseteq Nat /\ S \subseteq 3 .. n
  BY OddFactorsAre
<1> HIDE DEF S
<1>2. PICK j \in S : \A k \in S : j <= k
  BY <1>1, Least DEF S
<1>3. Min(S) = j
  BY <1>1, <1>2, MinIs
<1>4. j \in Nat /\ j >= 3 /\ j <= n
  BY <1>1, <1>2
<1>5. n \div j \in Nat \ {0} /\ n \div j < n
  <2> DEFINE q == n \div j
  <2>1. n = j * q + (n % j) /\ n % j \in 0 .. j - 1 /\ q \in Nat
    BY <1>4
  <2> HIDE DEF q
  <2>2. q # 0
    <3>1. ASSUME q = 0 PROVE FALSE
      <4>1. j * q = 0
        BY <3>1, <1>4
      <4> QED  BY <1>4, <2>1, <4>1
    <3> QED  BY <3>1
  <2>3. 3 * q <= j * q
    <3>1. \A x, y, k \in Nat : x <= y => x * k <= y * k
      OBVIOUS
    <3> QED  BY <1>4, <2>1, <3>1
  <2>4. j * q \in Nat
    BY <1>4, <2>1
  <2>5. q < n
    BY <2>1, <2>2, <2>3, <2>4
  <2> QED  BY <2>1, <2>2, <2>5 DEF q
<1> QED  BY <1>2, <1>3, <1>4, <1>5 DEF S

LEMMA OddCall == \A n \in Nat \ {0}, i \in Nat : oddFactors[n][i] = Round(n, i, oddFactors)
<1> DEFINE D == Nat \ {0}
           V == [Nat -> Seq(Nat)]
           F == [D -> V]
           row(n, f) == [i \in Nat |-> Round(n, i, f)]
           H == [n \in D |-> [f \in F |-> row(n, f)]]
<1>1. ASSUME NEW n \in D, NEW f \in F, NEW i \in Nat PROVE Round(n, i, f) \in Seq(Nat)
  <2>1. CASE OddFactors(n, i) = {}
    <3>1. <<n>> \in Seq(Nat) /\ <<>> \in Seq(Nat)
      OBVIOUS
    <3> QED  BY <2>1, <3>1 DEF Round
  <2>2. CASE OddFactors(n, i) # {}
    <3> DEFINE j == Min(OddFactors(n, i))
    <3>1. j \in Nat /\ n \div j \in D
      BY <2>2, NextFactor
    <3> HIDE DEF j
    <3>2. f[n \div j][j] \in Seq(Nat)
      BY <3>1
    <3>3. <<j>> \o f[n \div j][j] \in Seq(Nat)
      BY <3>1, <3>2
    <3> QED  BY <2>2, <3>3 DEF Round, j
  <2> QED  BY <2>1, <2>2
<1>2. ASSUME NEW n \in D, NEW f \in F, NEW g \in F, \A m \in D : m < n => f[m] = g[m], NEW i \in Nat
      PROVE  Round(n, i, f) = Round(n, i, g)
  <2>1. CASE OddFactors(n, i) = {}
    BY <2>1 DEF Round
  <2>2. CASE OddFactors(n, i) # {}
    <3> DEFINE j == Min(OddFactors(n, i))
    <3>1. n \div j \in D /\ n \div j < n
      BY <2>2, NextFactor
    <3> HIDE DEF j
    <3>2. f[n \div j] = g[n \div j]
      BY <1>2, <3>1
    <3> QED  BY <2>2, <3>2, Zenon DEF Round, j
  <2> QED  BY <2>1, <2>2
<1>3. ASSUME NEW n \in D, NEW f \in F PROVE row(n, f) \in V
  BY <1>1
<1>4. ASSUME NEW n \in D, NEW f \in F, NEW g \in F, \A m \in D : m < n => f[m] = g[m]
      PROVE  row(n, f) = row(n, g)
  <2>1. ASSUME NEW i \in Nat PROVE Round(n, i, f) = Round(n, i, g)
    BY <1>2, <1>4, Zenon
  <2> QED  BY <2>1
<1>5. \A f : [n \in D |-> row(n, f)] = Odd(f)
  BY Zenon DEF Odd, Round
<1> HIDE DEF row
<1>6. H \in [D -> [F -> V]] /\ \A n \in D, f \in F : H[n][f] = row(n, f)
  BY <1>3
<1> HIDE DEF H
<1>7. LooksBack(D, V, H)
  <2>1. ASSUME NEW n \in D, NEW g \in F, NEW h \in F, \A m \in D : m < n => g[m] = h[m]
        PROVE  H[n][g] = H[n][h]
    <3>1. row(n, g) = row(n, h)
      BY <1>4, <2>1
    <3> QED  BY <1>6, <3>1, Zenon
  <2> QED  BY <1>6, <2>1 DEF LooksBack
<1>8. PICK v0 \in V : TRUE
  <2>1. <<>> \in Seq(Nat)
    OBVIOUS
  <2>2. [i \in Nat |-> <<>>] \in V
    BY <2>1
  <2> QED  BY <2>2
<1> HIDE DEF V, D
<1>9. PICK f : Solves(f, D, V, H)
  BY <1>7, <1>8, StrongRecursion
<1>10. f \in F /\ \A n \in D : f[n] = row(n, f)
  BY <1>6, <1>9 DEF Solves
<1>11. f = [n \in D |-> row(n, f)]
  BY <1>10
<1>12. f = Odd(f)
  BY <1>5, <1>11, Zenon
<1>13. oddFactors = Odd(oddFactors)
  BY <1>12, Zenon DEF oddFactors, Odd
<1>14. ASSUME NEW g, g = Odd(g), NEW n \in Nat \ {0}, NEW i \in Nat PROVE g[n][i] = Round(n, i, g)
  <2>1. g = [m \in D |-> row(m, g)]
    BY <1>5, <1>14, Zenon
  <2>2. g[n] = row(n, g)
    <3>1. n \in D
      BY DEF D
    <3> QED  BY <2>1, <3>1, Zenon
  <2>3. row(n, g)[i] = Round(n, i, g)
    BY DEF row
  <2> QED  BY <2>2, <2>3
<1> QED  BY <1>13, <1>14, Zenon

\* What the loops print from there on are the prime factors of what is left.
LEMMA OddFactorsFound ==
  \A n \in Nat : \A i \in Nat : From(n, i) => Factors(oddFactors[n][i], n)
<1> DEFINE Bad == {n \in Nat : \E i \in Nat : From(n, i) /\ ~Factors(oddFactors[n][i], n)}
<1>1. CASE Bad = {}
  BY <1>1
<1>2. CASE Bad # {}
  <2>1. PICK n \in Bad : \A m \in Bad : n <= m
    BY <1>2, Least
  <2>2. PICK i \in Nat : From(n, i) /\ ~Factors(oddFactors[n][i], n)
    BY <2>1
  <2>3. n \in Nat \ {0} /\ n % 2 = 1
    BY <2>1, <2>2 DEF From
  <2>4. oddFactors[n][i] = Round(n, i, oddFactors)
    BY <2>2, <2>3, OddCall
  <2>5. CASE OddFactors(n, i) = {}
    <3>1. CASE n > 2
      <4>1. IsPrime(n)
        BY <2>2, <2>5, <3>1, LastIsPrime
      <4>2. Factors(<<n>>, n)
        BY <2>3, <4>1, FactorsOne
      <4> QED  BY <2>2, <2>4, <2>5, <3>1, <4>2 DEF Round
    <3>2. CASE ~(n > 2)
      <4>1. n = 1
        BY <2>3, <3>2
      <4> QED  BY <2>2, <2>4, <2>5, <3>2, <4>1, FactorsNone DEF Round
    <3> QED  BY <3>1, <3>2
  <2>6. CASE OddFactors(n, i) # {}
    <3> DEFINE j == Min(OddFactors(n, i))
               m == n \div j
    <3>1. j \in OddFactors(n, i) /\ (\A k \in OddFactors(n, i) : j <= k) /\ m \in Nat /\ m < n
      BY <2>2, <2>3, <2>6, NextFactor
    <3>2. oddFactors[n][i] = <<j>> \o oddFactors[m][j]
      BY <2>4, <2>6, Zenon DEF Round
    <3> HIDE DEF j
    <3>3. IsPrime(j) /\ j \in Nat /\ n = j * m /\ From(m, j)
      BY <2>2, <3>1, NextIsPrime
    <3> HIDE DEF m
    <3>4. m \notin Bad
      BY <2>1, <3>1
    <3>5. Factors(oddFactors[m][j], m)
      BY <3>1, <3>3, <3>4
    <3>6. Factors(<<j>> \o oddFactors[m][j], j * m)
      BY <3>1, <3>3, <3>5, FactorsMore
    <3> QED  BY <2>2, <3>2, <3>3, <3>6
  <2> QED  BY <2>5, <2>6
<1> QED  BY <1>1, <1>2

\* One call of prime_factors.
Halved(n, f) == IF n % 2 = 0 THEN <<2>> \o f[n \div 2] ELSE oddFactors[n][1]
Halving(f) == [n \in Nat \ {0} |-> IF n % 2 = 0 THEN <<2>> \o f[n \div 2] ELSE oddFactors[n][1]]

LEMMA Half == ASSUME NEW n \in Nat \ {0}, n % 2 = 0 PROVE n \div 2 \in Nat \ {0} /\ n \div 2 < n /\ n = 2 * (n \div 2)
OBVIOUS

LEMMA OddType == \A n \in Nat \ {0}, i \in Nat : oddFactors[n][i] \in Seq(Nat)
<1> DEFINE Bad == {n \in Nat \ {0} : \E i \in Nat : oddFactors[n][i] \notin Seq(Nat)}
<1>1. CASE Bad = {}
  BY <1>1
<1>2. CASE Bad # {}
  <2>1. PICK n \in Bad : \A m \in Bad : n <= m
    <3>1. Bad \subseteq Nat
      OBVIOUS
    <3> QED  BY <1>2, <3>1, Least
  <2>2. PICK i \in Nat : oddFactors[n][i] \notin Seq(Nat)
    BY <2>1
  <2>3. n \in Nat \ {0}
    BY <2>1
  <2>4. oddFactors[n][i] = Round(n, i, oddFactors)
    BY <2>3, OddCall
  <2>5. CASE OddFactors(n, i) = {}
    <3>1. <<n>> \in Seq(Nat) /\ <<>> \in Seq(Nat)
      BY <2>3
    <3> QED  BY <2>2, <2>4, <2>5, <3>1 DEF Round
  <2>6. CASE OddFactors(n, i) # {}
    <3> DEFINE j == Min(OddFactors(n, i))
               m == n \div j
    <3>1. j \in Nat /\ m \in Nat \ {0} /\ m < n
      BY <2>3, <2>6, NextFactor
    <3>2. oddFactors[n][i] = <<j>> \o oddFactors[m][j]
      BY <2>4, <2>6, Zenon DEF Round
    <3> HIDE DEF j, m
    <3>3. m \notin Bad
      BY <2>1, <2>3, <3>1
    <3>4. oddFactors[m][j] \in Seq(Nat)
      BY <3>1, <3>3
    <3>5. <<j>> \o oddFactors[m][j] \in Seq(Nat)
      BY <3>1, <3>4
    <3> QED  BY <2>2, <3>2, <3>5
  <2> QED  BY <2>5, <2>6
<1> QED  BY <1>1, <1>2

LEMMA PrimeCall == \A n \in Nat \ {0} : prime_factors[n] = Halved(n, prime_factors)
<1> DEFINE D == Nat \ {0}
           V == Seq(Nat)
           F == [D -> V]
           H == [n \in D |-> [f \in F |-> Halved(n, f)]]
<1>1. ASSUME NEW n \in D, NEW f \in F PROVE Halved(n, f) \in V
  <2>1. CASE n % 2 = 0
    <3>1. f[n \div 2] \in V
      BY <2>1, Half
    <3>2. <<2>> \o f[n \div 2] \in V
      BY <3>1
    <3> QED  BY <2>1, <3>2 DEF Halved
  <2>2. CASE n % 2 # 0
    BY <2>2, OddType DEF Halved
  <2> QED  BY <2>1, <2>2
<1>2. ASSUME NEW n \in D, NEW f \in F, NEW g \in F, \A m \in D : m < n => f[m] = g[m]
      PROVE  Halved(n, f) = Halved(n, g)
  <2>1. CASE n % 2 = 0
    <3>1. f[n \div 2] = g[n \div 2]
      BY <1>2, <2>1, Half
    <3> QED  BY <2>1, <3>1, Zenon DEF Halved
  <2>2. CASE n % 2 # 0
    BY <2>2, Zenon DEF Halved
  <2> QED  BY <2>1, <2>2
<1>3. H \in [D -> [F -> V]] /\ \A n \in D, f \in F : H[n][f] = Halved(n, f)
  BY <1>1
<1> HIDE DEF H
<1>4. LooksBack(D, V, H)
  <2>1. ASSUME NEW n \in D, NEW g \in F, NEW h \in F, \A m \in D : m < n => g[m] = h[m]
        PROVE  H[n][g] = H[n][h]
    <3>1. Halved(n, g) = Halved(n, h)
      BY <1>2, <2>1
    <3> QED  BY <1>3, <3>1, Zenon
  <2> QED  BY <1>3, <2>1 DEF LooksBack
<1>5. PICK v0 \in V : TRUE
  <2>1. <<>> \in Seq(Nat)
    OBVIOUS
  <2> QED  BY <2>1
<1>6. \A f : [n \in D |-> Halved(n, f)] = Halving(f)
  BY Zenon DEF Halving, Halved
<1> HIDE DEF V, D
<1>7. PICK f : Solves(f, D, V, H)
  BY <1>4, <1>5, StrongRecursion
<1>8. f \in F /\ \A n \in D : f[n] = Halved(n, f)
  BY <1>3, <1>7 DEF Solves
<1>9. f = [n \in D |-> Halved(n, f)]
  BY <1>8
<1>10. f = Halving(f)
  BY <1>6, <1>9, Zenon
<1>11. prime_factors = Halving(prime_factors)
  BY <1>10, Zenon DEF prime_factors, Halving
<1>12. ASSUME NEW g, g = Halving(g), NEW n \in Nat \ {0} PROVE g[n] = Halved(n, g)
  <2>1. g = [m \in D |-> Halved(m, g)]
    BY <1>6, <1>12, Zenon
  <2>2. n \in D
    BY DEF D
  <2> QED  BY <2>1, <2>2, Zenon
<1> QED  BY <1>11, <1>12, Zenon

LEMMA PrimeFactorsFound == \A n \in Nat : n \in PosInt \ {0} => Factors(prime_factors[n], n)
<1> DEFINE Bad == {n \in Nat : n \in PosInt \ {0} /\ ~Factors(prime_factors[n], n)}
<1>1. CASE Bad = {}
  BY <1>1
<1>2. CASE Bad # {}
  <2>1. PICK n \in Bad : \A m \in Bad : n <= m
    BY <1>2, Least
  <2>2. n \in Nat \ {0} /\ n \in PosInt /\ ~Factors(prime_factors[n], n)
    BY <2>1
  <2>3. prime_factors[n] = Halved(n, prime_factors)
    BY <2>2, PrimeCall
  <2>4. CASE n % 2 = 0
    <3> DEFINE m == n \div 2
    <3>1. m \in Nat \ {0} /\ m < n /\ n = 2 * m
      BY <2>2, <2>4, Half
    <3>2. prime_factors[n] = <<2>> \o prime_factors[m]
      BY <2>3, <2>4, Zenon DEF Halved
    <3> HIDE DEF m
    <3>3. m \in PosInt
      BY <2>2, <3>1, PowerAssumption DEF PosInt
    <3>4. m \notin Bad
      BY <2>1, <2>2, <3>1
    <3>5. Factors(prime_factors[m], m)
      BY <3>1, <3>3, <3>4
    <3>6. IsPrime(2)
      <4>1. ASSUME NEW d \in Nat, Div(d, 2) PROVE d = 1 \/ d = 2
        <5>1. d \in 1 .. 2
          BY <4>1, DivBound
        <5> QED  BY <5>1
      <4> QED  BY <4>1, PrimeIf
    <3> QED  BY <2>2, <3>1, <3>2, <3>5, <3>6, FactorsMore
  <2>5. CASE n % 2 # 0
    <3>1. From(n, 1)
      <4>1. n % 2 = 1
        BY <2>2, <2>5
      <4> QED  BY <2>2, <4>1 DEF From
    <3>2. Factors(oddFactors[n][1], n)
      BY <2>2, <3>1, OddFactorsFound
    <3>3. prime_factors[n] = oddFactors[n][1]
      BY <2>3, <2>5, Zenon DEF Halved
    <3> QED  BY <2>2, <3>2, <3>3
  <2> QED  BY <2>4, <2>5
<1> QED  BY <1>1, <1>2

\* The totient counts the numbers without a divisor in common with n; 1 is one
\* of them, which the loop does not look at.
LEMMA PhiFound ==
  ASSUME NEW n \in Nat \ {0}
  PROVE  phi(n) = Cardinality({k \in 1 .. n : Divisors(k) \cap Divisors(n) = {1}})
<1> DEFINE Common(k) == Divisors(k) \cap Divisors(n)
           S == {k \in 1 .. n : Common(k) = {1}}
           T == {i \in 2 .. n - 1 : gcd[i][n] = 1}
<1>1. \A k \in 1 .. n : 1 \in Common(k)
  BY DivBasic, DivisorsAre
<1>2. 1 \in S
  <2>1. ASSUME NEW d \in Common(1) PROVE d = 1
    <3>1. d \in Nat /\ Div(d, 1)
      BY DivisorsAre
    <3> QED  BY <3>1, DivBound
  <2>2. 1 \in 1 .. n
    OBVIOUS
  <2> QED  BY <1>1, <2>1, <2>2
<1>3. n # 1 => n \notin S
  <2>1. n \in Common(n)
    BY DivBasic, DivisorsAre
  <2> QED  BY <2>1
<1>4. ASSUME NEW k \in 1 .. n PROVE Common(k) = {1} <=> gcd[k][n] = 1
  <2> DEFINE g == gcd[k][n]
  <2>1. IsGcd(g, k, n)
    BY GcdFound
  <2> HIDE DEF g
  <2>2. g \in Nat /\ Div(g, k) /\ Div(g, n) /\ \A d \in Nat : Div(d, k) /\ Div(d, n) => Div(d, g)
    BY <2>1 DEF IsGcd
  <2>3. g \in Common(k)
    BY <2>2, DivisorsAre
  <2>4. ASSUME g = 1, NEW d \in Common(k) PROVE d = 1
    <3>1. d \in Nat /\ Div(d, k) /\ Div(d, n)
      BY DivisorsAre
    <3>2. Div(d, 1)
      BY <2>2, <2>4, <3>1
    <3> QED  BY <3>1, <3>2, DivBound
  <2>5. g = 1 => Common(k) = {1}
    BY <1>1, <2>4
  <2>6. Common(k) = {1} => g = 1
    BY <2>3
  <2> QED  BY <2>5, <2>6 DEF g
<1> HIDE DEF Common
<1>5. S = T \cup {1} /\ 1 \notin T
  <2>1. \A k : k \in S <=> k \in 1 .. n /\ gcd[k][n] = 1
    BY <1>4
  <2>2. \A k : k \in T <=> k \in 2 .. n - 1 /\ gcd[k][n] = 1
    OBVIOUS
  <2> HIDE DEF S, T
  <2>3. \A k \in 1 .. n : k = 1 \/ k = n \/ k \in 2 .. n - 1
    OBVIOUS
  <2>4. \A k \in 2 .. n - 1 : k \in 1 .. n /\ k # 1
    OBVIOUS
  <2> QED  BY <1>2, <1>3, <2>1, <2>2, <2>3, <2>4
<1>6. IsFiniteSet(T)
  <2>1. 2 \in Int /\ n - 1 \in Int
    OBVIOUS
  <2>2. IsFiniteSet(2 .. n - 1)
    BY <2>1, FS_Interval
  <2>3. T \subseteq 2 .. n - 1
    OBVIOUS
  <2> QED  BY <2>2, <2>3, FS_Subset
<1> HIDE DEF S, T
<1>7. Cardinality(T \cup {1}) = Cardinality(T) + 1 /\ Cardinality(T) \in Nat
  BY <1>5, <1>6, FS_AddElement, FS_CardinalityType
<1>8. Cardinality(S) = 1 + Cardinality(T)
  BY <1>5, <1>7
<1> QED  BY <1>8, Zenon DEF phi, S, T, Common

LEMMA ModFound == ASSUME NEW a \in Nat, NEW b \in Nat \ {0} PROVE Divides(b, a - mod(a, b))
<1> DEFINE q == a \div b   r == a % b
<1>1. a = b * q + r /\ q \in Nat /\ r \in 0 .. b - 1
  OBVIOUS
<1> HIDE DEF q, r
<1>2. a - r = b * q /\ b * q \in Nat
  BY <1>1
<1>3. q <= b * q
  <2>1. \A x, y, k \in Nat : x <= y => x * k <= y * k
    OBVIOUS
  <2>2. 1 * q <= b * q /\ 1 * q = q
    BY <1>1, <2>1
  <2> QED  BY <2>2
<1>4. q \in 0 .. b * q
  BY <1>1, <1>2, <1>3
<1> QED  BY <1>2, <1>4 DEF Divides, mod, r

\* Days, hours, minutes, seconds and ms are those of the time.
LEMMA UptimeFound ==
  ASSUME NEW ms \in Nat
  PROVE  LET v == uptime(ms)
         IN /\ (((v.d * 24 + v.h) * 60 + v.m) * 60 + v.s) * 1000 + v.ms = ms
            /\ v.h < 24 /\ v.m < 60 /\ v.s < 60 /\ v.ms < 1000
<1> DEFINE s == ms \div 1000   m == s \div 60   hours == m \div 60   d == hours \div 24
           u1 == ms % 1000   u2 == s % 60   u3 == m % 60   u4 == hours % 24
<1>1. uptime(ms) = [d |-> d, h |-> u4, m |-> u3, s |-> u2, ms |-> u1]
  BY Zenon DEF uptime
<1>2. s \in Nat /\ ms = s * 1000 + u1 /\ u1 \in 0 .. 999
  OBVIOUS
<1> HIDE DEF s, u1
<1>3. m \in Nat /\ s = m * 60 + u2 /\ u2 \in 0 .. 59
  BY <1>2
<1> HIDE DEF m, u2
<1>4. hours \in Nat /\ m = hours * 60 + u3 /\ u3 \in 0 .. 59
  BY <1>3
<1> HIDE DEF hours, u3
<1>5. d \in Nat /\ hours = d * 24 + u4 /\ u4 \in 0 .. 23
  BY <1>4
<1> HIDE DEF d, u4
<1>6. (((d * 24 + u4) * 60 + u3) * 60 + u2) * 1000 + u1 = ms
  BY <1>2, <1>3, <1>4, <1>5
<1> QED  BY <1>1, <1>2, <1>3, <1>4, <1>5, <1>6

LEMMA CalculateKept == ASSUME Calculate PROVE ArithmeticCorrect'
<1>1. PICK a \in Number : \E b \in Number :
          \/ Return([op |-> "gcd", a |-> a, b |-> b], Multiples(a, b))
          \/ b # 0 /\ Return([op |-> "mod", a |-> a, b |-> b], mod(a, b))
  BY DEF Calculate
<1>2. PICK b \in Number :
          \/ Return([op |-> "gcd", a |-> a, b |-> b], Multiples(a, b))
          \/ b # 0 /\ Return([op |-> "mod", a |-> a, b |-> b], mod(a, b))
  BY <1>1
<1>3. a \in Nat /\ b \in Nat
  BY <1>1, <1>2, InputAssumption
<1>4. CASE Return([op |-> "gcd", a |-> a, b |-> b], Multiples(a, b))
  <2>1. call' = [op |-> "gcd", a |-> a, b |-> b] /\ res' = [v |-> Multiples(a, b)]
    BY <1>4 DEF Return
  <2>2. call'.op = "gcd" /\ call'.a = a /\ call'.b = b /\ res'.v = Multiples(a, b)
    BY <2>1
  <2> DEFINE Right(x, y, v) ==
               /\ x * y # 0 => v.gcd = Max(Divisors(x) \cap Divisors(y))
               /\ x * y \in ULong \ {0} => v.lcm = Min({m \in 1 .. x * y : Divides(x, m) /\ Divides(y, m)})
               /\ x * y # 0 => v.ord = Min({k \in 1 .. y : (x * k) % y = 0})
               /\ x * y = 0 => v.gcd = x + y /\ v.lcm = 0
  <2>3. Right(a, b, Multiples(a, b))
    BY <1>3, MultiplesFound, Zenon
  <2> HIDE DEF Right
  <2>4. Right(call'.a, call'.b, res'.v)
    BY <2>2, <2>3
  <2>5. Right(call'.a, call'.b, res'.v) => ArithmeticCorrect'
    BY <2>2, Zenon DEF Right, ArithmeticCorrect, Is
  <2> QED  BY <2>4, <2>5
<1>5. CASE b # 0 /\ Return([op |-> "mod", a |-> a, b |-> b], mod(a, b))
  <2>1. call' = [op |-> "mod", a |-> a, b |-> b] /\ res' = [v |-> mod(a, b)]
    BY <1>5 DEF Return
  <2>2. call'.op = "mod" /\ call'.a = a /\ call'.b = b /\ res'.v = mod(a, b)
    BY <2>1
  <2>3. Divides(b, a - mod(a, b))
    BY <1>3, <1>5, ModFound
  <2> QED  BY <2>2, <2>3 DEF ArithmeticCorrect, Is
<1> QED  BY <1>2, <1>4, <1>5

LEMMA FactorKept == ASSUME Factor PROVE ArithmeticCorrect'
<1>1. PICK n \in 0 .. ToULong(-(2^(IntBits - 1))) - 1 :
         \/ Return([op |-> "sqrt", n |-> n], floor_sqrt(n))
         \/ n \in PosInt \ {0} /\ Return([op |-> "factors", n |-> n], [factors |-> prime_factors[n], phi |-> phi(n)])
  BY DEF Factor
<1>2. CASE Return([op |-> "sqrt", n |-> n], floor_sqrt(n))
  <2>1. call' = [op |-> "sqrt", n |-> n] /\ res' = [v |-> floor_sqrt(n)]
    BY <1>2 DEF Return
  <2>2. call'.op = "sqrt" /\ call'.n = n /\ res'.v = floor_sqrt(n)
    BY <2>1
  <2>3. n \in PosInt => IsSqrt(floor_sqrt(n), n)
    BY SqrtFound
  <2> QED  BY <2>2, <2>3 DEF ArithmeticCorrect, Is
<1>3. CASE n \in PosInt \ {0} /\ Return([op |-> "factors", n |-> n], [factors |-> prime_factors[n], phi |-> phi(n)])
  <2>1. call' = [op |-> "factors", n |-> n] /\ res' = [v |-> [factors |-> prime_factors[n], phi |-> phi(n)]]
    BY <1>3 DEF Return
  <2>2. call'.op = "factors" /\ call'.n = n /\ res'.v.factors = prime_factors[n] /\ res'.v.phi = phi(n)
    BY <2>1
  <2>3. n \in Nat \ {0} /\ n \in PosInt \ {0} /\ n \in Nat
    BY <1>3, PowerAssumption DEF PosInt
  <2>4. Factors(prime_factors[n], n)
    BY <2>3, PrimeFactorsFound
  <2>5. Product(prime_factors[n]) = n /\ \A i \in DOMAIN prime_factors[n] : IsPrime(prime_factors[n][i])
    BY <2>4, ProductIs DEF Factors
  <2>6. phi(n) = Cardinality({k \in 1 .. n : Divisors(k) \cap Divisors(n) = {1}})
    BY <2>3, PhiFound
  <2> QED  BY <2>2, <2>5, <2>6 DEF ArithmeticCorrect, Is
<1> QED  BY <1>1, <1>2, <1>3

LEMMA UptimeKept == ASSUME ReadUptime PROVE ArithmeticCorrect'
<1>1. PICK ms \in Uptime : Return([op |-> "uptime", ms |-> ms], uptime(ms))
  BY DEF ReadUptime
<1>2. call' = [op |-> "uptime", ms |-> ms] /\ res' = [v |-> uptime(ms)]
  BY <1>1 DEF Return
<1>3. call'.op = "uptime" /\ call'.ms = ms /\ res'.v = uptime(ms)
  BY <1>2
<1>4. ms \in Nat
  BY <1>1, InputAssumption
<1> QED  BY <1>3, <1>4, UptimeFound DEF ArithmeticCorrect, Is

\* What math.c computes is right for every argument, whatever the widths of an
\* int and a u64 are.
THEOREM ArithmeticIsCorrect == Spec => []ArithmeticCorrect
<1>1. Init => ArithmeticCorrect
  BY DEF Init, LInit, Idle, ArithmeticCorrect, Is
<1>2. ASSUME ArithmeticCorrect, [Next]_vars PROVE ArithmeticCorrect'
  <2>1. CASE UNCHANGED lvars
    <3>1. call' = call /\ res' = res
      BY <2>1 DEF lvars
    <3> QED  BY <1>2, <3>1 DEF ArithmeticCorrect, Is
  <2>2. CASE call'.op \notin {"gcd", "mod", "sqrt", "factors", "uptime"}
    BY <2>2 DEF ArithmeticCorrect, Is
  <2> QED  BY <1>2, <2>1, <2>2, Calls, CalculateKept, FactorKept, UptimeKept
<1> QED  BY <1>1, <1>2, PTL DEF Spec

-----------------------------------------------------------------------------
(* printf.c and string.c.                                                   *)

\* The loops of ui2a, f being what they compute.
Top(num, base, f) == [d \in UInt \ {0} |-> IF num \div d >= base THEN f[ToUInt(d * base)] ELSE d]
Emitted(base, uc, d, n, started, f) ==
  IF d = 0 THEN <<>>
  ELSE IF started \/ n \div d > 0 \/ d \div base = 0
       THEN <<DigitCode(n \div d, uc)>> \o f[d \div base][n % d][TRUE]
       ELSE f[d \div base][n % d][FALSE]
Emit(base, uc, f) == [d \in UInt |-> [n \in UInt |-> [started \in BOOLEAN |-> Emitted(base, uc, d, n, started, f)]]]
TopOf(num, base) == CHOOSE f : f = Top(num, base, f)
EmitOf(base, uc) == CHOOSE f : f = Emit(base, uc, f)

LEMMA Ui2aIs == \A num, base, uc : ui2a(num, base, uc) = EmitOf(base, uc)[TopOf(num, base)[1]][num][FALSE]
BY Zenon DEF ui2a, TopOf, EmitOf, Top, Emit, Emitted

LEMMA Words == UInt \subseteq Nat /\ 0 \in UInt /\ 1 \in UInt \ {0} /\ \A n \in UInt, m \in Nat : m <= n => m \in UInt
BY PowerAssumption DEF UInt

\* A digit more fits below num: the multiplication does not overflow.
LEMMA NextPower ==
  ASSUME NEW num \in UInt, NEW base \in Nat, base >= 2, NEW d \in UInt \ {0}, num \div d >= base
  PROVE  ToUInt(d * base) = d * base /\ d * base \in UInt \ {0} /\ d < d * base /\ d * base <= num
<1>1. num \in Nat /\ d \in Nat \ {0}
  BY Words
<1>2. d * base <= num
  <2> DEFINE q == num \div d
  <2>1. q \in Nat /\ d * q <= num /\ d * q \in Nat
    BY <1>1
  <2> HIDE DEF q
  <2>2. q >= base
    BY DEF q
  <2>3. \A x, y, z \in Nat : x >= y => z * x >= z * y
    OBVIOUS
  <2>4. d * q >= d * base
    BY <1>1, <2>1, <2>2, <2>3
  <2>5. d * base \in Nat
    BY <1>1
  <2> QED  BY <1>1, <2>1, <2>4, <2>5
<1>3. d < d * base /\ d * base \in Nat
  <2>1. \A x \in Nat \ {0}, y \in Nat : y >= 2 => x < x * y /\ x * y \in Nat
    <3>1. ASSUME NEW x \in Nat \ {0}, NEW y \in Nat, y >= 2 PROVE x < x * y /\ x * y \in Nat
      <4>1. x * y = x * 2 + x * (y - 2) /\ x * (y - 2) \in Nat
        BY <3>1
      <4> QED  BY <4>1
    <3> QED  BY <3>1
  <2> QED  BY <1>1, <2>1
<1>4. d * base \in UInt \ {0}
  BY <1>1, <1>2, <1>3, Words
<1>5. d * base \in Int
  BY <1>3
<1> QED  BY <1>2, <1>3, <1>4, <1>5, Unsigned

LEMMA TopCall ==
  ASSUME NEW num \in UInt, NEW base \in Nat, base >= 2
  PROVE  \A d \in UInt \ {0} : TopOf(num, base)[d] = IF num \div d >= base THEN TopOf(num, base)[d * base] ELSE d
<1> DEFINE D == UInt \ {0}   F == [D -> D]
           val(d, f) == IF num \div d >= base THEN f[d * base] ELSE d
           M == [d \in D |-> IF d <= num THEN num + 1 - d ELSE 0]
           H == [d \in D |-> [f \in F |-> val(d, f)]]
<1>0. D \subseteq Nat /\ num \in Nat /\ 1 \in D
  BY Words
<1>1. ASSUME NEW d \in D, num \div d >= base PROVE ToUInt(d * base) = d * base /\ d * base \in D /\ d < d * base /\ d * base <= num
  BY <1>1, NextPower
<1>2. \A f : [d \in D |-> val(d, f)] = Top(num, base, f)
  <2>1. ASSUME NEW f, NEW d \in D PROVE val(d, f) = IF num \div d >= base THEN f[ToUInt(d * base)] ELSE d
    BY <1>1
  <2> QED  BY <2>1 DEF Top
<1>3. M \in [D -> Nat] /\ \A d \in D : M[d] = IF d <= num THEN num + 1 - d ELSE 0
  BY <1>0
<1> HIDE DEF M
<1>4. ASSUME NEW d \in D, NEW f \in F PROVE val(d, f) \in D
  BY <1>1
<1>5. ASSUME NEW d \in D, NEW f \in F, NEW g \in F, \A m \in D : M[m] < M[d] => f[m] = g[m] PROVE val(d, f) = val(d, g)
  <2>1. CASE num \div d >= base
    <3> DEFINE m == d * base
    <3>1. m \in D /\ d < m /\ m <= num
      BY <1>1, <2>1
    <3> HIDE DEF m
    <3>2. M[m] < M[d]
      BY <1>0, <1>3, <3>1
    <3>3. f[m] = g[m]
      BY <1>5, <3>1, <3>2
    <3> QED  BY <2>1, <3>3 DEF m
  <2> QED  BY <2>1
<1>6. H \in [D -> [F -> D]] /\ \A d \in D, f \in F : H[d][f] = val(d, f)
  BY <1>4
<1> HIDE DEF H, val
<1>7. LooksDown(D, D, H, M)
  <2>1. ASSUME NEW d \in D, NEW g \in F, NEW h \in F, \A m \in D : M[m] < M[d] => g[m] = h[m] PROVE H[d][g] = H[d][h]
    <3>1. val(d, g) = val(d, h)
      BY <1>5, <2>1
    <3> QED  BY <1>6, <3>1, Zenon
  <2> QED  BY <1>3, <1>6, <2>1 DEF LooksDown
<1> HIDE DEF D
<1>8. PICK f : Solves(f, D, D, H)
  BY <1>0, <1>7, MeasuredRecursion
<1>9. f = [d \in D |-> val(d, f)]
  BY <1>6, <1>8 DEF Solves
<1>10. f = Top(num, base, f)
  BY <1>2, <1>9, Zenon
<1> DEFINE t == TopOf(num, base)
<1>11. t = Top(num, base, t)
  BY <1>10, Zenon DEF TopOf
<1>12. t = [d \in D |-> val(d, t)]
  BY <1>2, <1>11, Zenon
<1> HIDE DEF t
<1>13. \A d \in D : t[d] = val(d, t)
  BY <1>12, Zenon
<1> QED  BY <1>13 DEF val, D, t

LEMMA DigitCodes == \A uc : \A n \in Nat : DigitCode(n, uc) \in Nat
BY DEF DigitCode, Zero

LEMMA EmitCall ==
  ASSUME NEW base \in Nat, base >= 2, NEW uc
  PROVE  \A d \in UInt, n \in UInt, s \in BOOLEAN : EmitOf(base, uc)[d][n][s] = Emitted(base, uc, d, n, s, EmitOf(base, uc))
<1> DEFINE W == [BOOLEAN -> Seq(Nat)]   V == [UInt -> W]   F == [UInt -> V]
           row(d, n, f) == [s \in BOOLEAN |-> Emitted(base, uc, d, n, s, f)]
           val(d, f) == [n \in UInt |-> row(d, n, f)]
           H == [d \in UInt |-> [f \in F |-> val(d, f)]]
<1>1. ASSUME NEW d \in UInt \ {0}, NEW n \in UInt
      PROVE  d \div base \in UInt /\ d \div base < d /\ n % d \in UInt /\ n \div d \in Nat
  <2>1. d \in Nat \ {0} /\ n \in Nat
    BY Words
  <2> DEFINE q == d \div base   r == n % d
  <2>2. q \in Nat /\ base * q <= d /\ r \in Nat /\ r <= n /\ n \div d \in Nat
    BY <2>1
  <2> HIDE DEF q, r
  <2>3. q < d
    <3>1. base * q = 2 * q + (base - 2) * q /\ (base - 2) * q \in Nat
      BY <2>2
    <3> QED  BY <2>1, <2>2, <3>1
  <2>4. q \in UInt /\ r \in UInt
    BY <2>1, <2>2, <2>3, Words
  <2> QED  BY <2>2, <2>3, <2>4 DEF q, r
<1>2. ASSUME NEW d \in UInt, NEW n \in UInt, NEW s \in BOOLEAN, NEW f \in F PROVE Emitted(base, uc, d, n, s, f) \in Seq(Nat)
  <2>1. CASE d = 0
    <3>1. <<>> \in Seq(Nat)
      OBVIOUS
    <3> QED  BY <2>1, <3>1 DEF Emitted
  <2>2. CASE d # 0
    <3> DEFINE e == d \div base   m == n % d   c == DigitCode(n \div d, uc)
    <3>1. e \in UInt /\ m \in UInt /\ c \in Nat
      BY <1>1, <2>2, DigitCodes
    <3> HIDE DEF e, m, c
    <3>2. \A t \in BOOLEAN : f[e][m][t] \in Seq(Nat)
      BY <3>1
    <3>3. <<c>> \o f[e][m][TRUE] \in Seq(Nat)
      <4>1. \A x \in Seq(Nat) : <<c>> \o x \in Seq(Nat)
        BY <3>1
      <4> QED  BY <3>2, <4>1, Zenon
    <3> QED  BY <2>2, <3>2, <3>3 DEF Emitted, e, m, c
  <2> QED  BY <2>1, <2>2
<1>3. ASSUME NEW d \in UInt, NEW f \in F, NEW g \in F, \A m \in UInt : m < d => f[m] = g[m]
      PROVE  \A n \in UInt : \A s \in BOOLEAN : Emitted(base, uc, d, n, s, f) = Emitted(base, uc, d, n, s, g)
  <2>0. SUFFICES ASSUME NEW n \in UInt, NEW s \in BOOLEAN PROVE Emitted(base, uc, d, n, s, f) = Emitted(base, uc, d, n, s, g)
    BY Zenon
  <2>1. CASE d = 0
    BY <2>1 DEF Emitted
  <2>2. CASE d # 0
    <3> DEFINE e == d \div base
    <3>1. e \in UInt /\ e < d
      BY <1>1, <2>2
    <3> HIDE DEF e
    <3>2. f[e] = g[e]
      BY <1>3, <3>1
    <3> QED  BY <2>2, <3>2, Zenon DEF Emitted, e
  <2> QED  BY <2>1, <2>2
<1>4. ASSUME NEW d \in UInt, NEW f \in F PROVE val(d, f) \in V
  BY <1>2, <1>4
<1>5. ASSUME NEW d \in UInt, NEW f \in F, NEW g \in F, \A m \in UInt : m < d => f[m] = g[m] PROVE val(d, f) = val(d, g)
  <2>1. ASSUME NEW n \in UInt PROVE row(d, n, f) = row(d, n, g)
    <3>1. \A s \in BOOLEAN : Emitted(base, uc, d, n, s, f) = Emitted(base, uc, d, n, s, g)
      BY <1>3, <1>5, Zenon
    <3> QED  BY <3>1, Zenon
  <2> QED  BY <2>1
<1>6. \A f : [d \in UInt |-> val(d, f)] = Emit(base, uc, f)
  BY Zenon DEF Emit
<1>7. ASSUME NEW f, NEW d \in UInt, NEW n \in UInt, NEW s \in BOOLEAN PROVE val(d, f)[n][s] = Emitted(base, uc, d, n, s, f)
  OBVIOUS
<1> HIDE DEF val
<1>8. H \in [UInt -> [F -> V]] /\ \A d \in UInt, f \in F : H[d][f] = val(d, f)
  BY <1>4
<1> HIDE DEF H
<1>9. LooksBack(UInt, V, H)
  <2>1. ASSUME NEW d \in UInt, NEW g \in F, NEW h \in F, \A m \in UInt : m < d => g[m] = h[m] PROVE H[d][g] = H[d][h]
    <3>1. val(d, g) = val(d, h)
      BY <1>5, <2>1
    <3> QED  BY <1>8, <3>1, Zenon
  <2> QED  BY <1>8, <2>1, Words DEF LooksBack
<1>10. PICK v0 \in V : TRUE
  <2>1. <<>> \in Seq(Nat)
    OBVIOUS
  <2>2. [n \in UInt |-> [s \in BOOLEAN |-> <<>>]] \in V
    BY <2>1
  <2> QED  BY <2>2
<1> HIDE DEF V
<1>11. PICK f : Solves(f, UInt, V, H)
  BY <1>9, <1>10, StrongRecursion
<1>12. f = [d \in UInt |-> val(d, f)]
  BY <1>8, <1>11 DEF Solves
<1>13. f = Emit(base, uc, f)
  BY <1>6, <1>12, Zenon
<1> DEFINE t == EmitOf(base, uc)
<1>14. t = Emit(base, uc, t)
  BY <1>13, Zenon DEF EmitOf
<1>15. t = [d \in UInt |-> val(d, t)]
  BY <1>6, <1>14, Zenon
<1> HIDE DEF t
<1>16. \A d \in UInt : t[d] = val(d, t)
  BY <1>15, Zenon
<1> QED  BY <1>7, <1>16 DEF t

\* One element in front of a sequence.
LEMMA Prepended ==
  ASSUME NEW S, NEW c \in S, NEW t \in Seq(S), NEW u \in Seq(S), Len(u) = Len(t) + 1, u[1] = c,
         \A i \in 1 .. Len(t) : u[i + 1] = t[i]
  PROVE  <<c>> \o t = u
<1> DEFINE w == <<c>> \o t
<1>1. w \in Seq(S) /\ Len(w) = Len(u)
  BY ConcatProperties
<1>2. ASSUME NEW i \in 1 .. Len(w) PROVE w[i] = u[i]
  <2>1. CASE i = 1
    BY <2>1
  <2>2. CASE i # 1
    <3>1. i - 1 \in 1 .. Len(t) /\ i = (i - 1) + 1
      BY <1>1, <2>2
    <3>2. w[i] = t[i - 1]
      BY <3>1
    <3> QED  BY <3>1, <3>2
  <2> QED  BY <2>1, <2>2
<1> HIDE DEF w
<1> QED  BY <1>1, <1>2, SeqEqual DEF w

\* The k + 1 digits of n.
Numeral(P, n, k, uc) == [i \in 1 .. k + 1 |-> DigitCode(Digit(P, n, k + 1 - i), uc)]

\* A number of k + 1 digits has k + 1 characters.
LEMMA NumeralLength ==
  ASSUME NEW P, NEW n, NEW k \in Nat, NEW uc PROVE Len(Numeral(P, n, k, uc)) = k + 1
<1>1. ASSUME NEW S, NEW m \in Nat, NEW f \in [1 .. m -> S] PROVE Len(f) = m
  BY LenProperties
<1> DEFINE CodeAt(i) == DigitCode(Digit(P, n, k + 1 - i), uc)
           f == [i \in 1 .. k + 1 |-> CodeAt(i)]
           S == {CodeAt(i) : i \in 1 .. k + 1}
<1>2. f \in [1 .. k + 1 -> S]
  <2> HIDE DEF CodeAt
  <2> QED  OBVIOUS
<1>3. k + 1 \in Nat /\ Numeral(P, n, k, uc) = f
  BY DEF Numeral
<1> HIDE DEF f, S
<1> QED  BY <1>1, <1>2, <1>3

LEMMA NumeralType ==
  ASSUME NEW b \in Nat \ {0}, NEW P, IsPowers(P, b), NEW n \in Nat, NEW k \in Nat, NEW uc
  PROVE  Numeral(P, n, k, uc) \in Seq(Nat) /\ Len(Numeral(P, n, k, uc)) = k + 1
<1>1. ASSUME NEW i \in 1 .. k + 1 PROVE DigitCode(Digit(P, n, k + 1 - i), uc) \in Nat
  <2>1. k + 1 - i \in Nat
    OBVIOUS
  <2> DEFINE j == k + 1 - i
  <2>2. Digit(P, n, j) \in 0 .. b - 1
    <3> HIDE DEF j
    <3> QED  BY <2>1, DigitIs DEF j
  <2>3. Digit(P, n, j) \in Nat
    BY <2>2
  <2> QED  BY <2>3, DigitCodes
<1> QED  BY <1>1 DEF Numeral

\* The second loop of ui2a writes them, from the largest power on.
LEMMA EmitsNumeral ==
  ASSUME NEW base \in Nat, base >= 2, NEW uc, NEW P, IsPowers(P, base)
  PROVE  \A k \in Nat : P[k] \in UInt =>
           \A n \in UInt, s \in BOOLEAN :
             n < P[k + 1] /\ (s \/ P[k] <= n \/ k = 0) => EmitOf(base, uc)[P[k]][n][s] = Numeral(P, n, k, uc)
<1> DEFINE E == EmitOf(base, uc)
           Good(k) == P[k] \in UInt =>
             \A n \in UInt, s \in BOOLEAN : n < P[k + 1] /\ (s \/ P[k] <= n \/ k = 0) => E[P[k]][n][s] = Numeral(P, n, k, uc)
           S == {k \in Nat : Good(k)}
<1>00. base \in Nat \ {0}
  OBVIOUS
<1>0. /\ P[0] = 1 /\ \A k \in Nat : P[k] \in Nat \ {0} /\ P[k + 1] \in Nat \ {0} /\ P[k + 1] = base * P[k]
      /\ UInt \subseteq Nat /\ 0 \in UInt /\ \A n \in UInt, m \in Nat : m <= n => m \in UInt
  <2>1. \A k \in Nat : P[k] \in Nat \ {0}
    BY <1>00, PowersPositive
  <2>2. \A k \in Nat : k + 1 \in Nat
    OBVIOUS
  <2> QED  BY <2>1, <2>2, Words DEF IsPowers
<1>1. \A d \in UInt, n \in UInt, s \in BOOLEAN : E[d][n][s] = Emitted(base, uc, d, n, s, E)
  BY EmitCall
<1> HIDE DEF E
<1>2. \A n \in UInt, s \in BOOLEAN : E[0][n][s] = <<>>
  BY <1>0, <1>1 DEF Emitted
<1>3. Good(0)
  <2>1. SUFFICES ASSUME NEW n \in UInt, NEW s \in BOOLEAN, 1 \in UInt, n < P[0 + 1] PROVE E[1][n][s] = Numeral(P, n, 0, uc)
    BY <1>0, Zenon
  <2>2. 1 \div base = 0 /\ n \div 1 = n /\ n % 1 = 0 /\ n \in Nat /\ 1 # 0
    <3>1. 1 \in 0 .. base - 1 /\ base * 0 + 1 = 1
      OBVIOUS
    <3>2. (base * 0 + 1) \div base = 0
      BY <1>00, <3>1, Division
    <3>3. n \in Nat
      BY <1>0
    <3> QED  BY <3>1, <3>2, <3>3
  <2>3. E[1][n][s] = <<DigitCode(n, uc)>> \o <<>>
    <3>1. E[1][n][s] = Emitted(base, uc, 1, n, s, E)
      BY <1>1, <2>1, Zenon
    <3>2. Emitted(base, uc, 1, n, s, E) = <<DigitCode(n, uc)>> \o E[0][0][TRUE]
      BY <2>2, Zenon DEF Emitted
    <3>3. E[0][0][TRUE] = <<>>
      BY <1>0, <1>2, Zenon
    <3> QED  BY <3>1, <3>2, <3>3, Zenon
  <2>4. Digit(P, n, 0) = n
    <3>1. P[0 + 1] \in Nat \ {0} /\ P[0] = 1
      BY <1>0
    <3>2. n % P[0 + 1] = n
      BY <2>1, <2>2, <3>1
    <3> QED  BY <2>2, <3>1, <3>2, Zenon DEF Digit
  <2>5. Numeral(P, n, 0, uc) = [i \in 1 .. 1 |-> DigitCode(n, uc)]
    <3>1. \A i \in 1 .. 1 : 0 + 1 - i = 0
      OBVIOUS
    <3> QED  BY <2>4, <3>1 DEF Numeral
  <2> DEFINE c == DigitCode(n, uc)
  <2> HIDE DEF c
  <2>6. <<c>> \o <<>> = [i \in 1 .. 1 |-> c]
    OBVIOUS
  <2> QED  BY <2>3, <2>5, <2>6 DEF c
<1>4. ASSUME NEW k \in Nat, Good(k) PROVE Good(k + 1)
  <2> DEFINE m == k + 1   d == P[m]
  <2>0. m \in Nat /\ m # 0
    OBVIOUS
  <2>1. SUFFICES ASSUME NEW n \in UInt, NEW s \in BOOLEAN, d \in UInt, n < P[m + 1], s \/ d <= n PROVE E[d][n][s] = Numeral(P, n, m, uc)
    BY <2>0
  <2>2. d \in Nat \ {0} /\ d = base * P[k] /\ P[k] \in Nat \ {0} /\ n \in Nat
    BY <1>0, <2>0
  <2>3. d \div base = P[k] /\ P[k] \in UInt
    <3>1. d = base * P[k] + 0 /\ 0 \in 0 .. base - 1 /\ P[k] \in Int
      BY <2>2
    <3>2. (base * P[k] + 0) \div base = P[k]
      BY <1>00, <3>1, Division
    <3>3. P[k] <= d
      <4>1. \A x, y \in Nat : x >= 2 => y <= x * y
        OBVIOUS
      <4> QED  BY <2>2, <4>1
    <3> QED  BY <1>0, <2>1, <2>2, <3>2, <3>3
  <2> DEFINE r == n % d   q == n \div d
  <2>4. r \in UInt /\ r \in Nat /\ r < d /\ q \in Nat /\ (d <= n => q > 0)
    <3>1. r \in Nat /\ r < d /\ r <= n /\ n = d * q + r /\ q \in Nat
      <4>1. \A x \in Nat, y \in Nat \ {0} : /\ x % y \in Nat /\ x % y < y /\ x % y <= x
                                         /\ x = y * (x \div y) + (x % y) /\ x \div y \in Nat
        OBVIOUS
      <4> HIDE DEF d
      <4> QED  BY <2>2, <4>1
    <3> HIDE DEF r, q, d
    <3>2. d <= n => q > 0
      BY <2>2, <3>1
    <3> QED  BY <1>0, <3>1, <3>2
  <2>5. E[P[k]][r][TRUE] = Numeral(P, r, k, uc)
    BY <1>4, <2>3, <2>4
  <2>6. E[d][n][s] = <<DigitCode(q, uc)>> \o Numeral(P, r, k, uc)
    <3>1. E[d][n][s] = Emitted(base, uc, d, n, s, E)
      BY <1>1, <2>1
    <3>2. d # 0 /\ (s \/ q > 0)
      BY <2>1, <2>2, <2>4
    <3> HIDE DEF d
    <3> QED  BY <2>3, <2>5, <3>1, <3>2, Zenon DEF Emitted
  <2> DEFINE c == DigitCode(q, uc)   t == Numeral(P, r, k, uc)   u == Numeral(P, n, m, uc)
  <2>7. base \in Nat \ {0} /\ c \in Nat /\ t \in Seq(Nat) /\ Len(t) = k + 1 /\ u \in Seq(Nat) /\ Len(u) = Len(t) + 1
    <3>1. k + 1 \in Nat /\ m = k + 1
      OBVIOUS
    <3> HIDE DEF m, q, r, d
    <3>2. c \in Nat
      BY <2>4, DigitCodes
    <3>3. t \in Seq(Nat) /\ Len(t) = k + 1
      BY <2>4, <1>00, NumeralType
    <3>4. u \in Seq(Nat) /\ Len(u) = m + 1
      BY <2>0, <2>2, <1>00, NumeralType
    <3> HIDE DEF c, t, u
    <3> QED  BY <1>00, <3>1, <3>2, <3>3, <3>4
  <2>8. u[1] = c
    <3>1. Digit(P, n, m) = q
      <4>1. n % P[m + 1] = n
        <5>1. P[m + 1] \in Nat \ {0}
          BY <1>0, <2>0
        <5> HIDE DEF m
        <5> QED  BY <2>1, <2>2, <5>1
      <4> QED  BY <4>1 DEF Digit
    <3>2. u[1] = DigitCode(Digit(P, n, m + 1 - 1), uc) /\ m + 1 - 1 = m
      BY DEF Numeral
    <3> QED  BY <3>1, <3>2
  <2>9. ASSUME NEW i \in 1 .. Len(t) PROVE u[i + 1] = t[i]
    <3> DEFINE j == k + 1 - i
    <3>1. j \in Nat /\ j + 1 <= m /\ m + 1 - (i + 1) = j /\ i + 1 \in 1 .. m + 1 /\ i \in 1 .. k + 1
      BY <2>7
    <3>2. Digit(P, r, j) = Digit(P, n, j)
      <4> HIDE DEF j, m
      <4> QED  BY <2>0, <2>2, <2>7, <3>1, DigitRest, SMTT(40) DEF r, d
    <3>3. u[i + 1] = DigitCode(Digit(P, n, m + 1 - (i + 1)), uc)
      <4> HIDE DEF j, m, t
      <4> QED  BY <3>1 DEF Numeral
    <3>4. t[i] = DigitCode(Digit(P, r, j), uc)
      <4> HIDE DEF r, m, u
      <4> QED  BY <3>1 DEF Numeral
    <3> QED  BY <3>1, <3>2, <3>3, <3>4, Zenon
  <2>10. <<c>> \o t = u
    <3> HIDE DEF c, t, u
    <3> QED  BY <2>7, <2>8, <2>9, Prepended
  <2> QED  BY <2>6, <2>10
<1>5. Nat \subseteq S
  <2>1. 0 \in S
    BY <1>3
  <2>2. ASSUME NEW k \in Nat, k \in S PROVE k + 1 \in S
    <3>1. Good(k + 1)
      BY <1>4, <2>2
    <3> QED  BY <3>1
  <2> HIDE DEF S
  <2> QED  BY <2>1, <2>2, NatInduct
<1> QED  BY <1>5 DEF E

\* ui2a (printf.c:62) writes the digits of a number, as many as it has.
LEMMA Ui2aFound ==
  ASSUME NEW num \in UInt, NEW base \in Nat, base >= 2, NEW uc, NEW P, IsPowers(P, base)
  PROVE  \E k \in Nat : ui2a(num, base, uc) = Numeral(P, num, k, uc) /\ num < P[k + 1] /\ (k = 0 \/ P[k] <= num)
<1> DEFINE T == TopOf(num, base)
           S == {k \in Nat : num < P[k + 1]}
<1>0. base \in Nat \ {0} /\ num \in Nat
  BY Words
<1>1. P[0] = 1 /\ \A k \in Nat : P[k] \in Nat \ {0} /\ P[k + 1] \in Nat \ {0} /\ P[k + 1] = base * P[k] /\ P[k + 1] = P[k] * base
  <2>1. \A k \in Nat : P[k] \in Nat \ {0}
    BY <1>0, PowersPositive
  <2>2. \A x, y \in Nat : x * y = y * x
    OBVIOUS
  <2>3. P[0] = 1 /\ \A k \in Nat : k + 1 \in Nat /\ P[k + 1] = base * P[k]
    BY DEF IsPowers
  <2> QED  BY <2>1, <2>2, <2>3
<1>2. \A d \in UInt \ {0} : T[d] = IF num \div d >= base THEN T[d * base] ELSE d
  BY TopCall
<1>3. PICK K \in S : \A k \in S : K <= k
  <2>1. num + 1 \in Nat
    BY <1>0
  <2>2. num + 1 < P[num + 1]
    BY <2>1, PowersExceed
  <2>3. num \in S
    BY <1>0, <1>1, <2>1, <2>2
  <2>4. S \subseteq Nat /\ S # {}
    BY <2>3
  <2> HIDE DEF S
  <2> QED  BY <2>4, Least
<1>4. K \in Nat /\ num < P[K + 1] /\ \A j \in Nat : j < K => P[j + 1] <= num
  <2>1. ASSUME NEW j \in Nat, j < K PROVE P[j + 1] <= num
    <3>1. j \notin S
      BY <1>3, <2>1
    <3>2. P[j + 1] \in Nat
      BY <1>1
    <3> QED  BY <1>0, <3>1, <3>2
  <2> QED  BY <1>3, <2>1
<1> HIDE DEF S, T
<1>5. K = 0 \/ P[K] <= num
  <2>1. CASE K # 0
    <3>1. K - 1 \in Nat /\ K - 1 < K /\ K - 1 + 1 = K
      BY <1>4, <2>1
    <3> QED  BY <1>4, <3>1
  <2> QED  BY <2>1
<1>6. \A j \in Nat : j <= K => P[j] \in UInt \ {0}
  <2>1. ASSUME NEW j \in Nat, j <= K PROVE P[j] \in UInt \ {0}
    <3>1. CASE j = 0
      BY <1>1, <3>1, Words
    <3>2. CASE j # 0
      <4>1. j - 1 \in Nat /\ j - 1 < K /\ j - 1 + 1 = j
        BY <1>4, <2>1, <3>2
      <4>2. P[j] <= num /\ P[j] \in Nat \ {0}
        BY <1>1, <1>4, <4>1
      <4> QED  BY <4>2, Words
    <3> QED  BY <3>1, <3>2
  <2> QED  BY <2>1
\* d below the largest power is multiplied, and this is the last one.
<1> DEFINE U == {m \in Nat : m <= K => T[P[K - m]] = P[K]}
<1>7. 0 \in U
  <2>1. K - 0 = K /\ P[K] \in UInt \ {0} /\ P[K] \in Nat \ {0}
    BY <1>1, <1>4, <1>6
  <2>2. ~(num \div P[K] >= base)
    <3>1. SUFFICES ASSUME num \div P[K] >= base PROVE FALSE
      OBVIOUS
    <3>2. P[K] * base <= num
      BY <2>1, <3>1, NextPower
    <3> QED  BY <1>0, <1>1, <1>4, <3>2
  <2>3. T[P[K]] = P[K]
    BY <1>2, <2>1, <2>2
  <2> QED  BY <2>1, <2>3
<1>8. ASSUME NEW m \in Nat, m \in U PROVE m + 1 \in U
  <2>1. SUFFICES ASSUME m + 1 <= K PROVE T[P[K - (m + 1)]] = P[K]
    OBVIOUS
  <2> DEFINE j == K - (m + 1)   d == P[j]
  <2>2. j \in Nat /\ j <= K /\ j < K /\ j + 1 = K - m
    BY <1>4, <2>1
  <2> HIDE DEF j
  <2>3. d \in UInt \ {0} /\ d \in Nat \ {0} /\ d * base = P[j + 1] /\ P[j + 1] <= num
    BY <1>1, <1>4, <1>6, <2>2
  <2> HIDE DEF d
  <2>4. num \div d >= base
    <3> DEFINE q == num \div d   r == num % d
    <3>1. num = d * q + r /\ r \in 0 .. d - 1 /\ q \in Nat
      BY <1>0, <2>3
    <3> HIDE DEF q, r
    <3>2. SUFFICES ASSUME q < base PROVE FALSE
      BY <3>1 DEF q
    <3>3. base = (q + 1) + (base - q - 1) /\ base - q - 1 \in Nat
      BY <3>1, <3>2
    <3>4. \A x, y, z \in Nat : z * (x + y) >= z * x /\ z * (x + 1) = z * x + z
      OBVIOUS
    <3>5. d * base >= d * (q + 1) /\ d * (q + 1) = d * q + d
      <4> DEFINE e == base - q - 1
      <4>1. base = (q + 1) + e /\ e \in Nat /\ q + 1 \in Nat
        BY <3>1, <3>3
      <4> HIDE DEF e
      <4> QED  BY <2>3, <3>1, <3>4, <4>1
    <3>6. d * base \in Nat /\ d * q \in Nat
      BY <2>3, <3>1
    <3> QED  BY <1>0, <2>3, <3>1, <3>5, <3>6
  <2>5. T[d] = T[P[K - m]]
    BY <1>2, <2>2, <2>3, <2>4
  <2>6. T[P[K - m]] = P[K]
    BY <1>4, <1>8, <2>1
  <2> QED  BY <2>5, <2>6 DEF d, j
<1>9. T[1] = P[K]
  <2>1. Nat \subseteq U
    <3> HIDE DEF U
    <3> QED  BY <1>7, <1>8, NatInduct
  <2>2. K \in U /\ K <= K /\ K - K = 0
    BY <1>4, <2>1
  <2>3. T[P[K - K]] = P[K]
    BY <2>2
  <2> QED  BY <1>1, <2>2, <2>3
<1>10. EmitOf(base, uc)[P[K]][num][FALSE] = Numeral(P, num, K, uc)
  <2>1. P[K] \in UInt
    BY <1>4, <1>6
  <2>2. FALSE \in BOOLEAN /\ (FALSE \/ P[K] <= num \/ K = 0)
    BY <1>5
  <2> QED  BY <1>4, <2>1, <2>2, EmitsNumeral, Zenon
<1>11. ui2a(num, base, uc) = Numeral(P, num, K, uc)
  BY <1>9, <1>10, Ui2aIs, Zenon DEF T
<1> QED  BY <1>4, <1>5, <1>11

-----------------------------------------------------------------------------
LEMMA DigitChars ==
  ASSUME NEW d \in 0 .. 15, NEW uc \in BOOLEAN
  PROVE  /\ a2d(DigitCode(d, uc)) = d
         /\ DigitCode(d, uc) \in 48 .. 102
         /\ d \in 1 .. 9 => DigitCode(d, uc) \in 49 .. 57
         /\ d = 0 <=> DigitCode(d, uc) = 48
         /\ DigitCode(d, uc) > 96 => d >= 10 /\ ~uc
<1>1. CASE d < 10
  <2>1. DigitCode(d, uc) = d + 48
    BY <1>1 DEF DigitCode, Zero
  <2> QED  BY <1>1, <2>1 DEF a2d, Zero, Nine
<1>2. CASE d >= 10 /\ uc
  <2>1. DigitCode(d, uc) = d + 55
    BY <1>2 DEF DigitCode
  <2> DEFINE c == DigitCode(d, uc)
  <2>2. a2d(c) = d /\ c \in 48 .. 102 /\ c # 48 /\ ~(d \in 1 .. 9) /\ d # 0 /\ ~(c > 96)
    <3>0. d \in 10 .. 15
      BY <1>2
    <3>1. c = d + 55 /\ d \in 10 .. 15
      BY <2>1, <3>0, Zenon
    <3> HIDE DEF c
    <3> QED  BY <3>1, SMT DEF a2d, Zero, Nine
  <2> QED  BY <2>2, Zenon
<1>3. CASE d >= 10 /\ ~uc
  <2>1. DigitCode(d, uc) = d + 87
    BY <1>3 DEF DigitCode
  <2> QED  BY <1>3, <2>1 DEF a2d, Zero, Nine
<1> QED  BY <1>1, <1>2, <1>3

LEMMA DigitAt ==
  ASSUME NEW b \in 2 .. 16, NEW P, IsPowers(P, b), NEW n \in Nat, NEW j \in Nat
  PROVE  Digit(P, n, j) \in 0 .. b - 1 /\ Digit(P, n, j) \in 0 .. 15 /\ n \div P[j] = b * (n \div P[j + 1]) + Digit(P, n, j)
<1>1. b \in Nat \ {0}
  OBVIOUS
<1>2. Digit(P, n, j) \in 0 .. b - 1
  BY <1>1, DigitIs
<1>3. n \div P[j] = b * (n \div P[j + 1]) + Digit(P, n, j)
  BY <1>1, DigitIs
<1> QED  BY <1>2, <1>3

\* A digit of the numeral, and the number read up to it.
LEMMA NumeralDigit ==
  ASSUME NEW b \in 2 .. 16, NEW P, IsPowers(P, b), NEW n \in Nat, NEW k \in Nat, NEW uc \in BOOLEAN,
         NEW i \in 1 .. k + 1, NEW j \in Nat, j = k + 1 - i, NEW c, c = Numeral(P, n, k, uc)[i]
  PROVE  /\ a2d(c) = Digit(P, n, j) /\ a2d(c) \in 0 .. b - 1
         /\ c = DigitCode(a2d(c), uc)
         /\ n \div P[j] = b * (n \div P[j + 1]) + a2d(c)
<1>1. c = DigitCode(Digit(P, n, j), uc)
  BY DEF Numeral
<1>2. Digit(P, n, j) \in 0 .. 15 /\ Digit(P, n, j) \in 0 .. b - 1 /\ n \div P[j] = b * (n \div P[j + 1]) + Digit(P, n, j)
  BY DigitAt
<1>3. a2d(DigitCode(Digit(P, n, j), uc)) = Digit(P, n, j)
  BY <1>2, DigitChars
<1> QED  BY <1>1, <1>2, <1>3

LEMMA Beyond ==
  ASSUME NEW b \in 2 .. 16, NEW P, IsPowers(P, b), NEW n \in Nat, NEW j \in Nat
  PROVE  (n < P[j] => n \div P[j] = 0) /\ n \div P[0] = n
<1>1. b \in Nat \ {0}
  OBVIOUS
<1>2. P[j] \in Nat \ {0} /\ P[0] = 1 /\ n \div 1 = n
  <2>1. P[j] \in Nat \ {0}
    BY <1>1, PowersPositive
  <2>2. P[0] = 1
    BY DEF IsPowers
  <2> QED  BY <2>1, <2>2
<1>3. ASSUME n < P[j] PROVE n \div P[j] = 0
  <2> DEFINE p == P[j]
  <2>1. p \in Nat \ {0} /\ 0 \in Int /\ n \in 0 .. p - 1 /\ p * 0 + n = n
    BY <1>2, <1>3
  <2> HIDE DEF p
  <2>2. (p * 0 + n) \div p = 0
    BY <2>1, Division
  <2> QED  BY <2>1, <2>2 DEF p
<1> QED  BY <1>2, <1>3

LEMMA Extremes ==
  ASSUME NEW b \in 2 .. 16, NEW P, IsPowers(P, b), NEW n \in Nat, NEW k \in Nat, n < P[k + 1]
  PROVE  n \div P[k + 1] = 0 /\ n \div P[0] = n /\ (P[k] <= n => n \div P[k] > 0)
<1>1. b \in Nat \ {0} /\ k + 1 \in Nat
  OBVIOUS
<1>2. P[k + 1] \in Nat \ {0} /\ P[k] \in Nat \ {0} /\ P[0] = 1
  BY <1>1, PowersPositive DEF IsPowers
<1>3. n = P[k + 1] * 0 + n /\ n \in 0 .. P[k + 1] - 1
  BY <1>2
<1>4. (P[k + 1] * 0 + n) \div P[k + 1] = 0
  <2>1. 0 \in Int
    OBVIOUS
  <2> QED  BY <1>2, <1>3, <2>1, Division, Zenon
<1>5. n \div 1 = n
  OBVIOUS
<1>6. ASSUME P[k] <= n PROVE n \div P[k] > 0
  <2>1. \A x, y \in Nat : y > 0 /\ y <= x => x \div y > 0
    <3>1. ASSUME NEW x \in Nat, NEW y \in Nat, y > 0, y <= x PROVE x \div y > 0
      <4> DEFINE q == x \div y   r == x % y
      <4>1. x = y * q + r /\ r \in 0 .. y - 1 /\ q \in Nat
        BY <3>1
      <4> HIDE DEF q, r
      <4>2. q # 0
        BY <3>1, <4>1
      <4> QED  BY <4>1, <4>2 DEF q
    <3> QED  BY <3>1
  <2> QED  BY <1>2, <1>6, <2>1
<1> QED  BY <1>2, <1>3, <1>4, <1>5, <1>6

\* The value of a string, if w gives the values of its beginnings.
LEMMA ValueIs ==
  ASSUME NEW s \in Seq(Nat), NEW base, NEW w, w \in [0 .. Len(s) -> Int], w[0] = 0,
         \A i \in 1 .. Len(s) : w[i] = base * w[i - 1] + a2d(s[i])
  PROVE  Value(s, base) = w[Len(s)]
<1> DEFINE Loop(f) == [i \in 0 .. Len(s) |-> IF i = 0 THEN 0 ELSE base * f[i - 1] + a2d(s[i])]
           of == CHOOSE f : f = Loop(f)
<1>1. w = Loop(w)
  <2>1. \A i \in 0 .. Len(s) : w[i] = IF i = 0 THEN 0 ELSE base * w[i - 1] + a2d(s[i])
    <3>1. ASSUME NEW i \in 0 .. Len(s), i # 0 PROVE i \in 1 .. Len(s)
      BY <3>1
    <3> QED  BY <3>1
  <2> QED  BY <2>1
<1>2. of = Loop(of)
  BY <1>1, Zenon
<1>3. Value(s, base) = of[Len(s)]
  BY Zenon DEF Value
<1> HIDE DEF of
<1>4. \A i \in 0 .. Len(s) : of[i] = IF i = 0 THEN 0 ELSE base * of[i - 1] + a2d(s[i])
  <2> DEFINE val(i) == IF i = 0 THEN 0 ELSE base * of[i - 1] + a2d(s[i])
  <2>1. of = [i \in 0 .. Len(s) |-> val(i)]
    BY <1>2, Zenon
  <2>2. \A i \in 0 .. Len(s) : of[i] = val(i)
    <3> HIDE DEF val
    <3> QED  BY <2>1, Zenon
  <2> QED  BY <2>2
<1> DEFINE Agree == {i \in Nat : i <= Len(s) => of[i] = w[i]}
<1>5. 0 \in Agree
  BY <1>4
<1>6. ASSUME NEW i \in Nat, i \in Agree PROVE i + 1 \in Agree
  <2>1. SUFFICES ASSUME i + 1 <= Len(s) PROVE of[i + 1] = w[i + 1]
    OBVIOUS
  <2> DEFINE j == i + 1
  <2>2. j \in 1 .. Len(s) /\ j \in 0 .. Len(s) /\ j # 0 /\ j - 1 = i /\ of[i] = w[i]
    BY <1>6, <2>1
  <2> HIDE DEF j
  <2>3. of[j] = base * of[i] + a2d(s[j])
    BY <1>4, <2>2, Zenon
  <2>4. w[j] = base * w[i] + a2d(s[j])
    <3>1. w[j] = base * w[j - 1] + a2d(s[j])
      BY <2>2, Zenon
    <3> QED  BY <2>2, <3>1, Zenon
  <2>5. of[j] = w[j]
    BY <2>2, <2>3, <2>4, Zenon
  <2> QED  BY <2>5 DEF j
<1> HIDE DEF Agree
<1>7. Nat \subseteq Agree
  BY <1>5, <1>6, NatInduct
<1>8. Len(s) \in Nat /\ Len(s) <= Len(s)
  OBVIOUS
<1> QED  BY <1>3, <1>7, <1>8 DEF Agree

LEMMA NumeralDigits ==
  ASSUME NEW b \in 2 .. 16, NEW P, IsPowers(P, b), NEW n \in Nat, NEW k \in Nat, NEW uc \in BOOLEAN, NEW i \in 1 .. k + 1
  PROVE  a2d(Numeral(P, n, k, uc)[i]) \in 0 .. b - 1 /\ Numeral(P, n, k, uc)[i] = DigitCode(a2d(Numeral(P, n, k, uc)[i]), uc)
<1>1. Numeral(P, n, k, uc)[i] = DigitCode(Digit(P, n, k + 1 - i), uc)
  BY DEF Numeral
<1>2. ASSUME NEW j \in Nat PROVE Digit(P, n, j) \in 0 .. b - 1 /\ a2d(DigitCode(Digit(P, n, j), uc)) = Digit(P, n, j)
  BY DigitAt, DigitChars, SMTT(40)
<1>3. k + 1 - i \in Nat
  OBVIOUS
<1> QED  BY <1>1, <1>2, <1>3

\* h gives the numbers that the beginnings of t stand for, up to n.
Heads(h, t, n, b) ==
  /\ h \in [0 .. Len(t) -> 0 .. n] /\ h[0] = 0 /\ h[Len(t)] = n
  /\ \A l \in 1 .. Len(t) : h[l] = b * h[l - 1] + a2d(t[l])

LEMMA NumeralHeads ==
  ASSUME NEW b \in 2 .. 16, NEW P, IsPowers(P, b), NEW n \in Nat, NEW k \in Nat, NEW uc \in BOOLEAN, n < P[k + 1]
  PROVE  \E h : Heads(h, Numeral(P, n, k, uc), n, b)
<1> DEFINE s == Numeral(P, n, k, uc)
           w == [i \in 0 .. k + 1 |-> n \div P[k + 1 - i]]
<1>1. b \in Nat \ {0}
  OBVIOUS
<1>2. s \in Seq(Nat) /\ Len(s) = k + 1
  BY <1>1, NumeralType
<1>3. w[0] = 0 /\ w[k + 1] = n
  <2>1. k + 1 - 0 = k + 1 /\ k + 1 - (k + 1) = 0 /\ 0 \in 0 .. k + 1 /\ k + 1 \in 0 .. k + 1
    OBVIOUS
  <2>2. n \div P[k + 1] = 0 /\ n \div P[0] = n
    BY Extremes
  <2> QED  BY <2>1, <2>2
<1>4. ASSUME NEW i \in 1 .. k + 1 PROVE w[i] = b * w[i - 1] + a2d(s[i])
  <2>1. i \in 0 .. k + 1 /\ i - 1 \in 0 .. k + 1
    OBVIOUS
  <2>2. n \div P[k + 1 - i] = b * (n \div P[k + 1 - (i - 1)]) + a2d(s[i])
    <3> DEFINE j == k + 1 - i
    <3>1. j \in Nat /\ j = k + 1 - i /\ j + 1 = k + 1 - (i - 1)
      OBVIOUS
    <3> HIDE DEF j
    <3>2. n \div P[j] = b * (n \div P[j + 1]) + a2d(s[i])
      BY <3>1, NumeralDigit, SMTT(40)
    <3> QED  BY <3>1, <3>2
  <2> HIDE DEF s
  <2> QED  BY <2>1, <2>2
<1>5. w \in [0 .. k + 1 -> 0 .. n]
  <2>1. ASSUME NEW i \in 0 .. k + 1 PROVE n \div P[k + 1 - i] \in 0 .. n
    <3>1. k + 1 - i \in Nat
      OBVIOUS
    <3>2. P[k + 1 - i] \in Nat \ {0}
      BY <1>1, <3>1, PowersPositive
    <3> QED  BY <3>2
  <2> QED  BY <2>1
<1> HIDE DEF s, w
<1>6. Heads(w, s, n, b)
  BY <1>2, <1>3, <1>4, <1>5 DEF Heads
<1> QED  BY <1>6 DEF s

LEMMA HeadsValue ==
  ASSUME NEW b \in 2 .. 16, NEW t \in Seq(Nat), NEW n \in Nat, NEW h, Heads(h, t, n, b)
  PROVE  Value(t, b) = n
<1>1. h \in [0 .. Len(t) -> Int] /\ h[0] = 0 /\ h[Len(t)] = n /\ \A l \in 1 .. Len(t) : h[l] = b * h[l - 1] + a2d(t[l])
  BY DEF Heads
<1> QED  BY <1>1, ValueIs

LEMMA Signed ==
  ASSUME NEW n \in Int
  PROVE  ToInt(n) \in Int /\ (n \in PosInt => ToInt(n) = n) /\ (n \in UInt \ PosInt => ToInt(n) = n - 2^IntBits) /\ PosInt \subseteq UInt
<1>1. PosInt \subseteq UInt /\ UInt \subseteq Nat /\ 2^IntBits \in Int
  BY PowerAssumption DEF PosInt, UInt
<1>2. ToUInt(n) \in UInt /\ (n \in UInt => ToUInt(n) = n)
  BY Unsigned
<1>3. ToUInt(n) \in Int /\ ToUInt(n) - 2^IntBits \in Int
  <2>1. ToUInt(n) \in Nat
    BY <1>1, <1>2, Zenon
  <2> QED  BY <1>1, <2>1
<1> QED  BY <1>1, <1>2, <1>3 DEF ToInt

-----------------------------------------------------------------------------
(* Strings: t stands in s from place i on. *)
Stands(s, i, t) == \A l \in 1 .. Len(t) : At(s, i + l - 1) = t[l]

LEMMA AtIs ==
  ASSUME NEW s \in Seq(Nat), NEW i \in Int
  PROVE  At(s, i) = (IF i \in 1 .. Len(s) THEN s[i] ELSE 0) /\ At(s, i) \in Nat /\ Len(s) \in Nat
BY DEF At

LEMMA StandsAll == ASSUME NEW s \in Seq(Nat) PROVE Stands(s, 1, s)
<1>1. ASSUME NEW l \in 1 .. Len(s) PROVE At(s, 1 + l - 1) = s[l]
  BY DEF At
<1> QED  BY <1>1 DEF Stands

LEMMA StandsSplit ==
  ASSUME NEW s, NEW i \in Nat, NEW t \in Seq(Nat), NEW u \in Seq(Nat), Stands(s, i, t \o u)
  PROVE  Stands(s, i, t) /\ Stands(s, i + Len(t), u)
<1> DEFINE w == t \o u
<1>1. /\ Len(w) = Len(t) + Len(u) /\ Len(t) \in Nat /\ Len(u) \in Nat
      /\ \A l \in 1 .. Len(t) + Len(u) : w[l] = IF l <= Len(t) THEN t[l] ELSE u[l - Len(t)]
  BY ConcatProperties
<1>2. \A l \in 1 .. Len(w) : At(s, i + l - 1) = w[l]
  BY DEF Stands
<1> HIDE DEF w
<1>3. ASSUME NEW l \in 1 .. Len(t) PROVE At(s, i + l - 1) = t[l]
  <2>1. l \in 1 .. Len(t) + Len(u) /\ l \in 1 .. Len(w) /\ l <= Len(t)
    BY <1>1
  <2>2. w[l] = t[l]
    BY <1>1, <2>1, Zenon
  <2> QED  BY <1>2, <2>1, <2>2, Zenon
<1>4. ASSUME NEW l \in 1 .. Len(u) PROVE At(s, i + Len(t) + l - 1) = u[l]
  <2> DEFINE m == Len(t) + l
  <2>1. m \in 1 .. Len(w) /\ ~(m <= Len(t)) /\ m - Len(t) = l /\ i + m - 1 = i + Len(t) + l - 1
    BY <1>1
  <2> HIDE DEF m
  <2>2. w[m] = u[m - Len(t)]
    BY <1>1, <2>1
  <2>3. At(s, i + m - 1) = w[m]
    BY <1>2, <2>1
  <2> QED  BY <2>1, <2>2, <2>3
<1> QED  BY <1>3, <1>4 DEF Stands

LEMMA StandsOne == ASSUME NEW s, NEW i \in Nat, NEW c, Stands(s, i, <<c>>) PROVE At(s, i) = c
<1>1. 1 \in 1 .. Len(<<c>>) /\ i + 1 - 1 = i /\ <<c>>[1] = c
  OBVIOUS
<1>2. At(s, i + 1 - 1) = <<c>>[1]
  BY <1>1, Zenon DEF Stands
<1> QED  BY <1>1, <1>2

-----------------------------------------------------------------------------
(* a2i *)

LEMMA A2dType == \A ch \in Nat : a2d(ch) \in -1 .. 15 /\ (a2d(ch) \in Nat => ch # 0)
<1>1. ASSUME NEW ch \in Nat PROVE a2d(ch) \in -1 .. 15 /\ (a2d(ch) \in Nat => ch # 0)
  <2>1. CASE ch \in Zero .. Nine
    BY <2>1 DEF a2d, Zero, Nine
  <2>2. CASE ch \in 97 .. 102
    BY <2>2 DEF a2d, Zero, Nine
  <2>3. CASE ch \in 65 .. 70
    BY <2>3 DEF a2d, Zero, Nine
  <2>4. CASE ch \notin Zero .. Nine /\ ch \notin 97 .. 102 /\ ch \notin 65 .. 70
    BY <2>4 DEF a2d
  <2> QED  BY <2>1, <2>2, <2>3, <2>4
<1> QED  BY <1>1

\* The loop of a2i, f being what it computes.
Reads(s, base, j, num, f) ==
  IF a2d(At(s, j)) \in 0 .. base THEN f[j + 1][ToInt(num * base + a2d(At(s, j)))] ELSE [num |-> num, next |-> j]
Reading(s, base, f) == [j \in Nat |-> [num \in Int |-> Reads(s, base, j, num, f)]]
ReadingOf(s, base) == CHOOSE f : f = Reading(s, base, f)

LEMMA A2iIs == \A s, i, base : a2i(s, i, base) = ReadingOf(s, base)[i][0]
BY Zenon DEF a2i, ReadingOf, Reading, Reads

\* What is read lies in the string.
LEMMA DigitInside ==
  ASSUME NEW s \in Seq(Nat), NEW base \in Nat, NEW j \in Nat, a2d(At(s, j)) \in 0 .. base
  PROVE  j \in 1 .. Len(s) /\ a2d(At(s, j)) \in Nat /\ \A num \in Int : ToInt(num * base + a2d(At(s, j))) \in Int
<1>1. At(s, j) \in Nat /\ (j \notin 1 .. Len(s) => At(s, j) = 0)
  BY AtIs
<1>2. a2d(At(s, j)) \in Nat
  OBVIOUS
<1>3. At(s, j) # 0
  BY <1>1, <1>2, A2dType
<1> DEFINE c == a2d(At(s, j))
<1> HIDE DEF c
<1>4. \A num \in Int : num * base + c \in Int
  BY <1>2 DEF c
<1>5. \A num \in Int : ToInt(num * base + c) \in Int
  BY <1>4, Signed
<1> QED  BY <1>1, <1>2, <1>3, <1>5 DEF c

LEMMA A2iCall ==
  ASSUME NEW s \in Seq(Nat), NEW base \in Nat
  PROVE  \A j \in Nat, num \in Int : ReadingOf(s, base)[j][num] = Reads(s, base, j, num, ReadingOf(s, base))
<1> DEFINE R == [num : Int, next : Nat]   V == [Int -> R]   F == [Nat -> V]
           val(j, f) == [num \in Int |-> Reads(s, base, j, num, f)]
           M == [j \in Nat |-> IF j <= Len(s) THEN Len(s) + 1 - j ELSE 0]
           H == [j \in Nat |-> [f \in F |-> val(j, f)]]
<1>1. M \in [Nat -> Nat] /\ \A j \in Nat : M[j] = IF j <= Len(s) THEN Len(s) + 1 - j ELSE 0
  BY AtIs
<1> HIDE DEF M
<1>2. ASSUME NEW j \in Nat, NEW f \in F PROVE val(j, f) \in V
  <2>1. ASSUME NEW num \in Int PROVE Reads(s, base, j, num, f) \in R
    <3>1. CASE a2d(At(s, j)) \in 0 .. base
      <4> DEFINE x == ToInt(num * base + a2d(At(s, j)))
      <4>1. x \in Int /\ j + 1 \in Nat
        BY <3>1, DigitInside
      <4> HIDE DEF x
      <4>2. f[j + 1][x] \in R
        BY <4>1
      <4> QED  BY <3>1, <4>2 DEF Reads, x
    <3>2. CASE a2d(At(s, j)) \notin 0 .. base
      BY <3>2 DEF Reads
    <3> QED  BY <3>1, <3>2
  <2> QED  BY <2>1
<1>3. ASSUME NEW j \in Nat, NEW f \in F, NEW g \in F, \A m \in Nat : M[m] < M[j] => f[m] = g[m] PROVE val(j, f) = val(j, g)
  <2>1. ASSUME NEW num \in Int PROVE Reads(s, base, j, num, f) = Reads(s, base, j, num, g)
    <3>1. CASE a2d(At(s, j)) \in 0 .. base
      <4> DEFINE m == j + 1
      <4>1. m \in Nat /\ M[m] < M[j]
        <5>1. j \in 1 .. Len(s) /\ Len(s) \in Nat
          BY <3>1, DigitInside, AtIs
        <5>2. M[j] = Len(s) + 1 - j /\ m \in Nat /\ m = j + 1
          BY <1>1, <5>1
        <5> HIDE DEF m
        <5>3. M[m] = IF m <= Len(s) THEN Len(s) + 1 - m ELSE 0
          BY <1>1, <5>2
        <5>4. CASE m <= Len(s)
          <6>1. M[m] = Len(s) + 1 - m
            BY <5>3, <5>4
          <6> QED  BY <5>1, <5>2, <6>1
        <5>5. CASE ~(m <= Len(s))
          <6>1. M[m] = 0
            BY <5>3, <5>5
          <6> QED  BY <5>1, <5>2, <6>1
        <5> QED  BY <5>4, <5>5
      <4> HIDE DEF m
      <4>2. f[m] = g[m]
        BY <1>3, <4>1
      <4> QED  BY <3>1, <4>2, Zenon DEF Reads, m
    <3>2. CASE a2d(At(s, j)) \notin 0 .. base
      BY <3>2, Zenon DEF Reads
    <3> QED  BY <3>1, <3>2
  <2> QED  BY <2>1
<1>4. \A f : [j \in Nat |-> val(j, f)] = Reading(s, base, f)
  BY Zenon DEF Reading
<1>5. ASSUME NEW f, NEW j \in Nat, NEW num \in Int PROVE val(j, f)[num] = Reads(s, base, j, num, f)
  OBVIOUS
<1> HIDE DEF val
<1>6. H \in [Nat -> [F -> V]] /\ \A j \in Nat, f \in F : H[j][f] = val(j, f)
  BY <1>2
<1> HIDE DEF H
<1>7. LooksDown(Nat, V, H, M)
  <2>1. ASSUME NEW j \in Nat, NEW g \in F, NEW h \in F, \A m \in Nat : M[m] < M[j] => g[m] = h[m] PROVE H[j][g] = H[j][h]
    <3>1. val(j, g) = val(j, h)
      BY <1>3, <2>1
    <3> QED  BY <1>6, <3>1, Zenon
  <2> QED  BY <1>1, <1>6, <2>1 DEF LooksDown
<1>8. PICK v0 \in V : TRUE
  <2>1. [num \in Int |-> [num |-> 0, next |-> 0]] \in V
    OBVIOUS
  <2> QED  BY <2>1
<1> HIDE DEF V
<1>9. PICK f : Solves(f, Nat, V, H)
  BY <1>7, <1>8, MeasuredRecursion
<1>10. f = [j \in Nat |-> val(j, f)]
  BY <1>6, <1>9 DEF Solves
<1>11. f = Reading(s, base, f)
  BY <1>4, <1>10, Zenon
<1> DEFINE t == ReadingOf(s, base)
<1>12. t = Reading(s, base, t)
  BY <1>11, Zenon DEF ReadingOf
<1>13. t = [j \in Nat |-> val(j, t)]
  BY <1>4, <1>12, Zenon
<1> HIDE DEF t
<1>14. \A j \in Nat : t[j] = val(j, t)
  BY <1>13, Zenon
<1> QED  BY <1>5, <1>14 DEF t

LEMMA A2iType ==
  ASSUME NEW s \in Seq(Nat), NEW base \in Nat, NEW i \in Nat
  PROVE  a2i(s, i, base).num \in Int /\ a2i(s, i, base).next \in Nat /\ a2i(s, i, base).next >= i
<1> DEFINE t == ReadingOf(s, base)
           Good(j, num) == t[j][num].num \in Int /\ t[j][num].next \in Nat /\ t[j][num].next >= j
           S == {m \in Nat : \A j \in Nat : Len(s) + 1 - j <= m => \A num \in Int : Good(j, num)}
<1>1. \A j \in Nat, num \in Int : t[j][num] = Reads(s, base, j, num, t)
  BY A2iCall
<1>2. Len(s) \in Nat
  OBVIOUS
<1> HIDE DEF t
<1>3. ASSUME NEW j \in Nat, NEW num \in Int, a2d(At(s, j)) \notin 0 .. base PROVE Good(j, num)
  <2>1. t[j][num] = [num |-> num, next |-> j]
    BY <1>1, <1>3 DEF Reads
  <2> QED  BY <2>1
<1>4. ASSUME NEW m \in Nat, \A j \in Nat : Len(s) + 1 - j < m => \A num \in Int : Good(j, num),
             NEW j \in Nat, Len(s) + 1 - j <= m, NEW num \in Int
      PROVE  Good(j, num)
  <2>1. CASE a2d(At(s, j)) \in 0 .. base
    <3> DEFINE x == ToInt(num * base + a2d(At(s, j)))   k == j + 1
    <3>1. x \in Int /\ k \in Nat
      BY <2>1, DigitInside
    <3>2. t[j][num] = t[k][x]
      BY <1>1, <2>1 DEF Reads
    <3> HIDE DEF x
    <3>3. Len(s) + 1 - k < m /\ k >= j
      BY <1>2, <1>4
    <3> HIDE DEF k, Good
    <3>4. Good(k, x)
      BY <1>4, <3>1, <3>3
    <3> QED  BY <3>1, <3>2, <3>3, <3>4 DEF Good
  <2> QED  BY <1>3, <2>1
<1> HIDE DEF Good
<1>5. Nat \subseteq S
  <2>1. 0 \in S
    <3>1. ASSUME NEW j \in Nat, Len(s) + 1 - j <= 0, NEW num \in Int PROVE Good(j, num)
      <4>1. a2d(At(s, j)) \notin 0 .. base
        BY <1>2, <3>1, DigitInside
      <4> QED  BY <1>3, <4>1
    <3> QED  BY <3>1
  <2>2. ASSUME NEW m \in Nat, m \in S PROVE m + 1 \in S
    <3>1. m + 1 \in Nat
      OBVIOUS
    <3>2. \A j \in Nat : Len(s) + 1 - j < m + 1 => \A num \in Int : Good(j, num)
      BY <1>2, <2>2
    <3>3. \A j \in Nat : Len(s) + 1 - j <= m + 1 => \A num \in Int : Good(j, num)
      BY <1>4, <3>1, <3>2
    <3> QED  BY <3>1, <3>3
  <2> HIDE DEF S
  <2> QED  BY <2>1, <2>2, NatInduct
<1>6. Len(s) + 1 \in S /\ Len(s) + 1 - i <= Len(s) + 1
  <2>1. Len(s) + 1 \in Nat /\ Len(s) + 1 - i <= Len(s) + 1
    BY <1>2
  <2> HIDE DEF S
  <2> QED  BY <1>5, <2>1
<1>7. Good(i, 0)
  BY <1>6
<1> QED  BY <1>7, A2iIs DEF Good, t

\* What ui2a writes (printf.c:62): the digits of the number and no others, with
\* no zero in front.
Numbered(t, n, b, uc) ==
  /\ t \in Seq(Nat) /\ Len(t) \in Nat \ {0}
  /\ Value(t, b) = n
  /\ \E h : Heads(h, t, n, b)
  /\ \A i \in 1 .. Len(t) : a2d(t[i]) \in 0 .. b - 1 /\ t[i] = DigitCode(a2d(t[i]), uc)
  /\ Len(t) = 1 \/ t[1] # Zero
  /\ n > 0 => t[1] # Zero

LEMMA LeadingDigit ==
  ASSUME NEW b \in 2 .. 16, NEW P, IsPowers(P, b), NEW n \in Nat, NEW k \in Nat, NEW uc \in BOOLEAN, n < P[k + 1], P[k] <= n
  PROVE  Numeral(P, n, k, uc)[1] # Zero
<1>1. Numeral(P, n, k, uc)[1] = DigitCode(Digit(P, n, k), uc)
  <2>1. k + 1 - 1 = k /\ 1 \in 1 .. k + 1
    OBVIOUS
  <2> QED  BY <2>1 DEF Numeral
<1>2. Digit(P, n, k) \in 0 .. 15 /\ n \div P[k] = b * (n \div P[k + 1]) + Digit(P, n, k)
  BY DigitAt
<1>3. n \div P[k + 1] = 0 /\ n \div P[k] > 0
  BY Extremes
<1>4. Digit(P, n, k) # 0
  BY <1>2, <1>3
<1> QED  BY <1>1, <1>2, <1>4, DigitChars DEF Zero

LEMMA NumeralNumbered ==
  ASSUME NEW b \in 2 .. 16, NEW P, IsPowers(P, b), NEW n \in Nat, NEW k \in Nat, NEW uc \in BOOLEAN,
         n < P[k + 1], k = 0 \/ P[k] <= n
  PROVE  Numbered(Numeral(P, n, k, uc), n, b, uc)
<1> DEFINE t == Numeral(P, n, k, uc)
<1>1. b \in Nat \ {0}
  OBVIOUS
<1>2. t \in Seq(Nat) /\ Len(t) = k + 1
  BY <1>1, NumeralType
<1>3. \E h : Heads(h, t, n, b)
  BY NumeralHeads
<1>4. ASSUME NEW i \in 1 .. k + 1 PROVE a2d(t[i]) \in 0 .. b - 1 /\ t[i] = DigitCode(a2d(t[i]), uc)
  BY NumeralDigits
<1>5. P[k] <= n => t[1] # Zero
  BY LeadingDigit
<1>6. n > 0 => P[k] <= n
  BY DEF IsPowers
<1> HIDE DEF t
<1>7. Len(t) = 1 \/ t[1] # Zero
  BY <1>2, <1>5
<1>8. Value(t, b) = n
  BY <1>2, <1>3, HeadsValue
<1>9. Numbered(t, n, b, uc)
  BY <1>2, <1>3, <1>4, <1>5, <1>6, <1>7, <1>8 DEF Numbered
<1> QED  BY <1>9 DEF t

LEMMA Ui2aNumbered ==
  ASSUME NEW n \in UInt, NEW b \in 2 .. 16, NEW uc \in BOOLEAN
  PROVE  Numbered(ui2a(n, b, uc), n, b, uc)
<1>1. b \in Nat /\ b >= 2 /\ n \in Nat
  BY Words
<1>2. PICK P : IsPowers(P, b)
  BY <1>1, PowersExist
<1>3. PICK k \in Nat : ui2a(n, b, uc) = Numeral(P, n, k, uc) /\ n < P[k + 1] /\ (k = 0 \/ P[k] <= n)
  BY <1>1, <1>2, Ui2aFound
<1> QED  BY <1>1, <1>2, <1>3, NumeralNumbered

\* a2i (printf.c:100) reads back what ui2a wrote, up to the first character
\* that is no digit.
StandsAlone(s, i, u, b) == Stands(s, i, u) /\ a2d(At(s, i + Len(u))) \notin 0 .. b
ReadBack(s, i, u, b, w) == a2i(s, i, b) = [num |-> w, next |-> i + Len(u)]

LEMMA A2iReads ==
  ASSUME NEW b \in 2 .. 16, NEW s \in Seq(Nat), NEW i \in Nat, NEW w \in PosInt, NEW uc \in BOOLEAN,
         NEW u, Numbered(u, w, b, uc), StandsAlone(s, i, u, b)
  PROVE  ReadBack(s, i, u, b, w)
<1>0. Stands(s, i, u) /\ a2d(At(s, i + Len(u))) \notin 0 .. b
  BY DEF StandsAlone
<1>1. u \in Seq(Nat) /\ Len(u) \in Nat /\ b \in Nat
  BY DEF Numbered
<1>2. PICK h : Heads(h, u, w, b)
  BY DEF Numbered
<1>3. \A i_1 \in 1 .. Len(u) : a2d(u[i_1]) \in 0 .. b - 1
  BY DEF Numbered
<1> DEFINE t == ReadingOf(s, b)
           S == {l \in Nat : l <= Len(u) => t[i][0] = t[i + l][h[l]]}
<1>4. \A j \in Nat, num \in Int : t[j][num] = Reads(s, b, j, num, t)
  BY <1>1, A2iCall
<1> HIDE DEF t
<1>5. h[0] = 0 /\ h[Len(u)] = w /\ \A l \in 0 .. Len(u) : h[l] \in PosInt /\ h[l] \in Int
  <2>1. h \in [0 .. Len(u) -> 0 .. w] /\ h[0] = 0 /\ h[Len(u)] = w
    BY <1>2 DEF Heads
  <2>2. 0 .. w \subseteq PosInt /\ 0 .. w \subseteq Int
    BY PowerAssumption DEF PosInt
  <2> QED  BY <2>1, <2>2
<1>6. 0 \in S
  <2>1. i + 0 = i
    OBVIOUS
  <2> QED  BY <1>5, <2>1
<1>7. ASSUME NEW l \in Nat, l \in S PROVE l + 1 \in S
  <2> DEFINE m == l + 1   c == u[m]   j == i + l
  <2>1. SUFFICES ASSUME m <= Len(u) PROVE t[i][0] = t[i + m][h[m]]
    OBVIOUS
  <2>2. m \in 1 .. Len(u) /\ m \in 0 .. Len(u) /\ l \in 0 .. Len(u) /\ m - 1 = l /\ j \in Nat /\ i + m = j + 1 /\ i + m - 1 = j
    BY <1>1, <2>1
  <2>3. t[i][0] = t[j][h[l]]
    BY <1>7, <2>2
  <2> HIDE DEF m, j
  <2>4. a2d(c) \in 0 .. b - 1 /\ h[m] = b * h[l] + a2d(c)
    <3>1. h[m] = b * h[m - 1] + a2d(c)
      BY <1>2, <2>2, Zenon DEF Heads
    <3>2. a2d(c) \in 0 .. b - 1
      BY <1>3, <2>2, Zenon
    <3> QED  BY <2>2, <3>1, <3>2, Zenon
  <2>5. At(s, j) = c
    <3>1. At(s, i + m - 1) = c
      BY <1>0, <2>2, Zenon DEF Stands
    <3> QED  BY <2>2, <3>1
  <2>6. h[m] \in PosInt /\ h[m] \in Int /\ h[l] \in Int
    BY <1>5, <2>2, Zenon
  <2> DEFINE x == h[l]   y == h[m]
  <2> HIDE DEF c, x, y
  <2>7. ToInt(x * b + a2d(c)) = y
    <3>1. x * b + a2d(c) = y /\ y \in PosInt /\ y \in Int
      <4>1. x \in Int /\ y \in Int /\ y \in PosInt /\ y = b * x + a2d(c) /\ a2d(c) \in Int
        BY <2>4, <2>6 DEF x, y
      <4> QED  BY <1>1, <4>1
    <3> QED  BY <3>1, Signed
  <2>8. a2d(At(s, j)) \in 0 .. b
    BY <2>4, <2>5
  <2>9. t[j][x] = t[j + 1][y]
    <3>1. t[j][x] = Reads(s, b, j, x, t)
      BY <1>4, <2>2, <2>6, Zenon DEF x
    <3> QED  BY <2>5, <2>7, <2>8, <3>1 DEF Reads
  <2> QED  BY <2>2, <2>3, <2>9 DEF x, y
<1>8. Len(u) \in S
  <2> HIDE DEF S
  <2>1. Nat \subseteq S
    BY <1>6, <1>7, NatInduct
  <2> QED  BY <1>1, <2>1
<1> DEFINE j == i + Len(u)
<1>9. t[i][0] = t[j][w]
  BY <1>1, <1>5, <1>8
<1>10. j \in Nat /\ w \in Int
  BY <1>1 DEF PosInt
<1>11. a2d(At(s, j)) \notin 0 .. b
  BY <1>0
<1> HIDE DEF j
<1>12. t[j][w] = [num |-> w, next |-> j]
  BY <1>4, <1>10, <1>11 DEF Reads
<1> QED  BY <1>9, <1>12, A2iIs DEF t, j, ReadBack

LEMMA Decimal == \A n \in UInt : Numbered(ui2a(n, 10, FALSE), n, 10, FALSE)
<1>1. 10 \in 2 .. 16 /\ FALSE \in BOOLEAN
  OBVIOUS
<1> QED  BY <1>1, Ui2aNumbered, Zenon

LEMMA DecimalDigits ==
  ASSUME NEW u, NEW n \in Nat, NEW uc \in BOOLEAN, Numbered(u, n, 10, uc)
  PROVE  \A i \in 1 .. Len(u) : u[i] \in 48 .. 57
<1>1. ASSUME NEW i \in 1 .. Len(u) PROVE u[i] \in 48 .. 57
  <2> DEFINE d == a2d(u[i])
  <2>1. d \in 0 .. 9 /\ u[i] = DigitCode(d, uc)
    BY DEF Numbered
  <2> HIDE DEF d
  <2>2. DigitCode(d, uc) = d + 48
    BY <2>1 DEF DigitCode, Zero
  <2> QED  BY <2>1, <2>2
<1> QED  BY <1>1

\* The width of a directive is read.
LEMMA WidthReads ==
  ASSUME NEW s \in Seq(Nat), NEW i \in Nat, NEW w \in PosInt, NEW u, Numbered(u, w, 10, FALSE), StandsAlone(s, i, u, 10)
  PROVE  ReadBack(s, i, u, 10, w)
<1>1. 10 \in 2 .. 16 /\ FALSE \in BOOLEAN
  OBVIOUS
<1> QED  BY <1>1, A2iReads, Zenon

\* The letters of the directives are no digits.
LEMMA Letters ==
  \A k \in DOMAIN Directives : /\ Directives[k] \in {100, 117, 120, 88, 99, 115} /\ Directives[k] \in Nat \ {0, 48, 37}
                               /\ Directives[k] \notin 48 .. 57 /\ a2d(Directives[k]) \notin 0 .. 10
<1>1. ASSUME NEW k \in DOMAIN Directives PROVE Directives[k] \in {100, 117, 120, 88, 99, 115}
  BY DEF Directives
<1>2. \A c \in {100, 117, 120, 88, 99, 115} : c \in Nat \ {0, 48, 37} /\ c \notin 48 .. 57 /\ a2d(c) \notin 0 .. 10
  <2>1. a2d(100) = 13 /\ a2d(99) = 12 /\ a2d(117) = -1 /\ a2d(120) = -1 /\ a2d(88) = -1 /\ a2d(115) = -1
    BY SMT DEF a2d, Zero, Nine
  <2> QED  BY <2>1
<1> QED  BY <1>1, <1>2

\* A conversion of printf as the calls of Library write it.
IsConversion(c) == c.lz \in BOOLEAN /\ c.w \in PosInt /\ c.dir \in DOMAIN Directives

Zeros(c) == IF c.lz THEN <<Zero>> ELSE <<>>
Digits(c) == IF c.w > 0 THEN ui2a(c.w, 10, FALSE) ELSE <<>>
Letter(c) == Directives[c.dir]

LEMMA FmtType ==
  ASSUME NEW c, IsConversion(c)
  PROVE  /\ Fmt(c) = ((<<Percent>> \o Zeros(c)) \o Digits(c)) \o <<Letter(c)>>
         /\ Zeros(c) \in Seq(Nat) /\ Digits(c) \in Seq(Nat) /\ Fmt(c) \in Seq(Nat)
         /\ Len(Fmt(c)) = Len(Zeros(c)) + Len(Digits(c)) + 2
         /\ <<Percent>> \o Zeros(c) \in Seq(Nat) /\ Len(<<Percent>> \o Zeros(c)) = Len(Zeros(c)) + 1
         /\ (<<Percent>> \o Zeros(c)) \o Digits(c) \in Seq(Nat)
         /\ Len((<<Percent>> \o Zeros(c)) \o Digits(c)) = Len(Zeros(c)) + 1 + Len(Digits(c))
<1>1. Fmt(c) = ((<<Percent>> \o Zeros(c)) \o Digits(c)) \o <<Letter(c)>>
  BY DEF Fmt, Zeros, Digits, Letter
<1>2. Zeros(c) \in Seq(Nat)
  <2>1. <<>> \in Seq(Nat) /\ <<48>> \in Seq(Nat)
    OBVIOUS
  <2> QED  BY <2>1, Zenon DEF Zeros, Zero, IsConversion
<1>3. Digits(c) \in Seq(Nat)
  <2>1. <<>> \in Seq(Nat)
    OBVIOUS
  <2>2. c.w \in UInt
    BY PowerAssumption DEF IsConversion, PosInt, UInt
  <2>3. ui2a(c.w, 10, FALSE) \in Seq(Nat)
    BY <2>2, Decimal, Zenon DEF Numbered
  <2> QED  BY <2>1, <2>3, Zenon DEF Digits
<1>4. <<Percent>> \in Seq(Nat) /\ Len(<<Percent>>) = 1
  BY DEF Percent
<1>5. <<Letter(c)>> \in Seq(Nat) /\ Len(<<Letter(c)>>) = 1
  <2>1. Letter(c) \in Nat
    BY Letters DEF IsConversion, Letter
  <2> QED  BY <2>1
<1>6. \A t \in Seq(Nat), u \in Seq(Nat) : t \o u \in Seq(Nat) /\ Len(t \o u) = Len(t) + Len(u) /\ Len(t) \in Nat
  OBVIOUS
<1> DEFINE z == Zeros(c)   u == Digits(c)   e == <<Letter(c)>>   p == <<Percent>>
<1> HIDE DEF z, u, e, p
<1>7. p \o z \in Seq(Nat) /\ Len(p \o z) = Len(z) + 1
  BY <1>2, <1>4, <1>6 DEF p, z
<1>8. (p \o z) \o u \in Seq(Nat) /\ Len((p \o z) \o u) = Len(z) + 1 + Len(u)
  BY <1>3, <1>6, <1>7 DEF u
<1>9. ((p \o z) \o u) \o e \in Seq(Nat) /\ Len(((p \o z) \o u) \o e) = Len(z) + Len(u) + 2
  <2>1. Len(((p \o z) \o u) \o e) = Len((p \o z) \o u) + Len(e) /\ ((p \o z) \o u) \o e \in Seq(Nat)
    BY <1>5, <1>6, <1>8 DEF e
  <2>2. Len(z) \in Nat /\ Len(u) \in Nat /\ Len(e) = 1
    BY <1>2, <1>3, <1>5, <1>6 DEF u, e, z
  <2> QED  BY <1>8, <2>1, <2>2
<1> QED  BY <1>1, <1>2, <1>3, <1>7, <1>8, <1>9 DEF z, u, e, p

\* tfp_format (printf.c:138) finds it where it stands.
LEMMA DirectiveIs ==
  ASSUME NEW s \in Seq(Nat), NEW i \in Nat, NEW c, IsConversion(c), Stands(s, i, Fmt(c))
  PROVE  /\ At(s, i) = Percent
         /\ Directive(s, i) = [lz |-> c.lz, w |-> c.w, ch |-> Letter(c), next |-> i + Len(Fmt(c))]
<1> DEFINE z == Zeros(c)   u == Digits(c)   f == i + (Len(z) + 1)   g == f + Len(u)
<1>1. /\ Fmt(c) = ((<<Percent>> \o z) \o u) \o <<Letter(c)>>
      /\ z \in Seq(Nat) /\ u \in Seq(Nat) /\ Fmt(c) \in Seq(Nat) /\ Len(Fmt(c)) = Len(z) + Len(u) + 2
      /\ <<Percent>> \o z \in Seq(Nat) /\ Len(<<Percent>> \o z) = Len(z) + 1
      /\ (<<Percent>> \o z) \o u \in Seq(Nat) /\ Len((<<Percent>> \o z) \o u) = Len(z) + 1 + Len(u)
      /\ Len(z) \in Nat /\ Len(u) \in Nat
  <2>1. /\ Fmt(c) = ((<<Percent>> \o z) \o u) \o <<Letter(c)>>
        /\ z \in Seq(Nat) /\ u \in Seq(Nat) /\ Fmt(c) \in Seq(Nat) /\ Len(Fmt(c)) = Len(z) + Len(u) + 2
        /\ <<Percent>> \o z \in Seq(Nat) /\ Len(<<Percent>> \o z) = Len(z) + 1
        /\ (<<Percent>> \o z) \o u \in Seq(Nat) /\ Len((<<Percent>> \o z) \o u) = Len(z) + 1 + Len(u)
    BY FmtType, Zenon
  <2> HIDE DEF z, u
  <2>2. Len(z) \in Nat /\ Len(u) \in Nat
    BY <2>1
  <2> QED  BY <2>1, <2>2
<1>2. Letter(c) \in Nat \ {0, 48, 37} /\ Letter(c) \notin 48 .. 57 /\ a2d(Letter(c)) \notin 0 .. 10
  BY Letters, ZenonT(60) DEF IsConversion, Letter
<1>3. f \in Nat /\ g \in Nat /\ g + 1 = i + Len(Fmt(c)) /\ i + Len((<<Percent>> \o z) \o u) = g
  BY <1>1
<1>4. <<Letter(c)>> \in Seq(Nat) /\ <<Percent>> \in Seq(Nat) /\ Len(<<Percent>>) = 1
  BY <1>2 DEF Percent
<1> DEFINE pz == <<Percent>> \o z   pzu == pz \o u
<1>5. Stands(s, i, pzu) /\ At(s, g) = Letter(c)
  <2> HIDE DEF z, u, f, g
  <2>1. Stands(s, i, pzu \o <<Letter(c)>>) /\ pzu \in Seq(Nat)
    BY <1>1, Zenon
  <2> HIDE DEF pzu
  <2>2. Stands(s, i, pzu) /\ Stands(s, i + Len(pzu), <<Letter(c)>>)
    BY <1>4, <2>1, StandsSplit
  <2>3. i + Len(pzu) = g
    BY <1>3 DEF pzu
  <2> QED  BY <1>3, <2>2, <2>3, StandsOne
<1>6. Stands(s, i, pz) /\ Stands(s, f, u)
  <2> HIDE DEF z, u
  <2>1. Stands(s, i, pz \o u) /\ pz \in Seq(Nat) /\ u \in Seq(Nat)
    BY <1>1, <1>5, Zenon
  <2>2. i + Len(pz) = f
    BY <1>1
  <2> HIDE DEF pz, f
  <2>3. Stands(s, i, pz) /\ Stands(s, i + Len(pz), u)
    BY <2>1, StandsSplit
  <2> QED  BY <2>2, <2>3
<1>7. At(s, i) = Percent /\ Stands(s, i + 1, z)
  <2> HIDE DEF z, u, f, g
  <2>1. Stands(s, i, <<Percent>>) /\ Stands(s, i + Len(<<Percent>>), z)
    BY <1>1, <1>4, <1>6, StandsSplit
  <2> QED  BY <1>4, <2>1, StandsOne
<1>8. c.w > 0 => Numbered(u, c.w, 10, FALSE) /\ c.w \in UInt /\ c.w \in Nat
  <2>1. c.w \in UInt /\ c.w \in Nat
    BY PowerAssumption DEF IsConversion, PosInt, UInt
  <2> QED  BY <2>1, Decimal, Zenon DEF Digits
<1>9. c.w > 0 => u[1] \in 49 .. 57 /\ At(s, f) = u[1]
  <2>1. SUFFICES ASSUME c.w > 0 PROVE u[1] \in 49 .. 57 /\ At(s, f) = u[1]
    OBVIOUS
  <2> HIDE DEF u, f
  <2>2. 1 \in 1 .. Len(u) /\ u[1] # Zero
    <3>1. Len(u) \in Nat \ {0} /\ u[1] # Zero
      BY <1>8, <2>1, Zenon DEF Numbered
    <3> QED  BY <3>1
  <2>3. u[1] \in 48 .. 57
    BY <1>8, <2>1, <2>2, DecimalDigits
  <2>4. At(s, f + 1 - 1) = u[1]
    BY <1>6, <2>2 DEF Stands
  <2> QED  BY <1>3, <2>2, <2>3, <2>4 DEF Zero
<1>10. c.w \in Nat /\ (~(c.w > 0) => c.w = 0 /\ u = <<>> /\ g = f)
  <2>1. c.w \in Nat
    BY PowerAssumption DEF IsConversion, PosInt
  <2>2. ASSUME ~(c.w > 0) PROVE c.w = 0 /\ u = <<>> /\ g = f
    <3>1. u = <<>> /\ Len(u) = 0
      BY <2>2 DEF Digits
    <3>2. f \in Nat
      BY <1>3
    <3> HIDE DEF u, f
    <3> QED  BY <2>1, <2>2, <3>1, <3>2
  <2> QED  BY <2>1, <2>2
<1>11. At(s, f) \in Nat /\ At(s, f) # 48
  <2> HIDE DEF f, g, u
  <2>1. c.w > 0 \/ At(s, f) = Letter(c)
    BY <1>5, <1>10, Zenon
  <2>2. At(s, f) = Letter(c) \/ At(s, f) \in 49 .. 57
    BY <1>9, <2>1, Zenon
  <2> QED  BY <1>2, <2>2, SMTT(40)
<1>12. c.lz = (At(s, i + 1) = Zero) /\ f = IF At(s, i + 1) = Zero THEN i + 2 ELSE i + 1
  <2>1. CASE c.lz
    <3>1. z = <<Zero>> /\ Len(z) = 1
      BY <2>1 DEF Zeros
    <3>2. At(s, i + 1) = Zero
      BY <1>7, <3>1, StandsOne
    <3>3. f = i + 2
      BY <3>1
    <3> QED  BY <2>1, <3>2, <3>3
  <2>2. CASE ~c.lz
    <3>1. z = <<>> /\ Len(z) = 0
      BY <2>2 DEF Zeros
    <3>2. f = i + 1
      BY <3>1
    <3>3. At(s, i + 1) # Zero
      BY <1>11, <3>2 DEF Zero
    <3> HIDE DEF f
    <3> QED  BY <2>2, <3>2, <3>3, Zenon DEF IsConversion
  <2>3. c.lz \in BOOLEAN
    BY DEF IsConversion
  <2> QED  BY <2>1, <2>2, <2>3
<1> DEFINE r == IF At(s, f) \in Zero .. Nine THEN a2i(s, f, 10) ELSE [num |-> 0, next |-> f]
<1>13. r = [num |-> c.w, next |-> g]
  <2>1. CASE c.w > 0
    <3>1. 10 \in 2 .. 16 /\ FALSE \in BOOLEAN /\ c.w \in PosInt
      BY DEF IsConversion
    <3>2. a2d(At(s, g)) \notin 0 .. 10
      BY <1>2, <1>5
    <3>3. Numbered(u, c.w, 10, FALSE)
      BY <1>8, <2>1
    <3>4. At(s, f) \in Zero .. Nine
      <4> HIDE DEF f, u
      <4> QED  BY <1>9, <2>1 DEF Zero, Nine
    <3>5. a2i(s, f, 10) = [num |-> c.w, next |-> f + Len(u)]
      <4>1. StandsAlone(s, f, u, 10)
        BY <1>6, <3>2 DEF StandsAlone
      <4> HIDE DEF u, f
      <4>2. ReadBack(s, f, u, 10, c.w)
        BY <1>3, <3>1, <3>3, <4>1, WidthReads, Zenon
      <4> QED  BY <4>2 DEF ReadBack
    <3> QED  BY <3>4, <3>5
  <2>2. CASE ~(c.w > 0)
    <3>1. At(s, f) = Letter(c) /\ c.w = 0 /\ g = f
      BY <1>5, <1>10, <2>2
    <3>2. At(s, f) \notin Zero .. Nine
      BY <1>2, <3>1 DEF Zero, Nine
    <3> HIDE DEF f, g
    <3> QED  BY <3>1, <3>2, Zenon
  <2> QED  BY <2>1, <2>2
<1>14. Directive(s, i) = [lz |-> At(s, i + 1) = Zero, w |-> r.num, ch |-> At(s, r.next), next |-> r.next + 1]
  <2> HIDE DEF z, u
  <2>1. r = IF At(s, IF At(s, i + 1) = Zero THEN i + 2 ELSE i + 1) \in Zero .. Nine
            THEN a2i(s, IF At(s, i + 1) = Zero THEN i + 2 ELSE i + 1, 10)
            ELSE [num |-> 0, next |-> IF At(s, i + 1) = Zero THEN i + 2 ELSE i + 1]
    <3> HIDE DEF f
    <3> QED  BY <1>12, Zenon
  <2> HIDE DEF r
  <2> QED  BY <2>1, Zenon DEF Directive
<1> HIDE DEF r, z, u, f, g
<1>15. r.num = c.w /\ r.next = g
  BY <1>13
<1> QED  BY <1>3, <1>5, <1>7, <1>12, <1>14, <1>15, Zenon

LEMMA DirectiveType ==
  ASSUME NEW s \in Seq(Nat), NEW i \in Nat
  PROVE  /\ Directive(s, i).next \in Nat /\ Directive(s, i).next > i
         /\ Directive(s, i).w \in Int /\ Directive(s, i).ch \in Nat
<1> DEFINE f == IF At(s, i + 1) = Zero THEN i + 2 ELSE i + 1
           r == IF At(s, f) \in Zero .. Nine THEN a2i(s, f, 10) ELSE [num |-> 0, next |-> f]
<1>1. Directive(s, i) = [lz |-> At(s, i + 1) = Zero, w |-> r.num, ch |-> At(s, r.next), next |-> r.next + 1]
  BY Zenon DEF Directive
<1>2. f \in Nat /\ f > i
  OBVIOUS
<1> HIDE DEF f
<1>3. r.num \in Int /\ r.next \in Nat /\ r.next >= f
  <2>1. 10 \in Nat
    OBVIOUS
  <2>2. a2i(s, f, 10).num \in Int /\ a2i(s, f, 10).next \in Nat /\ a2i(s, f, 10).next >= f
    BY <1>2, <2>1, A2iType, Zenon
  <2> QED  BY <1>2, <2>2
<1> HIDE DEF r
<1>4. At(s, r.next) \in Nat
  BY <1>3, AtIs, SMTT(40)
<1> QED  BY <1>1, <1>2, <1>3, <1>4

\* The character that %c prints.
CharOf(arg) == <<arg.n % 256>>

LEMMA ConvertedIs ==
  ASSUME NEW d, NEW arg
  PROVE  /\ d.ch = 117 => Converted(d, arg) = putchw(d.w, d.lz, ui2a(ToUInt(arg.n), 10, FALSE))
         /\ d.ch = 100 => Converted(d, arg) = putchw(d.w, d.lz, i2a(ToInt(arg.n)))
         /\ d.ch = 120 => Converted(d, arg) = putchw(d.w, d.lz, ui2a(ToUInt(arg.n), 16, FALSE))
         /\ d.ch = 88 => Converted(d, arg) = putchw(d.w, d.lz, ui2a(ToUInt(arg.n), 16, TRUE))
         /\ d.ch = 99 => Converted(d, arg) = CharOf(arg)
         /\ d.ch = 115 => Converted(d, arg) = putchw(d.w, FALSE, arg.s)
         /\ d.ch = 37 => Converted(d, arg) = <<37>>
         /\ d.ch \notin {117, 100, 120, 88, 99, 115, 37} => Converted(d, arg) = <<>>
<1>1. Directives.u = 117 /\ Directives.d = 100 /\ Directives.x = 120 /\ Directives.X = 88 /\ Directives.c = 99 /\ Directives.s = 115 /\ Percent = 37
  BY DEF Directives, Percent
<1> DEFINE U == putchw(d.w, d.lz, ui2a(ToUInt(arg.n), 10, FALSE))
           D == putchw(d.w, d.lz, i2a(ToInt(arg.n)))
           Hex(up) == putchw(d.w, d.lz, ui2a(ToUInt(arg.n), 16, up))
           Lower == Hex(FALSE)
           Upper == Hex(TRUE)
           C == CharOf(arg)
           S == putchw(d.w, FALSE, arg.s)
           is == Converted(d, arg)
<1>2. is = CASE d.ch = 117 -> U [] d.ch = 100 -> D [] d.ch \in {120, 88} -> Hex(d.ch = 88)
             [] d.ch = 99 -> C [] d.ch = 115 -> S [] d.ch = 37 -> <<37>> [] OTHER -> <<>>
  BY <1>1, Zenon DEF Converted, CharOf
<1>3. d.ch = 120 => Hex(d.ch = 88) = Lower
  <2>1. d.ch = 120 => (d.ch = 88) = FALSE
    OBVIOUS
  <2> HIDE DEF Hex
  <2> QED  BY <2>1, Zenon
<1>4. d.ch = 88 => Hex(d.ch = 88) = Upper
  <2>1. d.ch = 88 => (d.ch = 88) = TRUE
    OBVIOUS
  <2> HIDE DEF Hex
  <2> QED  BY <2>1, Zenon
<1> DEFINE H == Hex(d.ch = 88)
<1> HIDE DEF U, D, C, S, Lower, Upper, H, is
<1>5. is = CASE d.ch = 117 -> U [] d.ch = 100 -> D [] d.ch \in {120, 88} -> H
             [] d.ch = 99 -> C [] d.ch = 115 -> S [] d.ch = 37 -> <<37>> [] OTHER -> <<>>
  BY <1>2, Zenon DEF H
<1>6. (d.ch = 120 => H = Lower) /\ (d.ch = 88 => H = Upper)
  BY <1>3, <1>4, Zenon DEF H
<1> DEFINE ch == d.ch
<1> HIDE DEF ch, Hex
<1>7. /\ (ch = 117 => is = U) /\ (ch = 100 => is = D) /\ (ch = 120 => is = Lower) /\ (ch = 88 => is = Upper)
      /\ (ch = 99 => is = C) /\ (ch = 115 => is = S) /\ (ch = 37 => is = <<37>>)
      /\ (ch \notin {117, 100, 120, 88, 99, 115, 37} => is = <<>>)
  BY <1>5, <1>6 DEF ch
<1> QED  BY <1>7, Zenon DEF U, D, C, S, Lower, Upper, is, ch, Hex

LEMMA PutchwIs ==
  ASSUME NEW n \in Int, NEW z, NEW bf \in Seq(Nat)
  PROVE  /\ putchw(n, z, bf) = [k \in 1 .. (IF n > Len(bf) THEN n - Len(bf) ELSE 0) |-> IF z THEN Zero ELSE Space] \o bf
         /\ [k \in 1 .. (IF n > Len(bf) THEN n - Len(bf) ELSE 0) |-> IF z THEN Zero ELSE Space] \in Seq(Nat)
         /\ Len([k \in 1 .. (IF n > Len(bf) THEN n - Len(bf) ELSE 0) |-> IF z THEN Zero ELSE Space])
            = IF n > Len(bf) THEN n - Len(bf) ELSE 0
         /\ putchw(n, z, bf) \in Seq(Nat)
<1> DEFINE m == IF n > Len(bf) THEN n - Len(bf) ELSE 0   c == IF z THEN Zero ELSE Space   pad == [k \in 1 .. m |-> c]
<1>1. m \in Nat
  OBVIOUS
<1>2. c \in Nat
  BY DEF Zero, Space
<1>3. putchw(n, z, bf) = pad \o bf
  BY Zenon DEF putchw
<1> HIDE DEF m, c
<1>4. pad \in Seq(Nat) /\ Len(pad) = m
  BY <1>1, <1>2
<1> HIDE DEF pad
<1>5. pad \o bf \in Seq(Nat)
  BY <1>4
<1> QED  BY <1>3, <1>4, <1>5, Zenon DEF pad, m, c

Args == [n : Int, s : Seq(Nat)]

LEMMA ConvertedType == ASSUME NEW d, d.w \in Int, NEW arg \in Args PROVE Converted(d, arg) \in Seq(Nat)
<1>1. arg.n \in Int /\ arg.s \in Seq(Nat) /\ arg.n % 256 \in Nat
  BY DEF Args
<1>2. \A n \in UInt, b \in 2 .. 16, uc \in BOOLEAN : ui2a(n, b, uc) \in Seq(Nat)
  BY Ui2aNumbered, Zenon DEF Numbered
<1>3. 10 \in 2 .. 16 /\ 16 \in 2 .. 16 /\ FALSE \in BOOLEAN /\ TRUE \in BOOLEAN
  OBVIOUS
<1>4. \A n \in UInt : ui2a(n, 10, FALSE) \in Seq(Nat) /\ ui2a(n, 16, FALSE) \in Seq(Nat) /\ ui2a(n, 16, TRUE) \in Seq(Nat)
  BY <1>2, <1>3, Zenon
<1>5. \A n \in Int : ToUInt(n) \in UInt /\ ToInt(n) \in Int
  BY Unsigned, Signed
<1>6. \A n \in Int : i2a(n) \in Seq(Nat)
  <2>1. ASSUME NEW n \in Int PROVE i2a(n) \in Seq(Nat)
    <3> DEFINE m == IF n < 0 THEN -n ELSE n   sign == IF n < 0 THEN <<Minus>> ELSE <<>>
    <3>1. m \in Int
      OBVIOUS
    <3>2. sign \in Seq(Nat)
      <4>1. <<>> \in Seq(Nat) /\ <<Minus>> \in Seq(Nat)
        BY DEF Minus
      <4> QED  BY <4>1
    <3>3. i2a(n) = sign \o ui2a(ToUInt(m), 10, FALSE)
      BY Zenon DEF i2a
    <3> HIDE DEF m, sign
    <3>4. ui2a(ToUInt(m), 10, FALSE) \in Seq(Nat)
      BY <1>4, <1>5, <3>1, Zenon
    <3>5. \A t, u \in Seq(Nat) : t \o u \in Seq(Nat)
      OBVIOUS
    <3> QED  BY <3>2, <3>3, <3>4, <3>5, Zenon
  <2> QED  BY <2>1
<1>7. \A z, bf : bf \in Seq(Nat) => putchw(d.w, z, bf) \in Seq(Nat)
  BY PutchwIs, Zenon
<1>8. CASE d.ch = 117
  <2>1. Converted(d, arg) = putchw(d.w, d.lz, ui2a(ToUInt(arg.n), 10, FALSE))
    BY <1>8, ConvertedIs, Zenon
  <2> QED  BY <1>1, <1>4, <1>5, <1>7, <2>1, Zenon
<1>9. CASE d.ch = 100
  <2>1. Converted(d, arg) = putchw(d.w, d.lz, i2a(ToInt(arg.n)))
    BY <1>9, ConvertedIs, Zenon
  <2> QED  BY <1>1, <1>5, <1>6, <1>7, <2>1, Zenon
<1>10. CASE d.ch = 120
  <2>1. Converted(d, arg) = putchw(d.w, d.lz, ui2a(ToUInt(arg.n), 16, FALSE))
    BY <1>10, ConvertedIs, ZenonT(60)
  <2> QED  BY <1>1, <1>4, <1>5, <1>7, <2>1, Zenon
<1>11. CASE d.ch = 88
  <2>1. Converted(d, arg) = putchw(d.w, d.lz, ui2a(ToUInt(arg.n), 16, TRUE))
    BY <1>11, ConvertedIs, Zenon
  <2> QED  BY <1>1, <1>4, <1>5, <1>7, <2>1, Zenon
<1>12. CASE d.ch = 99
  <2>1. Converted(d, arg) = CharOf(arg)
    BY <1>12, ConvertedIs, Zenon
  <2> QED  BY <1>1, <2>1 DEF CharOf
<1>13. CASE d.ch = 115
  <2>1. Converted(d, arg) = putchw(d.w, FALSE, arg.s)
    BY <1>13, ConvertedIs, Zenon
  <2> QED  BY <1>1, <1>7, <2>1, Zenon
<1>14. CASE d.ch = 37
  <2>1. Converted(d, arg) = <<37>>
    BY <1>14, ConvertedIs, Zenon
  <2> QED  BY <2>1
<1>15. CASE d.ch \notin {117, 100, 120, 88, 99, 115, 37}
  <2>1. Converted(d, arg) = <<>>
    BY <1>15, ConvertedIs, Zenon
  <2> QED  BY <2>1
<1> QED  BY <1>8, <1>9, <1>10, <1>11, <1>12, <1>13, <1>14, <1>15

\* The loop of tfp_format, f being what it computes.
Formatted(fmt, va, i, k, f) ==
  LET d == Directive(fmt, i)
  IN CASE At(fmt, i) = 0 -> <<>>
       [] At(fmt, i) \notin {0, Percent} -> <<At(fmt, i)>> \o f[i + 1][k]
       [] OTHER -> IF d.ch = 0 THEN <<>> ELSE Converted(d, va[k]) \o f[d.next][IF Takes(d) THEN k + 1 ELSE k]
Formatting(fmt, va, f) == [i \in Nat |-> [k \in Nat |-> Formatted(fmt, va, i, k, f)]]
FormattingOf(fmt, va) == CHOOSE f : f = Formatting(fmt, va, f)

LEMMA FormatIs == \A fmt, va : tfp_format(fmt, va) = FormattingOf(fmt, va)[1][1]
BY Zenon DEF tfp_format, FormattingOf, Formatting, Formatted

\* What stands at place i: the end, a character, a lone % at the end, or a directive.
Ends(fmt, i) == At(fmt, i) = 0
Plain(fmt, i) == At(fmt, i) \notin {0, Percent}
Breaks(fmt, i) == At(fmt, i) = Percent /\ Directive(fmt, i).ch = 0
Directs(fmt, i) == At(fmt, i) = Percent /\ Directive(fmt, i).ch # 0

OneChar(fmt, i, k, f) == <<At(fmt, i)>> \o f[i + 1][k]
Behind(fmt, va, i, k, f) ==
  Converted(Directive(fmt, i), va[k]) \o f[Directive(fmt, i).next][IF Takes(Directive(fmt, i)) THEN k + 1 ELSE k]

LEMMA Places == \A fmt, i : Ends(fmt, i) \/ Plain(fmt, i) \/ Breaks(fmt, i) \/ Directs(fmt, i)
BY DEF Ends, Plain, Breaks, Directs

LEMMA FormattedIs ==
  ASSUME NEW fmt, NEW va, NEW i, NEW k, NEW f
  PROVE  /\ Ends(fmt, i) => Formatted(fmt, va, i, k, f) = <<>>
         /\ Plain(fmt, i) => Formatted(fmt, va, i, k, f) = OneChar(fmt, i, k, f)
         /\ Breaks(fmt, i) => Formatted(fmt, va, i, k, f) = <<>>
         /\ Directs(fmt, i) => Formatted(fmt, va, i, k, f) = Behind(fmt, va, i, k, f)
<1> DEFINE d == Directive(fmt, i)   at == At(fmt, i)   ch == d.ch   is == Formatted(fmt, va, i, k, f)
           C == OneChar(fmt, i, k, f)
           D == Behind(fmt, va, i, k, f)
<1>1. is = CASE at = 0 -> <<>> [] at \notin {0, Percent} -> C [] OTHER -> IF ch = 0 THEN <<>> ELSE D
  BY Zenon DEF Formatted, Behind, OneChar
<1> HIDE DEF at, ch, is, C, D, d
<1>2. /\ (at = 0 => is = <<>>) /\ (at \notin {0, Percent} => is = C)
      /\ (at = Percent /\ ch = 0 => is = <<>>) /\ (at = Percent /\ ch # 0 => is = D)
  BY <1>1 DEF Percent
<1> QED  BY <1>2, Zenon DEF at, ch, is, C, D, d, Ends, Plain, Breaks, Directs

LEMMA FormatCall ==
  ASSUME NEW fmt \in Seq(Nat), NEW va \in [Nat -> Args]
  PROVE  \A i \in Nat, k \in Nat : FormattingOf(fmt, va)[i][k] = Formatted(fmt, va, i, k, FormattingOf(fmt, va))
<1> DEFINE R == Seq(Nat)   V == [Nat -> R]   F == [Nat -> V]
           val(i, f) == [k \in Nat |-> Formatted(fmt, va, i, k, f)]
           M == [i \in Nat |-> IF i <= Len(fmt) THEN Len(fmt) + 1 - i ELSE 0]
           H == [i \in Nat |-> [f \in F |-> val(i, f)]]
<1>1. M \in [Nat -> Nat] /\ \A i \in Nat : M[i] = IF i <= Len(fmt) THEN Len(fmt) + 1 - i ELSE 0
  BY AtIs
<1> HIDE DEF M
<1>2. \A i \in Nat : At(fmt, i) \in Nat /\ (At(fmt, i) # 0 => i \in 1 .. Len(fmt)) /\ Len(fmt) \in Nat
  BY AtIs
<1>3. \A i \in Nat : /\ Directive(fmt, i).next \in Nat /\ Directive(fmt, i).next > i
                     /\ Directive(fmt, i).w \in Int /\ Directive(fmt, i).ch \in Nat
  BY DirectiveType
<1>4. ASSUME NEW i \in Nat, At(fmt, i) # 0, NEW j \in Nat, j > i PROVE M[j] < M[i]
  <2>1. i <= Len(fmt) /\ Len(fmt) \in Nat
    BY <1>2, <1>4
  <2>2. M[i] = Len(fmt) + 1 - i
    BY <1>1, <2>1
  <2>3. CASE j <= Len(fmt)
    <3>1. M[j] = Len(fmt) + 1 - j
      BY <1>1, <2>3
    <3> QED  BY <1>4, <2>1, <2>2, <3>1
  <2>4. CASE ~(j <= Len(fmt))
    <3>1. M[j] = 0
      BY <1>1, <2>4
    <3> QED  BY <2>1, <2>2, <3>1
  <2> QED  BY <2>3, <2>4
<1>5. \A i, k \in Nat : (IF Takes(Directive(fmt, i)) THEN k + 1 ELSE k) \in Nat
  OBVIOUS
<1>6. ASSUME NEW i \in Nat, NEW f \in F PROVE val(i, f) \in V
  <2>1. ASSUME NEW k \in Nat PROVE Formatted(fmt, va, i, k, f) \in R
    <3> DEFINE d == Directive(fmt, i)   n == IF Takes(d) THEN k + 1 ELSE k
    <3>0. <<>> \in R /\ \A t, u \in R : t \o u \in R
      OBVIOUS
    <3>1. CASE Ends(fmt, i)
      BY <3>0, <3>1, FormattedIs, Zenon
    <3>2. CASE Plain(fmt, i)
      <4>1. Formatted(fmt, va, i, k, f) = <<At(fmt, i)>> \o f[i + 1][k]
        <5>1. Formatted(fmt, va, i, k, f) = OneChar(fmt, i, k, f)
          BY <3>2, FormattedIs, ZenonT(60)
        <5> QED  BY <5>1, Zenon DEF OneChar
      <4>2. <<At(fmt, i)>> \in R /\ f[i + 1][k] \in R
        <5>1. At(fmt, i) \in Nat
          BY <1>2
        <5>2. i + 1 \in Nat
          OBVIOUS
        <5> QED  BY <5>1, <5>2
      <4> QED  BY <3>0, <4>1, <4>2, Zenon
    <3>3. CASE Breaks(fmt, i)
      BY <3>0, <3>3, FormattedIs, Zenon
    <3>4. CASE Directs(fmt, i)
      <4>1. Formatted(fmt, va, i, k, f) = Converted(d, va[k]) \o f[d.next][n]
        <5>1. Formatted(fmt, va, i, k, f) = Behind(fmt, va, i, k, f)
          BY <3>4, FormattedIs, Zenon
        <5> QED  BY <5>1, Zenon DEF Behind
      <4>2. Converted(d, va[k]) \in R
        <5>1. d.w \in Int /\ va[k] \in Args
          BY <1>3
        <5> QED  BY <5>1, ConvertedType
      <4>3. f[d.next][n] \in R
        <5>1. d.next \in Nat /\ n \in Nat
          BY <1>3, <1>5
        <5> HIDE DEF n, d
        <5> QED  BY <5>1
      <4> QED  BY <3>0, <4>1, <4>2, <4>3, Zenon
    <3> QED  BY <3>1, <3>2, <3>3, <3>4, Places, Zenon
  <2> QED  BY <2>1
<1>7. ASSUME NEW i \in Nat, NEW f \in F, NEW g \in F, \A m \in Nat : M[m] < M[i] => f[m] = g[m] PROVE val(i, f) = val(i, g)
  <2>1. ASSUME NEW k \in Nat PROVE Formatted(fmt, va, i, k, f) = Formatted(fmt, va, i, k, g)
    <3> DEFINE d == Directive(fmt, i)   n == IF Takes(d) THEN k + 1 ELSE k
    <3>1. CASE Ends(fmt, i)
      BY <3>1, FormattedIs, Zenon
    <3>2. CASE Plain(fmt, i)
      <4>1. f[i + 1] = g[i + 1]
        <5>1. i + 1 \in Nat /\ i + 1 > i /\ At(fmt, i) # 0
          BY <3>2 DEF Plain
        <5> QED  BY <1>4, <1>7, <5>1, Zenon
      <4>2. Formatted(fmt, va, i, k, f) = <<At(fmt, i)>> \o f[i + 1][k] /\ Formatted(fmt, va, i, k, g) = <<At(fmt, i)>> \o g[i + 1][k]
        <5>1. Formatted(fmt, va, i, k, f) = OneChar(fmt, i, k, f)
          BY <3>2, FormattedIs, ZenonT(60)
        <5>2. Formatted(fmt, va, i, k, g) = OneChar(fmt, i, k, g)
          BY <3>2, FormattedIs, ZenonT(60)
        <5> QED  BY <5>1, <5>2, Zenon DEF OneChar
      <4> QED  BY <4>1, <4>2, Zenon
    <3>3. CASE Breaks(fmt, i)
      BY <3>3, FormattedIs, Zenon
    <3>4. CASE Directs(fmt, i)
      <4>1. f[d.next] = g[d.next]
        <5>1. d.next \in Nat /\ d.next > i /\ At(fmt, i) # 0
          <6>1. At(fmt, i) # 0
            BY <3>4 DEF Percent, Directs
          <6> QED  BY <1>3, <6>1, Zenon
        <5> HIDE DEF d
        <5> QED  BY <1>4, <1>7, <5>1, Zenon
      <4>2. Formatted(fmt, va, i, k, f) = Converted(d, va[k]) \o f[d.next][n] /\ Formatted(fmt, va, i, k, g) = Converted(d, va[k]) \o g[d.next][n]
        <5>1. Formatted(fmt, va, i, k, f) = Behind(fmt, va, i, k, f) /\ Formatted(fmt, va, i, k, g) = Behind(fmt, va, i, k, g)
          BY <3>4, FormattedIs, Zenon
        <5> QED  BY <5>1, Zenon DEF Behind
      <4> HIDE DEF d, n
      <4> QED  BY <4>1, <4>2, Zenon
    <3> QED  BY <3>1, <3>2, <3>3, <3>4, Places, Zenon
  <2> QED  BY <2>1
<1>8. \A f : [i \in Nat |-> val(i, f)] = Formatting(fmt, va, f)
  BY Zenon DEF Formatting
<1>9. ASSUME NEW f, NEW i \in Nat, NEW k \in Nat PROVE val(i, f)[k] = Formatted(fmt, va, i, k, f)
  OBVIOUS
<1> HIDE DEF val
<1>10. H \in [Nat -> [F -> V]] /\ \A i \in Nat, f \in F : H[i][f] = val(i, f)
  BY <1>6
<1> HIDE DEF H
<1>11. LooksDown(Nat, V, H, M)
  <2>1. ASSUME NEW i \in Nat, NEW g \in F, NEW h \in F, \A m \in Nat : M[m] < M[i] => g[m] = h[m] PROVE H[i][g] = H[i][h]
    <3>1. val(i, g) = val(i, h)
      BY <1>7, <2>1
    <3> QED  BY <1>10, <3>1, Zenon
  <2> QED  BY <1>1, <1>10, <2>1 DEF LooksDown
<1>12. PICK v0 \in V : TRUE
  <2>1. <<>> \in Seq(Nat)
    OBVIOUS
  <2>2. [k \in Nat |-> <<>>] \in V
    BY <2>1
  <2> QED  BY <2>2
<1> HIDE DEF V
<1>13. PICK f : Solves(f, Nat, V, H)
  BY <1>11, <1>12, MeasuredRecursion
<1>14. f = [i \in Nat |-> val(i, f)]
  BY <1>10, <1>13 DEF Solves
<1>15. f = Formatting(fmt, va, f)
  BY <1>8, <1>14, Zenon
<1> DEFINE t == FormattingOf(fmt, va)
<1>16. t = Formatting(fmt, va, t)
  BY <1>15, Zenon DEF FormattingOf
<1>17. t = [i \in Nat |-> val(i, t)]
  BY <1>8, <1>16, Zenon
<1> HIDE DEF t
<1>18. \A i \in Nat : t[i] = val(i, t)
  BY <1>17, Zenon
<1> QED  BY <1>9, <1>18 DEF t

\* What a conversion prints of a slot.
Conv(c, arg) == Converted([lz |-> c.lz, w |-> c.w, ch |-> Letter(c), next |-> 0], arg)

LEMMA ConvertedNext ==
  ASSUME NEW d, NEW e, NEW arg, d.ch = e.ch, d.w = e.w, d.lz = e.lz
  PROVE  Converted(d, arg) = Converted(e, arg)
<1> DEFINE w == d.w   lz == d.lz
           v117 == putchw(w, lz, ui2a(ToUInt(arg.n), 10, FALSE))
           v100 == putchw(w, lz, i2a(ToInt(arg.n)))
           v120 == putchw(w, lz, ui2a(ToUInt(arg.n), 16, FALSE))
           v88 == putchw(w, lz, ui2a(ToUInt(arg.n), 16, TRUE))
           v99 == CharOf(arg)
           v115 == putchw(w, FALSE, arg.s)
           v37 == <<37>>
           Table(x, ch) ==
             /\ ch = 117 => x = v117
             /\ ch = 100 => x = v100
             /\ ch = 120 => x = v120
             /\ ch = 88 => x = v88
             /\ ch = 99 => x = v99
             /\ ch = 115 => x = v115
             /\ ch = 37 => x = v37
             /\ ch \notin {117, 100, 120, 88, 99, 115, 37} => x = <<>>
<1>1. Table(Converted(d, arg), d.ch)
  BY ConvertedIs, Zenon
<1>2. Table(Converted(e, arg), e.ch)
  <2> DEFINE
        u117 == putchw(e.w, e.lz, ui2a(ToUInt(arg.n), 10, FALSE))
        u100 == putchw(e.w, e.lz, i2a(ToInt(arg.n)))
        u120 == putchw(e.w, e.lz, ui2a(ToUInt(arg.n), 16, FALSE))
        u88 == putchw(e.w, e.lz, ui2a(ToUInt(arg.n), 16, TRUE))
        u99 == CharOf(arg)
        u115 == putchw(e.w, FALSE, arg.s)
        u37 == <<37>>
        Other(x, ch) ==
          /\ ch = 117 => x = u117
          /\ ch = 100 => x = u100
          /\ ch = 120 => x = u120
          /\ ch = 88 => x = u88
          /\ ch = 99 => x = u99
          /\ ch = 115 => x = u115
          /\ ch = 37 => x = u37
          /\ ch \notin {117, 100, 120, 88, 99, 115, 37} => x = <<>>
  <2>1. w = e.w /\ lz = e.lz
    OBVIOUS
  <2>2. Other(Converted(e, arg), e.ch)
    BY ConvertedIs, ZenonT(60)
  <2> HIDE DEF w, lz
  <2>3. u117 = v117
    BY <2>1, Zenon
  <2>4. u100 = v100
    BY <2>1, Zenon
  <2>5. u120 = v120
    BY <2>1, Zenon
  <2>6. u88 = v88
    BY <2>1, Zenon
  <2>7. u99 = v99
    BY <2>1, Zenon
  <2>8. u115 = v115
    BY <2>1, Zenon
  <2>9. u37 = v37
    BY <2>1, Zenon
  <2> HIDE DEF v117, v100, v120, v88, v99, v115, v37, u117, u100, u120, u88, u99, u115, u37
  <2> QED  BY <2>2, <2>3, <2>4, <2>5, <2>6, <2>7, <2>8, <2>9
<1> HIDE DEF v117, v100, v120, v88, v99, v115, v37
<1>3. \A ch, x, y : Table(x, ch) /\ Table(y, ch) => x = y
  OBVIOUS
<1> HIDE DEF Table
<1> QED  BY <1>1, <1>2, <1>3, Zenon

LEMMA FormatEnds ==
  ASSUME NEW fmt \in Seq(Nat), NEW va \in [Nat -> Args], NEW i \in Nat, NEW k \in Nat, At(fmt, i) = 0
  PROVE  FormattingOf(fmt, va)[i][k] = <<>>
<1>1. Ends(fmt, i)
  BY DEF Ends
<1> QED  BY <1>1, FormatCall, FormattedIs

LEMMA FormatPlain ==
  ASSUME NEW fmt \in Seq(Nat), NEW va \in [Nat -> Args], NEW i \in Nat, NEW k \in Nat, At(fmt, i) \notin {0, Percent}
  PROVE  FormattingOf(fmt, va)[i][k] = <<At(fmt, i)>> \o FormattingOf(fmt, va)[i + 1][k]
<1>1. Plain(fmt, i)
  BY DEF Plain
<1> DEFINE t == FormattingOf(fmt, va)
<1>2. t[i][k] = Formatted(fmt, va, i, k, t)
  BY FormatCall
<1> HIDE DEF t
<1>3. Formatted(fmt, va, i, k, t) = OneChar(fmt, i, k, t)
  BY <1>1, FormattedIs, ZenonT(60)
<1> QED  BY <1>2, <1>3 DEF OneChar, t

LEMMA FormatDirects ==
  ASSUME NEW fmt \in Seq(Nat), NEW va \in [Nat -> Args], NEW i \in Nat, NEW k \in Nat, At(fmt, i) = Percent,
         Directive(fmt, i).ch # 0
  PROVE  FormattingOf(fmt, va)[i][k] = Behind(fmt, va, i, k, FormattingOf(fmt, va))
<1>1. Directs(fmt, i)
  BY DEF Directs
<1> DEFINE t == FormattingOf(fmt, va)
<1>2. t[i][k] = Formatted(fmt, va, i, k, t)
  BY FormatCall
<1> HIDE DEF t
<1>3. Formatted(fmt, va, i, k, t) = Behind(fmt, va, i, k, t)
  BY <1>1, FormattedIs, Zenon
<1> QED  BY <1>2, <1>3 DEF t

LEMMA FormatConversion ==
  ASSUME NEW fmt \in Seq(Nat), NEW va \in [Nat -> Args], NEW i \in Nat, NEW k \in Nat, NEW c, IsConversion(c),
         Stands(fmt, i, Fmt(c))
  PROVE  FormattingOf(fmt, va)[i][k] = Conv(c, va[k]) \o FormattingOf(fmt, va)[i + Len(Fmt(c))][k + 1]
<1> DEFINE d == Directive(fmt, i)   t == FormattingOf(fmt, va)
<1>1. At(fmt, i) = Percent /\ d = [lz |-> c.lz, w |-> c.w, ch |-> Letter(c), next |-> i + Len(Fmt(c))]
  BY DirectiveIs
<1>2. Letter(c) \in Nat \ {0, 48, 37}
  BY Letters, Zenon DEF IsConversion, Letter
<1> HIDE DEF d
<1>3. d.ch = Letter(c) /\ d.ch # 0 /\ d.w = c.w /\ d.lz = c.lz /\ d.next = i + Len(Fmt(c))
  BY <1>1, <1>2
<1>4. t[i][k] = Converted(d, va[k]) \o t[d.next][IF Takes(d) THEN k + 1 ELSE k]
  <2>1. t[i][k] = Behind(fmt, va, i, k, t)
    BY <1>1, <1>3, FormatDirects, Zenon DEF d
  <2> HIDE DEF t
  <2> QED  BY <2>1, Zenon DEF Behind, d
<1>5. Takes(d)
  BY <1>3, Zenon DEF Takes, IsConversion, Letter
<1>6. Converted(d, va[k]) = Conv(c, va[k])
  <2> DEFINE e == [lz |-> c.lz, w |-> c.w, ch |-> Letter(c), next |-> 0]
  <2>1. d.ch = e.ch /\ d.w = e.w /\ d.lz = e.lz
    BY <1>3
  <2> HIDE DEF e
  <2> QED  BY <2>1, ConvertedNext, ZenonT(60) DEF Conv, e
<1> HIDE DEF t
<1>7. t[i][k] = Conv(c, va[k]) \o t[i + Len(Fmt(c))][k + 1]
  BY <1>3, <1>4, <1>5, <1>6, Zenon
<1> QED  BY <1>7 DEF t

LEMMA FormatPercent ==
  ASSUME NEW fmt \in Seq(Nat), NEW va \in [Nat -> Args], NEW i \in Nat, NEW k \in Nat, At(fmt, i) = Percent, At(fmt, i + 1) = Percent
  PROVE  FormattingOf(fmt, va)[i][k] = <<37>> \o FormattingOf(fmt, va)[i + 2][k]
<1> DEFINE d == Directive(fmt, i)   t == FormattingOf(fmt, va)
           f == IF At(fmt, i + 1) = Zero THEN i + 2 ELSE i + 1
           r == IF At(fmt, f) \in Zero .. Nine THEN a2i(fmt, f, 10) ELSE [num |-> 0, next |-> f]
<1>1. d = [lz |-> At(fmt, i + 1) = Zero, w |-> r.num, ch |-> At(fmt, r.next), next |-> r.next + 1]
  BY Zenon DEF Directive
<1>2. f = i + 1
  BY DEF Zero, Percent
<1>3. At(fmt, f) = 37
  BY <1>2, Zenon DEF Percent
<1> HIDE DEF f
<1>4. r = [num |-> 0, next |-> f]
  <2>1. At(fmt, f) \notin Zero .. Nine
    BY <1>3 DEF Zero, Nine
  <2> QED  BY <2>1, Zenon
<1> HIDE DEF r, d
<1>5. d.ch = 37 /\ d.next = i + 2
  BY <1>1, <1>2, <1>3, <1>4
<1>6. t[i][k] = Converted(d, va[k]) \o t[d.next][IF Takes(d) THEN k + 1 ELSE k]
  <2>1. d.ch # 0
    BY <1>5
  <2>2. t[i][k] = Behind(fmt, va, i, k, t)
    BY <2>1, FormatDirects, Zenon DEF d
  <2> HIDE DEF t
  <2> QED  BY <2>2, Zenon DEF Behind, d
<1>7. ~Takes(d)
  <2>1. \A j \in DOMAIN Directives : Directives[j] # 37
    BY Letters
  <2> QED  BY <1>5, <2>1, Zenon DEF Takes
<1>8. Converted(d, va[k]) = <<37>>
  BY <1>5, ConvertedIs, Zenon
<1> HIDE DEF t
<1>9. t[i][k] = <<37>> \o t[i + 2][k]
  BY <1>5, <1>6, <1>7, <1>8, Zenon
<1> QED  BY <1>9 DEF t

\* From place i and slot k on, out is printed.
Prints(fmt, va, i, k, out) == FormattingOf(fmt, va)[i][k] = out

LEMMA PrintsEnd ==
  ASSUME NEW fmt \in Seq(Nat), NEW va \in [Nat -> Args], NEW i \in Nat, NEW k \in Nat, At(fmt, i) = 0
  PROVE  Prints(fmt, va, i, k, <<>>)
BY FormatEnds, Zenon DEF Prints

LEMMA PrintsPlain ==
  ASSUME NEW fmt \in Seq(Nat), NEW va \in [Nat -> Args], NEW i \in Nat, NEW k \in Nat, NEW ch, At(fmt, i) = ch, ch \notin {0, Percent},
         NEW j, j = i + 1, NEW out, Prints(fmt, va, j, k, out)
  PROVE  Prints(fmt, va, i, k, <<ch>> \o out)
<1>1. FormattingOf(fmt, va)[j][k] = out
  BY DEF Prints
<1>2. FormattingOf(fmt, va)[i][k] = <<At(fmt, i)>> \o FormattingOf(fmt, va)[i + 1][k]
  BY FormatPlain, Zenon
<1> QED  BY <1>1, <1>2, Zenon DEF Prints

LEMMA PrintsConversion ==
  ASSUME NEW fmt \in Seq(Nat), NEW va \in [Nat -> Args], NEW i \in Nat, NEW k \in Nat, NEW c, IsConversion(c),
         Stands(fmt, i, Fmt(c)), NEW j, j = i + Len(Fmt(c)), NEW l, l = k + 1, NEW out, Prints(fmt, va, j, l, out)
  PROVE  Prints(fmt, va, i, k, Conv(c, va[k]) \o out)
<1>1. FormattingOf(fmt, va)[j][l] = out
  BY DEF Prints
<1>2. FormattingOf(fmt, va)[i][k] = Conv(c, va[k]) \o FormattingOf(fmt, va)[i + Len(Fmt(c))][k + 1]
  BY FormatConversion, ZenonT(60)
<1> QED  BY <1>1, <1>2, Zenon DEF Prints

LEMMA PrintsPercent ==
  ASSUME NEW fmt \in Seq(Nat), NEW va \in [Nat -> Args], NEW i \in Nat, NEW k \in Nat, NEW p, p = i + 1, At(fmt, i) = Percent, At(fmt, p) = Percent,
         NEW j, j = i + 2, NEW out, Prints(fmt, va, j, k, out)
  PROVE  Prints(fmt, va, i, k, <<37>> \o out)
<1>1. FormattingOf(fmt, va)[j][k] = out
  BY DEF Prints
<1>2. At(fmt, i + 1) = Percent
  BY Zenon
<1>3. FormattingOf(fmt, va)[i][k] = <<37>> \o FormattingOf(fmt, va)[i + 2][k]
  BY <1>2, FormatPercent, Zenon
<1> QED  BY <1>1, <1>3, Zenon DEF Prints

LEMMA SlotsType ==
  ASSUME NEW args \in Seq(Args)
  PROVE  Slots(args) \in [Nat -> Args] /\ \A k \in 1 .. Len(args) : Slots(args)[k] = args[k]
<1>1. Slot(0, <<>>) \in Args
  BY DEF Slot, Args
<1>2. \A k \in DOMAIN args : args[k] \in Args
  OBVIOUS
<1>3. \A k \in 1 .. Len(args) : k \in DOMAIN args /\ k \in Nat
  OBVIOUS
<1> QED  BY <1>1, <1>2, <1>3 DEF Slots

\* printf("-%..d%%", n)
LEMMA PrintNumberIs ==
  ASSUME NEW c, IsConversion(c), NEW n \in Int
  PROVE  tfp_format(<<Minus>> \o Fmt(c) \o <<Percent, Percent>>, Slots(<<Slot(n, <<>>)>>))
           = <<Minus>> \o (Conv(c, Slot(n, <<>>)) \o <<37>>)
<1> DEFINE F == Fmt(c)   m == Len(F)   fmt == (<<Minus>> \o F) \o <<Percent, Percent>>   va == Slots(<<Slot(n, <<>>)>>)
<1>1. F \in Seq(Nat) /\ m \in Nat
  <2>1. F \in Seq(Nat)
    BY FmtType, Zenon
  <2> HIDE DEF F
  <2> QED  BY <2>1
<1>2. fmt \in Seq(Nat) /\ Len(fmt) = m + 3 /\ <<Minus>> \o F \in Seq(Nat) /\ Len(<<Minus>> \o F) = m + 1 /\ <<Minus>> \in Seq(Nat) /\ Len(<<Minus>>) = 1
      /\ <<Percent, Percent>> \in Seq(Nat) /\ <<Percent>> \in Seq(Nat)
  <2> HIDE DEF F
  <2> QED  BY <1>1 DEF Minus, Percent
<1>3. va \in [Nat -> Args] /\ va[1] = Slot(n, <<>>)
  <2> DEFINE a == <<Slot(n, <<>>)>>
  <2>1. Slot(n, <<>>) \in Args
    BY DEF Slot, Args
  <2>2. a \in Seq(Args) /\ Len(a) = 1 /\ a[1] = Slot(n, <<>>)
    BY <2>1
  <2> HIDE DEF a
  <2>3. Slots(a) \in [Nat -> Args] /\ \A k \in 1 .. Len(a) : Slots(a)[k] = a[k]
    BY <2>2, SlotsType, Zenon
  <2> QED  BY <2>2, <2>3 DEF a
<1> HIDE DEF m, F, va
<1>4. Stands(fmt, 1, <<Minus>> \o F) /\ Stands(fmt, 1 + Len(<<Minus>> \o F), <<Percent, Percent>>)
  <2>1. Stands(fmt, 1, fmt)
    BY <1>2, StandsAll
  <2> DEFINE mf == <<Minus>> \o F   g == fmt
  <2>2. g = mf \o <<Percent, Percent>> /\ mf \in Seq(Nat)
    BY <1>2
  <2> HIDE DEF mf, g
  <2>3. Stands(g, 1, mf \o <<Percent, Percent>>)
    BY <2>1, <2>2 DEF g
  <2>4. Stands(g, 1, mf) /\ Stands(g, 1 + Len(mf), <<Percent, Percent>>)
    BY <1>2, <2>2, <2>3, StandsSplit
  <2> QED  BY <2>4 DEF g, mf
<1> HIDE DEF fmt
<1>5. At(fmt, 1) = Minus /\ Stands(fmt, 2, F)
  <2>1. Stands(fmt, 1, <<Minus>>) /\ Stands(fmt, 1 + Len(<<Minus>>), F)
    BY <1>1, <1>2, <1>4, StandsSplit
  <2>2. 1 + Len(<<Minus>>) = 2
    BY <1>2
  <2> QED  BY <2>1, <2>2, StandsOne
<1>6. At(fmt, m + 2) = Percent /\ At(fmt, m + 3) = Percent /\ At(fmt, m + 4) = 0
  <2>1. 1 + Len(<<Minus>> \o F) = m + 2
    BY <1>1, <1>2
  <2>2. \A l \in 1 .. 2 : At(fmt, m + 2 + l - 1) = Percent
    BY <1>4, <2>1 DEF Stands
  <2>3. m + 2 + 1 - 1 = m + 2 /\ m + 2 + 2 - 1 = m + 3 /\ 1 \in 1 .. 2 /\ 2 \in 1 .. 2
    BY <1>1
  <2>4. At(fmt, m + 2) = Percent /\ At(fmt, m + 3) = Percent
    BY <2>2, <2>3
  <2>5. m + 4 \in Int /\ m + 4 \notin 1 .. Len(fmt)
    BY <1>1, <1>2
  <2>6. At(fmt, m + 4) = 0
    BY <1>2, <2>5, AtIs
  <2> QED  BY <2>4, <2>6
<1> DEFINE a == 1   b == 2   p2 == m + 2   p3 == m + 3   p4 == m + 4
<1>7. /\ a \in Nat /\ b \in Nat /\ b = a + 1 /\ p2 \in Nat /\ p3 \in Nat /\ p4 \in Nat
      /\ p3 = p2 + 1 /\ p4 = p2 + 2 /\ p2 = b + Len(Fmt(c))
  BY <1>1 DEF m, F
<1>8. At(fmt, a) = Minus /\ Stands(fmt, b, F) /\ At(fmt, p2) = Percent /\ At(fmt, p3) = Percent /\ At(fmt, p4) = 0
  BY <1>5, <1>6
<1>9. va[a] = Slot(n, <<>>)
  BY <1>3
<1>10. tfp_format(fmt, va) = FormattingOf(fmt, va)[a][a]
  BY FormatIs
<1> HIDE DEF a, b, p2, p3, p4
<1>11. Prints(fmt, va, p4, b, <<>>)
  BY <1>2, <1>3, <1>7, <1>8, PrintsEnd, Zenon
<1>12. Prints(fmt, va, p2, b, <<37>> \o <<>>)
  BY <1>2, <1>3, <1>7, <1>8, <1>11, PrintsPercent, Zenon
<1>13. Prints(fmt, va, b, a, Conv(c, va[a]) \o (<<37>> \o <<>>))
  BY <1>2, <1>3, <1>7, <1>8, <1>12, PrintsConversion, Zenon DEF F
<1>14. Prints(fmt, va, a, a, <<Minus>> \o (Conv(c, va[a]) \o (<<37>> \o <<>>)))
  <2>1. Minus \notin {0, Percent}
    BY DEF Minus, Percent
  <2> QED  BY <1>2, <1>3, <1>7, <1>8, <1>13, <2>1, PrintsPlain, Zenon
<1>15. <<37>> \o <<>> = <<37>>
  OBVIOUS
<1>16. tfp_format(fmt, va) = <<Minus>> \o (Conv(c, Slot(n, <<>>)) \o <<37>>)
  BY <1>9, <1>10, <1>14, <1>15, Zenon DEF Prints
<1> QED  BY <1>16, Zenon DEF fmt, F, va

LEMMA TenPowers ==
  ASSUME NEW P, IsPowers(P, 10)
  PROVE  \A k \in Nat : k <= BfSize - 2 => P[k] = 10^k
<1> DEFINE S == {k \in Nat : k <= BfSize - 2 => P[k] = 10^k}
<1>1. 0 \in S
  BY BufferAssumption DEF IsPowers
<1>2. ASSUME NEW k \in Nat, k \in S PROVE k + 1 \in S
  <2>1. CASE k + 1 <= BfSize - 2
    <3>1. k \in 0 .. BfSize - 3 /\ k <= BfSize - 2
      BY <2>1, BufferAssumption
    <3>2. 10^(k + 1) = 10 * 10^k /\ P[k] = 10^k
      BY <1>2, <3>1, BufferAssumption
    <3>3. P[k + 1] = 10 * P[k]
      BY DEF IsPowers
    <3>4. P[k + 1] = 10^(k + 1)
      BY <3>2, <3>3, Zenon
    <3> QED  BY <3>4
  <2> QED  BY <2>1
<1> HIDE DEF S
<1>3. Nat \subseteq S
  BY <1>1, <1>2, NatInduct
<1> QED  BY <1>3 DEF S

LEMMA TenLeast ==
  ASSUME NEW P, IsPowers(P, 10), NEW b \in {10, 16}, NEW Q, IsPowers(Q, b)
  PROVE  \A k \in Nat : P[k] <= Q[k]
<1> DEFINE S == {k \in Nat : P[k] <= Q[k]}
<1>1. 0 \in S
  BY DEF IsPowers
<1>2. ASSUME NEW k \in Nat, k \in S PROVE k + 1 \in S
  <2>1. P[k] \in Nat /\ Q[k] \in Nat /\ P[k + 1] = 10 * P[k] /\ Q[k + 1] = b * Q[k] /\ P[k] <= Q[k]
    BY <1>2 DEF IsPowers
  <2>2. Q[k + 1] = 10 * Q[k] \/ Q[k + 1] = 16 * Q[k]
    BY <2>1
  <2> QED  BY <2>1, <2>2
<1> HIDE DEF S
<1>3. Nat \subseteq S
  BY <1>1, <1>2, NatInduct
<1> QED  BY <1>3 DEF S

\* ui2a's digits, a sign and a terminator fit into bf (printf.c:123).
LEMMA DigitsFit ==
  ASSUME NEW n \in UInt, NEW b \in {10, 16}, NEW uc \in BOOLEAN
  PROVE  Len(ui2a(n, b, uc)) < BfSize - 1
<1>1. b \in Nat /\ b \in Nat \ {0} /\ b >= 2 /\ n \in Nat /\ 10 \in Nat /\ 10 \in Nat \ {0} /\ n < 2^IntBits
  BY Words, PowerAssumption DEF UInt
<1>2. PICK Q : IsPowers(Q, b)
  BY <1>1, PowersExist
<1>3. PICK P : IsPowers(P, 10)
  BY <1>1, PowersExist
<1>4. PICK k \in Nat : ui2a(n, b, uc) = Numeral(Q, n, k, uc) /\ n < Q[k + 1] /\ (k = 0 \/ Q[k] <= n)
  BY <1>1, <1>2, Ui2aFound
<1>5. Len(ui2a(n, b, uc)) = k + 1
  BY <1>1, <1>2, <1>4, NumeralType
<1>6. k < BfSize - 2
  <2>1. CASE k = 0
    BY <2>1, BufferAssumption
  <2>2. CASE k # 0 /\ k >= BfSize - 2
    <3> DEFINE m == BfSize - 2
    <3>1. m \in Nat /\ m <= k /\ m <= BfSize - 2
      BY <2>2, BufferAssumption
    <3>2. P[m] = 10^m /\ 2^IntBits <= 10^m
      BY <1>3, <3>1, TenPowers, BufferAssumption
    <3> HIDE DEF m
    <3>3. P[m] <= P[k]
      BY <1>1, <1>3, <3>1, PowersOrdered
    <3>4. P[k] <= Q[k]
      BY <1>2, <1>3, TenLeast
    <3>5. Q[k] <= n
      BY <1>4, <2>2
    <3>6. P[m] \in Nat /\ P[k] \in Nat /\ Q[k] \in Nat /\ 2^IntBits \in Nat
      BY <1>2, <1>3, <3>1, PowerAssumption DEF IsPowers
    <3> QED  BY <1>1, <3>2, <3>3, <3>4, <3>5, <3>6
  <2> QED  BY <2>1, <2>2, BufferAssumption
<1> QED  BY <1>4, <1>5, <1>6, BufferAssumption

-----------------------------------------------------------------------------
(* What printf prints of a number. *)
Negative(n, c) == c.dir = "d" /\ n \notin PosInt
Magnitude(n, c) == IF Negative(n, c) THEN 2^IntBits - n ELSE n
BaseOf(c) == IF c.dir \in {"x", "X"} THEN 16 ELSE 10
DigitsOf(n, c, text) == IF Negative(n, c) THEN Tail(text) ELSE text
DigitsGood(n, c, t) ==
  /\ \A i \in DOMAIN t : a2d(t[i]) \in 0 .. 15 /\ (t[i] > 96 => c.dir = "x")
  /\ Value(t, BaseOf(c)) = Magnitude(n, c)
  /\ Len(t) = 1 \/ t[1] # Zero
Readable(n, c, text) ==
  /\ text \in Seq(Nat) /\ Len(text) > 0 /\ Len(text) < BfSize
  /\ Negative(n, c) => Len(text) > 1 /\ text[1] = Minus
  /\ DigitsGood(n, c, DigitsOf(n, c, text))

LEMMA Sliced ==
  ASSUME NEW p \in Seq(Nat), NEW t \in Seq(Nat)
  PROVE  /\ SubSeq(p \o t, 1, Len(p)) = p /\ SubSeq(p \o t, Len(p) + 1, Len(p \o t)) = t
         /\ Len(p \o t) = Len(p) + Len(t) /\ p \o t \in Seq(Nat) /\ Len(p) \in Nat /\ Len(t) \in Nat
OBVIOUS

LEMMA PrintedIf ==
  ASSUME NEW n, NEW c, NEW pad \in Seq(Nat), NEW text, Readable(n, c, text),
         \A i \in 1 .. Len(pad) : pad[i] = (IF c.lz THEN Zero ELSE Space), Len(pad) > 0 => Len(pad) + Len(text) = c.w
  PROVE  Printed(n, c, pad \o text)
<1> DEFINE out == pad \o text   k == Len(pad)
<1>1. text \in Seq(Nat)
  BY DEF Readable
<1>2. SubSeq(out, 1, k) = pad /\ SubSeq(out, k + 1, Len(out)) = text /\ Len(out) = k + Len(text) /\ k \in Nat /\ Len(text) \in Nat
  BY <1>1, Sliced
<1>3. k \in 0 .. Len(out) /\ (k > 0 => Len(out) = c.w)
  BY <1>2
<1>4. /\ Len(text) > 0 /\ (Negative(n, c) => Len(text) > 1 /\ text[1] = Minus) /\ Len(text) < BfSize
      /\ DigitsGood(n, c, DigitsOf(n, c, text))
  BY DEF Readable
<1> HIDE DEF out, k
<1>5. LET p == SubSeq(out, 1, k)
          txt == SubSeq(out, k + 1, Len(out))
          neg == c.dir = "d" /\ n \notin PosInt
          digits == IF neg THEN Tail(txt) ELSE txt
      IN /\ Len(txt) > 0 /\ (neg => Len(txt) > 1 /\ txt[1] = Minus)
         /\ \A i \in 1 .. k : p[i] = (IF c.lz THEN Zero ELSE Space)
         /\ k > 0 => Len(out) = c.w
         /\ \A i \in DOMAIN digits : a2d(digits[i]) \in 0 .. 15 /\ (digits[i] > 96 => c.dir = "x")
         /\ Value(digits, IF c.dir \in {"x", "X"} THEN 16 ELSE 10) = (IF neg THEN 2^IntBits - n ELSE n)
         /\ Len(digits) = 1 \/ digits[1] # Zero
         /\ Len(txt) < BfSize
  <2>1. \A i \in 1 .. k : pad[i] = (IF c.lz THEN Zero ELSE Space)
    BY DEF k
  <2> QED  BY <1>2, <1>3, <1>4, <2>1, Zenon DEF Negative, DigitsOf, DigitsGood, Magnitude, BaseOf
<1> QED  BY <1>3, <1>5, Zenon DEF Printed, out

LEMMA Padding ==
  ASSUME NEW w \in Int, NEW z \in BOOLEAN, NEW bf \in Seq(Nat)
  PROVE  \E pad \in Seq(Nat) :
           /\ putchw(w, z, bf) = pad \o bf
           /\ \A i \in 1 .. Len(pad) : pad[i] = (IF z THEN Zero ELSE Space)
           /\ Len(pad) > 0 => Len(pad) + Len(bf) = w
<1> DEFINE l == IF w > Len(bf) THEN w - Len(bf) ELSE 0
           pad == [k \in 1 .. l |-> IF z THEN Zero ELSE Space]
<1>1. /\ putchw(w, z, bf) = pad \o bf
      /\ pad \in Seq(Nat) /\ Len(pad) = l
  <2>1. putchw(w, z, bf) = pad \o bf
    BY Zenon DEF putchw
  <2>2. l \in Nat
    OBVIOUS
  <2> HIDE DEF l
  <2>3. \A k \in 1 .. l : (IF z THEN Zero ELSE Space) \in Nat
    BY DEF Zero, Space
  <2>4. pad \in Seq(Nat) /\ Len(pad) = l
    BY <2>2, <2>3
  <2> QED  BY <2>1, <2>4
<1>2. l > 0 => l + Len(bf) = w
  OBVIOUS
<1>3. \A i \in 1 .. l : pad[i] = (IF z THEN Zero ELSE Space)
  OBVIOUS
<1> HIDE DEF l, pad
<1> QED  BY <1>1, <1>2, <1>3, Zenon

LEMMA Padded ==
  ASSUME NEW n, NEW c, c.w \in Int, c.lz \in BOOLEAN, NEW text, Readable(n, c, text)
  PROVE  Printed(n, c, putchw(c.w, c.lz, text)) /\ putchw(c.w, c.lz, text) \in Seq(Nat)
<1>1. text \in Seq(Nat)
  BY DEF Readable
<1>2. PICK pad \in Seq(Nat) :
        /\ putchw(c.w, c.lz, text) = pad \o text
        /\ \A i \in 1 .. Len(pad) : pad[i] = (IF c.lz THEN Zero ELSE Space)
        /\ Len(pad) > 0 => Len(pad) + Len(text) = c.w
  BY <1>1, Padding, Zenon
<1>3. pad \o text \in Seq(Nat)
  BY <1>1
<1>4. Printed(n, c, pad \o text)
  BY <1>2, PrintedIf, Zenon
<1> QED  BY <1>2, <1>3, <1>4, Zenon

LEMMA DigitsAreGood ==
  ASSUME NEW n, NEW c, NEW uc \in BOOLEAN, NEW b \in {10, 16}, b = BaseOf(c), NEW m \in Nat, m = Magnitude(n, c),
         b = 16 /\ ~uc => c.dir = "x", NEW t, Numbered(t, m, b, uc)
  PROVE  DigitsGood(n, c, t)
<1>1. /\ t \in Seq(Nat) /\ Value(t, b) = m /\ (Len(t) = 1 \/ t[1] # Zero)
      /\ \A i \in 1 .. Len(t) : a2d(t[i]) \in 0 .. b - 1 /\ t[i] = DigitCode(a2d(t[i]), uc)
  BY DEF Numbered
<1>0. DOMAIN t = 1 .. Len(t)
  BY <1>1
<1>2. ASSUME NEW i \in DOMAIN t PROVE a2d(t[i]) \in 0 .. 15 /\ (t[i] > 96 => c.dir = "x")
  <2> DEFINE e == a2d(t[i])
  <2>1. e \in 0 .. b - 1 /\ t[i] = DigitCode(e, uc)
    BY <1>0, <1>1, Zenon
  <2> HIDE DEF e
  <2>2. e \in 0 .. 15
    BY <2>1
  <2>3. DigitCode(e, uc) > 96 => e >= 10 /\ ~uc
    BY <2>2, DigitChars
  <2>4. e >= 10 => b = 16
    BY <2>1
  <2> QED  BY <2>1, <2>2, <2>3, <2>4 DEF e
<1> QED  BY <1>1, <1>2, Zenon DEF DigitsGood

LEMMA PlainReadable ==
  ASSUME NEW n \in UInt, NEW c, ~Negative(n, c), NEW uc \in BOOLEAN, NEW b \in {10, 16}, b = BaseOf(c),
         b = 16 /\ ~uc => c.dir = "x"
  PROVE  Readable(n, c, ui2a(n, b, uc))
<1> DEFINE t == ui2a(n, b, uc)
<1>1. n \in Nat /\ b \in 2 .. 16
  BY Words
<1>2. Numbered(t, n, b, uc)
  BY <1>1, Ui2aNumbered
<1>3. Len(t) < BfSize - 1
  BY DigitsFit
<1>4. n = Magnitude(n, c) /\ DigitsOf(n, c, t) = t
  BY Zenon DEF Magnitude, DigitsOf
<1> HIDE DEF t
<1>5. DigitsGood(n, c, t)
  BY <1>1, <1>2, <1>4, DigitsAreGood
<1>6. t \in Seq(Nat) /\ Len(t) > 0 /\ Len(t) < BfSize
  BY <1>2, <1>3, BufferAssumption DEF Numbered
<1>7. Readable(n, c, t)
  BY <1>4, <1>5, <1>6, Zenon DEF Readable
<1> QED  BY <1>7 DEF t

LEMMA NegativeReadable ==
  ASSUME NEW n \in UInt, NEW c, Negative(n, c)
  PROVE  2^IntBits - n \in UInt /\ Readable(n, c, <<Minus>> \o ui2a(2^IntBits - n, 10, FALSE))
<1> DEFINE m == 2^IntBits - n
<1>1. m \in UInt /\ m \in Nat
  BY PowerAssumption DEF Negative, PosInt, UInt
<1>2. m = Magnitude(n, c) /\ BaseOf(c) = 10
  BY DEF Magnitude, BaseOf, Negative
<1> HIDE DEF m
<1> DEFINE t == ui2a(m, 10, FALSE)   text == <<Minus>> \o t
<1>3. 10 \in 2 .. 16 /\ 10 \in {10, 16} /\ FALSE \in BOOLEAN /\ ~(10 = 16 /\ ~FALSE)
  OBVIOUS
<1>4. Numbered(t, m, 10, FALSE)
  BY <1>1, Decimal
<1>5. Len(t) < BfSize - 1
  BY <1>1, <1>3, DigitsFit, Zenon
<1> HIDE DEF t
<1>6. DigitsGood(n, c, t)
  BY <1>1, <1>2, <1>3, <1>4, DigitsAreGood, Zenon
<1>7. t \in Seq(Nat) /\ Len(t) > 0
  BY <1>4 DEF Numbered
<1>8. text \in Seq(Nat) /\ Len(text) = Len(t) + 1 /\ text[1] = Minus /\ Tail(text) = t
  BY <1>7 DEF Minus
<1> HIDE DEF text
<1>9. Len(text) > 1 /\ Len(text) > 0 /\ Len(text) < BfSize
  BY <1>5, <1>7, <1>8, BufferAssumption
<1>10. Readable(n, c, text)
  BY <1>6, <1>8, <1>9, Zenon DEF Readable, DigitsOf
<1> QED  BY <1>1, <1>10 DEF text, t, m

ConvTable(c, n, s) ==
         /\ c.dir = "u" => Conv(c, Slot(n, s)) = putchw(c.w, c.lz, ui2a(ToUInt(n), 10, FALSE))
         /\ c.dir = "d" => Conv(c, Slot(n, s)) = putchw(c.w, c.lz, i2a(ToInt(n)))
         /\ c.dir = "x" => Conv(c, Slot(n, s)) = putchw(c.w, c.lz, ui2a(ToUInt(n), 16, FALSE))
         /\ c.dir = "X" => Conv(c, Slot(n, s)) = putchw(c.w, c.lz, ui2a(ToUInt(n), 16, TRUE))
         /\ c.dir = "c" => Conv(c, Slot(n, s)) = <<n % 256>>
         /\ c.dir = "s" => Conv(c, Slot(n, s)) = putchw(c.w, FALSE, s)

LEMMA ConvIs == ASSUME NEW c, NEW n, NEW s, IsConversion(c) PROVE ConvTable(c, n, s)
<1> DEFINE e == [lz |-> c.lz, w |-> c.w, ch |-> Letter(c), next |-> 0]   arg == Slot(n, s)
<1>1. Conv(c, arg) = Converted(e, arg) /\ e.ch = Letter(c) /\ e.w = c.w /\ e.lz = c.lz
  BY Zenon DEF Conv
<1>2. arg.n = n /\ arg.s = s
  BY DEF Slot
<1> HIDE DEF e, arg
<1>3. /\ c.dir = "u" => e.ch = 117
      /\ c.dir = "d" => e.ch = 100
      /\ c.dir = "x" => e.ch = 120
      /\ c.dir = "X" => e.ch = 88
      /\ c.dir = "c" => e.ch = 99
      /\ c.dir = "s" => e.ch = 115
  BY <1>1 DEF Letter, Directives
<1>4. c.dir = "u" => Conv(c, arg) = putchw(c.w, c.lz, ui2a(ToUInt(n), 10, FALSE))
  <2>1. e.ch = 117 => Converted(e, arg) = putchw(e.w, e.lz, ui2a(ToUInt(arg.n), 10, FALSE))
    BY ConvertedIs, Zenon
  <2> QED  BY <1>1, <1>2, <1>3, <2>1, Zenon
<1>5. c.dir = "d" => Conv(c, arg) = putchw(c.w, c.lz, i2a(ToInt(n)))
  <2>1. e.ch = 100 => Converted(e, arg) = putchw(e.w, e.lz, i2a(ToInt(arg.n)))
    BY ConvertedIs, Zenon
  <2> QED  BY <1>1, <1>2, <1>3, <2>1, Zenon
<1>6. c.dir = "x" => Conv(c, arg) = putchw(c.w, c.lz, ui2a(ToUInt(n), 16, FALSE))
  <2>1. e.ch = 120 => Converted(e, arg) = putchw(e.w, e.lz, ui2a(ToUInt(arg.n), 16, FALSE))
    BY ConvertedIs, ZenonT(60)
  <2> QED  BY <1>1, <1>2, <1>3, <2>1, Zenon
<1>7. c.dir = "X" => Conv(c, arg) = putchw(c.w, c.lz, ui2a(ToUInt(n), 16, TRUE))
  <2>1. e.ch = 88 => Converted(e, arg) = putchw(e.w, e.lz, ui2a(ToUInt(arg.n), 16, TRUE))
    BY ConvertedIs, Zenon
  <2> QED  BY <1>1, <1>2, <1>3, <2>1, Zenon
<1>8. c.dir = "c" => Conv(c, arg) = <<n % 256>>
  <2>1. e.ch = 99 => Converted(e, arg) = CharOf(arg)
    BY ConvertedIs, Zenon
  <2> QED  BY <1>1, <1>2, <1>3, <2>1, Zenon DEF CharOf
<1>9. c.dir = "s" => Conv(c, arg) = putchw(c.w, FALSE, s)
  <2>1. e.ch = 115 => Converted(e, arg) = putchw(e.w, FALSE, arg.s)
    BY ConvertedIs, Zenon
  <2> QED  BY <1>1, <1>2, <1>3, <2>1, Zenon
<1> QED  BY <1>4, <1>5, <1>6, <1>7, <1>8, <1>9, Zenon DEF arg, ConvTable

LEMMA I2aIs ==
  ASSUME NEW m \in Int
  PROVE  /\ m >= 0 => i2a(m) = ui2a(ToUInt(m), 10, FALSE)
         /\ m < 0 => i2a(m) = <<Minus>> \o ui2a(ToUInt(-m), 10, FALSE)
<1>1. ToUInt(m) \in UInt /\ ToUInt(-m) \in UInt
  BY Unsigned
<1>2. CASE m < 0
  <2>1. i2a(m) = <<Minus>> \o ui2a(ToUInt(-m), 10, FALSE)
    BY <1>2, Zenon DEF i2a
  <2>2. ~(m >= 0)
    BY <1>2
  <2> QED  BY <2>1, <2>2, Zenon
<1>3. CASE ~(m < 0)
  <2>1. i2a(m) = <<>> \o ui2a(ToUInt(m), 10, FALSE)
    BY <1>3, Zenon DEF i2a
  <2> DEFINE u == ui2a(ToUInt(m), 10, FALSE)
  <2>2. u \in Seq(Nat)
    BY <1>1, Decimal, Zenon DEF Numbered
  <2> HIDE DEF u
  <2>3. <<>> \o u = u
    BY <2>2
  <2> QED  BY <1>3, <2>1, <2>3 DEF u
<1> QED  BY <1>2, <1>3

LEMMA NumberPrinted ==
  ASSUME NEW n \in UInt, NEW s, NEW c, IsConversion(c), c.dir \in {"d", "u", "x", "X"}
  PROVE  Printed(n, c, Conv(c, Slot(n, s))) /\ Conv(c, Slot(n, s)) \in Seq(Nat)
<1>1. n \in Int /\ ToUInt(n) = n /\ 2^IntBits - n \in Int
  BY Unsigned, PowerAssumption DEF UInt
<1>2. c.w \in Int /\ c.lz \in BOOLEAN
  BY DEF IsConversion, PosInt
<1>3. 10 \in {10, 16} /\ 16 \in {10, 16} /\ TRUE \in BOOLEAN /\ FALSE \in BOOLEAN /\ 10 # 16
  OBVIOUS
<1>4. \A t : Readable(n, c, t) /\ Conv(c, Slot(n, s)) = putchw(c.w, c.lz, t)
        => Printed(n, c, Conv(c, Slot(n, s))) /\ Conv(c, Slot(n, s)) \in Seq(Nat)
  BY <1>2, Padded, Zenon
<1>4a. ConvTable(c, n, s)
  BY ConvIs
<1>5. CASE c.dir = "u"
  <2>1. ~Negative(n, c) /\ BaseOf(c) = 10
    BY <1>5 DEF Negative, BaseOf
  <2>2. Readable(n, c, ui2a(n, 10, FALSE))
    BY <1>3, <2>1, PlainReadable, Zenon
  <2>3. Conv(c, Slot(n, s)) = putchw(c.w, c.lz, ui2a(ToUInt(n), 10, FALSE))
    BY <1>5, <1>4a, Zenon DEF ConvTable
  <2>4. Conv(c, Slot(n, s)) = putchw(c.w, c.lz, ui2a(n, 10, FALSE))
    BY <1>1, <2>3, Zenon
  <2> QED  BY <1>4, <2>2, <2>4, Zenon
<1>6. CASE c.dir = "x"
  <2>1. ~Negative(n, c) /\ BaseOf(c) = 16
    BY <1>6 DEF Negative, BaseOf
  <2>2. Readable(n, c, ui2a(n, 16, FALSE))
    BY <1>3, <1>6, <2>1, PlainReadable, Zenon
  <2>3. Conv(c, Slot(n, s)) = putchw(c.w, c.lz, ui2a(ToUInt(n), 16, FALSE))
    BY <1>6, <1>4a, Zenon DEF ConvTable
  <2>4. Conv(c, Slot(n, s)) = putchw(c.w, c.lz, ui2a(n, 16, FALSE))
    BY <1>1, <2>3, Zenon
  <2> QED  BY <1>4, <2>2, <2>4, Zenon
<1>7. CASE c.dir = "X"
  <2>1. ~Negative(n, c) /\ BaseOf(c) = 16
    BY <1>7 DEF Negative, BaseOf
  <2>2. Readable(n, c, ui2a(n, 16, TRUE))
    BY <1>3, <1>7, <2>1, PlainReadable, Zenon
  <2>3. Conv(c, Slot(n, s)) = putchw(c.w, c.lz, ui2a(ToUInt(n), 16, TRUE))
    BY <1>7, <1>4a, Zenon DEF ConvTable
  <2>4. Conv(c, Slot(n, s)) = putchw(c.w, c.lz, ui2a(n, 16, TRUE))
    BY <1>1, <2>3, Zenon
  <2> QED  BY <1>4, <2>2, <2>4, Zenon
<1>8. CASE c.dir = "d" /\ n \in PosInt
  <2>1. ~Negative(n, c) /\ BaseOf(c) = 10
    BY <1>8 DEF Negative, BaseOf
  <2>2. Readable(n, c, ui2a(n, 10, FALSE))
    BY <1>3, <2>1, PlainReadable, Zenon
  <2>3. ToInt(n) = n /\ n >= 0
    BY <1>1, <1>8, Signed DEF PosInt
  <2>4. i2a(n) = ui2a(n, 10, FALSE)
    BY <1>1, <2>3, I2aIs, Zenon
  <2>5. Conv(c, Slot(n, s)) = putchw(c.w, c.lz, i2a(ToInt(n)))
    BY <1>8, <1>4a, Zenon DEF ConvTable
  <2>6. Conv(c, Slot(n, s)) = putchw(c.w, c.lz, ui2a(n, 10, FALSE))
    BY <2>3, <2>4, <2>5, Zenon
  <2> QED  BY <1>4, <2>2, <2>6, Zenon
<1>9. CASE c.dir = "d" /\ n \notin PosInt
  <2> DEFINE m == 2^IntBits - n   l == n - 2^IntBits
  <2>1. Negative(n, c)
    BY <1>9 DEF Negative
  <2>2. m \in UInt /\ Readable(n, c, <<Minus>> \o ui2a(m, 10, FALSE))
    BY <2>1, NegativeReadable
  <2>3. ToInt(n) = l
    BY <1>1, <1>9, Signed
  <2>4. l \in Int /\ l < 0 /\ -l = m
    BY <1>1, PowerAssumption DEF UInt
  <2> HIDE DEF m, l
  <2>5. ToUInt(m) = m
    BY <2>2, Unsigned, Words
  <2>6. i2a(l) = <<Minus>> \o ui2a(m, 10, FALSE)
    BY <2>4, <2>5, I2aIs, Zenon
  <2>7. Conv(c, Slot(n, s)) = putchw(c.w, c.lz, i2a(ToInt(n)))
    BY <1>9, <1>4a, Zenon DEF ConvTable
  <2>8. Conv(c, Slot(n, s)) = putchw(c.w, c.lz, <<Minus>> \o ui2a(m, 10, FALSE))
    BY <2>3, <2>6, <2>7, Zenon
  <2> QED  BY <1>4, <2>2, <2>8, Zenon
<1> QED  BY <1>5, <1>6, <1>7, <1>8, <1>9

LEMMA PrintNumberKept == ASSUME PrintNumber PROVE TextCorrect'
<1>1. PICK n \in UInt, c \in Conversions :
        Return([op |-> "print", n |-> n, c |-> c], tfp_format(<<Minus>> \o Fmt(c) \o <<Percent, Percent>>, Slots(<<Slot(n, <<>>)>>)))
  BY DEF PrintNumber
<1> DEFINE conv == Conv(c, Slot(n, <<>>))   out == <<Minus>> \o (conv \o <<37>>)
<1>2. IsConversion(c) /\ c.dir \in {"d", "u", "x", "X"}
  BY TextAssumption DEF Conversions, IsConversion, Directives
<1>3. n \in Int
  BY Words
<1>4. res'.v = out
  BY <1>1, <1>2, <1>3, PrintNumberIs, Zenon DEF Return
<1>5. Printed(n, c, conv) /\ conv \in Seq(Nat)
  BY <1>2, NumberPrinted
<1> HIDE DEF conv
<1>6. Len(out) \in Nat /\ out[1] = Minus /\ out[Len(out)] = 37 /\ SubSeq(out, 2, Len(out) - 1) = conv
  BY <1>5 DEF Minus
<1> HIDE DEF out
<1>7. /\ res'.v[1] = Minus /\ res'.v[Len(res'.v)] = Percent
      /\ Printed(n, c, SubSeq(res'.v, 2, Len(res'.v) - 1))
  BY <1>4, <1>5, <1>6, Zenon DEF Percent
<1>8. call'.op = "print" /\ call'.n = n /\ call'.c = c
  BY <1>1 DEF Return
<1> QED  BY <1>7, <1>8, Zenon DEF TextCorrect, Is

\* Two conversions, one behind the other.
LEMMA PrintTwoIs ==
  ASSUME NEW c, IsConversion(c), NEW d, IsConversion(d), NEW x \in Args, NEW y \in Args
  PROVE  tfp_format(Fmt(c) \o Fmt(d), Slots(<<x, y>>)) = Conv(c, x) \o (Conv(d, y) \o <<>>)
<1> DEFINE F == Fmt(c)   G == Fmt(d)   fmt == F \o G   args == <<x, y>>   va == Slots(args)
           i1 == 1   i2 == 1 + Len(F)   i3 == 1 + Len(F) + Len(G)   k2 == 2   k3 == 3
<1>1. F \in Seq(Nat) /\ G \in Seq(Nat)
  BY FmtType, Zenon
<1>2. args \in Seq(Args) /\ 1 \in 1 .. Len(args) /\ 2 \in 1 .. Len(args) /\ args[1] = x /\ args[2] = y
  OBVIOUS
<1>3. va \in [Nat -> Args] /\ va[1] = x /\ va[2] = y
  <2> HIDE DEF args
  <2> QED  BY <1>2, SlotsType, Zenon
<1>4. tfp_format(fmt, va) = FormattingOf(fmt, va)[i1][i1]
  BY FormatIs
<1> HIDE DEF F, G
<1>5. fmt \in Seq(Nat) /\ Len(fmt) = Len(F) + Len(G) /\ Len(F) \in Nat /\ Len(G) \in Nat
  BY <1>1
<1>6. Stands(fmt, 1, F) /\ Stands(fmt, 1 + Len(F), G)
  <2>1. Stands(fmt, 1, F \o G)
    BY <1>5, StandsAll
  <2> HIDE DEF fmt
  <2> QED  BY <1>1, <2>1, StandsSplit
<1> HIDE DEF fmt, va
<1>7. /\ i1 \in Nat /\ i2 \in Nat /\ i3 \in Nat /\ i2 = i1 + Len(Fmt(c)) /\ i3 = i2 + Len(Fmt(d))
      /\ k2 \in Nat /\ k3 \in Nat /\ k2 = i1 + 1 /\ k3 = k2 + 1
  BY <1>5 DEF F, G
<1>8. At(fmt, i3) = 0
  <2>1. i3 \in Int /\ i3 \notin 1 .. Len(fmt)
    BY <1>5
  <2> QED  BY <1>5, <2>1, AtIs
<1>9. Stands(fmt, i1, Fmt(c)) /\ Stands(fmt, i2, Fmt(d)) /\ va[i1] = x /\ va[k2] = y
  BY <1>3, <1>6 DEF F, G
<1> HIDE DEF i1, i2, i3, k2, k3
<1>10. Prints(fmt, va, i3, k3, <<>>)
  BY <1>3, <1>5, <1>7, <1>8, PrintsEnd, Zenon
<1>11. Prints(fmt, va, i2, k2, Conv(d, va[k2]) \o <<>>)
  BY <1>3, <1>5, <1>7, <1>9, <1>10, PrintsConversion, Zenon
<1>12. Prints(fmt, va, i1, i1, Conv(c, va[i1]) \o (Conv(d, va[k2]) \o <<>>))
  BY <1>3, <1>5, <1>7, <1>9, <1>11, PrintsConversion, Zenon
<1>13. tfp_format(fmt, va) = Conv(c, x) \o (Conv(d, y) \o <<>>)
  BY <1>4, <1>9, <1>12, Zenon DEF Prints
<1> QED  BY <1>13, Zenon DEF fmt, F, G, va, args

LEMMA Strings == \A s \in Word : s \in Seq(1 .. 255) /\ s \in Seq(Nat) /\ Len(s) \in 0 .. 19
<1> SUFFICES ASSUME NEW s \in Word PROVE s \in Seq(1 .. 255) /\ s \in Seq(Nat) /\ Len(s) \in 0 .. 19
  OBVIOUS
<1>1. s \in Seq(1 .. 255) /\ Len(s) < 20
  BY TextAssumption, Zenon
<1>2. 1 .. 255 \subseteq Nat
  OBVIOUS
<1>3. s \in Seq(Nat)
  BY <1>1, <1>2, SeqMonotonic, Zenon
<1>4. Len(s) \in Nat
  BY <1>3
<1>5. Len(s) < 20
  BY <1>1, Zenon
<1>6. Len(s) \in 0 .. 19
  <2>1. \A l \in Nat : l < 20 => l \in 0 .. 19
    OBVIOUS
  <2> QED  BY <1>4, <1>5, <2>1, Zenon
<1> QED  BY <1>1, <1>3, <1>6, Zenon

LEMMA PrintStringKept == ASSUME PrintString PROVE TextCorrect'
<1>1. PICK s \in Word, w \in Width :
        Return([op |-> "sprintf", s |-> s, w |-> w],
               tfp_sprintf(Fmt([dir |-> "s", lz |-> FALSE, w |-> w]) \o Fmt([dir |-> "c", lz |-> TRUE, w |-> 0]),
                           Slots(<<Slot(0, s), Slot(88, <<>>)>>)))
  BY DEF PrintString
<1> DEFINE c == [dir |-> "s", lz |-> FALSE, w |-> w]   d == [dir |-> "c", lz |-> TRUE, w |-> 0]
           x == Slot(0, s)   y == Slot(88, <<>>)
           pad == [i \in 1 .. (IF w > Len(s) THEN w - Len(s) ELSE 0) |-> Space]
<1>2. s \in Seq(Nat) /\ Len(s) \in Nat
  BY Strings
<1>3. w \in PosInt /\ w \in Nat /\ 0 \in PosInt
  BY TextAssumption, PowerAssumption DEF PosInt
<1>4. IsConversion(c) /\ c.dir = "s" /\ c.w = w /\ c.lz = FALSE
  BY <1>3 DEF IsConversion, Directives
<1>5. IsConversion(d) /\ d.dir = "c"
  BY <1>3 DEF IsConversion, Directives
<1>6. x \in Args /\ y \in Args
  BY <1>2 DEF Slot, Args
<1> DEFINE fmt == Fmt(c) \o Fmt(d)   va == Slots(<<x, y>>)   result == tfp_format(fmt, va)
<1>7. res'.v = Append(result, 0)
  BY <1>1, Zenon DEF Return, tfp_sprintf
<1>8. ConvTable(c, 0, s) /\ ConvTable(d, 88, <<>>)
  BY <1>4, <1>5, ConvIs, Zenon
<1> HIDE DEF c, d
<1>9. Conv(c, x) = putchw(c.w, FALSE, s)
  BY <1>4, <1>8, Zenon DEF ConvTable
<1>10. Conv(d, y) = <<88 % 256>>
  BY <1>5, <1>8, Zenon DEF ConvTable
<1> HIDE DEF x, y
<1>11. result = Conv(c, x) \o (Conv(d, y) \o <<>>)
  BY <1>4, <1>5, <1>6, PrintTwoIs, Zenon
<1> HIDE DEF result
<1>12. putchw(w, FALSE, s) = pad \o s
  BY Zenon DEF putchw
<1>13. pad \in Seq(Nat)
  BY <1>2, <1>3 DEF Space
<1> HIDE DEF pad
<1>14. <<88 % 256>> = <<88>>
  OBVIOUS
<1>15. Append((pad \o s) \o (<<88>> \o <<>>), 0) = pad \o s \o <<88, 0>>
  BY <1>2, <1>13, SMTT(40)
<1>16. res'.v = pad \o s \o <<88, 0>>
  BY <1>4, <1>7, <1>9, <1>10, <1>11, <1>12, <1>14, <1>15, ZenonT(60)
<1>17. call' = [op |-> "sprintf", s |-> s, w |-> w]
  BY <1>1 DEF Return
<1>18. call'.op = "sprintf" /\ call'.s = s /\ call'.w = w
  BY <1>17
<1> QED  BY <1>16, <1>18, Zenon DEF TextCorrect, Is, pad

-----------------------------------------------------------------------------
(* strcmp *)
GoesOn(s, t, i) == At(s, i) # 0 /\ At(t, i) # 0 /\ At(s, i) = At(t, i)
Difference(s, t, i) == ToULong(At(s, i) - At(t, i))
Compared(s, t, i, f) == IF GoesOn(s, t, i) THEN f[i + 1] ELSE Difference(s, t, i)
Comparing(s, t, f) == [i \in Nat |-> Compared(s, t, i, f)]
ComparingOf(s, t) == CHOOSE f : f = Comparing(s, t, f)

\* The loop leaves s and t at place m, the first from place i on.
Leaves(s, t, i, m) == m >= i /\ ~GoesOn(s, t, m) /\ \A j \in Nat : i <= j /\ j < m => GoesOn(s, t, j)

LEMMA StrcmpIs == \A s, t : strcmp(s, t) = ComparingOf(s, t)[1]
BY Zenon DEF strcmp, ComparingOf, Comparing, Compared, GoesOn, Difference

LEMMA LeavesExists ==
  ASSUME NEW s \in Seq(Nat), NEW t, NEW i \in Nat
  PROVE  \E m \in Nat : Leaves(s, t, i, m)
<1> DEFINE T == {m \in Nat : m >= i /\ ~GoesOn(s, t, m)}
           e == IF i > Len(s) THEN i ELSE Len(s) + 1
<1>1. Len(s) \in Nat
  OBVIOUS
<1>2. e \in Nat /\ e >= i /\ e > Len(s)
  BY <1>1
<1> HIDE DEF e
<1>3. At(s, e) = 0
  BY <1>1, <1>2, AtIs
<1>4. e \in T
  BY <1>2, <1>3 DEF GoesOn
<1>5. T \subseteq Nat /\ T # {}
  BY <1>4
<1>6. PICK m \in T : \A k \in T : m <= k
  <2> HIDE DEF T
  <2> QED  BY <1>5, Least
<1>7. \A j \in Nat : i <= j /\ j < m => GoesOn(s, t, j)
  <2>1. ASSUME NEW j \in Nat, i <= j, j < m, ~GoesOn(s, t, j) PROVE FALSE
    <3>1. j \in T
      BY <2>1
    <3>2. m <= j
      BY <1>6, <3>1
    <3> QED  BY <1>6, <2>1, <3>2
  <2> QED  BY <2>1
<1> QED  BY <1>6, <1>7 DEF Leaves

LEMMA LeavesOnce ==
  ASSUME NEW s, NEW t, NEW i \in Nat, NEW m \in Nat, NEW k \in Nat, Leaves(s, t, i, m), Leaves(s, t, i, k)
  PROVE  m = k
<1>1. ~(m < k) /\ ~(k < m)
  BY Zenon DEF Leaves
<1> QED  BY <1>1

LEMMA ComparingExists ==
  ASSUME NEW s \in Seq(Nat), NEW t
  PROVE  \E f : f = Comparing(s, t, f)
<1> DEFINE L == [i \in Nat |-> CHOOSE m \in Nat : Leaves(s, t, i, m)]
           f == [i \in Nat |-> Difference(s, t, L[i])]
<1>1. \A i \in Nat : L[i] \in Nat /\ Leaves(s, t, i, L[i])
  BY LeavesExists
<1>2. \A i \in Nat : f[i] = Difference(s, t, L[i])
  OBVIOUS
<1> HIDE DEF L
<1>3. ASSUME NEW i \in Nat PROVE f[i] = Compared(s, t, i, f)
  <2> DEFINE k == i + 1
  <2>1. k \in Nat /\ k > i /\ \A j \in Nat : i <= j => j = i \/ k <= j
    OBVIOUS
  <2>2. Compared(s, t, i, f) = IF GoesOn(s, t, i) THEN f[k] ELSE Difference(s, t, i)
    BY Zenon DEF Compared
  <2> HIDE DEF k
  <2>3. CASE GoesOn(s, t, i)
    <3>1. L[i] # i
      BY <1>1, <2>3 DEF Leaves
    <3>2. L[i] >= k
      BY <1>1, <2>1, <3>1 DEF Leaves
    <3>3. \A j \in Nat : k <= j => i <= j
      BY <2>1
    <3>4. Leaves(s, t, k, L[i])
      BY <1>1, <3>2, <3>3, Zenon DEF Leaves
    <3>5. L[k] = L[i]
      BY <1>1, <2>1, <3>4, LeavesOnce
    <3>6. f[k] = f[i]
      BY <1>2, <2>1, <3>5, Zenon
    <3> QED  BY <2>2, <2>3, <3>6
  <2>4. CASE ~GoesOn(s, t, i)
    <3>1. Leaves(s, t, i, i)
      BY <2>4 DEF Leaves
    <3>2. L[i] = i
      BY <1>1, <3>1, LeavesOnce
    <3> QED  BY <1>2, <2>2, <2>4, <3>2, Zenon
  <2> QED  BY <2>3, <2>4
<1>4. f = [i \in Nat |-> Compared(s, t, i, f)]
  <2>1. f = [i \in Nat |-> f[i]]
    OBVIOUS
  <2> HIDE DEF f
  <2> QED  BY <1>3, <2>1, Zenon
<1> HIDE DEF f
<1> QED  BY <1>4, Zenon DEF Comparing

LEMMA StrcmpEnds ==
  ASSUME NEW s \in Seq(Nat), NEW t, NEW m \in Nat, Leaves(s, t, 1, m)
  PROVE  strcmp(s, t) = Difference(s, t, m)
<1> DEFINE f == ComparingOf(s, t)   S == {i \in Nat : i + 1 <= m => f[i + 1] = f[1]}
<1>1. f = Comparing(s, t, f)
  BY ComparingExists, Zenon DEF ComparingOf
<1>2. \A i \in Nat : f[i] = Compared(s, t, i, f)
  <2> HIDE DEF f
  <2>1. f = [i \in Nat |-> Compared(s, t, i, f)]
    BY <1>1, Zenon DEF Comparing
  <2> QED  BY <2>1, Zenon
<1> HIDE DEF f
<1>3. 0 \in S
  OBVIOUS
<1>4. ASSUME NEW i \in Nat, i \in S PROVE i + 1 \in S
  <2> DEFINE k == i + 1
  <2>1. k \in Nat /\ k >= 1
    OBVIOUS
  <2>2. CASE k + 1 <= m
    <3>1. f[k] = f[1]
      BY <1>4, <2>2
    <3>2. GoesOn(s, t, k)
      BY <2>1, <2>2 DEF Leaves
    <3> HIDE DEF k
    <3>3. f[k] = Compared(s, t, k, f)
      BY <1>2, <2>1
    <3>4. f[k + 1] = f[1]
      BY <3>1, <3>2, <3>3, Zenon DEF Compared
    <3> QED  BY <2>1, <3>4 DEF k
  <2>3. CASE ~(k + 1 <= m)
    BY <2>3
  <2> QED  BY <2>2, <2>3
<1>5. Nat \subseteq S
  <2> HIDE DEF S
  <2> QED  BY <1>3, <1>4, NatInduct
<1>6. f[m] = f[1]
  <2> DEFINE k == m - 1
  <2>1. k \in Nat /\ k + 1 = m
    BY DEF Leaves
  <2>2. k \in S
    BY <1>5, <2>1
  <2> HIDE DEF k
  <2>3. f[k + 1] = f[1]
    BY <2>1, <2>2
  <2> QED  BY <2>1, <2>3
<1>7. f[m] = Difference(s, t, m)
  BY <1>2, Zenon DEF Compared, Leaves
<1> QED  BY <1>6, <1>7, StrcmpIs DEF f

LEMMA NoWrap ==
  ASSUME NEW x \in Int, -256 < x, x < 256
  PROVE  ToULong(x) = 0 <=> x = 0
<1> DEFINE W == 2^LongBits
<1>1. W \in Nat /\ 256 <= W
  BY PowerAssumption, TextAssumption
<1>2. ToULong(x) = x % W
  BY DEF ToULong
<1> HIDE DEF W
<1>3. CASE x >= 0
  <2>1. W \in Nat \ {0} /\ 0 \in Int /\ x \in 0 .. W - 1 /\ W * 0 + x = x
    BY <1>1, <1>3
  <2>2. (W * 0 + x) % W = x
    BY <2>1, Division, Zenon
  <2> QED  BY <1>2, <2>1, <2>2, Zenon
<1>4. CASE ~(x >= 0)
  <2>1. W \in Nat \ {0} /\ -1 \in Int /\ x + W \in 0 .. W - 1 /\ x + W # 0 /\ W * (-1) + (x + W) = x /\ x # 0
    BY <1>1, <1>4
  <2>2. (W * (-1) + (x + W)) % W = x + W
    BY <2>1, Division, Zenon
  <2> QED  BY <1>2, <2>1, <2>2, Zenon
<1> QED  BY <1>3, <1>4

LEMMA WordChars ==
  ASSUME NEW s \in Word
  PROVE  /\ s \in Seq(Nat) /\ Len(s) \in Nat
         /\ \A i \in Int : At(s, i) = (IF i \in 1 .. Len(s) THEN s[i] ELSE 0) /\ At(s, i) \in 0 .. 255
         /\ \A i \in 1 .. Len(s) : s[i] # 0 /\ s[i] \in Nat
<1>1. s \in Seq(Nat) /\ s \in Seq(1 .. 255)
  BY Strings, Zenon
<1>2. \A i \in 1 .. Len(s) : s[i] \in 1 .. 255
  BY <1>1, ElementOfSeq, Zenon
<1>3. \A i \in Int : At(s, i) = (IF i \in 1 .. Len(s) THEN s[i] ELSE 0)
  BY <1>1, AtIs, Zenon
<1>4. Len(s) \in Nat
  BY <1>1, LenProperties, Zenon
<1>5. \A c \in 1 .. 255 : c # 0 /\ c \in Nat /\ c \in 0 .. 255
  OBVIOUS
<1>6. 0 \in 0 .. 255
  OBVIOUS
<1> QED  BY <1>1, <1>2, <1>3, <1>4, <1>5, <1>6, ZenonT(60)

LEMMA SameWord ==
  ASSUME NEW s \in Word, NEW t \in Word, NEW m \in Nat, Leaves(s, t, 1, m), At(s, m) = At(t, m)
  PROVE  s = t
<1>1. /\ s \in Seq(Nat) /\ t \in Seq(Nat) /\ Len(s) \in Nat /\ Len(t) \in Nat
      /\ \A i \in Int : At(s, i) = (IF i \in 1 .. Len(s) THEN s[i] ELSE 0) /\ At(t, i) = (IF i \in 1 .. Len(t) THEN t[i] ELSE 0)
      /\ \A i \in 1 .. Len(s) : s[i] # 0
      /\ \A i \in 1 .. Len(t) : t[i] # 0
  BY WordChars, ZenonT(60)
<1>2. m >= 1 /\ At(s, m) = 0 /\ At(t, m) = 0 /\ \A j \in Nat : 1 <= j /\ j < m => At(s, j) # 0 /\ At(t, j) # 0 /\ At(s, j) = At(t, j)
  BY DEF Leaves, GoesOn
<1>3. m \notin 1 .. Len(s) /\ m \notin 1 .. Len(t)
  BY <1>1, <1>2
<1>4. m > Len(s) /\ m > Len(t)
  BY <1>1, <1>2, <1>3
<1>5. Len(s) = m - 1 /\ Len(t) = m - 1
  <2>1. CASE m = 1
    BY <1>1, <1>4, <2>1
  <2>2. CASE m # 1
    <3> DEFINE j == m - 1
    <3>1. j \in Nat /\ j \in Int /\ 1 <= j /\ j < m
      BY <1>2, <2>2
    <3> HIDE DEF j
    <3>2. At(s, j) # 0 /\ At(t, j) # 0
      BY <1>2, <3>1
    <3>3. j \in 1 .. Len(s) /\ j \in 1 .. Len(t)
      BY <1>1, <3>1, <3>2
    <3> QED  BY <1>1, <1>4, <3>3 DEF j
  <2> QED  BY <2>1, <2>2
<1>6. ASSUME NEW i \in 1 .. Len(s) PROVE s[i] = t[i]
  <2>1. i \in Nat /\ i \in Int /\ 1 <= i /\ i < m /\ i \in 1 .. Len(t)
    BY <1>1, <1>5
  <2>2. At(s, i) = At(t, i)
    BY <1>2, <2>1
  <2> QED  BY <1>1, <2>1, <2>2
<1>7. Len(s) = Len(t)
  BY <1>5
<1> QED  BY <1>1, <1>6, <1>7, SeqEqual

LEMMA CompareKept == ASSUME Compare PROVE TextCorrect'
<1>1. PICK s \in Word, t \in Word : Return([op |-> "strcmp", s |-> s, t |-> t], strcmp(s, t))
  BY DEF Compare
<1>2. s \in Seq(Nat) /\ t \in Seq(Nat)
  BY WordChars, Zenon
<1>3. PICK m \in Nat : Leaves(s, t, 1, m)
  BY <1>2, LeavesExists
<1>4. strcmp(s, t) = Difference(s, t, m)
  BY <1>2, <1>3, StrcmpEnds
<1> DEFINE a == At(s, m)   b == At(t, m)
<1>5. a \in 0 .. 255 /\ b \in 0 .. 255
  <2>1. m \in Int
    OBVIOUS
  <2> QED  BY <2>1, WordChars, Zenon
<1>6. Difference(s, t, m) = ToULong(a - b)
  BY DEF Difference
<1> HIDE DEF a, b
<1>7. a - b \in Int /\ -256 < a - b /\ a - b < 256 /\ (a - b = 0 <=> a = b)
  BY <1>5
<1>8. strcmp(s, t) = 0 <=> a = b
  BY <1>4, <1>6, <1>7, NoWrap, Zenon
<1>9. a = b => s = t
  BY <1>3, SameWord DEF a, b
<1>10. s = t => a = b
  BY DEF a, b
<1>11. call' = [op |-> "strcmp", s |-> s, t |-> t] /\ res'.v = strcmp(s, t)
  BY <1>1 DEF Return
<1>12. call'.op = "strcmp" /\ call'.s = s /\ call'.t = t
  BY <1>11
<1> QED  BY <1>8, <1>9, <1>10, <1>11, <1>12, Zenon DEF TextCorrect, Is

LEMMA StrlenIs ==
  ASSUME NEW mem, NEW i \in Int, NEW n \in Nat, n \in {j - i : j \in DOMAIN mem}, DOMAIN mem \subseteq Int,
         mem[i + n] = 0, \A k \in 0 .. n - 1 : mem[i + k] # 0
  PROVE  strlen(mem, i) = n
<1> DEFINE Good(m) == m >= 0 /\ mem[i + m] = 0 /\ \A k \in 0 .. m - 1 : mem[i + k] # 0
           S == {j - i : j \in DOMAIN mem}
<1>1. n \in S /\ Good(n)
  OBVIOUS
<1>2. ASSUME NEW m \in S, Good(m) PROVE m = n
  <2>1. m \in Int /\ m >= 0
    BY <1>2
  <2>2. ~(m < n)
    <3>1. m < n => m \in 0 .. n - 1
      BY <2>1
    <3> QED  BY <1>2, <3>1
  <2>3. ~(n < m)
    <3>1. n < m => n \in 0 .. m - 1
      BY <2>1
    <3> QED  BY <1>2, <3>1
  <2> QED  BY <2>1, <2>2, <2>3
<1>3. strlen(mem, i) = CHOOSE m \in S : Good(m)
  BY Zenon DEF strlen
<1> HIDE DEF S, Good
<1> QED  BY <1>1, <1>2, <1>3, Zenon

LEMMA CopyKept == ASSUME Copy PROVE TextCorrect'
<1>1. PICK s \in Word : Return([op |-> "strcpy", s |-> s], strcpy([j \in 0 .. 20 |-> 0], 1, s))
  BY DEF Copy
<1> DEFINE mem == strcpy([j \in 0 .. 20 |-> 0], 1, s)   n == Len(s)
<1>2. s \in Seq(Nat) /\ n \in Nat /\ \A i \in 1 .. n : s[i] # 0
  BY WordChars, Zenon
<1>3. n <= 19
  <2>1. n \in 0 .. 19
    BY Strings, Zenon
  <2> HIDE DEF n
  <2> QED  BY <2>1
<1>4. mem = [j \in 0 .. 20 |-> IF j - 1 \in 0 .. n - 1 THEN s[j - 1 + 1] ELSE 0]
  BY DEF strcpy
<1> HIDE DEF mem, n
<1>5. DOMAIN mem = 0 .. 20 /\ \A j \in 0 .. 20 : mem[j] = IF j \in 1 .. n THEN s[j] ELSE 0
  <2>1. \A j \in 0 .. 20 : (j - 1 \in 0 .. n - 1 <=> j \in 1 .. n) /\ j - 1 + 1 = j
    BY <1>2
  <2> QED  BY <1>4, <2>1
<1>6. mem[0] = 0
  BY <1>2, <1>5
<1>7. strlen(mem, 1) = n
  <2>1. DOMAIN mem \subseteq Int /\ 1 \in Int
    BY <1>5
  <2>2. n \in {j - 1 : j \in DOMAIN mem}
    <3>1. n + 1 \in 0 .. 20 /\ n = (n + 1) - 1
      BY <1>2, <1>3
    <3>2. DOMAIN mem = 0 .. 20
      BY <1>5
    <3> QED  BY <3>1, <3>2
  <2>3. mem[1 + n] = 0
    <3>1. 1 + n \in 0 .. 20 /\ 1 + n \notin 1 .. n
      BY <1>2, <1>3
    <3> QED  BY <1>5, <3>1
  <2>4. ASSUME NEW k \in 0 .. n - 1 PROVE mem[1 + k] # 0
    <3>1. 1 + k \in 0 .. 20 /\ 1 + k \in 1 .. n
      BY <1>2, <1>3
    <3> QED  BY <1>2, <1>5, <3>1
  <2> QED  BY <1>2, <2>1, <2>2, <2>3, <2>4, StrlenIs
<1>8. StringAt(mem, 1) = s
  <2>1. StringAt(mem, 1) = [k \in 1 .. n |-> mem[1 + k - 1]]
    BY <1>7, Zenon DEF StringAt
  <2>2. \A k \in 1 .. n : mem[1 + k - 1] = s[k]
    <3>1. ASSUME NEW k \in 1 .. n PROVE mem[1 + k - 1] = s[k]
      <4>1. 1 + k - 1 = k /\ k \in 0 .. 20
        BY <1>2, <1>3
      <4> QED  BY <1>5, <4>1
    <3> QED  BY <3>1
  <2>3. s = [k \in 1 .. n |-> s[k]]
    BY <1>2 DEF n
  <2> QED  BY <2>1, <2>2, <2>3
<1>9. call' = [op |-> "strcpy", s |-> s] /\ res'.v = mem
  BY <1>1 DEF Return, mem
<1>10. call'.op = "strcpy" /\ call'.s = s
  BY <1>9
<1> QED  BY <1>6, <1>7, <1>8, <1>9, <1>10, Zenon DEF TextCorrect, Is, n

-----------------------------------------------------------------------------
(* strtol *)
Place10(s, i) == (s[Len(s) - i] - Zero) * pow(10, i)
Summed(s, i, f) == IF i = Len(s) THEN 0 ELSE ToInt(Place10(s, i) + f[i + 1])
Summing(s, f) == [i \in 0 .. Len(s) |-> Summed(s, i, f)]
SummingOf(s) == CHOOSE f : f = Summing(s, f)

LEMMA StrtolIs == \A s : s # NULL => strtol(s) = ToULong(SummingOf(s)[0])
BY Zenon DEF strtol, SummingOf, Summing, Summed, Place10

\* w holds the sums of the digits of s, from each place on.
SumsOf(w, s, l) ==
  /\ s # NULL /\ l \in Nat /\ l = Len(s) /\ w = [i \in 0 .. l |-> w[i]] /\ w[l] = 0
  /\ \A i \in 0 .. l - 1 : w[i] = ToInt(Place10(s, i) + w[i + 1])

LEMMA StrtolSums == ASSUME NEW s, NEW l, NEW w, SumsOf(w, s, l) PROVE strtol(s) = ToULong(w[0])
<1> SUFFICES ASSUME s # NULL, l \in Nat, l = Len(s), w = [i \in 0 .. l |-> w[i]], w[l] = 0,
                    \A i \in 0 .. l - 1 : w[i] = ToInt(Place10(s, i) + w[i + 1])
             PROVE  strtol(s) = ToULong(w[0])
  BY Zenon DEF SumsOf
<1> DEFINE f == SummingOf(s)   S == {m \in Nat : m <= l => f[l - m] = w[l - m]}
<1>1. w = Summing(s, w)
  <2>1. ASSUME NEW i \in 0 .. l PROVE w[i] = Summed(s, i, w)
    <3>1. CASE i = l
      BY <3>1 DEF Summed
    <3>2. CASE i # l
      <4>1. i \in 0 .. l - 1
        BY <3>2
      <4> QED  BY <3>2, <4>1, Zenon DEF Summed
    <3> QED  BY <3>1, <3>2
  <2> QED  BY <2>1, Zenon DEF Summing
<1>2. f = Summing(s, f)
  BY <1>1, Zenon DEF SummingOf
<1> HIDE DEF f
<1>3. \A i \in 0 .. l : f[i] = Summed(s, i, f)
  <2>1. f = [i \in 0 .. l |-> Summed(s, i, f)]
    BY <1>2, Zenon DEF Summing
  <2> QED  BY <2>1, Zenon
<1>4. 0 \in S
  <2>1. l \in 0 .. l /\ l - 0 = l
    OBVIOUS
  <2>2. f[l] = 0
    BY <1>3, <2>1, Zenon DEF Summed
  <2> QED  BY <2>1, <2>2
<1>5. ASSUME NEW m \in Nat, m \in S PROVE m + 1 \in S
  <2>1. CASE m + 1 <= l
    <3> DEFINE i == l - (m + 1)
    <3>1. i \in 0 .. l /\ i # l /\ i \in 0 .. l - 1 /\ i + 1 = l - m /\ f[l - m] = w[l - m]
      BY <1>5, <2>1
    <3> HIDE DEF i
    <3>2. f[i] = ToInt(Place10(s, i) + f[i + 1])
      BY <1>3, <3>1, Zenon DEF Summed
    <3>3. w[i] = ToInt(Place10(s, i) + w[i + 1])
      BY <3>1, Zenon
    <3>4. f[i] = w[i]
      BY <3>1, <3>2, <3>3, Zenon
    <3> QED  BY <3>4 DEF i
  <2>2. CASE ~(m + 1 <= l)
    BY <2>2
  <2> QED  BY <2>1, <2>2
<1>6. Nat \subseteq S
  <2> HIDE DEF S
  <2> QED  BY <1>4, <1>5, NatInduct
<1>7. f[0] = w[0]
  <2>1. l \in S /\ l - l = 0
    BY <1>6
  <2> QED  BY <2>1
<1> QED  BY <1>7, StrtolIs, Zenon DEF f

Times(i, n, f) == IF n <= 1 THEN i ELSE ToInt(f[n - 1] * i)
Timing(i, f) == [n \in Nat |-> Times(i, n, f)]
TimingOf(i) == CHOOSE f : f = Timing(i, f)

LEMMA PowIs == \A i, p : pow(i, p) = IF p = 0 THEN 1 ELSE TimingOf(i)[p]
BY Zenon DEF pow, TimingOf, Timing, Times

LEMMA TimingCall ==
  ASSUME NEW i \in Int
  PROVE  TimingOf(i) = Timing(i, TimingOf(i)) /\ \A n \in Nat : TimingOf(i)[n] = Times(i, n, TimingOf(i))
<1> DEFINE D == Nat   V == Int   F == [D -> V]
           H == [n \in D |-> [f \in F |-> Times(i, n, f)]]
<1>1. ASSUME NEW n \in D, NEW f \in F PROVE Times(i, n, f) \in V
  <2>1. CASE n <= 1
    BY <2>1 DEF Times
  <2>2. CASE ~(n <= 1)
    <3>1. n - 1 \in Nat
      BY <2>2
    <3>2. f[n - 1] \in Int
      BY <3>1
    <3> DEFINE x == f[n - 1] * i
    <3>3. x \in Int
      BY <3>2
    <3>4. Times(i, n, f) = ToInt(x)
      BY <2>2 DEF Times
    <3> HIDE DEF x
    <3> QED  BY <3>3, <3>4, Signed
  <2> QED  BY <2>1, <2>2
<1>2. ASSUME NEW n \in D, NEW f \in F, NEW g \in F, \A m \in D : m < n => f[m] = g[m] PROVE Times(i, n, f) = Times(i, n, g)
  <2>1. CASE n <= 1
    BY <2>1 DEF Times
  <2>2. CASE ~(n <= 1)
    <3>1. n - 1 \in Nat /\ n - 1 < n
      BY <2>2
    <3>2. f[n - 1] = g[n - 1]
      BY <1>2, <3>1
    <3> QED  BY <2>2, <3>2, Zenon DEF Times
  <2> QED  BY <2>1, <2>2
<1>3. H \in [D -> [F -> V]] /\ \A n \in D, f \in F : H[n][f] = Times(i, n, f)
  BY <1>1
<1> HIDE DEF H
<1>4. LooksBack(D, V, H)
  <2>1. ASSUME NEW n \in D, NEW g \in F, NEW h \in F, \A m \in D : m < n => g[m] = h[m] PROVE H[n][g] = H[n][h]
    <3>1. Times(i, n, g) = Times(i, n, h)
      BY <1>2, <2>1
    <3> QED  BY <1>3, <3>1, Zenon
  <2>2. D \subseteq Nat
    OBVIOUS
  <2> QED  BY <1>3, <2>1, <2>2, Zenon DEF LooksBack
<1>5. 0 \in V
  OBVIOUS
<1> HIDE DEF V, D
<1>6. PICK f : Solves(f, D, V, H)
  BY <1>4, <1>5, StrongRecursion
<1>7. f = [n \in D |-> Times(i, n, f)]
  BY <1>3, <1>6 DEF Solves
<1>8. f = Timing(i, f)
  BY <1>7, Zenon DEF Timing, D
<1>9. TimingOf(i) = Timing(i, TimingOf(i))
  BY <1>8, Zenon DEF TimingOf
<1> QED  BY <1>9, Zenon DEF Timing

\* pow gives the powers of ten that an int holds.
LEMMA PowPowers ==
  ASSUME NEW P, IsPowers(P, 10)
  PROVE  \A m \in Nat : P[m] \in PosInt \/ m = 0 => pow(10, m) = P[m]
<1> DEFINE t == TimingOf(10)   S == {m \in Nat : P[m + 1] \in PosInt => t[m + 1] = P[m + 1]}
<1>1. 10 \in Int
  OBVIOUS
<1>2. \A n \in Nat : t[n] = Times(10, n, t)
  BY <1>1, TimingCall, Zenon
<1>3. \A p : pow(10, p) = IF p = 0 THEN 1 ELSE t[p]
  BY PowIs, Zenon
<1> HIDE DEF t
<1>4. P \in [Nat -> Nat] /\ P[0] = 1 /\ \A k \in Nat : P[k + 1] = 10 * P[k]
  BY DEF IsPowers
<1>5. 0 \in S
  <2>1. t[1] = 10
    <3>1. t[1] = Times(10, 1, t)
      BY <1>2
    <3> QED  BY <3>1 DEF Times
  <2>2. P[1] = 10
    <3>1. P[0 + 1] = 10 * P[0]
      BY <1>4
    <3> QED  BY <1>4, <3>1
  <2> QED  BY <2>1, <2>2
<1>6. ASSUME NEW m \in Nat, m \in S PROVE m + 1 \in S
  <2> DEFINE j == m + 1   k == m + 1 + 1
  <2>1. j \in Nat /\ k \in Nat /\ j = m + 1 /\ k = j + 1 /\ k - 1 = j /\ ~(k <= 1)
    OBVIOUS
  <2> HIDE DEF j, k
  <2>2. P[k] = 10 * P[j] /\ P[j] \in Nat /\ P[k] \in Nat
    BY <1>4, <2>1
  <2>3. t[k] = ToInt(t[j] * 10)
    <3>1. t[k] = Times(10, k, t)
      BY <1>2, <2>1
    <3> QED  BY <2>1, <3>1, Zenon DEF Times
  <2>4. ASSUME P[k] \in PosInt PROVE t[k] = P[k]
    <3>1. P[j] \in PosInt
      BY <2>2, <2>4, PowerAssumption DEF PosInt
    <3>2. t[j] = P[j]
      BY <1>6, <2>1, <3>1
    <3>3. t[k] = ToInt(P[k])
      <4>1. P[j] * 10 = P[k]
        BY <2>2
      <4> QED  BY <2>3, <3>2, <4>1, Zenon
    <3>4. P[k] \in Int
      BY <2>2
    <3> QED  BY <2>4, <3>3, <3>4, Signed, Zenon
  <2> QED  BY <2>1, <2>4 DEF k
<1>7. Nat \subseteq S
  <2> HIDE DEF S
  <2> QED  BY <1>5, <1>6, NatInduct
<1>8. ASSUME NEW m \in Nat, P[m] \in PosInt \/ m = 0 PROVE pow(10, m) = P[m]
  <2>1. CASE m = 0
    BY <1>3, <1>4, <2>1
  <2>2. CASE m # 0
    <3> DEFINE l == m - 1
    <3>1. l \in Nat /\ l + 1 = m
      BY <2>2
    <3>2. l \in S
      BY <1>7, <3>1
    <3> HIDE DEF l
    <3>3. P[m] \in PosInt => t[m] = P[m]
      BY <3>1, <3>2
    <3> QED  BY <1>3, <1>8, <2>2, <3>3
  <2> QED  BY <2>1, <2>2
<1> QED  BY <1>8

\* The characters of a number from its last one on.
InDecimal(u, P, n, k) == u = Numeral(P, n, k, FALSE)
TheDigit(u, i, P, n) == u[Len(u) - i] - Zero = Digit(P, n, i)

LEMMA DecimalPlaces ==
  ASSUME NEW P, IsPowers(P, 10), NEW n \in Nat, NEW k \in Nat, NEW u, InDecimal(u, P, n, k), NEW i \in 0 .. k
  PROVE  TheDigit(u, i, P, n) /\ Digit(P, n, i) \in Nat
<1>1. 10 \in 2 .. 16 /\ 10 \in Nat \ {0} /\ FALSE \in BOOLEAN /\ i \in Nat
  OBVIOUS
<1>2. Len(u) = k + 1
  BY NumeralLength, Zenon DEF InDecimal
<1> DEFINE l == k + 1 - i
<1>3. l \in 1 .. k + 1 /\ k + 1 - l = i
  OBVIOUS
<1>4. u[l] = DigitCode(Digit(P, n, k + 1 - l), FALSE)
  <2> HIDE DEF l
  <2> QED  BY <1>3, Zenon DEF Numeral, InDecimal
<1>5. Digit(P, n, i) \in 0 .. 10 - 1
  BY <1>1, DigitAt, Zenon
<1> DEFINE d == Digit(P, n, i)
<1>6. d \in 0 .. 9
  BY <1>5
<1>7. u[l] = DigitCode(d, FALSE)
  BY <1>3, <1>4
<1> HIDE DEF d
<1>8. DigitCode(d, FALSE) = d + Zero
  <2>1. d < 10
    BY <1>6
  <2> QED  BY <2>1, Zenon DEF DigitCode
<1>9. d + Zero - Zero = d /\ d \in Nat
  BY <1>6 DEF Zero
<1>10. u[Len(u) - i] = d + Zero
  <2>1. Len(u) - i = l
    BY <1>2
  <2> HIDE DEF l
  <2> QED  BY <1>7, <1>8, <2>1, Zenon
<1>11. u[Len(u) - i] - Zero = d
  BY <1>9, <1>10 DEF Zero
<1> QED  BY <1>9, <1>11, Zenon DEF d, TheDigit

LEMMA Remainder ==
  ASSUME NEW n \in Nat, NEW p \in Nat \ {0}
  PROVE  /\ n % p \in Nat /\ n - (n % p) \in 0 .. n
         /\ n < p => n % p = n
         /\ p = 1 => n % p = 0
<1>1. n = p * (n \div p) + (n % p) /\ n % p \in 0 .. p - 1 /\ n \div p \in Nat
  OBVIOUS
<1>2. p * (n \div p) >= 0
  BY <1>1
<1>3. n < p => n % p = n
  OBVIOUS
<1> QED  BY <1>1, <1>2, <1>3

\* strtol reads back a number that ui2a wrote.
LEMMA StrtolReads == ASSUME NEW n \in PosInt PROVE strtol(ui2a(n, 10, FALSE)) = n
<1> DEFINE s == ui2a(n, 10, FALSE)
<1>1. n \in Nat /\ n \in UInt /\ n \in Int /\ n < 2^LongBits
  BY PowerAssumption DEF PosInt, UInt
<1>2. 10 \in Nat /\ 10 >= 2 /\ 10 \in 2 .. 16 /\ 10 \in Nat \ {0}
  OBVIOUS
<1>3. PICK P : IsPowers(P, 10)
  BY <1>2, PowersExist
<1>4. PICK k \in Nat : s = Numeral(P, n, k, FALSE) /\ n < P[k + 1] /\ (k = 0 \/ P[k] <= n)
  BY <1>1, <1>2, <1>3, Ui2aFound, Zenon
<1> HIDE DEF s
<1> DEFINE w == [i \in 0 .. k + 1 |-> n - (n % P[i])]
<1>5. \A i \in Nat : P[i] \in Nat \ {0}
  BY <1>2, <1>3, PowersPositive
<1>6. Len(s) = k + 1 /\ k + 1 \in Nat
  <2>1. Len(Numeral(P, n, k, FALSE)) = k + 1
    BY <1>4, NumeralLength, Zenon
  <2>2. k + 1 \in Nat
    OBVIOUS
  <2> QED  BY <1>4, <2>1, <2>2, Zenon
<1>6a. \A p \in Nat \ {0} : n % p \in Nat /\ n - (n % p) \in 0 .. n /\ (n < p => n % p = n) /\ (p = 1 => n % p = 0)
  BY <1>1, Remainder, Zenon
<1>7. \A i \in 0 .. k + 1 : w[i] = n - (n % P[i]) /\ w[i] \in 0 .. n
  <2>1. \A i \in 0 .. k + 1 : i \in Nat
    OBVIOUS
  <2>2. \A i \in 0 .. k + 1 : n - (n % P[i]) \in 0 .. n
    BY <1>5, <1>6a, <2>1, Zenon
  <2>3. \A i \in 0 .. k + 1 : w[i] = n - (n % P[i])
    BY Zenon
  <2> HIDE DEF w
  <2> QED  BY <2>2, <2>3, Zenon
<1>8. w[k + 1] = 0 /\ w[0] = n
  <2>1. n % P[k + 1] = n /\ n % P[0] = 0
    <3>1. P[0] = 1 /\ 0 \in Nat /\ k + 1 \in Nat
      BY <1>3 DEF IsPowers
    <3> QED  BY <1>4, <1>5, <1>6a, <3>1, Zenon
  <2>2. k + 1 \in 0 .. k + 1 /\ 0 \in 0 .. k + 1
    OBVIOUS
  <2> HIDE DEF w
  <2> QED  BY <1>1, <1>7, <2>1, <2>2
<1>9. w = [i \in 0 .. k + 1 |-> w[i]]
  OBVIOUS
<1> HIDE DEF w
<1>15. ASSUME NEW i \in 0 .. k PROVE s[Len(s) - i] - Zero = Digit(P, n, i) /\ Digit(P, n, i) \in Nat
  <2>1. TheDigit(s, i, P, n) /\ Digit(P, n, i) \in Nat
    <3>1. InDecimal(s, P, n, k)
      BY <1>4, Zenon DEF InDecimal
    <3> QED  BY <1>1, <1>3, <1>4, <3>1, DecimalPlaces, Zenon
  <2> QED  BY <2>1, Zenon DEF TheDigit
<1>10. ASSUME NEW i \in 0 .. k PROVE w[i] = ToInt(Place10(s, i) + w[i + 1])
  <2>1. i \in Nat /\ i \in 0 .. k + 1 /\ i + 1 \in 0 .. k + 1 /\ i + 1 \in Nat
    OBVIOUS
  <2>2. s[Len(s) - i] - Zero = Digit(P, n, i) /\ Digit(P, n, i) \in Nat
    BY <1>15
  <2>3. pow(10, i) = P[i]
    <3>1. P[i] \in PosInt \/ i = 0
      <4>1. CASE k = 0
        BY <4>1
      <4>2. CASE k # 0
        <5>1. P[i] <= P[k]
          BY <1>2, <1>3, <2>1, PowersOrdered
        <5>2. P[i] <= n /\ P[i] \in Nat
          BY <1>1, <1>4, <1>5, <2>1, <4>2, <5>1
        <5> QED  BY <5>2, PowerAssumption DEF PosInt
      <4> QED  BY <4>1, <4>2
    <3> QED  BY <1>3, <2>1, <3>1, PowPowers
  <2>4. Place10(s, i) = Digit(P, n, i) * P[i]
    BY <2>2, <2>3, Zenon DEF Place10
  <2> DEFINE x == Digit(P, n, i) * P[i]
  <2>5. n % P[i + 1] = x + (n % P[i])
    BY <1>1, <1>2, <1>3, <2>1, DigitIs
  <2>6. x \in Nat
    BY <1>5, <2>1, <2>2
  <2>7. n % P[i + 1] \in Nat /\ n % P[i] \in Nat
    BY <1>5, <1>6a, <2>1, Zenon
  <2> HIDE DEF x
  <2>8. x + w[i + 1] = w[i]
    <3> DEFINE j == i + 1
    <3>1. w[i] = n - (n % P[i]) /\ w[j] = n - (n % P[j])
      BY <1>7, <2>1
    <3>2. n % P[j] = x + (n % P[i]) /\ n % P[j] \in Nat
      BY <2>5, <2>7
    <3> HIDE DEF j
    <3> DEFINE a == n % P[i]   b == n % P[j]
    <3>3. a \in Nat /\ b \in Nat /\ b = x + a /\ w[i] = n - a /\ w[j] = n - b
      BY <2>7, <3>1, <3>2
    <3> HIDE DEF a, b
    <3>4. x + w[j] = w[i]
      BY <1>1, <2>6, <3>3
    <3> QED  BY <3>4 DEF j
  <2>9. w[i] \in PosInt /\ w[i] \in Int
    BY <1>7, <2>1, PowerAssumption DEF PosInt
  <2>10. Place10(s, i) + w[i + 1] = w[i]
    BY <2>4, <2>8 DEF x
  <2> QED  BY <2>9, <2>10, Signed, Zenon
<1> DEFINE l == k + 1
<1>11. l \in Nat /\ l = Len(s) /\ w = [i \in 0 .. l |-> w[i]] /\ w[l] = 0
  BY <1>6, <1>8, <1>9
<1>12. \A i \in 0 .. l - 1 : w[i] = ToInt(Place10(s, i) + w[i + 1])
  <2>1. \A i \in 0 .. l - 1 : i \in 0 .. k
    OBVIOUS
  <2> HIDE DEF l
  <2> QED  BY <1>10, <2>1
<1> HIDE DEF l
<1>16. s # NULL
  <2> SUFFICES ASSUME s = <<-1>> PROVE FALSE
    BY DEF NULL
  <2>1. 0 \in 0 .. k /\ Len(s) = 1 /\ s[1] = -1
    OBVIOUS
  <2>2. s[1] - Zero \in Nat
    <3>1. s[Len(s) - 0] - Zero \in Nat
      BY <1>15, <2>1
    <3> QED  BY <2>1, <3>1
  <2> QED  BY <2>1, <2>2 DEF Zero
<1>13. strtol(s) = ToULong(w[0])
  <2>1. SumsOf(w, s, l)
    BY <1>11, <1>12, <1>16, Zenon DEF SumsOf
  <2> QED  BY <2>1, StrtolSums, Zenon
<1>14. ToULong(n) = n
  <2>1. 2^LongBits \in Nat \ {0}
    BY <1>1, PowerAssumption
  <2> QED  BY <1>1, <2>1, Remainder, Zenon DEF ToULong
<1> QED  BY <1>8, <1>13, <1>14 DEF s

LEMMA ParseKept == ASSUME Parse PROVE TextCorrect'
<1>1. PICK n \in PosInt : Return([op |-> "strtol", n |-> n], strtol(ui2a(n, 10, FALSE)))
  BY DEF Parse
<1>2. res'.v = n
  BY <1>1, StrtolReads DEF Return
<1>3. call' = [op |-> "strtol", n |-> n]
  BY <1>1 DEF Return
<1>4. call'.op = "strtol" /\ call'.n = n
  BY <1>3
<1> QED  BY <1>2, <1>4, Zenon DEF TextCorrect, Is

\* printf prints every number so that it reads back as the number, padded to
\* the field asked for and within its buffer (printf.c:62-198); strtol reads
\* back what it printed (string.c:46), strcmp tells any two strings apart
\* (string.c:13), and a name copied by strcpy ends where it should (string.c:26);
\* for ints of any width.
THEOREM TextIsCorrect == Spec => []TextCorrect
<1>1. Init => TextCorrect
  BY DEF Init, LInit, Idle, TextCorrect, Is
<1>2. ASSUME TextCorrect, [Next]_vars PROVE TextCorrect'
  <2>1. CASE UNCHANGED lvars
    <3>1. call' = call /\ res' = res
      BY <2>1 DEF lvars
    <3> QED  BY <1>2, <3>1 DEF TextCorrect, Is
  <2>2. CASE call'.op \notin {"print", "sprintf", "strtol", "strcmp", "strcpy"}
    BY <2>2 DEF TextCorrect, Is
  <2> QED  BY <1>2, <2>1, <2>2, Calls, PrintNumberKept, PrintStringKept, CompareKept, CopyKept, ParseKept
<1> QED  BY <1>1, <1>2, PTL DEF Spec
=============================================================================
