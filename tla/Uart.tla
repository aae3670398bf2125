-------------------------------- MODULE Uart --------------------------------
(***************************************************************************)
(* The transmitter of src/drivers/mini_uart.c.  Processes on several cores *)
(* call printf, uart_puts and uart_putc without a lock; a byte is stored   *)
(* after the test of mu_lsr and not together with it.  Which bytes they    *)
(* are does not matter here, only how many are left to be written.         *)
(***************************************************************************)
EXTENDS Naturals, FiniteSets

CONSTANTS Writers, FifoSize  \* the processes; 8 bytes

ASSUME FifoAssumption == FifoSize \in Nat \ {0}

VARIABLES
  level,    \* bytes in the transmit FIFO
  left,     \* bytes the writer's call has still to write
  checked,  \* writers that saw bit 0x20 of mu_lsr and have not stored their byte
  late      \* history: those of them before whom another one stored its byte

uvars == <<level, left, checked, late>>

UInit ==
  /\ level = 0 /\ left = [w \in Writers |-> 0]
  /\ checked = {} /\ late = {}

\* uart_putc of a line feed writes a carriage return first.
Bytes(chars, feeds) == chars + 2 * feeds

Output(w, n) ==
  /\ left[w] = 0 /\ left' = [left EXCEPT ![w] = n]
  /\ UNCHANGED <<level, checked, late>>

\* Faulty: the test of mu_lsr is dropped.
CheckNothing(w) ==
  /\ left[w] > 0 /\ w \notin checked
  /\ checked' = checked \cup {w}
  /\ UNCHANGED <<level, left, late>>

\* while(!(mu_lsr & 0x20)): there is room for a byte.
Check(w) ==
  /\ left[w] > 0 /\ w \notin checked /\ level < FifoSize
  /\ checked' = checked \cup {w}
  /\ UNCHANGED <<level, left, late>>

\* mu_io = c: the byte is lost when the FIFO is full by now.
Store(w) ==
  /\ w \in checked
  /\ level' = IF level < FifoSize THEN level + 1 ELSE level
  /\ left' = [left EXCEPT ![w] = @ - 1]
  /\ checked' = checked \ {w}
  /\ late' = checked \ {w}

Send ==
  /\ level > 0 /\ level' = level - 1
  /\ UNCHANGED <<left, checked, late>>

UNext == Send \/ \E w \in Writers : Check(w) \/ Store(w)

\* The transmitter by itself, with callers that write lines.
USpec == UInit /\ [][UNext \/ \E w \in Writers, n \in Nat, feeds \in {0, 1} : Output(w, Bytes(n, feeds))]_uvars
-----------------------------------------------------------------------------
\* A byte is lost when its writer stores it into a full FIFO.  That happens to
\* a writer only after another one stored between its test of mu_lsr and its
\* store (mini_uart.c:62,63), however many of them write.
LossNeedsRace == \A w \in checked \ late : level < FifoSize
=============================================================================
