---------------------------- MODULE ConsoleProofs ----------------------------
(***************************************************************************)
(* No byte is lost without a race at the UART, for any number of writers   *)
(* and any size of the FIFO: for the transmitter by itself, and with the   *)
(* shell and its programs as the writers.  And the shell hands out what    *)
(* the user typed, for any sizes of the buffer and of the argument table.  *)
(***************************************************************************)
EXTENDS Console, Numbers, FiniteSetTheorems, SequenceTheorems

\* What is inductive: an overtaken writer is one that has not stored yet, and
\* a writer that was not overtaken still has the room it saw.
UInv ==
  /\ level \in 0 .. FifoSize
  /\ late \subseteq checked
  /\ LossNeedsRace

\* The transmitter starts empty.
LEMMA UInitially == UInit => UInv
BY FifoAssumption DEF UInit, UInv, LossNeedsRace

\* Every step of the transmitter, and every call, keeps the room that was seen.
LEMMA UStep ==
  ASSUME UInv, UNext \/ (\E w, n : Output(w, n)) \/ UNCHANGED uvars
  PROVE  UInv'
<1>1. CASE Send
  BY <1>1, FifoAssumption DEF Send, UInv, LossNeedsRace
<1>2. ASSUME NEW w \in Writers, Check(w) PROVE UInv'
  BY <1>2, FifoAssumption DEF Check, UInv, LossNeedsRace
<1>3. ASSUME NEW w \in Writers, Store(w) PROVE UInv'
  <2>1. level' \in 0 .. FifoSize
    BY <1>3, FifoAssumption DEF Store, UInv
  <2>2. late' = checked'
    BY <1>3 DEF Store
  <2> QED  BY <2>1, <2>2 DEF UInv, LossNeedsRace
<1>4. ASSUME NEW w, NEW n, Output(w, n) PROVE UInv'
  BY <1>4 DEF Output, UInv, LossNeedsRace
<1>5. CASE UNCHANGED uvars
  BY <1>5 DEF uvars, UInv, LossNeedsRace
<1> QED  BY <1>1, <1>2, <1>3, <1>4, <1>5 DEF UNext

\* uart_putc (mini_uart.c:57): whoever calls it, and whatever they write, a byte
\* is lost only behind the back of its writer.
THEOREM NoLossAlone == USpec => []LossNeedsRace
<1>1. UInv /\ [UNext \/ \E w \in Writers, n \in Nat, feeds \in {0, 1} : Output(w, Bytes(n, feeds))]_uvars => UInv'
  BY UStep
<1>2. UInv => LossNeedsRace
  BY DEF UInv
<1> QED  BY UInitially, <1>1, <1>2, PTL DEF USpec
-----------------------------------------------------------------------------
\* Every step of the shell and of its programs is one of the transmitter, a
\* call, or leaves the transmitter alone.
LEMMA ConsoleStep ==
  ASSUME [Next]_vars
  PROVE  UNext \/ (\E w, n : Output(w, n)) \/ UNCHANGED uvars
<1>1. CASE UNCHANGED vars
  BY <1>1 DEF vars
<1>2. CASE Start \/ GetBackspace \/ GetReturn \/ StoreChar
  BY <1>2 DEF Start, GetBackspace, GetReturn, StoreChar
<1>3. CASE ParseCommand
  BY <1>3 DEF ParseCommand
<1>4. ASSUME NEW c \in Typed, GetChar(c) PROVE \E w, n : Output(w, n)
  BY <1>4 DEF GetChar
<1>5. ASSUME NEW p \in Progs, PrintLine(p) \/ Exit(p) PROVE (\E w, n : Output(w, n)) \/ UNCHANGED uvars
  BY <1>5 DEF PrintLine, Exit
<1> QED  BY <1>1, <1>2, <1>3, <1>4, <1>5 DEF Next

\* The same with the shell's echo, prompts and messages, and the programs that
\* print while the user types.
THEOREM ConsoleLoss == Spec => []LossNeedsRace
<1>1. Init => UInv
  BY UInitially DEF Init
<1>2. UInv /\ [Next]_vars => UInv'
  BY ConsoleStep, UStep
<1>3. UInv => LossNeedsRace
  BY DEF UInv
<1> QED  BY <1>1, <1>2, <1>3, PTL DEF Spec
-----------------------------------------------------------------------------
(* The command line.  A buffer has BufferSize bytes; n is the place of its  *)
(* first terminator.                                                        *)

Place == 0 .. BufferSize - 1
Buffer == [Place -> Nat]
Pointers == [0 .. MaxArgs + 2 -> Nat \cup {Null}]

\* The characters of buf from place a up to place e.
Slice(buf, a, e) == [j \in 1 .. e - a |-> buf[a + j - 1]]

\* The string from place a of buf on ends at place e.
Ends(buf, a, e) == a \in Nat /\ e \in a .. BufferSize - 1 /\ buf[e] = 0 /\ \A j \in a .. e - 1 : buf[j] # 0

\* strlen and the string it measures (string.c:5).
LEMMA StringEnds ==
  ASSUME NEW buf \in Buffer, NEW a, NEW e, Ends(buf, a, e)
  PROVE  strlen(buf, a) = e - a /\ StringAt(buf, a) = Slice(buf, a, e)
<1> DEFINE C == {j - a : j \in DOMAIN buf}
           Stops(n) == n >= 0 /\ buf[a + n] = 0 /\ \A k \in 0 .. n - 1 : buf[a + k] # 0
<1>1. a \in Nat /\ e \in Nat /\ a <= e /\ e \in Place /\ BufferSize \in Nat /\ DOMAIN buf = Place
  BY ConsoleAssumption DEF Ends, Buffer, Place
<1>2. e - a \in C /\ Stops(e - a)
  <2>1. e - a \in C
    BY <1>1
  <2>2. \A k \in 0 .. (e - a) - 1 : a + k \in a .. e - 1
    BY <1>1
  <2>3. a + (e - a) = e
    BY <1>1
  <2> QED  BY <1>1, <2>1, <2>2, <2>3 DEF Ends
<1>3. ASSUME NEW n \in C, Stops(n) PROVE n = e - a
  <2>1. n \in Nat /\ a + n \in Nat
    BY <1>1, <1>3 DEF Place
  <2>2. ~(a + n < e)
    BY <1>1, <1>3, <2>1 DEF Ends
  <2>3. ~(e < a + n)
    <3> SUFFICES ASSUME e < a + n PROVE FALSE
      OBVIOUS
    <3>1. e - a \in 0 .. n - 1 /\ a + (e - a) = e
      BY <1>1, <2>1
    <3> QED  BY <1>3, <3>1 DEF Ends
  <2> QED  BY <1>1, <2>1, <2>2, <2>3
<1>4. strlen(buf, a) = CHOOSE n \in C : Stops(n)
  BY DEF strlen
<1> HIDE DEF C, Stops
<1>5. strlen(buf, a) = e - a
  BY <1>2, <1>3, <1>4
<1> QED  BY <1>5 DEF StringAt, Slice

State == [argc : Nat, start : Nat, buf : Buffer, args : Pointers, ignored : BOOLEAN]
Fresh(buf, ptrs) == [argc |-> 0, start |-> 0, buf |-> buf, args |-> ptrs, ignored |-> FALSE]
Finish(s) == IF s.ignored THEN s ELSE [s EXCEPT !.args[s.argc] = s.start, !.args[s.argc + 1] = Null, !.argc = @ + 1]

LEMMA CharType == ASSUME NEW s \in State, NEW i \in Nat PROVE ParseChar(s, i) \in State
<1>1. CASE s.ignored \/ s.argc > MaxArgs
  BY <1>1 DEF ParseChar, State
<1>2. CASE ~(s.ignored \/ s.argc > MaxArgs) /\ s.buf[i] = Space
  <2> DEFINE ptrs == [s.args EXCEPT ![s.argc] = s.start]
             buf == [s.buf EXCEPT ![i] = 0]
  <2>1. ptrs \in Pointers /\ buf \in Buffer
    BY DEF State, Pointers, Buffer
  <2>2. ParseChar(s, i) = [s EXCEPT !.args = ptrs, !.argc = s.argc + 1, !.buf = buf, !.start = i + 1]
    BY <1>2 DEF ParseChar
  <2> DEFINE k == s.argc + 1   j == i + 1
  <2>3. k \in Nat /\ j \in Nat
    BY DEF State
  <2>4. ParseChar(s, i) = [s EXCEPT !.args = ptrs, !.argc = k, !.buf = buf, !.start = j]
    BY <2>2
  <2> HIDE DEF ptrs, buf, j, k
  <2> QED  BY <2>1, <2>3, <2>4 DEF State
<1>3. CASE ~(s.ignored \/ s.argc > MaxArgs) /\ s.buf[i] # Space
  BY <1>3 DEF ParseChar
<1> QED  BY <1>1, <1>2, <1>3

\* The loop of parse_command, round by round.
Rounds(f, n, buf, ptrs) ==
  f \in [0 .. n -> State] /\ f[0] = Fresh(buf, ptrs) /\ \A m \in 0 .. n - 1 : f[m + 1] = ParseChar(f[m], m)

LEMMA ParseLoop ==
  ASSUME NEW buf \in Buffer, NEW ptrs \in Pointers, NEW n \in Nat, strlen(buf, 0) = n
  PROVE  \E f : Rounds(f, n, buf, ptrs) /\ parse_command(buf, ptrs) = Finish(f[n])
<1> DEFINE G == [m \in Nat |-> [s \in State |-> ParseChar(s, m)]]
           Loop(f) == [i \in 0 .. strlen(buf, 0) |-> IF i = 0 THEN Fresh(buf, ptrs) ELSE ParseChar(f[i - 1], i - 1)]
           after == CHOOSE f : f = Loop(f)
<1>1. Fresh(buf, ptrs) \in State
  BY DEF Fresh, State
<1>2. G \in [Nat -> [State -> State]]
  BY CharType
<1>3. \E f : f = Loop(f)
  <2>1. PICK f : Computes(f, State, Fresh(buf, ptrs), G, n)
    BY <1>1, <1>2, Recursion
  <2>2. f \in [0 .. n -> State] /\ f[0] = Fresh(buf, ptrs)
    BY <2>1 DEF Computes
  <2>3. ASSUME NEW i \in 0 .. n, i # 0 PROVE f[i] = ParseChar(f[i - 1], i - 1)
    <3>1. i - 1 \in 0 .. n - 1 /\ i - 1 \in Nat /\ (i - 1) + 1 = i /\ f[i - 1] \in State
      BY <2>2, <2>3
    <3>2. f[i] = G[i - 1][f[i - 1]]
      BY <2>1, <3>1 DEF Computes
    <3> QED  BY <3>1, <3>2
  <2>4. f = Loop(f)
    BY <2>2, <2>3
  <2> QED  BY <2>4
<1>4. after = Loop(after)
  BY <1>3, Zenon
<1> HIDE DEF after
<1>5. after[0] = Fresh(buf, ptrs) /\ \A m \in 0 .. n - 1 : after[m + 1] = ParseChar(after[m], m)
  BY <1>4
<1>6. \A m \in Nat : m <= n => after[m] \in State
  <2> DEFINE S == {m \in Nat : m <= n => after[m] \in State}
  <2>1. 0 \in S
    BY <1>1, <1>5
  <2>2. ASSUME NEW m \in Nat, m \in S PROVE m + 1 \in S
    BY <1>5, <2>2, CharType
  <2> HIDE DEF S
  <2>3. Nat \subseteq S
    BY <2>1, <2>2, NatInduct
  <2> QED  BY <2>3 DEF S
<1>7. Rounds(after, n, buf, ptrs)
  <2>1. \A m \in 0 .. n : after[m] \in State
    BY <1>6
  <2>2. after = [m \in 0 .. n |-> after[m]]
    BY <1>4
  <2>3. after \in [0 .. n -> State]
    BY <2>1, <2>2
  <2> QED  BY <1>5, <2>3 DEF Rounds
<1>8. parse_command(buf, ptrs) = Finish(after[n])
  <2>1. parse_command(buf, ptrs) = Finish(after[strlen(buf, 0)])
    BY Zenon DEF parse_command, Finish, after, Fresh
  <2> QED  BY <2>1
<1> QED  BY <1>7, <1>8
-----------------------------------------------------------------------------
(* What the loop has found after i characters: the spaces are cut out of    *)
(* the buffer, and each argument is the word up to the next space.          *)

Cuts(buf, i) == {j \in 1 .. i : buf[j - 1] = Space}
Spaces(buf, i) == Cardinality(Cuts(buf, i))
Cut(buf, i) == [j \in Place |-> IF j < i /\ buf[j] = Space THEN 0 ELSE buf[j]]
Word(buf, a, e) == a \in Nat /\ e \in Nat /\ a <= e /\ \A j \in a .. e - 1 : buf[j] # Space
Following(s, k) == IF k + 1 < s.argc THEN s.args[k + 1] ELSE s.start
Found(buf, i, a, next) == next \in 1 .. i /\ Word(buf, a, next - 1) /\ buf[next - 1] = Space

Split(buf, i, s) ==
  /\ s.argc = Spaces(buf, i) /\ s.buf = Cut(buf, i)
  /\ Word(buf, s.start, i)
  /\ IF s.argc = 0 THEN s.start = 0 ELSE s.args[0] = 0
  /\ \A k \in Nat : k < s.argc => Found(buf, i, s.args[k], Following(s, k))

Scanned(buf, i, s) ==
  /\ s.argc <= MaxArgs + 1
  /\ s.ignored <=> \E j \in 0 .. i - 1 : Spaces(buf, j) > MaxArgs
  /\ ~s.ignored => Split(buf, i, s)

LEMMA OneMore ==
  ASSUME NEW buf, NEW i \in Nat
  PROVE  /\ Spaces(buf, i) \in Nat /\ Spaces(buf, 0) = 0
         /\ Spaces(buf, i + 1) = IF buf[i] = Space THEN Spaces(buf, i) + 1 ELSE Spaces(buf, i)
<1>1. ASSUME NEW m \in Nat PROVE IsFiniteSet(Cuts(buf, m))
  <2>1. IsFiniteSet(1 .. m)
    BY FS_Interval
  <2> QED  BY <2>1, FS_Subset DEF Cuts
<1>2. Spaces(buf, i) \in Nat
  BY <1>1, FS_CardinalityType DEF Spaces
<1>3. Spaces(buf, 0) = 0
  <2>1. Cuts(buf, 0) = {}
    BY DEF Cuts
  <2> QED  BY <2>1, FS_EmptySet DEF Spaces
<1>4. CASE buf[i] = Space
  <2>1. Cuts(buf, i + 1) = Cuts(buf, i) \cup {i + 1}
    <3>1. (i + 1) - 1 = i
      OBVIOUS
    <3> QED  BY <1>4, <3>1 DEF Cuts
  <2>2. i + 1 \notin Cuts(buf, i)
    BY DEF Cuts
  <2>3. Cardinality(Cuts(buf, i) \cup {i + 1}) = Cardinality(Cuts(buf, i)) + 1
    BY <1>1, <2>2, FS_AddElement
  <2> QED  BY <1>2, <1>3, <1>4, <2>1, <2>3 DEF Spaces
<1>5. CASE buf[i] # Space
  <2>1. Cuts(buf, i + 1) = Cuts(buf, i)
    <3>1. (i + 1) - 1 = i
      OBVIOUS
    <3> QED  BY <1>5, <3>1 DEF Cuts
  <2> QED  BY <1>2, <1>3, <1>5, <2>1 DEF Spaces
<1> QED  BY <1>4, <1>5

\* One round of the loop.
LEMMA ScanChar ==
  ASSUME NEW buf \in Buffer, NEW i \in Place, NEW s \in State, Scanned(buf, i, s)
  PROVE  Scanned(buf, i + 1, ParseChar(s, i))
<1> DEFINE t == ParseChar(s, i)
<1>1. i \in Nat /\ s.argc \in Nat /\ s.start \in Nat /\ s.args \in Pointers /\ s.ignored \in BOOLEAN /\ MaxArgs \in Nat /\ (i + 1) - 1 = i
  BY ConsoleAssumption DEF Place, State
<1>2. Spaces(buf, i) \in Nat /\ Spaces(buf, i + 1) = IF buf[i] = Space THEN Spaces(buf, i) + 1 ELSE Spaces(buf, i)
  BY <1>1, OneMore
<1>3. (\E j \in 0 .. i : Spaces(buf, j) > MaxArgs) <=> Spaces(buf, i) > MaxArgs \/ \E j \in 0 .. i - 1 : Spaces(buf, j) > MaxArgs
  BY <1>1
<1>4. CASE s.ignored \/ s.argc > MaxArgs
  <2>1. t.ignored /\ t.argc = s.argc
    BY <1>4 DEF ParseChar, State
  <2>2. \E j \in 0 .. i : Spaces(buf, j) > MaxArgs
    BY <1>1, <1>3, <1>4 DEF Scanned, Split
  <2> HIDE DEF t
  <2>3. Scanned(buf, i + 1, t)
    BY <1>1, <2>1, <2>2 DEF Scanned
  <2> QED  BY <2>3 DEF t
<1>5. CASE ~s.ignored /\ ~(s.argc > MaxArgs)
  <2>1. Split(buf, i, s) /\ s.buf[i] = buf[i]
    BY <1>1, <1>5 DEF Scanned, Split, Cut
  <2>2. ~\E j \in 0 .. i : Spaces(buf, j) > MaxArgs
    BY <1>1, <1>3, <1>5, <2>1 DEF Scanned, Split
  <2>3. CASE buf[i] = Space
    <3> DEFINE ptrs == [s.args EXCEPT ![s.argc] = s.start]
    <3>1. t.argc = s.argc + 1 /\ t.start = i + 1 /\ t.ignored = FALSE /\ t.args = ptrs /\ t.buf = [s.buf EXCEPT ![i] = 0]
      BY <1>5, <2>1, <2>3 DEF ParseChar, State
    <3>2. t.buf = Cut(buf, i + 1)
      <4>1. s.buf = Cut(buf, i)
        BY <2>1 DEF Split
      <4>2. [Cut(buf, i) EXCEPT ![i] = 0] = Cut(buf, i + 1)
        <5>1. \A j \in Place : (j < i + 1) <=> (j < i \/ j = i)
          BY <1>1 DEF Place
        <5>2. Cut(buf, i + 1) = [j \in Place |-> IF j = i THEN 0 ELSE IF j < i /\ buf[j] = Space THEN 0 ELSE buf[j]]
          BY <1>1, <2>3, <5>1 DEF Cut
        <5> QED  BY <5>2 DEF Cut
      <4> QED  BY <3>1, <4>1, <4>2
    <3>3. ptrs[s.argc] = s.start /\ \A k \in Nat : k < s.argc => ptrs[k] = s.args[k]
      BY <1>1, <1>5 DEF Pointers
    <3> HIDE DEF t, ptrs
    <3>4. Word(buf, t.start, i + 1)
      BY <1>1, <3>1 DEF Word
    <3>5. t.args[0] = 0
      BY <1>1, <2>1, <3>1, <3>3 DEF Split
    <3>6. ASSUME NEW k \in Nat, k < t.argc PROVE Found(buf, i + 1, t.args[k], Following(t, k))
      <4>1. CASE k = s.argc
        <5>1. t.args[k] = s.start /\ Following(t, k) = i + 1
          BY <1>1, <3>1, <3>3, <4>1 DEF Following
        <5>2. Word(buf, s.start, i)
          BY <2>1 DEF Split
        <5> QED  BY <1>1, <2>3, <5>1, <5>2 DEF Found
      <4>2. CASE k # s.argc
        <5>1. k < s.argc /\ k + 1 \in Nat
          BY <1>1, <3>1, <3>6, <4>2
        <5>2. t.args[k] = s.args[k] /\ Following(t, k) = Following(s, k)
          <6>1. CASE k + 1 < s.argc
            BY <1>1, <3>1, <3>3, <5>1, <6>1 DEF Following
          <6>2. CASE k + 1 = s.argc
            BY <1>1, <3>1, <3>3, <5>1, <6>2 DEF Following
          <6> QED  BY <1>1, <5>1, <6>1, <6>2
        <5>3. Found(buf, i, s.args[k], Following(s, k))
          BY <2>1, <5>1 DEF Split
        <5> QED  BY <1>1, <5>2, <5>3 DEF Found
      <4> QED  BY <4>1, <4>2
    <3>7. Split(buf, i + 1, t)
      BY <1>1, <1>2, <2>1, <2>3, <3>1, <3>2, <3>4, <3>5, <3>6 DEF Split
    <3>8. Scanned(buf, i + 1, t)
      BY <1>1, <1>5, <2>2, <3>1, <3>7 DEF Scanned
    <3> QED  BY <3>8 DEF t
  <2>4. CASE buf[i] # Space
    <3>1. t = s
      BY <1>5, <2>1, <2>4 DEF ParseChar
    <3>2. Cut(buf, i) = Cut(buf, i + 1)
      BY <1>1, <2>4 DEF Cut, Place
    <3>3. Word(buf, s.start, i + 1)
      BY <1>1, <2>1, <2>4 DEF Split, Word
    <3>4. ASSUME NEW k \in Nat, k < s.argc PROVE Found(buf, i + 1, s.args[k], Following(s, k))
      BY <1>1, <2>1, <3>4 DEF Split, Found
    <3>5. Split(buf, i + 1, s)
      BY <1>2, <2>1, <2>4, <3>2, <3>3, <3>4 DEF Split
    <3>6. Scanned(buf, i + 1, s)
      BY <1>1, <1>5, <2>2, <3>5 DEF Scanned
    <3> QED  BY <3>1, <3>6
  <2> QED  BY <2>3, <2>4
<1> QED  BY <1>1, <1>4, <1>5

\* What holds before the loop and after every round holds at its end.
LEMMA ScanAll ==
  ASSUME NEW buf \in Buffer, NEW ptrs \in Pointers, NEW n \in Place, NEW f, Rounds(f, n, buf, ptrs)
  PROVE  f[n] \in State /\ Scanned(buf, n, f[n])
<1> DEFINE S == {m \in Nat : m <= n => Scanned(buf, m, f[m])}
<1>1. 0 \in S
  <2>1. f[0] = Fresh(buf, ptrs) /\ MaxArgs \in Nat
    BY ConsoleAssumption DEF Rounds
  <2>2. Spaces(buf, 0) = 0
    BY OneMore
  <2>3. Cut(buf, 0) = buf
    <3>1. buf = [j \in Place |-> buf[j]]
      BY DEF Buffer
    <3> QED  BY <3>1 DEF Cut, Place
  <2>4. Word(buf, 0, 0)
    BY DEF Word
  <2>5. Split(buf, 0, Fresh(buf, ptrs))
    BY <2>2, <2>3, <2>4 DEF Split, Fresh
  <2>6. Scanned(buf, 0, Fresh(buf, ptrs))
    BY <2>1, <2>5 DEF Scanned, Fresh
  <2> QED  BY <2>1, <2>6
<1>2. ASSUME NEW m \in Nat, m \in S PROVE m + 1 \in S
  <2>1. CASE m + 1 <= n
    <3>1. m \in Place /\ m \in 0 .. n - 1 /\ m \in 0 .. n
      BY <2>1, ConsoleAssumption DEF Place
    <3>2. f[m] \in State /\ f[m + 1] = ParseChar(f[m], m)
      BY <3>1 DEF Rounds
    <3>3. Scanned(buf, m, f[m])
      BY <1>2, <2>1, <3>1
    <3>4. Scanned(buf, m + 1, ParseChar(f[m], m))
      BY <3>1, <3>2, <3>3, ScanChar
    <3> QED  BY <3>2, <3>4
  <2> QED  BY <2>1
<1> HIDE DEF S
<1>3. Nat \subseteq S
  BY <1>1, <1>2, NatInduct
<1>4. n \in Nat /\ n \in 0 .. n
  BY DEF Place
<1>5. Scanned(buf, n, f[n])
  BY <1>3, <1>4 DEF S
<1> QED  BY <1>4, <1>5 DEF Rounds

\* What parse_command returns (shell.c:76-92): the k-th argument ends at EndOf.
EndOf(r, n, k) == IF k + 1 < r.argc THEN r.args[k + 1] - 1 ELSE n
Arguments(buf, n, r) ==
  /\ r.argc \in 1 .. MaxArgs + 2 /\ r.args[r.argc] = Null
  /\ r.buf = Cut(buf, n) /\ r.args[0] = 0
  /\ \A k \in Nat : k < r.argc =>
       /\ EndOf(r, n, k) <= n /\ Word(buf, r.args[k], EndOf(r, n, k))
       /\ k + 1 < r.argc => EndOf(r, n, k) < n /\ buf[EndOf(r, n, k)] = Space

LEMMA Parsed ==
  ASSUME NEW buf \in Buffer, NEW ptrs \in Pointers, NEW n, Ends(buf, 0, n)
  PROVE  LET r == parse_command(buf, ptrs)
         IN  /\ r \in State /\ r.argc <= MaxArgs + 2
             /\ r.ignored <=> \E j \in 0 .. n - 1 : Spaces(buf, j) > MaxArgs
             /\ ~r.ignored => Arguments(buf, n, r)
<1>1. n \in Place /\ n \in Nat /\ MaxArgs \in Nat
  BY ConsoleAssumption DEF Ends, Place
<1>2. strlen(buf, 0) = n
  BY <1>1, StringEnds
<1>3. PICK f : Rounds(f, n, buf, ptrs) /\ parse_command(buf, ptrs) = Finish(f[n])
  BY <1>1, <1>2, ParseLoop
<1> DEFINE s == f[n]
           r == Finish(s)
<1>4. s \in State /\ Scanned(buf, n, s)
  BY <1>1, <1>3, ScanAll
<1> HIDE DEF s
<1>5. s.argc \in Nat /\ s.start \in Nat /\ s.args \in Pointers /\ s.buf \in Buffer /\ s.ignored \in BOOLEAN
  BY <1>4 DEF State
<1>6. CASE s.ignored
  <2>1. r = s
    BY <1>6 DEF Finish
  <2> QED  BY <1>1, <1>3, <1>4, <1>5, <1>6, <2>1 DEF Scanned, s
<1>7. CASE ~s.ignored
  <2> DEFINE ptrs1 == [s.args EXCEPT ![s.argc] = s.start, ![s.argc + 1] = Null]
             m == s.argc + 1
  <2>1. Split(buf, n, s) /\ s.argc \in 0 .. MaxArgs + 1
    BY <1>1, <1>4, <1>5, <1>7 DEF Scanned
  <2>2. ptrs1[s.argc] = s.start /\ ptrs1[s.argc + 1] = Null /\ ptrs1 \in Pointers /\ \A k \in Nat : k < s.argc => ptrs1[k] = s.args[k]
    <3> DEFINE one == [s.args EXCEPT ![s.argc] = s.start]
               i == s.argc   j == s.argc + 1
    <3>1. i \in 0 .. MaxArgs + 2 /\ j \in 0 .. MaxArgs + 2 /\ j = i + 1 /\ i \in Nat
      BY <1>1, <1>5, <2>1
    <3>2. one \in Pointers /\ one[i] = s.start /\ \A k \in Nat : k < i => one[k] = s.args[k]
      BY <1>1, <1>5, <3>1 DEF Pointers
    <3>3. ptrs1 = [one EXCEPT ![j] = Null]
      OBVIOUS
    <3> HIDE DEF one, j, ptrs1
    <3>4. ptrs1 \in Pointers /\ ptrs1[j] = Null /\ \A k \in 0 .. MaxArgs + 2 : k # j => ptrs1[k] = one[k]
      BY <1>1, <3>1, <3>2, <3>3 DEF Pointers
    <3>5. ptrs1[i] = s.start
      BY <1>1, <3>1, <3>2, <3>4
    <3>6. \A k \in Nat : k < i => ptrs1[k] = s.args[k]
      BY <1>1, <3>1, <3>2, <3>4
    <3> QED  BY <3>4, <3>5, <3>6 DEF j
  <2>3. r = [s EXCEPT !.args = ptrs1, !.argc = m]
    BY <1>7 DEF Finish
  <2>4. m \in Nat /\ m = s.argc + 1
    BY <1>5
  <2> HIDE DEF ptrs1, m
  <2>5. r \in State /\ r.args = ptrs1 /\ r.argc = m /\ r.ignored = FALSE /\ r.buf = s.buf
    BY <1>4, <1>7, <2>2, <2>3, <2>4 DEF State
  <2> HIDE DEF r
  <2>6. ASSUME NEW k \in Nat, k < m
        PROVE  /\ EndOf(r, n, k) <= n /\ Word(buf, r.args[k], EndOf(r, n, k))
               /\ k + 1 < m => EndOf(r, n, k) < n /\ buf[EndOf(r, n, k)] = Space
    <3>1. CASE k = s.argc
      <4>1. EndOf(r, n, k) = n /\ r.args[k] = s.start
        BY <2>2, <2>4, <2>5, <3>1 DEF EndOf
      <4> QED  BY <1>1, <2>1, <2>4, <3>1, <4>1 DEF Split
    <3>2. CASE k # s.argc
      <4>1. k < s.argc /\ k + 1 < m
        BY <1>5, <2>4, <2>6, <3>2
      <4>2. r.args[k] = s.args[k] /\ EndOf(r, n, k) = Following(s, k) - 1
        <5>1. CASE k + 1 < s.argc
          BY <2>2, <2>4, <2>5, <4>1, <5>1 DEF EndOf, Following
        <5>2. CASE k + 1 = s.argc
          BY <2>2, <2>4, <2>5, <4>1, <5>2 DEF EndOf, Following
        <5> QED  BY <1>5, <4>1, <5>1, <5>2
      <4>3. Found(buf, n, s.args[k], Following(s, k))
        BY <2>1, <4>1 DEF Split
      <4> QED  BY <1>1, <4>2, <4>3 DEF Found
    <3> QED  BY <3>1, <3>2
  <2>7. r.args[0] = 0
    BY <1>5, <2>1, <2>2, <2>5 DEF Split
  <2>8. Arguments(buf, n, r)
    BY <1>1, <1>5, <2>1, <2>2, <2>4, <2>5, <2>6, <2>7 DEF Arguments, Split
  <2>9. r.argc <= MaxArgs + 2
    BY <1>1, <2>1, <2>4, <2>5
  <2>10. ~\E j \in 0 .. n - 1 : Spaces(buf, j) > MaxArgs
    BY <1>4, <1>7 DEF Scanned
  <2> QED  BY <1>3, <2>5, <2>8, <2>9, <2>10 DEF r, s
<1> QED  BY <1>6, <1>7

LEMMA SliceType ==
  ASSUME NEW buf \in Buffer, NEW a \in Nat, NEW e \in Nat, a <= e, e < BufferSize
  PROVE  Slice(buf, a, e) \in Seq(Nat) /\ Len(Slice(buf, a, e)) = e - a
<1> DEFINE n == e - a
<1>1. n \in Nat /\ BufferSize \in Nat
  BY ConsoleAssumption
<1>2. ASSUME NEW j \in 1 .. n PROVE buf[a + j - 1] \in Nat
  <2>1. a + j - 1 \in Place
    BY <1>1 DEF Place
  <2> QED  BY <2>1 DEF Buffer
<1> DEFINE q == [j \in 1 .. n |-> buf[a + j - 1]]
<1>3. Slice(buf, a, e) = q
  BY DEF Slice
<1>4. q \in [1 .. n -> Nat]
  BY <1>2
<1> HIDE DEF q
<1>5. q \in Seq(Nat)
  BY <1>1, <1>4
<1> HIDE DEF n
<1>6. Len(q) = n
  BY <1>1, <1>4, <1>5
<1> QED  BY <1>3, <1>5, <1>6 DEF n

LEMMA SliceJoin ==
  ASSUME NEW buf \in Buffer, NEW p \in Nat, NEW e \in Nat, p < e, e < BufferSize, buf[p] = Space
  PROVE  Slice(buf, 0, p) \o <<Space>> \o Slice(buf, p + 1, e) = Slice(buf, 0, e)
<1> DEFINE x == Slice(buf, 0, p)
           y == Slice(buf, p + 1, e)
           z == Slice(buf, 0, e)
           xs == x \o <<Space>>
<1>1. x \in Seq(Nat) /\ y \in Seq(Nat) /\ z \in Seq(Nat) /\ Len(x) = p /\ Len(y) = e - (p + 1) /\ Len(z) = e
  <2>1. p + 1 \in Nat /\ 0 <= p /\ 0 <= e /\ p < BufferSize /\ p + 1 <= e /\ 0 \in Nat
    BY ConsoleAssumption
  <2>2. x \in Seq(Nat) /\ Len(x) = p - 0
    BY <2>1, SliceType
  <2>3. y \in Seq(Nat) /\ Len(y) = e - (p + 1)
    BY <2>1, SliceType
  <2>4. z \in Seq(Nat) /\ Len(z) = e - 0
    BY <2>1, SliceType
  <2> QED  BY <2>2, <2>3, <2>4
<1>2. /\ \A j \in 1 .. p : x[j] = buf[j - 1]
      /\ \A j \in 1 .. e - (p + 1) : y[j] = buf[p + 1 + j - 1]
      /\ \A j \in 1 .. e : z[j] = buf[j - 1]
  BY DEF Slice
<1> HIDE DEF x, y, z
<1>3. xs \in Seq(Nat) /\ Len(xs) = p + 1 /\ xs[p + 1] = Space /\ \A j \in 1 .. p : xs[j] = x[j]
  BY <1>1 DEF Space
<1> HIDE DEF xs
<1> DEFINE c == xs \o y
<1>4. /\ c \in Seq(Nat) /\ Len(c) = Len(xs) + Len(y)
      /\ \A j \in 1 .. Len(xs) + Len(y) : c[j] = IF j <= Len(xs) THEN xs[j] ELSE y[j - Len(xs)]
  BY <1>1, <1>3, ConcatProperties, Zenon
<1> HIDE DEF c
<1>5. ASSUME NEW j \in 1 .. e PROVE c[j] = z[j]
  <2>1. c[j] = IF j <= p + 1 THEN xs[j] ELSE y[j - (p + 1)]
    BY <1>1, <1>3, <1>4
  <2>2. CASE j <= p
    <3>1. c[j] = x[j] /\ j \in 1 .. p
      BY <1>3, <2>1, <2>2
    <3> QED  BY <1>2, <3>1
  <2>3. CASE j = p + 1
    BY <1>2, <1>3, <2>1, <2>3
  <2>4. CASE j > p + 1
    <3>1. c[j] = y[j - (p + 1)] /\ j - (p + 1) \in 1 .. e - (p + 1) /\ p + 1 + (j - (p + 1)) - 1 = j - 1
      BY <2>1, <2>4
    <3> QED  BY <1>2, <3>1
  <2> QED  BY <2>2, <2>3, <2>4
<1>6. c = z
  <2>1. Len(c) = e
    BY <1>1, <1>3, <1>4
  <2>2. Len(c) = Len(z) /\ \A j \in 1 .. Len(c) : c[j] = z[j]
    BY <1>1, <1>5, <2>1
  <2> QED  BY <1>1, <1>4, <2>2, SeqEqual, Zenon
<1> QED  BY <1>6 DEF c, xs, x, y, z

\* The strings the pointers give are the words of the line.
LEMMA ArgumentsAre ==
  ASSUME NEW buf \in Buffer, NEW n, Ends(buf, 0, n), NEW r \in State, Arguments(buf, n, r), NEW k \in Nat, k < r.argc
  PROVE  /\ r.args[k] \in Nat /\ EndOf(r, n, k) \in r.args[k] .. n
         /\ Ends(r.buf, r.args[k], EndOf(r, n, k))
         /\ Strings(r)[k + 1] = Slice(buf, r.args[k], EndOf(r, n, k))
<1> DEFINE a == r.args[k]
           e == EndOf(r, n, k)
<1>1. n \in Nat /\ n < BufferSize /\ BufferSize \in Nat /\ buf[n] = 0 /\ r.argc \in Nat /\ r.buf \in Buffer
  BY ConsoleAssumption DEF Ends, State
<1>2. a \in Nat /\ e \in Nat /\ a <= e /\ e <= n /\ (e < n => buf[e] = Space) /\ \A j \in a .. e - 1 : buf[j] # Space
  BY <1>1 DEF Arguments, Word, EndOf
<1> HIDE DEF a, e
<1>3. r.buf = Cut(buf, n)
  BY DEF Arguments
<1>4. Ends(r.buf, a, e)
  <2>1. e \in Place /\ \A j \in a .. e - 1 : j \in Place /\ j \in 0 .. n - 1
    BY <1>1, <1>2 DEF Place
  <2>2. r.buf[e] = 0
    BY <1>1, <1>2, <1>3, <2>1 DEF Cut
  <2>3. \A j \in a .. e - 1 : r.buf[j] = buf[j] /\ buf[j] # 0
    BY <1>1, <1>2, <1>3, <2>1 DEF Cut, Ends
  <2> QED  BY <1>1, <1>2, <2>1, <2>2, <2>3 DEF Ends
<1>5. StringAt(r.buf, a) = Slice(r.buf, a, e)
  BY <1>1, <1>4, StringEnds
<1>6. ASSUME NEW j \in 1 .. e - a PROVE r.buf[a + j - 1] = buf[a + j - 1]
  <2>1. a + j - 1 \in a .. e - 1 /\ a + j - 1 \in Place
    BY <1>1, <1>2 DEF Place
  <2> QED  BY <1>2, <1>3, <2>1 DEF Cut
<1>7. StringAt(r.buf, a) = Slice(buf, a, e)
  BY <1>5, <1>6 DEF Slice
<1>8. Strings(r)[k + 1] = StringAt(r.buf, a)
  BY <1>1 DEF Strings, a
<1> QED  BY <1>2, <1>4, <1>7, <1>8 DEF a, e

\* Joined by spaces they are the line again.
LEMMA JoinedIs ==
  ASSUME NEW buf \in Buffer, NEW n, Ends(buf, 0, n), NEW r \in State, Arguments(buf, n, r)
  PROVE  Joined(Strings(r)) = Slice(buf, 0, n)
<1> DEFINE strs == Strings(r)
           Prefix(k) == Slice(buf, 0, EndOf(r, n, k - 1))
           Loop(f) == [k \in 1 .. Len(strs) |-> IF k = 1 THEN strs[1] ELSE f[k - 1] \o <<Space>> \o strs[k]]
           upto == CHOOSE f : f = Loop(f)
           m == r.argc
<1>1. m \in Nat /\ m >= 1 /\ n \in Nat /\ n < BufferSize /\ BufferSize \in Nat
  BY ConsoleAssumption DEF Arguments, Ends, State
<1>2. Len(strs) = m
  BY <1>1 DEF Strings
<1>3. strs[1] = Prefix(1)
  <2>1. strs[0 + 1] = Slice(buf, r.args[0], EndOf(r, n, 0))
    BY <1>1, ArgumentsAre
  <2> QED  BY <1>1, <2>1 DEF Arguments
<1>4. ASSUME NEW k \in 1 .. m, k # 1 PROVE Prefix(k) = Prefix(k - 1) \o <<Space>> \o strs[k]
  <2> DEFINE i == k - 2   j == k - 1
             p == EndOf(r, n, i)   e == EndOf(r, n, j)
  <2>1. i \in Nat /\ j \in Nat /\ j = i + 1 /\ j < m /\ i < m /\ k = j + 1 /\ k - 1 - 1 = i
    BY <1>1, <1>4
  <2>2. strs[k] = Slice(buf, r.args[j], e) /\ e \in r.args[j] .. n /\ r.args[j] \in Nat
    BY <2>1, ArgumentsAre
  <2>3. p = r.args[j] - 1
    BY <2>1 DEF EndOf
  <2>4. buf[p] = Space /\ p \in Nat /\ p < n
    BY <2>1, <2>3 DEF Arguments, Word
  <2> HIDE DEF p, e
  <2>5. r.args[j] = p + 1 /\ p < e /\ e \in Nat /\ e < BufferSize
    BY <1>1, <2>2, <2>3, <2>4
  <2>6. Slice(buf, 0, p) \o <<Space>> \o Slice(buf, p + 1, e) = Slice(buf, 0, e)
    BY <2>4, <2>5, SliceJoin
  <2>7. Prefix(k) = Slice(buf, 0, e) /\ Prefix(k - 1) = Slice(buf, 0, p)
    BY <2>1 DEF p, e
  <2> QED  BY <2>2, <2>5, <2>6, <2>7, Zenon
<1> HIDE DEF Prefix, strs
<1>5. \E f : f = Loop(f)
  <2> DEFINE w == [k \in 1 .. m |-> Prefix(k)]
  <2>1. ASSUME NEW k \in 1 .. m PROVE w[k] = IF k = 1 THEN strs[1] ELSE w[k - 1] \o <<Space>> \o strs[k]
    <3>1. CASE k = 1
      BY <1>3, <3>1
    <3>2. CASE k # 1
      <4>1. k - 1 \in 1 .. m
        BY <1>1, <3>2
      <4>2. w[k - 1] = Prefix(k - 1) /\ w[k] = Prefix(k)
        BY <4>1
      <4> QED  BY <1>4, <3>2, <4>2, Zenon
    <3> QED  BY <3>1, <3>2
  <2>2. w = [k \in 1 .. m |-> IF k = 1 THEN strs[1] ELSE w[k - 1] \o <<Space>> \o strs[k]]
    <3> DEFINE v == w
    <3>1. w = [k \in 1 .. m |-> v[k]]
      OBVIOUS
    <3> HIDE DEF v
    <3>2. ASSUME v = w PROVE \A k \in 1 .. m : v[k] = IF k = 1 THEN strs[1] ELSE v[k - 1] \o <<Space>> \o strs[k]
      BY <2>1, <3>2, Zenon
    <3>3. v = w
      BY Zenon DEF v
    <3> HIDE DEF w
    <3> QED  BY <3>1, <3>2, <3>3, Zenon
  <2> HIDE DEF w
  <2>3. w = Loop(w)
    BY <1>2, <2>2
  <2> QED  BY <2>3
<1>6. upto = Loop(upto)
  BY <1>5, Zenon
<1> HIDE DEF upto
<1>7. \A k \in 1 .. m : upto[k] = IF k = 1 THEN strs[1] ELSE upto[k - 1] \o <<Space>> \o strs[k]
  BY <1>2, <1>6
<1>8. upto[m] = Prefix(m)
  <2> DEFINE S == {i \in Nat : i + 1 <= m => upto[i + 1] = Prefix(i + 1)}
  <2>1. 0 \in S
    BY <1>1, <1>3, <1>7
  <2>2. ASSUME NEW i \in Nat, i \in S PROVE i + 1 \in S
    <3>1. CASE (i + 1) + 1 <= m
      <4> DEFINE k == (i + 1) + 1
      <4>1. k \in 1 .. m /\ k # 1 /\ k - 1 = i + 1 /\ i + 1 <= m
        BY <1>1, <3>1
      <4>2. upto[i + 1] = Prefix(i + 1)
        BY <2>2, <4>1
      <4> HIDE DEF k
      <4>3. upto[k] = upto[k - 1] \o <<Space>> \o strs[k]
        BY <1>7, <4>1
      <4>4. upto[k] = Prefix(k)
        BY <1>4, <4>1, <4>2, <4>3, Zenon
      <4> QED  BY <4>4 DEF k
    <3> QED  BY <3>1
  <2> HIDE DEF S
  <2>3. Nat \subseteq S
    BY <2>1, <2>2, NatInduct
  <2>4. m - 1 \in S /\ (m - 1) + 1 = m
    BY <1>1, <2>3
  <2> QED  BY <2>4 DEF S
<1>9. Joined(strs) = upto[Len(strs)]
  BY Zenon DEF Joined, upto
<1>10. Prefix(m) = Slice(buf, 0, n)
  <2>1. ~((m - 1) + 1 < m)
    BY <1>1
  <2>2. EndOf(r, n, m - 1) = n
    BY <2>1 DEF EndOf
  <2> QED  BY <2>2 DEF Prefix
<1> QED  BY <1>2, <1>8, <1>9, <1>10 DEF strs
-----------------------------------------------------------------------------
(* The line is in the buffer, and the pointers of a program lead to its     *)
(* arguments, in every state.                                               *)

\* A user types no NUL: the character would end the line before its end.
NoNul == 0 \notin Typed

Process == [argc : Nat, typed : Seq(Seq(Nat)), last : BOOLEAN]

\* The first n characters of the buffer are the line, and n is the place of the
\* next one, or of the terminator.
Taken(n) ==
  /\ line = Slice(commandbuffer, 0, n)
  /\ \A j \in 0 .. n - 1 : commandbuffer[j] # 0
  /\ IF pc = "parse" THEN ci = 0 /\ commandbuffer[n] = 0 ELSE ci = n

\* The k-th pointer of a program is good unless the user typed past it.
Held(p, k) ==
  /\ args[k - 1] \in Nat
  /\ ci <= args[k - 1] => \E e \in Place : Ends(commandbuffer, args[k - 1], e) /\ prog[p].typed[k] = Slice(commandbuffer, args[k - 1], e)

TypeInv == commandbuffer \in Buffer /\ args \in Pointers /\ prog \in [Progs -> Process]
StoreInv == pc = "store" => ci < MaxLine /\ ch \in Nat \ {0}
LineInv == \E n \in 0 .. MaxLine : Taken(n)
HeldInv == \A p \in Progs : prog[p].last => pc # "parse" /\ \A k \in 1 .. prog[p].argc : Held(p, k)
ConsoleInv == TypeInv /\ StoreInv /\ LineInv /\ HeldInv

\* ConsoleInv gives both properties.
LEMMA LineIsParsed == ASSUME ConsoleInv PROVE CommandParsed
<1> SUFFICES ASSUME pc = "parse" PROVE CommandParsed
  BY DEF CommandParsed
<1> DEFINE buf == commandbuffer
           r == parse_command(commandbuffer, args)
<1>1. PICK n \in 0 .. MaxLine : Taken(n)
  BY DEF ConsoleInv, LineInv
<1>2. n \in Nat /\ n < BufferSize /\ BufferSize \in Nat /\ MaxArgs \in Nat
  BY ConsoleAssumption
<1>3. buf \in Buffer /\ args \in Pointers
  BY DEF ConsoleInv, TypeInv
<1> HIDE DEF r
<1>4. line = Slice(buf, 0, n) /\ Ends(buf, 0, n)
  BY <1>1, <1>2 DEF Taken, Ends
<1>5. Len(line) = n /\ \A j \in 1 .. n : line[j] = buf[j - 1]
  <2>1. n - 0 = n /\ 0 \in Nat /\ 0 <= n
    BY <1>2
  <2>2. Len(Slice(buf, 0, n)) = n - 0
    BY <1>2, <1>3, <2>1, SliceType
  <2> QED  BY <1>4, <2>1, <2>2 DEF Slice
<1>6. r \in State /\ r.argc <= MaxArgs + 2 /\ (r.ignored <=> \E j \in 0 .. n - 1 : Spaces(buf, j) > MaxArgs) /\ (~r.ignored => Arguments(buf, n, r))
  BY <1>3, <1>4, Parsed DEF r
<1> HIDE DEF buf
<1>7. (\E j \in 0 .. n - 1 : Spaces(buf, j) > MaxArgs) <=> \E i \in 2 .. Len(line) : Cardinality({j \in 1 .. i - 1 : line[j] = Space}) > MaxArgs
  <2>1. ASSUME NEW j \in 0 .. n - 1 PROVE Spaces(buf, j) = Cardinality({i \in 1 .. j : line[i] = Space})
    <3>1. Cuts(buf, j) = {i \in 1 .. j : line[i] = Space}
      BY <1>2, <1>5 DEF Cuts
    <3> QED  BY <3>1 DEF Spaces
  <2>2. ASSUME NEW j \in 0 .. n - 1, Spaces(buf, j) > MaxArgs PROVE j + 1 \in 2 .. Len(line) /\ (j + 1) - 1 = j
    <3>1. j # 0
      BY <1>2, <2>2, OneMore
    <3> QED  BY <1>2, <1>5, <3>1
  <2>3. ASSUME NEW j \in 0 .. n - 1, Spaces(buf, j) > MaxArgs PROVE \E i \in 2 .. Len(line) : Cardinality({l \in 1 .. i - 1 : line[l] = Space}) > MaxArgs
    <3>1. Cardinality({l \in 1 .. (j + 1) - 1 : line[l] = Space}) > MaxArgs
      BY <2>1, <2>2, <2>3
    <3> QED  BY <2>2, <2>3, <3>1
  <2>4. ASSUME NEW i \in 2 .. Len(line), Cardinality({l \in 1 .. i - 1 : line[l] = Space}) > MaxArgs PROVE \E j \in 0 .. n - 1 : Spaces(buf, j) > MaxArgs
    <3>1. i - 1 \in 0 .. n - 1
      BY <1>2, <1>5
    <3>2. Spaces(buf, i - 1) > MaxArgs
      BY <2>1, <2>4, <3>1
    <3> QED  BY <3>1, <3>2
  <2> QED  BY <2>3, <2>4
<1>8. ASSUME ~r.ignored
      PROVE  /\ Joined(Strings(r)) = line
             /\ \A s \in {Strings(r)[k] : k \in 1 .. r.argc} : \A i \in DOMAIN s : s[i] # Space
             /\ r.args[r.argc] = Null
  <2>1. Arguments(buf, n, r)
    BY <1>6, <1>8
  <2>2. Joined(Strings(r)) = line
    BY <1>3, <1>4, <1>6, <2>1, JoinedIs DEF buf
  <2>3. ASSUME NEW k \in 1 .. r.argc, NEW i \in DOMAIN Strings(r)[k] PROVE Strings(r)[k][i] # Space
    <3> DEFINE a == r.args[k - 1]
               e == EndOf(r, n, k - 1)
    <3>1. k - 1 \in Nat /\ k - 1 < r.argc /\ (k - 1) + 1 = k
      BY <1>6 DEF State
    <3>2. Strings(r)[k] = Slice(buf, a, e)
      BY <1>3, <1>4, <1>6, <2>1, <3>1, ArgumentsAre DEF buf
    <3>3. Word(buf, a, e)
      BY <2>1, <3>1 DEF Arguments
    <3> HIDE DEF a, e
    <3>4. i \in 1 .. e - a /\ Strings(r)[k][i] = buf[a + i - 1]
      BY <3>2 DEF Slice
    <3>5. a + i - 1 \in a .. e - 1
      BY <3>3, <3>4 DEF Word
    <3> QED  BY <3>3, <3>4, <3>5 DEF Word
  <2>4. r.args[r.argc] = Null
    BY <2>1 DEF Arguments
  <2> QED  BY <2>2, <2>3, <2>4
<1> QED  BY <1>6, <1>7, <1>8 DEF CommandParsed, r

LEMMA ArgumentsHeld == ASSUME ConsoleInv PROVE ArgsIntactUntilOverwritten
<1> SUFFICES ASSUME NEW p \in Progs, prog[p].last, NEW k \in 1 .. prog[p].argc, ci <= args[k - 1]
             PROVE  StringAt(commandbuffer, args[k - 1]) = prog[p].typed[k]
  BY DEF ArgsIntactUntilOverwritten
<1>1. Held(p, k) /\ commandbuffer \in Buffer
  BY DEF ConsoleInv, HeldInv, TypeInv
<1>2. PICK e \in Place : Ends(commandbuffer, args[k - 1], e) /\ prog[p].typed[k] = Slice(commandbuffer, args[k - 1], e)
  BY <1>1 DEF Held
<1>3. StringAt(commandbuffer, args[k - 1]) = Slice(commandbuffer, args[k - 1], e)
  BY <1>1, <1>2, StringEnds
<1> QED  BY <1>2, <1>3

LEMMA SliceSame ==
  ASSUME NEW buf, NEW other, NEW a \in Nat, NEW e \in Nat, \A j \in a .. e - 1 : buf[j] = other[j]
  PROVE  Slice(buf, a, e) = Slice(other, a, e)
<1>1. ASSUME NEW j \in 1 .. e - a PROVE buf[a + j - 1] = other[a + j - 1]
  <2>1. a + j - 1 \in a .. e - 1
    OBVIOUS
  <2> QED  BY <2>1
<1> QED  BY <1>1 DEF Slice

\* A character stored behind the line makes it longer by this character.
LEMMA SliceAppend ==
  ASSUME NEW buf \in Buffer, NEW n \in Nat, n + 1 < BufferSize, NEW c \in Nat
  PROVE  Append(Slice(buf, 0, n), c) = Slice([buf EXCEPT ![n] = c], 0, n + 1)
<1> DEFINE new == [buf EXCEPT ![n] = c]
           x == Slice(buf, 0, n)
           y == Append(x, c)
           z == Slice(new, 0, n + 1)
<1>1. x \in Seq(Nat) /\ Len(x) = n
  <2>1. 0 \in Nat /\ 0 <= n /\ n - 0 = n /\ n < BufferSize
    BY ConsoleAssumption
  <2>2. x \in Seq(Nat) /\ Len(x) = n - 0
    BY <2>1, SliceType
  <2> QED  BY <2>1, <2>2
<1>2. n \in Place /\ new \in Buffer /\ new[n] = c /\ \A j \in 0 .. n - 1 : new[j] = buf[j]
  BY ConsoleAssumption DEF Place, Buffer
<1>3. (\A j \in 1 .. n : x[j] = buf[j - 1]) /\ (\A j \in 1 .. n + 1 : z[j] = new[j - 1])
  BY DEF Slice
<1>4. z \in Seq(Nat) /\ Len(z) = n + 1
  <2>1. n + 1 \in Nat /\ 0 <= n + 1 /\ (n + 1) - 0 = n + 1 /\ 0 \in Nat
    OBVIOUS
  <2>2. z \in Seq(Nat) /\ Len(z) = (n + 1) - 0
    BY <1>2, <2>1, SliceType
  <2> QED  BY <2>1, <2>2
<1> HIDE DEF new, x, z
<1>5. y \in Seq(Nat) /\ Len(y) = n + 1 /\ y[n + 1] = c /\ \A j \in 1 .. n : y[j] = x[j]
  <2>1. y \in Seq(Nat) /\ Len(y) = Len(x) + 1 /\ y[Len(x) + 1] = c /\ \A j \in 1 .. Len(x) : y[j] = x[j]
    BY <1>1, AppendProperties
  <2> QED  BY <1>1, <2>1
<1> HIDE DEF y
<1>6. ASSUME NEW j \in 1 .. n + 1 PROVE y[j] = z[j]
  <2>1. CASE j = n + 1
    BY <1>2, <1>3, <1>5, <2>1
  <2>2. CASE j # n + 1
    <3>1. j \in 1 .. n /\ j - 1 \in 0 .. n - 1
      BY <2>2
    <3> QED  BY <1>2, <1>3, <1>5, <3>1
  <2> QED  BY <2>1, <2>2
<1>7. y = z
  <2>1. Len(y) = Len(z) /\ \A j \in 1 .. Len(y) : y[j] = z[j]
    BY <1>4, <1>5, <1>6
  <2> QED  BY <1>4, <1>5, <2>1, SeqEqual, Zenon
<1> QED  BY <1>7 DEF x, y, z, new

LEMMA ConsoleStarts == Init => ConsoleInv
<1> SUFFICES ASSUME Init PROVE ConsoleInv
  OBVIOUS
<1>1. BufferSize \in Nat /\ MaxArgs \in Nat /\ MaxLine \in Nat
  BY ConsoleAssumption
<1>2. commandbuffer \in Buffer /\ args \in Pointers
  BY <1>1 DEF Init, Buffer, Pointers, Place
<1>3. prog \in [Progs -> Process] /\ \A p \in Progs : prog[p].last = FALSE
  <2>1. <<>> \in Seq(Seq(Nat))
    OBVIOUS
  <2>2. Free \in Process /\ Free.last = FALSE
    BY <2>1 DEF Free, Process
  <2> QED  BY <2>2 DEF Init
<1>4. Taken(0)
  BY DEF Taken, Slice, Init
<1> QED  BY <1>1, <1>2, <1>3, <1>4 DEF ConsoleInv, TypeInv, StoreInv, LineInv, HeldInv, Init

\* A step that leaves the shell's variables alone, or only ends a program.
LEMMA ConsoleRests ==
  ASSUME ConsoleInv, UNCHANGED <<commandbuffer, ci, args, line>>, prog' \in [Progs -> Process],
         \A p \in Progs : prog'[p].last => prog'[p] = prog[p],
         pc' = "parse" <=> pc = "parse", StoreInv'
  PROVE  ConsoleInv'
<1>1. TypeInv'
  BY DEF ConsoleInv, TypeInv
<1>2. LineInv'
  <2>1. PICK n \in 0 .. MaxLine : Taken(n)
    BY DEF ConsoleInv, LineInv
  <2>2. Taken(n)'
    BY <2>1 DEF Taken
  <2> QED  BY <2>2 DEF LineInv
<1>3. HeldInv'
  <2> SUFFICES ASSUME NEW p \in Progs, prog'[p].last PROVE pc' # "parse" /\ \A k \in 1 .. prog'[p].argc : Held(p, k)'
    BY DEF HeldInv
  <2>1. prog'[p] = prog[p]
    OBVIOUS
  <2>2. pc # "parse" /\ \A k \in 1 .. prog[p].argc : Held(p, k)
    BY <2>1 DEF ConsoleInv, HeldInv
  <2>3. ASSUME NEW k \in 1 .. prog[p].argc PROVE Held(p, k)'
    <3>1. Held(p, k)
      BY <2>2
    <3> QED  BY <2>1, <3>1 DEF Held
  <2> QED  BY <2>1, <2>2, <2>3
<1> QED  BY <1>1, <1>2, <1>3 DEF ConsoleInv

LEMMA ReturnKeeps == ASSUME ConsoleInv, GetReturn PROVE ConsoleInv'
<1>1. PICK n \in 0 .. MaxLine : Taken(n)
  BY DEF ConsoleInv, LineInv
<1>2. pc = "getc" /\ ci = n /\ pc' = "parse" /\ ci' = 0 /\ commandbuffer' = [commandbuffer EXCEPT ![n] = 0]
  BY <1>1 DEF GetReturn, Ready, Taken
<1>3. commandbuffer \in Buffer /\ n \in Place /\ n \in Nat
  BY ConsoleAssumption DEF ConsoleInv, TypeInv, Place
<1>4. commandbuffer' \in Buffer /\ commandbuffer'[n] = 0 /\ \A j \in 0 .. n - 1 : commandbuffer'[j] = commandbuffer[j]
  <2>1. \A j \in 0 .. n - 1 : j \in Place /\ j # n
    BY <1>3, ConsoleAssumption DEF Place
  <2> QED  BY <1>2, <1>3, <2>1 DEF Buffer
<1>5. Slice(commandbuffer', 0, n) = Slice(commandbuffer, 0, n)
  <2>1. 0 \in Nat /\ \A j \in 0 .. n - 1 : commandbuffer'[j] = commandbuffer[j]
    BY <1>4
  <2> QED  BY <1>3, <2>1, SliceSame
<1>6. Taken(n)'
  <2>1. line' = Slice(commandbuffer', 0, n)
    BY <1>1, <1>5 DEF Taken, GetReturn
  <2> QED  BY <1>1, <1>2, <1>4, <2>1 DEF Taken
<1>7. prog' \in [Progs -> Process] /\ \A p \in Progs : prog'[p].last = FALSE
  <2>1. ASSUME NEW p \in Progs PROVE [prog[p] EXCEPT !.last = FALSE] \in Process
    BY DEF ConsoleInv, TypeInv, Process
  <2>2. ASSUME NEW p \in Progs PROVE [prog[p] EXCEPT !.last = FALSE].last = FALSE
    BY DEF ConsoleInv, TypeInv, Process
  <2> QED  BY <2>1, <2>2 DEF GetReturn
<1> QED  BY <1>2, <1>4, <1>6, <1>7 DEF ConsoleInv, TypeInv, StoreInv, LineInv, HeldInv, GetReturn

LEMMA StoreKeeps == ASSUME ConsoleInv, StoreChar PROVE ConsoleInv'
<1>1. PICK n \in 0 .. MaxLine : Taken(n)
  BY DEF ConsoleInv, LineInv
<1>2. ch \in Nat \ {0} /\ n < MaxLine /\ ci = n /\ pc = "store" /\ pc' = "getc" /\ ci' = n + 1 /\ commandbuffer' = [commandbuffer EXCEPT ![n] = ch]
  BY <1>1 DEF StoreChar, Ready, Taken, ConsoleInv, StoreInv
<1>3. commandbuffer \in Buffer /\ n \in Place /\ n \in Nat /\ n + 1 < BufferSize /\ n + 1 \in 0 .. MaxLine
  BY <1>2, ConsoleAssumption DEF ConsoleInv, TypeInv, Place
<1>4. commandbuffer' \in Buffer /\ commandbuffer'[n] = ch /\ \A j \in Place : j # n => commandbuffer'[j] = commandbuffer[j]
  BY <1>2, <1>3 DEF Buffer
<1>5. Taken(n + 1)'
  <2>1. Slice(commandbuffer', 0, n + 1) = Append(line, ch)
    <3>1. Append(Slice(commandbuffer, 0, n), ch) = Slice([commandbuffer EXCEPT ![n] = ch], 0, n + 1)
      BY <1>2, <1>3, SliceAppend
    <3> QED  BY <1>1, <1>2, <3>1 DEF Taken
  <2>2. line' = Slice(commandbuffer', 0, n + 1)
    BY <2>1 DEF StoreChar
  <2>3. ASSUME NEW j \in 0 .. (n + 1) - 1 PROVE commandbuffer'[j] # 0
    <3>1. j \in Place /\ (j = n \/ j \in 0 .. n - 1)
      BY <1>3, ConsoleAssumption DEF Place
    <3> QED  BY <1>1, <1>2, <1>4, <3>1 DEF Taken
  <2> QED  BY <1>2, <2>2, <2>3 DEF Taken
<1>6. HeldInv'
  <2> SUFFICES ASSUME NEW p \in Progs, prog'[p].last, NEW k \in 1 .. prog'[p].argc PROVE Held(p, k)'
    BY <1>2 DEF HeldInv
  <2>1. prog' = prog /\ args' = args
    BY DEF StoreChar
  <2>2. Held(p, k)
    BY <2>1 DEF ConsoleInv, HeldInv
  <2>3. ASSUME ci' <= args[k - 1]
        PROVE  \E e \in Place : Ends(commandbuffer', args[k - 1], e) /\ prog[p].typed[k] = Slice(commandbuffer', args[k - 1], e)
    <3> DEFINE a == args[k - 1]
    <3>1. a \in Nat /\ n < a
      BY <1>2, <1>3, <2>2, <2>3 DEF Held
    <3>2. PICK e \in Place : Ends(commandbuffer, a, e) /\ prog[p].typed[k] = Slice(commandbuffer, a, e)
      BY <1>2, <1>3, <2>2, <3>1 DEF Held
    <3> HIDE DEF a
    <3>3. e \in Nat /\ a <= e /\ \A j \in a .. e - 1 : j \in Place /\ j # n
      BY <1>3, <3>1, <3>2, ConsoleAssumption DEF Ends, Place
    <3>4. Ends(commandbuffer', a, e)
      <4>1. commandbuffer'[e] = commandbuffer[e] /\ \A j \in a .. e - 1 : commandbuffer'[j] = commandbuffer[j]
        BY <1>3, <1>4, <3>1, <3>2, <3>3
      <4> QED  BY <3>2, <4>1 DEF Ends
    <3>5. Slice(commandbuffer', a, e) = Slice(commandbuffer, a, e)
      <4>1. \A j \in a .. e - 1 : commandbuffer'[j] = commandbuffer[j]
        BY <1>4, <3>3
      <4> QED  BY <3>1, <3>3, <4>1, SliceSame
    <3> QED  BY <3>2, <3>4, <3>5 DEF a
  <2> QED  BY <2>1, <2>2, <2>3 DEF Held
<1> QED  BY <1>2, <1>3, <1>4, <1>5, <1>6 DEF ConsoleInv, TypeInv, StoreInv, LineInv, StoreChar

LEMMA ParseKeeps == ASSUME ConsoleInv, ParseCommand PROVE ConsoleInv'
<1> DEFINE r == parse_command(commandbuffer, args)
           argv == Strings(r)
<1>1. PICK n \in 0 .. MaxLine : Taken(n)
  BY DEF ConsoleInv, LineInv
<1>2. pc = "parse" /\ ci = 0 /\ Ends(commandbuffer, 0, n) /\ commandbuffer \in Buffer /\ args \in Pointers
  <2>1. n \in Nat /\ n \in 0 .. BufferSize - 1
    BY ConsoleAssumption
  <2> QED  BY <1>1, <2>1 DEF ParseCommand, Ready, Taken, Ends, ConsoleInv, TypeInv
<1>3. r \in State /\ (~r.ignored => Arguments(commandbuffer, n, r))
  BY <1>2, Parsed
<1>4. /\ pc' = "getc" /\ ci' = 0 /\ line' = <<>> /\ commandbuffer' = r.buf /\ args' = r.args
      /\ \/ prog' = prog
         \/ ~r.ignored /\ \E p \in Progs : prog' = [prog EXCEPT ![p] = [argc |-> r.argc, typed |-> argv, last |-> TRUE]]
  BY <1>2 DEF ParseCommand
<1> HIDE DEF r
<1>5. commandbuffer' \in Buffer /\ args' \in Pointers
  BY <1>3, <1>4 DEF State
<1>6. Taken(0)'
  BY <1>4 DEF Taken, Slice
<1>7. \A p \in Progs : ~prog[p].last
  BY <1>2 DEF ConsoleInv, HeldInv
<1>8. CASE prog' = prog
  BY <1>4, <1>5, <1>6, <1>7, <1>8, ConsoleAssumption DEF ConsoleInv, TypeInv, StoreInv, LineInv, HeldInv
<1>9. CASE ~r.ignored /\ \E p \in Progs : prog' = [prog EXCEPT ![p] = [argc |-> r.argc, typed |-> argv, last |-> TRUE]]
  <2> DEFINE started == [argc |-> r.argc, typed |-> argv, last |-> TRUE]
  <2>1. PICK p \in Progs : prog' = [prog EXCEPT ![p] = started]
    BY <1>9
  <2>2. Arguments(commandbuffer, n, r) /\ r.argc \in Nat
    BY <1>3, <1>9 DEF State
  <2>3. ASSUME NEW k \in 1 .. r.argc
        PROVE  /\ r.args[k - 1] \in Nat
               /\ \E e \in Place : Ends(r.buf, r.args[k - 1], e) /\ argv[k] = Slice(r.buf, r.args[k - 1], e)
    <3> DEFINE a == r.args[k - 1]
               e == EndOf(r, n, k - 1)
    <3>1. k - 1 \in Nat /\ k - 1 < r.argc /\ (k - 1) + 1 = k
      BY <2>2
    <3>2. a \in Nat /\ e \in a .. n /\ Ends(r.buf, a, e)
      BY <1>2, <1>3, <2>2, <3>1, ArgumentsAre
    <3>3. argv[k] = StringAt(r.buf, a)
      BY DEF Strings
    <3> HIDE DEF a, e, argv
    <3>4. argv[k] = Slice(r.buf, a, e)
      <4>1. r.buf \in Buffer
        BY <1>3 DEF State
      <4> QED  BY <3>2, <3>3, <4>1, StringEnds
    <3>5. e \in Place
      BY <3>2, ConsoleAssumption DEF Place
    <3> QED  BY <3>2, <3>4, <3>5 DEF a
  <2>4. argv \in Seq(Seq(Nat))
    <3>1. ASSUME NEW k \in 1 .. r.argc PROVE StringAt(r.buf, r.args[k - 1]) \in Seq(Nat)
      <4> DEFINE a == r.args[k - 1]
      <4>1. argv[k] = StringAt(r.buf, a)
        BY DEF Strings
      <4>2. PICK e \in Place : a \in Nat /\ Ends(r.buf, a, e) /\ argv[k] = Slice(r.buf, a, e)
        BY <2>3
      <4> HIDE DEF a, argv
      <4>3. a \in Nat /\ e \in Nat /\ a <= e /\ e < BufferSize /\ r.buf \in Buffer
        BY <1>3, <4>2, ConsoleAssumption DEF Ends, Place, State
      <4>4. Slice(r.buf, a, e) \in Seq(Nat)
        BY <4>3, SliceType
      <4> QED  BY <4>1, <4>2, <4>4 DEF a
    <3> QED  BY <2>2, <3>1 DEF Strings
  <2> HIDE DEF argv
  <2>5. started \in Process
    BY <2>2, <2>4 DEF Process
  <2> DEFINE P == Process
  <2>6. prog \in [Progs -> P]
    BY DEF ConsoleInv, TypeInv
  <2>7. prog' \in [Progs -> P] /\ prog'[p] = started /\ \A q \in Progs : q # p => prog'[q] = prog[q]
    <3> HIDE DEF started, P
    <3>1. started \in P
      BY <2>5 DEF P
    <3> QED  BY <2>1, <2>6, <3>1
  <2>8. HeldInv'
    <3> SUFFICES ASSUME NEW q \in Progs, prog'[q].last PROVE \A k \in 1 .. prog'[q].argc : Held(q, k)'
      BY <1>4 DEF HeldInv
    <3>1. q = p
      BY <1>7, <2>7
    <3>2. prog'[q].argc = r.argc /\ prog'[q].typed = argv
      BY <2>7, <3>1
    <3>3. ASSUME NEW k \in 1 .. r.argc PROVE Held(q, k)'
      BY <1>4, <2>3, <3>2 DEF Held
    <3> QED  BY <3>2, <3>3
  <2> QED  BY <1>4, <1>5, <1>6, <2>7, <2>8, ConsoleAssumption DEF ConsoleInv, TypeInv, StoreInv, LineInv
<1> QED  BY <1>4, <1>8, <1>9

LEMMA ConsoleKeeps == ASSUME NoNul, ConsoleInv, [Next]_vars PROVE ConsoleInv'
<1>1. ASSUME UNCHANGED cvars PROVE ConsoleInv'
  BY <1>1, ConsoleRests DEF cvars, ConsoleInv, TypeInv, StoreInv
<1>2. CASE Start
  BY <1>2, ConsoleRests DEF Start, Ready, ConsoleInv, TypeInv, StoreInv
<1>3. ASSUME NEW c \in Typed, GetChar(c) PROVE ConsoleInv'
  <2>1. c \in Nat \ {0}
    BY ConsoleAssumption DEF NoNul
  <2> QED  BY <1>3, <2>1, ConsoleRests DEF GetChar, Ready, ConsoleInv, TypeInv, StoreInv
<1>4. ASSUME NEW p \in Progs, Exit(p) PROVE ConsoleInv'
  <2> DEFINE P == Process
  <2>1. <<>> \in Seq(Seq(Nat))
    OBVIOUS
  <2>2. Free \in P /\ Free.last = FALSE
    BY <2>1 DEF Free, Process
  <2> HIDE DEF P
  <2>3. prog \in [Progs -> P] /\ prog' = [prog EXCEPT ![p] = Free]
    BY <1>4 DEF ConsoleInv, TypeInv, Exit, P
  <2>4. prog' \in [Progs -> P] /\ prog'[p] = Free /\ \A q \in Progs : q # p => prog'[q] = prog[q]
    BY <2>2, <2>3
  <2>5. \A q \in Progs : prog'[q].last => prog'[q] = prog[q]
    BY <2>2, <2>4
  <2>6. UNCHANGED <<commandbuffer, ci, args, line>> /\ pc' = pc /\ ch' = ch
    BY <1>4 DEF Exit
  <2>7. StoreInv'
    BY <2>6 DEF ConsoleInv, StoreInv
  <2> QED  BY <2>4, <2>5, <2>6, <2>7, ConsoleRests DEF P
<1> QED  BY <1>1, <1>2, <1>3, <1>4, ReturnKeeps, StoreKeeps, ParseKeeps DEF Next, vars, GetBackspace, PrintLine

\* parse_command (shell.c:76): for any sizes of the buffer and of the table of
\* arguments, and any characters but NUL, what a command gets is what was typed.
THEOREM CommandsAreParsed == ASSUME NoNul PROVE Spec => []CommandParsed
<1>1. ConsoleInv /\ [Next]_vars => ConsoleInv'
  BY ConsoleKeeps
<1>2. ConsoleInv => CommandParsed
  BY LineIsParsed
<1> QED  BY ConsoleStarts, <1>1, <1>2, PTL DEF Spec

\* A program's arguments (shell.c:105,148) stay as they were typed until the
\* user types past them or ends another line.
THEOREM ArgumentsStay == ASSUME NoNul PROVE Spec => []ArgsIntactUntilOverwritten
<1>1. ConsoleInv /\ [Next]_vars => ConsoleInv'
  BY ConsoleKeeps
<1>2. ConsoleInv => ArgsIntactUntilOverwritten
  BY ArgumentsHeld
<1> QED  BY ConsoleStarts, <1>1, <1>2, PTL DEF Spec
=============================================================================
