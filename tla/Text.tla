-------------------------------- MODULE Text --------------------------------
(***************************************************************************)
(* printf.c and string.c.  A character is its code, a string the sequence  *)
(* of its characters without the terminator; a loop is a recursive         *)
(* function of the variables that change in it.                            *)
(***************************************************************************)
EXTENDS Machine, Sequences

Zero == 48
Nine == 57
Minus == 45
Space == 32
Percent == 37
Directives == [d |-> 100, u |-> 117, x |-> 120, X |-> 88, c |-> 99, s |-> 115]

\* s[i], where s has its terminator.
At(s, i) == IF i \in DOMAIN s THEN s[i] ELSE 0

\* ui2a: the largest power of base not above num, then a digit for each power.
\* num / d >= base keeps d * base within the type.
DigitCode(n, uc) == n + (IF n < 10 THEN Zero ELSE (IF uc THEN 65 ELSE 97) - 10)
ui2a(num, base, uc) ==
  LET top[d \in UInt \ {0}] == IF num \div d >= base THEN top[ToUInt(d * base)] ELSE d
      emit[d \in UInt] == [n \in UInt |-> [started \in BOOLEAN |->
        IF d = 0 THEN <<>>
        ELSE IF started \/ n \div d > 0 \/ d \div base = 0
             THEN <<DigitCode(n \div d, uc)>> \o emit[d \div base][n % d][TRUE]
             ELSE emit[d \div base][n % d][FALSE]]]
  IN emit[top[1]][num][FALSE]

i2a(num) == (IF num < 0 THEN <<Minus>> ELSE <<>>) \o ui2a(ToUInt(IF num < 0 THEN -num ELSE num), 10, FALSE)

a2d(ch) == CASE ch \in Zero .. Nine -> ch - Zero
             [] ch \in 97 .. 102 -> ch - 97 + 10
             [] ch \in 65 .. 70 -> ch - 65 + 10
             [] OTHER -> -1

\* Faulty: any hexadecimal digit is taken for one of the width.
A2iAnyDigit(s, i, base) ==
  LET from[j \in Nat] == [num \in Int |->
        IF a2d(At(s, j)) >= 0 THEN from[j + 1][ToInt(num * base + a2d(At(s, j)))]
        ELSE [num |-> num, next |-> j]]
  IN from[i][0]

\* a2i from place i of s: the number, and the place of the first character
\* that is not one of it.
a2i(s, i, base) ==
  LET from[j \in Nat] == [num \in Int |->
        IF a2d(At(s, j)) \in 0 .. base THEN from[j + 1][ToInt(num * base + a2d(At(s, j)))]
        ELSE [num |-> num, next |-> j]]
  IN from[i][0]

putchw(n, z, bf) == [k \in 1 .. (IF n > Len(bf) THEN n - Len(bf) ELSE 0) |-> IF z THEN Zero ELSE Space] \o bf

\* A slot of the arguments: the number in it, or the string it points to.
Slot(n, s) == [n |-> n, s |-> s]
Slots(args) == [k \in Nat |-> IF k \in DOMAIN args THEN args[k] ELSE Slot(0, <<>>)]

\* The directive behind the % at place i of fmt, and what it prints of a slot.
Directive(fmt, i) ==
  LET lz == At(fmt, i + 1) = Zero
      first == IF lz THEN i + 2 ELSE i + 1
      w == IF At(fmt, first) \in Zero .. Nine THEN a2i(fmt, first, 10) ELSE [num |-> 0, next |-> first]
  IN [lz |-> lz, w |-> w.num, ch |-> At(fmt, w.next), next |-> w.next + 1]

Converted(d, arg) ==
  CASE d.ch = Directives.u -> putchw(d.w, d.lz, ui2a(ToUInt(arg.n), 10, FALSE))
    [] d.ch = Directives.d -> putchw(d.w, d.lz, i2a(ToInt(arg.n)))
    [] d.ch \in {Directives.x, Directives.X} -> putchw(d.w, d.lz, ui2a(ToUInt(arg.n), 16, d.ch = Directives.X))
    [] d.ch = Directives.c -> <<arg.n % 256>>
    [] d.ch = Directives.s -> putchw(d.w, FALSE, arg.s)
    [] d.ch = Percent -> <<Percent>>
    [] OTHER -> <<>>

\* Every directive takes a slot but %%, and those it does not know.
Takes(d) == d.ch \in {Directives[k] : k \in DOMAIN Directives}

\* tfp_format: from place i of fmt and slot k on.
tfp_format(fmt, va) ==
  LET from[i \in Nat] == [k \in Nat |->
        LET d == Directive(fmt, i)
        IN CASE At(fmt, i) = 0 -> <<>>
             [] At(fmt, i) \notin {0, Percent} -> <<At(fmt, i)>> \o from[i + 1][k]
             [] OTHER -> IF d.ch = 0 THEN <<>> ELSE Converted(d, va[k]) \o from[d.next][IF Takes(d) THEN k + 1 ELSE k]]
  IN from[1][1]

tfp_sprintf(fmt, va) == Append(tfp_format(fmt, va), 0)

\* The loop of strlen ends at the first terminator from place i of a memory on;
\* the string is what lies before it.
strlen(mem, i) == CHOOSE n \in {j - i : j \in DOMAIN mem} : n >= 0 /\ mem[i + n] = 0 /\ \A k \in 0 .. n - 1 : mem[i + k] # 0
StringAt(mem, i) == [k \in 1 .. strlen(mem, i) |-> mem[i + k - 1]]

strcmp(s, t) ==
  LET from[i \in Nat] == IF At(s, i) # 0 /\ At(t, i) # 0 /\ At(s, i) = At(t, i) THEN from[i + 1]
                         ELSE ToULong(At(s, i) - At(t, i))
  IN from[1]

\* strcpy stores the characters of src at place i, and no terminator.
strcpy(mem, i, src) == [j \in DOMAIN mem |-> IF j - i \in 0 .. Len(src) - 1 THEN src[j - i + 1] ELSE mem[j]]

pow(i, p) == LET times[n \in Nat] == IF n <= 1 THEN i ELSE ToInt(times[n - 1] * i) IN IF p = 0 THEN 1 ELSE times[p]

\* The sum from the last character to the first; NULL, which is no string, gives -1.
NULL == <<-1>>
strtol(s) ==
  LET sum[i \in 0 .. Len(s)] == IF i = Len(s) THEN 0 ELSE ToInt((s[Len(s) - i] - Zero) * pow(10, i) + sum[i + 1])
  IN IF s = NULL THEN ToULong(-1) ELSE ToULong(sum[0])
=============================================================================
