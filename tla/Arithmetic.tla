----------------------------- MODULE Arithmetic -----------------------------
(***************************************************************************)
(* math.c, function by function, with the widths of Machine.  A recursion  *)
(* of the code is one of a function here; a loop that only looks for a     *)
(* number is the least number at which it stops.                           *)
(***************************************************************************)
EXTENDS Machine, Sequences, FiniteSets, FiniteSetsExt

gcd[a \in Nat] == [b \in Nat |-> IF a = 0 THEN b ELSE gcd[b % a][a]]

lcm(a, b) == UDiv(ToULong(a * b), gcd[a][b])

ord(a, m) == IF a = 0 THEN 1 ELSE m \div gcd[a][m]

phi(n) == 1 + Cardinality({i \in 2 .. n - 1 : gcd[i][n] = 1})

mod(a, b) == a % b

\* The loop of floor_sqrt ends at the first int with a greater square: result
\* is an int that is compared as a u64.
FirstAbove(x) == Min({i \in PosInt \ {0} : ToULong(ToInt(i * i)) > x})

\* Faulty: the answer is the number at which the loop stopped.
SqrtStop(x) == IF x \in {0, 1} THEN x ELSE FirstAbove(x)

floor_sqrt(x) == IF x \in {0, 1} THEN x ELSE FirstAbove(x) - 1

\* The odd factors at which the loops of prime_factors may divide next, i being
\* the last: the inner loop tries i itself without a look at floor_sqrt, the
\* outer one goes on by two while floor_sqrt allows.
OddFactors(n, i) == {j \in 3 .. n : j % 2 = 1 /\ n % j = 0 /\ (j = i \/ (i < j /\ j <= floor_sqrt(n)))}

\* They divide by the first; a prime above floor_sqrt may remain.
oddFactors[n \in Nat \ {0}] == [i \in Nat |->
  IF OddFactors(n, i) = {} THEN IF n > 2 THEN <<n>> ELSE <<>>
  ELSE LET j == Min(OddFactors(n, i)) IN <<j>> \o oddFactors[n \div j][j]]

\* What prime_factors prints; it does not return for n = 0.
prime_factors[n \in Nat \ {0}] ==
  IF n % 2 = 0 THEN <<2>> \o prime_factors[n \div 2] ELSE oddFactors[n][1]

\* What the program uptime prints.
uptime(ms) ==
  LET s == ms \div 1000   m == s \div 60   hours == m \div 60
  IN [d |-> hours \div 24, h |-> hours % 24, m |-> m % 60, s |-> s % 60, ms |-> ms % 1000]
-----------------------------------------------------------------------------
Divides(d, n) == \E q \in 0 .. n : n = d * q
Divisors(n) == {d \in 1 .. n : Divides(d, n)}
IsPrime(n) == n > 1 /\ Divisors(n) = {1, n}
IsSqrt(r, x) == r * r <= x /\ x < (r + 1) * (r + 1)
Product(s) == LET of[i \in 0 .. Len(s)] == IF i = 0 THEN 1 ELSE of[i - 1] * s[i] IN of[Len(s)]
=============================================================================
