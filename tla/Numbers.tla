------------------------------- MODULE Numbers -------------------------------
(***************************************************************************)
(* Induction over the natural numbers and definition by recursion, stated  *)
(* with sets and functions in place of operators, so that the provers can  *)
(* use them; and what division has to do with common divisors.  The loops  *)
(* and recursions of the C code are such definitions.                      *)
(***************************************************************************)
EXTENDS Integers, WellFoundedInduction, TLAPS

\* A set of natural numbers has a least one.
LEMMA Least == ASSUME NEW T, T \subseteq Nat, T # {} PROVE \E n \in T : \A m \in T : n <= m
<1>1. \E x \in T : \A y \in T : ~ (<<y, x>> \in OpToRel(<,Nat))
  BY NatLessThanWellFounded, WFMin, Zenon
<1>2. PICK x \in T : \A y \in T : ~ (<<y, x>> \in OpToRel(<,Nat))
  BY <1>1, Zenon
<1>3. ASSUME NEW y \in T PROVE x <= y
  <2>1. ~(<<y, x>> \in OpToRel(<,Nat))
    BY <1>2, Zenon
  <2>2. <<y, x>> \in OpToRel(<,Nat) <=> y < x
    BY Zenon DEF OpToRel
  <2>3. ~(y < x)
    BY <2>1, <2>2, Zenon
  <2>4. x \in Nat /\ y \in Nat
    OBVIOUS
  <2> QED  BY <2>3, <2>4
<1> QED  BY <1>3

\* What holds of 0, and of n + 1 if it holds of n, holds of every number.
LEMMA NatInduct ==
  ASSUME NEW S, 0 \in S, \A n \in Nat : n \in S => n + 1 \in S
  PROVE  Nat \subseteq S
<1> DEFINE T == Nat \ S
<1>1. CASE T = {}
  BY <1>1
<1>2. CASE T # {}
  <2>1. T \subseteq Nat
    OBVIOUS
  <2>2. PICK n \in T : \A m \in T : n <= m
    BY <1>2, <2>1, Least
  <2>3. n # 0 /\ n \in Nat
    BY <2>2
  <2>4. n - 1 \in Nat /\ n - 1 \notin T
    BY <2>2, <2>3
  <2>5. n - 1 \in S /\ n - 1 + 1 = n
    BY <2>4, <2>3
  <2> QED  BY <2>2, <2>4, <2>5
<1> QED  BY <1>1, <1>2

\* f is what a loop leaves after 0 to n rounds, G being one of them.
Computes(f, V, v0, G, n) == f \in [0 .. n -> V] /\ f[0] = v0 /\ \A m \in 0 .. n - 1 : f[m + 1] = G[m][f[m]]

\* There is one such function at most, however many rounds are looked at.
LEMMA Unique ==
  ASSUME NEW V, NEW v0, NEW G, NEW n \in Nat, NEW k \in Nat, NEW f, NEW g, Computes(f, V, v0, G, n), Computes(g, V, v0, G, k)
  PROVE  \A m \in Nat : m <= n /\ m <= k => f[m] = g[m]
<1> DEFINE S == {m \in Nat : m <= n /\ m <= k => f[m] = g[m]}
<1>1. 0 \in S
  BY DEF Computes
<1>2. ASSUME NEW m \in Nat, m \in S PROVE m + 1 \in S
  <2>1. CASE m + 1 <= n /\ m + 1 <= k
    <3>1. m \in 0 .. n - 1 /\ m \in 0 .. k - 1 /\ f[m] = g[m]
      BY <1>2, <2>1
    <3>2. f[m + 1] = G[m][f[m]] /\ g[m + 1] = G[m][g[m]]
      BY <3>1 DEF Computes
    <3> QED  BY <3>1, <3>2
  <2> QED  BY <2>1
<1> HIDE DEF S
<1>3. Nat \subseteq S
  BY <1>1, <1>2, NatInduct
<1> QED  BY <1>3 DEF S

\* And there is one.
LEMMA Recursion ==
  ASSUME NEW V, NEW v0 \in V, NEW G \in [Nat -> [V -> V]], NEW n \in Nat
  PROVE  \E f : Computes(f, V, v0, G, n)
<1> DEFINE S == {k \in Nat : \E f : Computes(f, V, v0, G, k)}
<1>1. 0 \in S
  <2>1. Computes([i \in 0 .. 0 |-> v0], V, v0, G, 0)
    BY DEF Computes
  <2> QED  BY <2>1
<1>2. ASSUME NEW k \in Nat, k \in S PROVE k + 1 \in S
  <2>1. PICK f : Computes(f, V, v0, G, k)
    BY <1>2
  <2> DEFINE v == G[k][f[k]]
             g == [i \in 0 .. k + 1 |-> IF i = k + 1 THEN v ELSE f[i]]
  <2>2. f \in [0 .. k -> V] /\ f[k] \in V
    BY <2>1 DEF Computes
  <2>3. v \in V
    BY <2>2
  <2> HIDE DEF v
  <2>4. g \in [0 .. k + 1 -> V]
    BY <2>2, <2>3
  <2>5. g[0] = v0
    BY <2>1 DEF Computes
  <2>6. ASSUME NEW m \in 0 .. (k + 1) - 1 PROVE g[m + 1] = G[m][g[m]]
    <3>1. CASE m = k
      BY <3>1 DEF v
    <3>2. CASE m # k
      <4>1. m \in 0 .. k - 1 /\ m + 1 \in 0 .. k /\ m \in 0 .. k
        BY <3>2
      <4>2. f[m + 1] = G[m][f[m]]
        BY <2>1, <4>1 DEF Computes
      <4> QED  BY <4>1, <4>2
    <3> QED  BY <3>1, <3>2
  <2>7. Computes(g, V, v0, G, k + 1)
    BY <2>4, <2>5, <2>6 DEF Computes
  <2> QED  BY <2>7
<1> HIDE DEF S
<1>3. Nat \subseteq S
  BY <1>1, <1>2, NatInduct
<1> QED  BY <1>3 DEF S
-----------------------------------------------------------------------------
\* g obeys the recursion H where the measure M is up to n.
Obeys(g, D, V, H, M, n) == g \in [D -> V] /\ \A x \in D : M[x] <= n => g[x] = H[x][g]

\* H gives the value at x from a function that it looks at only where the
\* measure is smaller.
LooksDown(D, V, H, M) ==
  /\ M \in [D -> Nat]
  /\ H \in [D -> [[D -> V] -> V]]
  /\ \A x \in D : \A g, h \in [D -> V] : (\A y \in D : M[y] < M[x] => g[y] = h[y]) => H[x][g] = H[x][h]

\* f is what the recursion defines.
Solves(f, D, V, H) == f \in [D -> V] /\ \A x \in D : f[x] = H[x][f]

\* Two functions that obey it are the same, as far as both do.
LEMMA SameAsFar ==
  ASSUME NEW D, NEW V, NEW H, NEW M, LooksDown(D, V, H, M),
         NEW n \in Nat, NEW k \in Nat, NEW g, NEW h, Obeys(g, D, V, H, M, n), Obeys(h, D, V, H, M, k)
  PROVE  \A x \in D : M[x] <= n /\ M[x] <= k => g[x] = h[x]
<1>0. M \in [D -> Nat]
  BY DEF LooksDown
<1> DEFINE Bad == {x \in D : M[x] <= n /\ M[x] <= k /\ g[x] # h[x]}
           T == {M[x] : x \in Bad}
<1>1. CASE Bad = {}
  BY <1>1
<1>2. CASE Bad # {}
  <2>1. T \subseteq Nat /\ T # {}
    BY <1>0, <1>2
  <2>2. PICK m \in T : \A j \in T : m <= j
    <3> HIDE DEF T
    <3> QED  BY <2>1, Least
  <2>3. PICK x \in Bad : m = M[x]
    BY <2>2
  <2>4. g \in [D -> V] /\ h \in [D -> V] /\ x \in D
    BY <2>3 DEF Obeys
  <2>5. ASSUME NEW y \in D, M[y] < M[x] PROVE g[y] = h[y]
    <3>1. M[x] \in Nat /\ M[y] \in Nat /\ M[x] <= n /\ M[x] <= k
      BY <1>0, <2>3
    <3>2. y \notin Bad
      <4>1. SUFFICES ASSUME y \in Bad PROVE FALSE
        OBVIOUS
      <4>2. M[y] \in T
        BY <4>1
      <4> HIDE DEF T, Bad
      <4> QED  BY <2>2, <2>3, <2>5, <3>1, <4>2
    <3>3. M[y] <= n /\ M[y] <= k
      BY <2>5, <3>1
    <3> QED  BY <3>2, <3>3
  <2>6. H[x][g] = H[x][h]
    BY <2>4, <2>5, Zenon DEF LooksDown
  <2>7. g[x] = H[x][g] /\ h[x] = H[x][h]
    BY <2>3 DEF Obeys
  <2> QED  BY <2>3, <2>6, <2>7
<1> QED  BY <1>1, <1>2

\* A recursion that looks where the measure is smaller defines a function.
LEMMA MeasuredRecursion ==
  ASSUME NEW D, NEW V, NEW v0 \in V, NEW H, NEW M, LooksDown(D, V, H, M)
  PROVE  \E f : Solves(f, D, V, H)
<1> DEFINE S == {n \in Nat : \E g : Obeys(g, D, V, H, M, n)}
<1>0. M \in [D -> Nat] /\ H \in [D -> [[D -> V] -> V]]
  BY DEF LooksDown
<1> USE <1>0
\* One function more, that differs where the measure is n.
<1>1. ASSUME NEW n \in Nat, NEW g \in [D -> V], \A x \in D : M[x] < n => g[x] = H[x][g]
      PROVE  n \in S
  <2> DEFINE h == [x \in D |-> IF M[x] = n THEN H[x][g] ELSE g[x]]
  <2>1. \A x \in D : H[x][g] \in V /\ g[x] \in V
    OBVIOUS
  <2>2. h \in [D -> V] /\ \A x \in D : h[x] = IF M[x] = n THEN H[x][g] ELSE g[x]
    BY <2>1
  <2> HIDE DEF h
  <2>3. ASSUME NEW x \in D, M[x] <= n PROVE h[x] = H[x][h]
    <3>1. \A y \in D : M[y] < M[x] => h[y] = g[y]
      <4>1. ASSUME NEW y \in D, M[y] < M[x] PROVE h[y] = g[y]
        <5>1. M[x] \in Nat /\ M[y] \in Nat
          OBVIOUS
        <5>2. M[y] # n
          BY <2>3, <4>1, <5>1
        <5> QED  BY <2>2, <5>2
      <4> QED  BY <4>1
    <3>2. H[x][h] = H[x][g]
      BY <2>2, <3>1, Zenon DEF LooksDown
    <3>3. CASE M[x] = n
      BY <2>2, <3>2, <3>3
    <3>4. CASE M[x] # n
      <4>1. M[x] \in Nat
        OBVIOUS
      <4>2. M[x] < n
        <5>1. \A a \in Nat : a <= n /\ a # n => a < n
          OBVIOUS
        <5> QED  BY <2>3, <3>4, <4>1, <5>1, Zenon
      <4>3. g[x] = H[x][g]
        BY <1>1, <4>2
      <4> QED  BY <2>2, <3>2, <3>4, <4>3
    <3> QED  BY <3>3, <3>4
  <2>4. Obeys(h, D, V, H, M, n)
    BY <2>2, <2>3 DEF Obeys
  <2> QED  BY <2>4
<1>2. 0 \in S
  <2>1. [x \in D |-> v0] \in [D -> V] /\ \A x \in D : ~(M[x] < 0)
    OBVIOUS
  <2> QED  BY <1>1, <2>1
<1>3. ASSUME NEW n \in Nat, n \in S PROVE n + 1 \in S
  <2>1. PICK g : Obeys(g, D, V, H, M, n)
    BY <1>3
  <2>2. g \in [D -> V] /\ \A x \in D : M[x] < n + 1 => g[x] = H[x][g]
    BY <2>1 DEF Obeys
  <2>3. n + 1 \in Nat
    OBVIOUS
  <2> QED  BY <1>1, <2>2, <2>3, Zenon
<1> HIDE DEF S
<1>4. Nat \subseteq S
  BY <1>2, <1>3, NatInduct
<1> DEFINE G(n) == CHOOSE g : Obeys(g, D, V, H, M, n)
           f == [x \in D |-> G(M[x])[x]]
<1>5. \A n \in Nat : Obeys(G(n), D, V, H, M, n)
  BY <1>4 DEF S
<1>6. \A n \in Nat : G(n) \in [D -> V]
  BY <1>5 DEF Obeys
<1> HIDE DEF G
<1>7. f \in [D -> V] /\ \A x \in D : f[x] = G(M[x])[x]
  BY <1>6
<1> HIDE DEF f
<1>8. ASSUME NEW x \in D PROVE f[x] = H[x][f]
  <2> DEFINE n == M[x]
  <2>0. n \in Nat
    OBVIOUS
  <2>1. ASSUME NEW y \in D, M[y] <= n PROVE G(M[y])[y] = G(n)[y]
    <3> DEFINE m == M[y]
               g == G(m)
               h == G(n)
    <3>1. m \in Nat /\ m <= m
      OBVIOUS
    <3>2. Obeys(g, D, V, H, M, m) /\ Obeys(h, D, V, H, M, n)
      BY <1>5, <2>0, <3>1
    <3> HIDE DEF g, h, n
    <3>3. \A z \in D : M[z] <= m /\ M[z] <= n => g[z] = h[z]
      <4> HIDE DEF m
      <4> QED  BY <2>0, <3>1, <3>2, SameAsFar
    <3>4. g[y] = h[y]
      BY <2>1, <3>1, <3>3
    <3> QED  BY <3>4 DEF g, h
  <2>2. \A y \in D : M[y] < n => f[y] = G(n)[y]
    <3>1. ASSUME NEW y \in D, M[y] < n PROVE f[y] = G(n)[y]
      <4>1. M[y] <= n
        BY <2>0, <3>1
      <4> QED  BY <1>7, <2>1, <4>1
    <3> QED  BY <3>1
  <2>3. H[x][f] = H[x][G(n)]
    BY <1>6, <1>7, <2>0, <2>2, Zenon DEF LooksDown
  <2>4. G(n)[x] = H[x][G(n)]
    BY <1>5, <2>0 DEF Obeys
  <2> QED  BY <1>7, <2>3, <2>4
<1> QED  BY <1>7, <1>8 DEF Solves

\* The same for numbers: H looks below n only.
LooksBack(D, V, H) ==
  /\ D \subseteq Nat
  /\ H \in [D -> [[D -> V] -> V]]
  /\ \A n \in D : \A g, h \in [D -> V] : (\A m \in D : m < n => g[m] = h[m]) => H[n][g] = H[n][h]

LEMMA StrongRecursion ==
  ASSUME NEW D, NEW V, NEW v0 \in V, NEW H, LooksBack(D, V, H)
  PROVE  \E f : Solves(f, D, V, H)
<1> DEFINE M == [n \in D |-> n]
<1>1. D \subseteq Nat /\ H \in [D -> [[D -> V] -> V]]
  BY DEF LooksBack
<1>2. M \in [D -> Nat] /\ \A n \in D : M[n] = n
  BY <1>1
<1> HIDE DEF M
<1>3. \A n \in D : \A g, h \in [D -> V] : (\A m \in D : M[m] < M[n] => g[m] = h[m]) => H[n][g] = H[n][h]
  <2>1. ASSUME NEW n \in D, NEW g \in [D -> V], NEW h \in [D -> V], \A m \in D : M[m] < M[n] => g[m] = h[m]
        PROVE  H[n][g] = H[n][h]
    <3>1. \A m \in D : m < n => g[m] = h[m]
      BY <1>2, <2>1, Zenon
    <3> QED  BY <3>1, Zenon DEF LooksBack
  <2> QED  BY <2>1, Zenon
<1>4. LooksDown(D, V, H, M)
  BY <1>1, <1>2, <1>3, Zenon DEF LooksDown
<1> QED  BY <1>4, MeasuredRecursion
-----------------------------------------------------------------------------
\* A quotient and a remainder in range are the only ones.
LEMMA Division ==
  ASSUME NEW w \in Nat \ {0}, NEW q \in Int, NEW r \in 0 .. w - 1
  PROVE  (w * q + r) % w = r /\ (w * q + r) \div w = q
<1>1. ASSUME NEW n \in Int
      PROVE  n = w * (n \div w) + (n % w) /\ n % w \in Int /\ 0 <= n % w /\ n % w < w /\ n \div w \in Int
  OBVIOUS
<1>2. ASSUME NEW d \in Int, d >= 1 PROVE w * d >= w
  BY <1>2
<1>3. ASSUME NEW p \in Int, NEW m \in Int, 0 <= m, m < w, w * q + r = w * p + m
      PROVE  m = r /\ p = q
  <2>1. w * (p - q) = r - m /\ w * (q - p) = m - r
    BY <1>3
  <2>2. ~(p - q >= 1)
    BY <1>2, <1>3, <2>1
  <2>3. ~(q - p >= 1)
    BY <1>2, <1>3, <2>1
  <2>4. p = q
    BY <2>2, <2>3
  <2> QED  BY <1>3, <2>4
<1>4. w * q + r \in Int
  OBVIOUS
<1> QED  BY <1>1, <1>3, <1>4

\* P[k] is b to the power of k.
IsPowers(P, b) == P \in [Nat -> Nat] /\ P[0] = 1 /\ \A k \in Nat : P[k + 1] = b * P[k]

LEMMA PowersExist == ASSUME NEW b \in Nat PROVE \E P : IsPowers(P, b)
<1> DEFINE D == Nat   V == Nat   F == [D -> V]
           val(n, f) == IF n = 0 THEN 1 ELSE b * f[n - 1]
           H == [n \in D |-> [f \in F |-> val(n, f)]]
<1>1. ASSUME NEW n \in D, NEW f \in F PROVE val(n, f) \in V
  <2>1. CASE n = 0
    BY <2>1
  <2>2. CASE n # 0
    <3>1. n - 1 \in Nat
      BY <2>2
    <3>2. f[n - 1] \in Nat
      BY <3>1
    <3> QED  BY <2>2, <3>2
  <2> QED  BY <2>1, <2>2
<1>2. ASSUME NEW n \in D, NEW f \in F, NEW g \in F, \A m \in D : m < n => f[m] = g[m] PROVE val(n, f) = val(n, g)
  <2>1. CASE n # 0
    <3>1. n - 1 \in D /\ n - 1 < n
      BY <2>1
    <3>2. f[n - 1] = g[n - 1]
      BY <1>2, <3>1
    <3> QED  BY <3>2
  <2> QED  BY <2>1
<1>3. \A f : val(0, f) = 1 /\ \A k \in Nat : val(k + 1, f) = b * f[k]
  <2>1. ASSUME NEW f, NEW k \in Nat PROVE val(k + 1, f) = b * f[k]
    <3>1. k + 1 # 0 /\ k + 1 - 1 = k
      OBVIOUS
    <3> QED  BY <3>1
  <2> QED  BY <2>1
<1> HIDE DEF val
<1>4. H \in [D -> [F -> V]] /\ \A n \in D, f \in F : H[n][f] = val(n, f)
  BY <1>1
<1> HIDE DEF H
<1>5. LooksBack(D, V, H)
  <2>1. ASSUME NEW n \in D, NEW g \in F, NEW h \in F, \A m \in D : m < n => g[m] = h[m] PROVE H[n][g] = H[n][h]
    <3>1. val(n, g) = val(n, h)
      BY <1>2, <2>1
    <3> QED  BY <1>4, <3>1, Zenon
  <2> QED  BY <1>4, <2>1 DEF LooksBack
<1>6. 0 \in V
  OBVIOUS
<1> HIDE DEF V, D
<1>7. PICK f : Solves(f, D, V, H)
  BY <1>5, <1>6, StrongRecursion
<1>8. f \in F /\ \A n \in D : f[n] = val(n, f)
  BY <1>4, <1>7 DEF Solves
<1>9. \A n \in Nat : f[n] = val(n, f)
  BY <1>8 DEF D
<1>10. f[0] = 1
  BY <1>3, <1>9
<1>11. ASSUME NEW k \in Nat PROVE f[k + 1] = b * f[k]
  <2>1. k + 1 \in Nat
    OBVIOUS
  <2> QED  BY <1>3, <1>9, <2>1
<1>12. f \in [Nat -> Nat]
  BY <1>8 DEF D, V
<1> QED  BY <1>10, <1>11, <1>12 DEF IsPowers

LEMMA PowersPositive == ASSUME NEW b \in Nat \ {0}, NEW P, IsPowers(P, b) PROVE \A k \in Nat : P[k] \in Nat \ {0}
<1> DEFINE S == {k \in Nat : P[k] \in Nat \ {0}}
<1>1. 0 \in S
  BY DEF IsPowers
<1>2. ASSUME NEW k \in Nat, k \in S PROVE k + 1 \in S
  <2>1. P[k + 1] = b * P[k]
    BY DEF IsPowers
  <2>2. \A x, y \in Nat \ {0} : x * y \in Nat \ {0}
    OBVIOUS
  <2> QED  BY <1>2, <2>1, <2>2
<1> HIDE DEF S
<1>3. Nat \subseteq S
  BY <1>1, <1>2, NatInduct
<1> QED  BY <1>3 DEF S

\* They outgrow every number.
LEMMA PowersExceed == ASSUME NEW b \in Nat, b >= 2, NEW P, IsPowers(P, b) PROVE \A k \in Nat : k < P[k]
<1> DEFINE S == {k \in Nat : k < P[k]}
<1>1. 0 \in S
  BY DEF IsPowers
<1>2. ASSUME NEW k \in Nat, k \in S PROVE k + 1 \in S
  <2>1. P[k + 1] = b * P[k] /\ P[k] \in Nat
    BY DEF IsPowers
  <2>2. \A x, y \in Nat : x >= 2 => x * y >= 2 * y
    OBVIOUS
  <2>3. P[k + 1] >= 2 * P[k]
    BY <2>1, <2>2
  <2>4. k < P[k]
    BY <1>2
  <2>5. P[k + 1] \in Nat
    BY DEF IsPowers
  <2>6. k + 1 < P[k + 1]
    BY <2>1, <2>3, <2>4, <2>5
  <2> QED  BY <2>6
<1> HIDE DEF S
<1>3. Nat \subseteq S
  BY <1>1, <1>2, NatInduct
<1> QED  BY <1>3 DEF S

\* A lower power is a factor of a higher one.
LEMMA PowersFactor ==
  ASSUME NEW b \in Nat \ {0}, NEW P, IsPowers(P, b), NEW j \in Nat
  PROVE  \A k \in Nat : j <= k => \E q \in Nat \ {0} : P[k] = P[j] * q
<1> DEFINE S == {k \in Nat : j <= k => \E q \in Nat \ {0} : P[k] = P[j] * q}
<1>1. \A k \in Nat : P[k] \in Nat \ {0}
  BY PowersPositive
<1>2. P[j] = P[j] * 1
  BY <1>1
<1>3. 0 \in S
  <2>1. j <= 0 => j = 0
    OBVIOUS
  <2> QED  BY <1>2, <2>1
<1>4. ASSUME NEW k \in Nat, k \in S PROVE k + 1 \in S
  <2>1. CASE j <= k
    <3>1. PICK q \in Nat \ {0} : P[k] = P[j] * q
      BY <1>4, <2>1
    <3>2. P[k + 1] = b * P[k]
      BY DEF IsPowers
    <3>3. q * b \in Nat \ {0} /\ b * (P[j] * q) = P[j] * (q * b)
      <4>1. P[j] \in Nat
        BY <1>1
      <4> QED  BY <4>1
    <3>4. P[k + 1] = P[j] * (q * b)
      BY <3>1, <3>2, <3>3
    <3> QED  BY <3>3, <3>4
  <2>2. CASE ~(j <= k)
    <3>1. j <= k + 1 => j = k + 1
      BY <2>2
    <3> QED  BY <1>2, <3>1
  <2> QED  BY <2>1, <2>2
<1> HIDE DEF S
<1>5. Nat \subseteq S
  BY <1>3, <1>4, NatInduct
<1> QED  BY <1>5 DEF S

LEMMA PowersOrdered ==
  ASSUME NEW b \in Nat \ {0}, NEW P, IsPowers(P, b), NEW j \in Nat, NEW k \in Nat, j <= k
  PROVE  P[j] <= P[k]
<1>1. PICK q \in Nat \ {0} : P[k] = P[j] * q
  BY PowersFactor
<1>2. P[j] \in Nat
  BY DEF IsPowers
<1>3. \A x \in Nat, y \in Nat \ {0} : x <= x * y
  OBVIOUS
<1> QED  BY <1>1, <1>2, <1>3

\* The digit of n at the place with the value P[j].
Digit(P, n, j) == (n % P[j + 1]) \div P[j]

\* It is what dividing by P[j] tells beyond dividing by P[j + 1].
LEMMA DigitIs ==
  ASSUME NEW b \in Nat \ {0}, NEW P, IsPowers(P, b), NEW n \in Nat, NEW j \in Nat
  PROVE  /\ Digit(P, n, j) \in 0 .. b - 1
         /\ n \div P[j] = b * (n \div P[j + 1]) + Digit(P, n, j)
         /\ n % P[j + 1] = Digit(P, n, j) * P[j] + (n % P[j])
<1> DEFINE B == P[j]   C == P[j + 1]   q == n \div C   r == n % C   d == r \div B   s == r % B
<1>1. B \in Nat \ {0} /\ C \in Nat \ {0} /\ C = b * B
  <2>1. j + 1 \in Nat
    OBVIOUS
  <2> QED  BY <2>1, PowersPositive DEF IsPowers
<1>2. Digit(P, n, j) = d
  BY DEF Digit
<1> HIDE DEF B, C
<1>3. n = C * q + r /\ q \in Nat /\ r \in 0 .. C - 1
  BY <1>1
<1> HIDE DEF q, r
<1>4. r = B * d + s /\ d \in Nat /\ s \in 0 .. B - 1
  BY <1>1, <1>3
<1> HIDE DEF d, s
<1>5. d \in 0 .. b - 1
  <2>1. SUFFICES ASSUME d >= b PROVE FALSE
    BY <1>4
  <2>2. \A x, y, z \in Nat : x >= y => z * x >= z * y
    OBVIOUS
  <2>3. B * d >= B * b
    BY <1>1, <1>4, <2>1, <2>2
  <2>4. B * b = C /\ B * d \in Nat
    BY <1>1, <1>4
  <2> QED  BY <1>1, <1>3, <1>4, <2>3, <2>4
<1>6. n = B * (b * q + d) + s /\ b * q + d \in Int
  <2>1. C * q = B * (b * q)
    BY <1>1, <1>3
  <2>2. B * (b * q + d) = B * (b * q) + B * d
    BY <1>1, <1>3, <1>4
  <2>3. b * q \in Nat /\ B * (b * q) \in Nat /\ B * d \in Nat
    BY <1>1, <1>3, <1>4
  <2> QED  BY <1>3, <1>4, <2>1, <2>2, <2>3
<1>7. n \div B = b * q + d /\ n % B = s
  <2> DEFINE t == b * q + d
  <2>1. n = B * t + s /\ t \in Int
    BY <1>6
  <2> HIDE DEF t
  <2>2. n \div B = t /\ n % B = s
    BY <1>1, <1>4, <2>1, Division
  <2> QED  BY <2>2 DEF t
<1>8. n % B = s /\ r = d * B + s
  BY <1>1, <1>4, <1>7
<1> QED  BY <1>2, <1>5, <1>7, <1>8 DEF B, C, q, r

\* What is above a digit does not matter to it.
LEMMA DigitRest ==
  ASSUME NEW b \in Nat \ {0}, NEW P, IsPowers(P, b), NEW n \in Nat, NEW j \in Nat, NEW m \in Nat, j + 1 <= m
  PROVE  Digit(P, n % P[m], j) = Digit(P, n, j)
<1> DEFINE C == P[j + 1]   E == P[m]   u == n % E   t == n \div E
<1>1. C \in Nat \ {0} /\ E \in Nat \ {0}
  <2>1. j + 1 \in Nat
    OBVIOUS
  <2> QED  BY <2>1, PowersPositive
<1>2. PICK p \in Nat \ {0} : E = C * p
  <2>1. j + 1 \in Nat
    OBVIOUS
  <2> QED  BY <2>1, PowersFactor
<1> HIDE DEF C, E
<1>3. n = E * t + u /\ t \in Nat /\ u \in Nat
  BY <1>1
<1> HIDE DEF t, u
<1> DEFINE v == u \div C   w == u % C
<1>4. u = C * v + w /\ v \in Nat /\ w \in 0 .. C - 1
  BY <1>1, <1>3
<1> HIDE DEF v, w
<1>5. n = C * (p * t + v) + w /\ p * t + v \in Int
  <2>1. E * t = C * (p * t) /\ p * t \in Nat
    BY <1>1, <1>2, <1>3
  <2>2. C * (p * t + v) = C * (p * t) + C * v
    BY <1>1, <1>4, <2>1
  <2>3. C * (p * t) \in Nat /\ C * v \in Nat
    BY <1>1, <1>4, <2>1
  <2> QED  BY <1>3, <1>4, <2>1, <2>2, <2>3
<1>6. n % C = w
  <2> DEFINE z == p * t + v
  <2>1. n = C * z + w /\ z \in Int
    BY <1>5
  <2> HIDE DEF z
  <2> QED  BY <1>1, <1>4, <2>1, Division
<1>7. u % C = n % C
  BY <1>6 DEF w
<1> QED  BY <1>7 DEF Digit, u, E, C

-----------------------------------------------------------------------------
\* d divides n.
Div(d, n) == \E q \in Nat : n = d * q

LEMMA DivIntro == ASSUME NEW d \in Nat, NEW q \in Nat, NEW n, n = d * q PROVE Div(d, n)
BY DEF Div

LEMMA DivBasic ==
  ASSUME NEW d \in Nat, NEW n \in Nat
  PROVE  Div(d, 0) /\ Div(n, n) /\ Div(1, n) /\ (Div(0, n) => n = 0)
<1>1. 0 = d * 0 /\ n = n * 1 /\ n = 1 * n
  OBVIOUS
<1>2. Div(d, 0) /\ Div(n, n) /\ Div(1, n)
  BY <1>1 DEF Div
<1>3. ASSUME Div(0, n) PROVE n = 0
  BY <1>3 DEF Div
<1> QED  BY <1>2, <1>3

LEMMA DivBound == ASSUME NEW d \in Nat, NEW n \in Nat \ {0}, Div(d, n) PROVE d \in 1 .. n
<1>1. PICK q \in Nat : n = d * q
  BY DEF Div
<1>2. d # 0 /\ q # 0
  BY <1>1
<1>3. \A x, y, z \in Nat : x <= y => z * x <= z * y
  OBVIOUS
<1>4. d * 1 <= d * q
  BY <1>2, <1>3
<1>5. d * 1 = d
  OBVIOUS
<1> QED  BY <1>1, <1>2, <1>4, <1>5

LEMMA DivTrans == ASSUME NEW a \in Nat, NEW b \in Nat, NEW c \in Nat, Div(a, b), Div(b, c) PROVE Div(a, c)
<1>1. PICK p \in Nat : b = a * p
  BY DEF Div
<1>2. PICK q \in Nat : c = b * q
  BY DEF Div
<1>3. c = a * (p * q) /\ p * q \in Nat
  BY <1>1, <1>2
<1> QED  BY <1>3, DivIntro

\* Two numbers that divide each other are equal.
LEMMA DivEqual == ASSUME NEW a \in Nat, NEW b \in Nat, Div(a, b), Div(b, a) PROVE a = b
<1>1. CASE a = 0
  BY <1>1, DivBasic
<1>2. CASE b = 0
  BY <1>2, DivBasic
<1>3. CASE a # 0 /\ b # 0
  <2>1. a \in 1 .. b /\ b \in 1 .. a
    BY <1>3, DivBound
  <2> QED  BY <2>1
<1> QED  BY <1>1, <1>2, <1>3

LEMMA DivMult == ASSUME NEW d \in Nat, NEW a \in Nat, NEW k \in Nat, Div(d, a) PROVE Div(d, a * k)
<1>1. PICK q \in Nat : a = d * q
  BY DEF Div
<1>2. a * k = d * (q * k) /\ q * k \in Nat
  BY <1>1
<1> QED  BY <1>2, DivIntro

LEMMA DivSum == ASSUME NEW d \in Nat, NEW a \in Nat, NEW b \in Nat, Div(d, a), Div(d, b) PROVE Div(d, a + b)
<1>1. PICK p \in Nat : a = d * p
  BY DEF Div
<1>2. PICK q \in Nat : b = d * q
  BY DEF Div
<1>3. a + b = d * (p + q) /\ p + q \in Nat
  BY <1>1, <1>2
<1> QED  BY <1>3, DivIntro

LEMMA DivDiff == ASSUME NEW d \in Nat, NEW a \in Nat, NEW b \in Nat, Div(d, a), Div(d, a + b) PROVE Div(d, b)
<1>1. PICK p \in Nat : a = d * p
  BY DEF Div
<1>2. PICK q \in Nat : a + b = d * q
  BY DEF Div
<1>3. CASE p <= q
  <2>1. q - p \in Nat /\ d * (q - p) = d * q - d * p /\ d * q \in Nat /\ d * p \in Nat
    BY <1>3
  <2>2. b = d * (q - p)
    BY <1>1, <1>2, <2>1
  <2> QED  BY <2>1, <2>2, DivIntro
<1>4. CASE q < p
  <2>1. \A x, y, z \in Nat : x <= y => z * x <= z * y
    OBVIOUS
  <2>2. d * q <= d * p /\ d * q \in Nat /\ d * p \in Nat
    BY <1>4, <2>1
  <2>3. b = 0
    BY <1>1, <1>2, <2>2
  <2> QED  BY <2>3, DivBasic
<1> QED  BY <1>3, <1>4

\* The remainder has the same divisors in common with the divisor.
LEMMA DivRemainder ==
  ASSUME NEW a \in Nat \ {0}, NEW b \in Nat, NEW d \in Nat, Div(d, a)
  PROVE  b % a \in 0 .. a - 1 /\ (Div(d, b) <=> Div(d, b % a))
<1> DEFINE q == b \div a   r == b % a
<1>1. q \in Nat /\ r \in 0 .. a - 1 /\ b = a * q + r
  OBVIOUS
<1> HIDE DEF q, r
<1>2. Div(d, a * q)
  BY <1>1, DivMult
<1>3. a * q \in Nat /\ r \in Nat
  BY <1>1
<1>4. Div(d, a * q + r) <=> Div(d, r)
  BY <1>2, <1>3, DivSum, DivDiff
<1> QED  BY <1>1, <1>4 DEF r

LEMMA DivMod ==
  ASSUME NEW d \in Nat \ {0}, NEW n \in Nat
  PROVE  Div(d, n) <=> n % d = 0
<1>1. ASSUME n % d = 0 PROVE Div(d, n)
  <2>1. n = d * (n \div d) /\ n \div d \in Nat
    BY <1>1
  <2> QED  BY <2>1, DivIntro
<1>2. ASSUME Div(d, n) PROVE n % d = 0
  <2>1. n % d \in 0 .. d - 1 /\ Div(d, n % d)
    BY <1>2, DivBasic, DivRemainder
  <2>2. CASE n % d # 0
    <3>1. d \in 1 .. n % d
      BY <2>1, <2>2, DivBound
    <3> QED  BY <2>1, <3>1
  <2> QED  BY <2>2
<1> QED  BY <1>1, <1>2
-----------------------------------------------------------------------------
\* g is a greatest common divisor of a and b: one that every other divides.
IsGcd(g, a, b) == g \in Nat /\ Div(g, a) /\ Div(g, b) /\ \A d \in Nat : Div(d, a) /\ Div(d, b) => Div(d, g)

LEMMA GcdZero == ASSUME NEW b \in Nat PROVE IsGcd(b, 0, b)
BY DivBasic DEF IsGcd

LEMMA GcdUnique == ASSUME NEW a \in Nat, NEW b \in Nat, NEW g, NEW h, IsGcd(g, a, b), IsGcd(h, a, b) PROVE g = h
<1>1. g \in Nat /\ h \in Nat /\ Div(g, h) /\ Div(h, g)
  BY DEF IsGcd
<1> QED  BY <1>1, DivEqual

\* A round of Euclid's algorithm.
LEMMA GcdRound ==
  ASSUME NEW a \in Nat \ {0}, NEW b \in Nat, NEW g
  PROVE  IsGcd(g, a, b) <=> IsGcd(g, b % a, a)
<1>1. \A d \in Nat : Div(d, a) => (Div(d, b) <=> Div(d, b % a))
  BY DivRemainder
<1> QED  BY <1>1 DEF IsGcd
=============================================================================
