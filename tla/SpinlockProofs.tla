--------------------------- MODULE SpinlockProofs ---------------------------
(***************************************************************************)
(* Mutual exclusion of spinlock.S for any set of cores, and the step       *)
(* simulation of the abstract lock (its fairness stays with TLC).          *)
(***************************************************************************)
EXTENDS Spinlock, TLAPS

\* The initial state satisfies the inductive invariant: nobody holds the
\* zeroed lock word.
LEMMA InitIInv == Init => IInv
  BY DEF Init, IInv, TypeOK, Bit, Pc, UniqueHolder, LockedIffHeld,
         ReservationIsFresh, Holds

\* Every instruction of acquire and release preserves the inductive
\* invariant.  The two stores to the lock word are the cases that matter.
LEMMA NextIInv == IInv /\ [Next]_vars => IInv'
<1> SUFFICES ASSUME IInv, [Next]_vars PROVE IInv'
  OBVIOUS
<1> USE DEF IInv, TypeOK, Bit, Pc, UniqueHolder, LockedIffHeld,
            ReservationIsFresh, Holds
<1>1. ASSUME NEW c \in Core, Call(c) PROVE IInv'
  BY <1>1 DEF Call
<1>2. ASSUME NEW c \in Core, Ldaxrb(c) PROVE IInv'
  BY <1>2 DEF Ldaxrb
<1>3. ASSUME NEW c \in Core, StlxrbOk(c) PROVE IInv'
  BY <1>3 DEF StlxrbOk, ClearMonitors
<1>4. ASSUME NEW c \in Core, StlxrbFail(c) PROVE IInv'
  BY <1>4 DEF StlxrbFail
<1>5. ASSUME NEW c \in Core, Cbnz(c) PROVE IInv'
  BY <1>5 DEF Cbnz
<1>6. ASSUME NEW c \in Core, Release(c) PROVE IInv'
  BY <1>6 DEF Release, ClearMonitors
<1>7. ASSUME NEW c \in Core, LoseMonitor(c) PROVE IInv'
  BY <1>7 DEF LoseMonitor
<1>8. CASE UNCHANGED vars
  BY <1>8 DEF vars
<1> QED
  BY <1>1, <1>2, <1>3, <1>4, <1>5, <1>6, <1>7, <1>8 DEF Next, Step

\* IInv holds in every reachable state of acquire and release.
THEOREM Invariance == Spec => []IInv
  BY InitIInv, NextIInv, PTL DEF Spec

\* acquire of spinlock.S returns to at most one core at a time.
THEOREM SpinlockMutualExclusion == Spec => []MutualExclusion
<1>1. IInv => MutualExclusion
  BY DEF IInv, UniqueHolder, MutualExclusion, Holds
<1> QED
  BY Invariance, <1>1, PTL

\* No spinner's store survives a release: the word is 1 only while held.
THEOREM NoLostRelease == Spec => []LockedIffHeld
<1>1. IInv => LockedIffHeld
  BY DEF IInv
<1> QED
  BY Invariance, <1>1, PTL

\* Whoever holds the lock is the one the refinement mapping names.
LEMMA HolderIs ==
  ASSUME UniqueHolder, NEW c \in Core, Holds(c)
  PROVE  Holder = c
<1> DEFINE h == CHOOSE d \in Core : Holds(d)
<1>1. h \in Core /\ Holds(h)
  OBVIOUS
<1>2. h = c
  BY <1>1 DEF UniqueHolder
<1>3. Holder = h
  BY DEF Holder
<1> QED
  BY <1>2, <1>3

\* Without an owner the abstract lock is free.
LEMMA HolderIsNull ==
  ASSUME ~ \E c \in Core : Holds(c)
  PROVE  Holder = NULL
  BY DEF Holder

\* Each instruction is a step of the abstract lock or leaves it unchanged:
\* calling acquire requests it, the exclusive store of a free lock grants
\* it, release frees it.
LEMMA StepSimulation == IInv /\ IInv' /\ [Next]_vars => [M!Next]_(M!vars)
<1> SUFFICES ASSUME IInv, IInv', [Next]_vars PROVE [M!Next]_(M!vars)
  OBVIOUS
<1>u. UniqueHolder /\ UniqueHolder'
  BY DEF IInv
<1> USE DEF IInv, TypeOK, Bit, Pc
<1>a. ASSUME \A d \in Core : Holds(d) <=> Holds(d)' PROVE Holder' = Holder
  <2>1. CASE \E d \in Core : Holds(d)
    <3>1. PICK d \in Core : Holds(d)
      BY <2>1
    <3>2. Holder = d
      BY <3>1, <1>u, HolderIs
    <3>3. Holds(d)'
      BY <3>1, <1>a
    <3>4. Holder' = CHOOSE e \in Core : Holds(e)'
      BY <3>3 DEF Holder
    <3>5. \A e \in Core : Holds(e)' => e = d
      BY <3>3, <1>u DEF UniqueHolder
    <3> QED
      BY <3>2, <3>3, <3>4, <3>5
  <2>2. CASE ~ \E d \in Core : Holds(d)
    BY <2>2, <1>a DEF Holder
  <2> QED
    BY <2>1, <2>2
<1>b. ASSUME \A d \in Core : Holds(d) <=> Holds(d)',
             \A d \in Core : pc[d] = "idle" <=> pc'[d] = "idle"
      PROVE  UNCHANGED M!vars
  <2>1. Waiting' = Waiting
    BY <1>b DEF Waiting
  <2> QED
    BY <2>1, <1>a, <1>b DEF M!vars
<1>1. ASSUME NEW c \in Core, Call(c) PROVE M!Request(c)
  <2>1. \A d \in Core : Holds(d) <=> Holds(d)'
    BY <1>1 DEF Call, Holds
  <2>2. ~Holds(c) /\ Holder # c
    <3>1. ~Holds(c)
      BY <1>1 DEF Call, Holds
    <3>2. CASE \E d \in Core : Holds(d)
      BY <3>1, <3>2, <1>u, HolderIs
    <3>3. CASE ~ \E d \in Core : Holds(d)
      BY <3>3, HolderIsNull, SpinlockAssumption
    <3> QED
      BY <3>1, <3>2, <3>3
  <2>3. Waiting' = Waiting \cup {c} /\ c \notin Waiting
    BY <1>1, <2>1, <2>2 DEF Waiting, Call
  <2> QED
    BY <2>1, <2>2, <2>3, <1>a DEF M!Request
<1>2. ASSUME NEW c \in Core, Ldaxrb(c) PROVE UNCHANGED M!vars
  BY <1>2, <1>b DEF Ldaxrb, Holds
<1>3. ASSUME NEW c \in Core, StlxrbOk(c) PROVE M!Grant(c) \/ UNCHANGED M!vars
  <2>1. CASE w1[c] = 1
    BY <1>3, <2>1, <1>b DEF StlxrbOk, Holds
  <2>2. CASE w1[c] = 0
    <3>1. lock = 0
      BY <1>3, <2>2 DEF StlxrbOk, ReservationIsFresh
    <3>2. ~ \E d \in Core : Holds(d)
      BY <3>1 DEF LockedIffHeld
    <3>3. Holds(c)' /\ \A d \in Core : d # c => ~Holds(d)'
      BY <1>3, <2>2, <3>2 DEF StlxrbOk, Holds
    <3>4. Holder = NULL
      BY <3>2, HolderIsNull
    <3>5. Holder' = c
      BY <3>3 DEF Holder
    <3>6. c \in Waiting
      BY <1>3, <3>2 DEF Waiting, StlxrbOk
    <3>7. Waiting' = Waiting \ {c}
      BY <1>3, <3>2, <3>3 DEF Waiting, StlxrbOk
    <3> QED
      BY <3>4, <3>5, <3>6, <3>7 DEF M!Grant
  <2> QED
    BY <2>1, <2>2
<1>4. ASSUME NEW c \in Core, StlxrbFail(c) PROVE UNCHANGED M!vars
  BY <1>4, <1>b DEF StlxrbFail, Holds
<1>5. ASSUME NEW c \in Core, Cbnz(c) PROVE UNCHANGED M!vars
  BY <1>5, <1>b DEF Cbnz, Holds
<1>6. ASSUME NEW c \in Core, Release(c) PROVE M!Free(c)
  <2>1. Holds(c) /\ \A d \in Core : ~Holds(d)'
    BY <1>6, <1>u DEF Release, Holds, UniqueHolder
  <2>2. Holder = c
    BY <2>1, <1>u, HolderIs
  <2>3. Holder' = NULL
    BY <2>1 DEF Holder
  <2>4. \A d \in Core : Holds(d) => d = c
    BY <2>1, <1>u DEF UniqueHolder
  <2>5. Waiting' = Waiting
    BY <1>6, <2>1, <2>4 DEF Waiting, Release
  <2> QED
    BY <2>2, <2>3, <2>5 DEF M!Free
<1>7. ASSUME NEW c \in Core, LoseMonitor(c) PROVE UNCHANGED M!vars
  BY <1>7, <1>b DEF LoseMonitor, Holds
<1>8. CASE UNCHANGED vars
  BY <1>8, <1>b DEF vars, Holds
<1> QED
  BY <1>1, <1>2, <1>3, <1>4, <1>5, <1>6, <1>7, <1>8 DEF Next, Step, M!Next

\* spinlock.S implements the abstract lock, liveness left aside.
THEOREM SpinlockImplementsMutex == Spec => M!Init /\ [][M!Next]_(M!vars)
<1>1. Init => M!Init
  <2> SUFFICES ASSUME Init PROVE M!Init
    OBVIOUS
  <2>1. ~ \E c \in Core : Holds(c)
    BY DEF Init, Holds
  <2>2. Waiting = {}
    BY DEF Init, Waiting
  <2> QED
    BY <2>1, <2>2, HolderIsNull DEF M!Init
<1> QED
  BY Invariance, StepSimulation, <1>1, PTL DEF Spec
=============================================================================
