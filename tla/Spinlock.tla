------------------------------ MODULE Spinlock ------------------------------
(***************************************************************************)
(* acquire and release of src/scheduler/spinlock.S, one instruction with   *)
(* a memory effect per action.  acquire stores 1 whenever its exclusive    *)
(* store succeeds, also when it read 1: a spinner keeps writing the lock   *)
(* word, and only the exclusive monitor keeps it from undoing a release.   *)
(***************************************************************************)
EXTENDS Naturals

CONSTANTS Core,   \* the cores that share the lock word
          NULL    \* no core

ASSUME SpinlockAssumption == NULL \notin Core

VARIABLES
  lock,     \* the lock word
  monitor,  \* monitor[c]: core c's exclusive reservation of the lock word
  w1,       \* w1[c]: the value the last ldaxrb of c loaded
  w3,       \* w3[c]: the status of the last stlxrb of c, 0 for success
  pc        \* pc[c]: the instruction c is about to execute

vars == <<lock, monitor, w1, w3, pc>>

Bit == {0, 1}
Pc == {"idle", "ldaxrb", "stlxrb", "cbnz", "cs"}

TypeOK ==
  /\ lock \in Bit
  /\ monitor \in [Core -> BOOLEAN]
  /\ w1 \in [Core -> Bit]
  /\ w3 \in [Core -> Bit]
  /\ pc \in [Core -> Pc]

Init ==
  /\ lock = 0
  /\ monitor = [c \in Core |-> FALSE]
  /\ w1 = [c \in Core |-> 0]
  /\ w3 = [c \in Core |-> 0]
  /\ pc = [c \in Core |-> "idle"]

\* Any store to the lock word that takes effect clears every reservation.
ClearMonitors == monitor' = [c \in Core |-> FALSE]

Call(c) ==
  /\ pc[c] = "idle"
  /\ pc' = [pc EXCEPT ![c] = "ldaxrb"]
  /\ UNCHANGED <<lock, monitor, w1, w3>>

Ldaxrb(c) ==
  /\ pc[c] = "ldaxrb"
  /\ w1' = [w1 EXCEPT ![c] = lock]
  /\ monitor' = [monitor EXCEPT ![c] = TRUE]
  /\ pc' = [pc EXCEPT ![c] = "stlxrb"]
  /\ UNCHANGED <<lock, w3>>

StlxrbOk(c) ==
  /\ pc[c] = "stlxrb"
  /\ monitor[c]
  /\ lock' = 1
  /\ ClearMonitors
  /\ w3' = [w3 EXCEPT ![c] = 0]
  /\ pc' = [pc EXCEPT ![c] = "cbnz"]
  /\ UNCHANGED w1

\* Faulty: the status register is not written on failure (w3 keeps the 0 of
\* an earlier success).
StlxrbFailSilent(c) ==
  /\ pc[c] = "stlxrb"
  /\ ~monitor[c]
  /\ pc' = [pc EXCEPT ![c] = "cbnz"]
  /\ UNCHANGED <<lock, monitor, w1, w3>>

StlxrbFail(c) ==
  /\ pc[c] = "stlxrb"
  /\ ~monitor[c]
  /\ w3' = [w3 EXCEPT ![c] = 1]
  /\ pc' = [pc EXCEPT ![c] = "cbnz"]
  /\ UNCHANGED <<lock, monitor, w1>>

\* Faulty: the second cbnz is missing, so the loaded value is never tested.
CbnzStatusOnly(c) ==
  /\ pc[c] = "cbnz"
  /\ pc' = [pc EXCEPT ![c] = IF w3[c] = 0 THEN "cs" ELSE "ldaxrb"]
  /\ UNCHANGED <<lock, monitor, w1, w3>>

\* The two cbnz: back to .L4 unless the store took effect and the lock
\* was free before it.
Cbnz(c) ==
  /\ pc[c] = "cbnz"
  /\ pc' = [pc EXCEPT ![c] =
              IF w3[c] = 0 /\ w1[c] = 0 THEN "cs" ELSE "ldaxrb"]
  /\ UNCHANGED <<lock, monitor, w1, w3>>

\* The faulty variants of the mutation runs stand before what they replace.
\* Here: a plain store that leaves the spinners' reservations standing.
ReleaseKeepsMonitors(c) ==
  /\ pc[c] = "cs"
  /\ lock' = 0
  /\ pc' = [pc EXCEPT ![c] = "idle"]
  /\ UNCHANGED <<w1, w3, monitor>>

Release(c) ==
  /\ pc[c] = "cs"
  /\ lock' = 0
  /\ ClearMonitors
  /\ pc' = [pc EXCEPT ![c] = "idle"]
  /\ UNCHANGED <<w1, w3>>

\* The processor may drop a reservation at any time: an exception return,
\* an eviction, a store next to the lock word.
LoseMonitor(c) ==
  /\ monitor[c]
  /\ monitor' = [monitor EXCEPT ![c] = FALSE]
  /\ UNCHANGED <<lock, w1, w3, pc>>

Step(c) ==
  \/ Ldaxrb(c) \/ StlxrbOk(c) \/ StlxrbFail(c) \/ Cbnz(c) \/ Release(c)

Next == \E c \in Core : Call(c) \/ Step(c) \/ LoseMonitor(c)

\* A core inside acquire keeps executing and a critical section ends.  An
\* exclusive store that is tried again and again succeeds at some time: the
\* architecture's forward-progress requirement on LDXR/STXR loops.
Fairness == \A c \in Core : WF_vars(Step(c)) /\ SF_vars(StlxrbOk(c))

Spec == Init /\ [][Next]_vars /\ Fairness
-----------------------------------------------------------------------------
\* c owns the lock from the successful store of a free lock on.
Holds(c) ==
  \/ pc[c] = "cs"
  \/ pc[c] = "cbnz" /\ w3[c] = 0 /\ w1[c] = 0

\* Two cores are never both past acquire: the whole of schedule(), and the
\* page map, rely on it.
MutualExclusion ==
  \A c, d \in Core : pc[c] = "cs" /\ pc[d] = "cs" => c = d

\* The lock word is 1 exactly while somebody owns the lock.  A spinner that
\* stored its 1 over a release would leave the word set with no owner, and
\* every core would spin for ever.
LockedIffHeld == lock = 1 <=> \E c \in Core : Holds(c)

\* A reservation that survived since the load vouches for the loaded value.
ReservationIsFresh ==
  \A c \in Core : pc[c] = "stlxrb" /\ monitor[c] => w1[c] = lock

UniqueHolder == \A c, d \in Core : Holds(c) /\ Holds(d) => c = d

\* The inductive invariant behind MutualExclusion and LockedIffHeld.
IInv ==
  /\ TypeOK
  /\ UniqueHolder
  /\ LockedIffHeld
  /\ ReservationIsFresh

\* The assembly implements the lock its callers assume, its progress
\* included: a free lock that is wanted is taken, whoever wins.
Holder == IF \E c \in Core : Holds(c) THEN CHOOSE c \in Core : Holds(c) ELSE NULL
Waiting == {c \in Core : pc[c] # "idle" /\ ~Holds(c)}
M == INSTANCE Mutex WITH holder <- Holder, waiting <- Waiting
ImplementsMutex == M!Spec
=============================================================================
