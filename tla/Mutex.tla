------------------------------- MODULE Mutex -------------------------------
(***************************************************************************)
(* What acquire/release of spinlock.S promise their callers: at most one   *)
(* core between the two calls, and a lock that is free while somebody      *)
(* wants it is taken.  No order among the waiters is promised.             *)
(***************************************************************************)
EXTENDS Naturals

CONSTANTS Core,   \* the cores that use the lock
          NULL    \* no core

VARIABLES holder,  \* the core that owns the lock, or NULL
          waiting  \* the cores that called acquire and have not got it yet

vars == <<holder, waiting>>

TypeOK == holder \in Core \cup {NULL} /\ waiting \subseteq Core

Init == holder = NULL /\ waiting = {}

Request(c) ==
  /\ c # holder
  /\ c \notin waiting
  /\ waiting' = waiting \cup {c}
  /\ UNCHANGED holder

Grant(c) ==
  /\ c \in waiting
  /\ holder = NULL
  /\ holder' = c
  /\ waiting' = waiting \ {c}

Free(c) ==
  /\ holder = c
  /\ holder' = NULL
  /\ UNCHANGED waiting

Next == \E c \in Core : Request(c) \/ Grant(c) \/ Free(c)

\* Some waiter gets a free lock; which one is open.
Fairness == WF_vars(\E c \in Core : Grant(c))

Spec == Init /\ [][Next]_vars /\ Fairness
=============================================================================
