----------------------------- MODULE RoundRobin -----------------------------
(***************************************************************************)
(* What the scheduler promises: every process is either running on one     *)
(* core or waiting in one FIFO queue, a core that switches gives its       *)
(* process to the back of the queue and takes the front, and a terminated  *)
(* process is dropped when it reaches the front.                           *)
(***************************************************************************)
EXTENDS Integers, Sequences

CONSTANTS Core,  \* the cores
          Proc,  \* the processes
          NULL   \* no process

VARIABLES queue,    \* the processes that wait, in the order they will run
          running,  \* running[c]: the process core c executes
          zombie    \* the terminated processes that still occupy a place

vars == <<queue, running, zombie>>

Waits(p) == \E k \in 1 .. Len(queue) : queue[k] = p
Runs(p) == \E c \in Core : running[c] = p
Fresh(p) == ~Waits(p) /\ ~Runs(p) /\ p \notin zombie

Init ==
  /\ \E p \in Proc : queue = <<p>>
  /\ running = [c \in Core |-> NULL]
  /\ zombie = {}

\* A core joins with a process of its own.
Boot(c) ==
  /\ running[c] = NULL
  /\ \E p \in Proc : Fresh(p) /\ running' = [running EXCEPT ![c] = p]
  /\ UNCHANGED <<queue, zombie>>

Spawn(p) ==
  /\ Fresh(p)
  /\ queue' = Append(queue, p)
  /\ UNCHANGED <<running, zombie>>

Terminate(p) ==
  /\ Waits(p) \/ Runs(p)
  /\ zombie' = zombie \cup {p}
  /\ UNCHANGED <<queue, running>>

Rotate(c) ==
  /\ running[c] # NULL
  /\ queue # <<>>
  /\ Head(queue) \notin zombie
  /\ running' = [running EXCEPT ![c] = Head(queue)]
  /\ queue' = Append(Tail(queue), running[c])
  /\ UNCHANGED zombie

Reap ==
  /\ queue # <<>>
  /\ Head(queue) \in zombie
  /\ queue' = Tail(queue)
  /\ zombie' = zombie \ {Head(queue)}
  /\ UNCHANGED running

Next ==
  \/ \E c \in Core : Boot(c) \/ Rotate(c)
  \/ \E p \in Proc : Spawn(p) \/ Terminate(p)
  \/ Reap

Spec == Init /\ [][Next]_vars
=============================================================================
