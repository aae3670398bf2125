-------------------------------- MODULE Boot --------------------------------
(***************************************************************************)
(* From reset to the scheduler: boot.S, kernel_main and smp_scheduler of   *)
(* kernel.c.  Core 0 prepares the memory and wakes the other cores, which  *)
(* sleep in wfe, by a store to their mailbox and an event.                 *)
(*                                                                         *)
(* A store of core 0 is seen by the other cores some time later; dmb       *)
(* orders stores among themselves, dsb waits for them, and sev, which is   *)
(* not a memory access, is ordered by dsb only.                            *)
(***************************************************************************)
EXTENDS Integers

CONSTANTS
  LastCore,  \* the cores are 0 .. LastCore, 0 .. 3 on the board
  Posted     \* whether sev may overtake the store before it (no dsb between)

ASSUME BootAssumption == LastCore \in Nat /\ Posted \in BOOLEAN

Core == 0 .. LastCore
Slave == 1 .. LastCore

\* What core 0 writes for the others: a cleared .bss, the page tables, and the
\* locks and the process table with the shell in it.
Stage == {"bss", "page_tables", "ptable"}

VARIABLES
  pc,       \* pc[c]: where core c is
  target,   \* the core that core_execute is called for
  writes,   \* core 0's stores that are not visible yet, each with its epoch:
  calls,    \* writes to memory, and calls to the mailboxes
  epoch,    \* the number of dmb that core 0 has executed
  memory,   \* the stages that are visible
  mailbox,  \* the cores whose mailbox 3 holds the entry point
  event     \* the cores whose event register is set

vars == <<pc, target, writes, calls, epoch, memory, mailbox, event>>

Pc == {"_start", "memzero", "init_page_tables", "mmu_init", "init_ptable",
       "ce_dmb", "ce_str", "ce_sev", "ce_ret", "wfe", "ldr", "clear",
       "smp_scheduler", "start_scheduler"}

Init ==
  /\ pc = [c \in Core |-> "_start"]
  /\ target = 1
  /\ writes = {}
  /\ calls = {}
  /\ epoch = 0
  /\ memory = {}
  /\ mailbox = {}
  /\ event \in SUBSET Core

Goto(c, from, to) ==
  /\ pc[c] = from
  /\ pc' = [pc EXCEPT ![c] = to]

Write(s) == writes' = writes \cup {[what |-> s, epoch |-> epoch]}
Dsb == writes = {} /\ calls = {}
-----------------------------------------------------------------------------
(* All cores. *)

\* _start and el1_entry: a stack, exception level 1, then each its own way.
Start(c) ==
  /\ Goto(c, "_start", IF c = 0 THEN "memzero" ELSE "wfe")
  /\ UNCHANGED <<target, writes, calls, epoch, memory, mailbox, event>>

\* smp_scheduler turns the MMU on and goes on to start_scheduler.
SmpScheduler(c) ==
  /\ Goto(c, "smp_scheduler", "start_scheduler")
  /\ c = 0 => Dsb
  /\ UNCHANGED <<target, writes, calls, epoch, memory, mailbox, event>>
-----------------------------------------------------------------------------
(* Core 0. *)

Memzero ==
  /\ Goto(0, "memzero", "init_page_tables")
  /\ Write("bss")
  /\ UNCHANGED <<target, calls, epoch, memory, mailbox, event>>

InitPageTables ==
  /\ Goto(0, "init_page_tables", "mmu_init")
  /\ Write("page_tables")
  /\ UNCHANGED <<target, calls, epoch, memory, mailbox, event>>

\* mmu_init_asm ends with a dsb.
MmuInit ==
  /\ Goto(0, "mmu_init", "init_ptable")
  /\ Dsb
  /\ UNCHANGED <<target, writes, calls, epoch, memory, mailbox, event>>

\* init_ptable and new_process for the shell.
InitPtable ==
  /\ Goto(0, "init_ptable", IF Slave = {} THEN "smp_scheduler" ELSE "ce_dmb")
  /\ Write("ptable")
  /\ UNCHANGED <<target, calls, epoch, memory, mailbox, event>>

CeDmb ==
  /\ Goto(0, "ce_dmb", "ce_str")
  /\ epoch' = epoch + 1
  /\ UNCHANGED <<target, writes, calls, memory, mailbox, event>>

CeStr ==
  /\ Goto(0, "ce_str", "ce_sev")
  /\ calls' = calls \cup {[what |-> target, epoch |-> epoch]}
  /\ UNCHANGED <<target, writes, epoch, memory, mailbox, event>>

\* Faulty variant: sevl, which reaches only the core that executes it.
Sevl ==
  /\ Goto(0, "ce_sev", "ce_ret")
  /\ event' = event \cup {0}
  /\ UNCHANGED <<target, writes, calls, epoch, memory, mailbox>>

\* The event goes to every core, its own included.
CeSev ==
  /\ Goto(0, "ce_sev", "ce_ret")
  /\ ~Posted => Dsb
  /\ event' = Core
  /\ UNCHANGED <<target, writes, calls, epoch, memory, mailbox>>

\* The second dmb; kernel_main calls core_execute for the next core.
CeRet ==
  /\ Goto(0, "ce_ret", IF target = LastCore THEN "smp_scheduler" ELSE "ce_dmb")
  /\ target' = target + 1
  /\ epoch' = epoch + 1
  /\ UNCHANGED <<writes, calls, memory, mailbox, event>>

\* A store becomes visible, after all stores in front of an earlier dmb.
Oldest(s) == \A t \in writes \cup calls : s.epoch <= t.epoch

WriteArrives ==
  \E s \in writes :
    /\ Oldest(s)
    /\ writes' = writes \ {s}
    /\ memory' = memory \cup {s.what}
    /\ UNCHANGED <<pc, target, calls, epoch, mailbox, event>>

CallArrives ==
  \E s \in calls :
    /\ Oldest(s)
    /\ calls' = calls \ {s}
    /\ mailbox' = mailbox \cup {s.what}
    /\ UNCHANGED <<pc, target, writes, epoch, memory, event>>
-----------------------------------------------------------------------------
(* The other cores: slave_core_sleep. *)

Wfe(c) ==
  /\ c \in event
  /\ Goto(c, "wfe", "ldr")
  /\ event' = event \ {c}
  /\ UNCHANGED <<target, writes, calls, epoch, memory, mailbox>>

\* wfe may end for no reason.
WakeUp(c) ==
  /\ Goto(c, "wfe", "ldr")
  /\ UNCHANGED <<target, writes, calls, epoch, memory, mailbox, event>>

\* Faulty variant: the mailbox is not tested.
NoCbz(c) ==
  /\ Goto(c, "ldr", "clear")
  /\ UNCHANGED <<target, writes, calls, epoch, memory, mailbox, event>>

\* Read the mailbox; an empty one sends the core back to sleep.
ReadMailbox(c) ==
  /\ Goto(c, "ldr", IF c \in mailbox THEN "clear" ELSE "wfe")
  /\ UNCHANGED <<target, writes, calls, epoch, memory, mailbox, event>>

\* Writing back what was read clears the mailbox; then dmb and the jump.
ClearMailbox(c) ==
  /\ Goto(c, "clear", "smp_scheduler")
  /\ mailbox' = mailbox \ {c}
  /\ UNCHANGED <<target, writes, calls, epoch, memory, event>>
-----------------------------------------------------------------------------
MasterStep ==
  \/ Memzero \/ InitPageTables \/ MmuInit \/ InitPtable
  \/ CeDmb \/ CeStr \/ CeSev \/ CeRet

SlaveStep(c) == Wfe(c) \/ ReadMailbox(c) \/ ClearMailbox(c)

Next ==
  \/ \E c \in Core : Start(c) \/ SmpScheduler(c)
  \/ MasterStep
  \/ WriteArrives \/ CallArrives
  \/ \E c \in Slave : SlaveStep(c) \/ WakeUp(c)

\* A core that does not sleep executes its code and a store becomes visible
\* at some time.  Nothing makes a sleeping core wake up but an event.
Fairness ==
  /\ WF_vars(MasterStep)
  /\ WF_vars(WriteArrives \/ CallArrives)
  /\ \A c \in Core : WF_vars(Start(c)) /\ WF_vars(SmpScheduler(c))
  /\ \A c \in Slave : WF_vars(SlaveStep(c))

Spec == Init /\ [][Next]_vars
FairSpec == Spec /\ Fairness
-----------------------------------------------------------------------------
TypeOK ==
  /\ pc \in [Core -> Pc]
  /\ target \in 1 .. LastCore + 1
  /\ writes \subseteq [what : Stage, epoch : Nat]
  /\ calls \subseteq [what : Slave, epoch : Nat]
  /\ epoch \in Nat
  /\ memory \subseteq Stage
  /\ mailbox \subseteq Slave
  /\ event \subseteq Core

Called == {"clear", "smp_scheduler", "start_scheduler"}

\* A core that has been called sees all that kernel_main prepared: no core gets
\* to the MMU, the lock or the process table too early, also one that woke up
\* for no reason.
PreparedBeforeCalled == \A c \in Slave : pc[c] \in Called => memory = Stage

\* A core never sleeps on a call: while its mailbox is filled an event for it
\* is set or about to be sent.  sev is not repeated.
NoLostWakeup ==
  \A c \in Slave :
    c \in mailbox /\ pc[c] \in {"_start", "wfe"} =>
      c \in event \/ (pc[0] = "ce_sev" /\ target = c)

\* Every core gets to the scheduler ("now working on all 4 cores!").
EveryCoreStarts == \A c \in Core : <>(pc[c] = "start_scheduler")
-----------------------------------------------------------------------------
Calling == {"ce_dmb", "ce_str", "ce_sev", "ce_ret"}
Written == memory \cup {s.what : s \in writes}
Preparing == {"_start", "memzero", "init_page_tables", "mmu_init", "init_ptable"}

\* Core 0 goes its way: before the first call it has written everything.
MasterOrder ==
  /\ pc[0] \notin {"wfe", "ldr", "clear"}
  /\ \A c \in Slave : pc[c] \in {"_start", "wfe", "ldr"} \cup Called
  /\ pc[0] \in Preparing => target = 1 /\ mailbox = {} /\ calls = {}
  /\ pc[0] \in Calling => target \in Slave
  /\ pc[0] \notin {"_start", "memzero"} => "bss" \in Written
  /\ pc[0] \notin {"_start", "memzero", "init_page_tables"} => "page_tables" \in Written
  /\ pc[0] \notin Preparing => "ptable" \in Written

\* No call overtakes what was prepared for it.
CallsAreLast ==
  /\ \A s \in writes : s.epoch <= epoch
  /\ pc[0] = "ce_str" => \A s \in writes : s.epoch < epoch
  /\ \A s \in writes, t \in calls : s.epoch < t.epoch
  /\ mailbox # {} => writes = {}

\* Without posted stores, no call is on its way once its event was sent.
SentAfterStored ==
  \A s \in calls : pc[0] = "ce_sev" /\ s.what = target

\* The inductive invariant behind PreparedBeforeCalled, and with
\* SentAfterStored and NoLostWakeup the one behind the latter.
IInv ==
  /\ TypeOK
  /\ MasterOrder
  /\ CallsAreLast
  /\ PreparedBeforeCalled
=============================================================================
