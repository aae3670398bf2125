----------------------------- MODULE BootProofs -----------------------------
(***************************************************************************)
(* Proofs about Boot: no core starts before its memory is prepared, and,   *)
(* if sev does not overtake the store, no call is slept through.           *)
(***************************************************************************)
EXTENDS Boot, TLAPS

\* The initial states satisfy the invariant.
LEMMA InitIInv == Init => IInv
  <1> SUFFICES ASSUME Init PROVE IInv
    OBVIOUS
  <1> USE BootAssumption DEF Init
  <1>1. TypeOK
    BY DEF TypeOK, Core, Slave, Pc, Stage
  <1>2. MasterOrder
    BY DEF MasterOrder, Preparing, Calling, Core, Slave
  <1>3. CallsAreLast /\ PreparedBeforeCalled
    BY DEF CallsAreLast, PreparedBeforeCalled, Called, Core, Slave
  <1> QED
    BY <1>1, <1>2, <1>3 DEF IInv

\* Every step of the boot keeps the invariant.
LEMMA NextIInv == IInv /\ [Next]_vars => IInv'
  <1> SUFFICES ASSUME IInv, [Next]_vars PROVE IInv'
    OBVIOUS
  <1> USE BootAssumption DEF IInv
  <1>0. 0 \in Core /\ Slave \subseteq Core /\ 0 \notin Slave
    BY DEF Core, Slave
  <1> USE <1>0
  <1>1. CASE UNCHANGED vars
    BY <1>1 DEF vars, TypeOK, MasterOrder, CallsAreLast, PreparedBeforeCalled, Written
  <1>2. ASSUME NEW c \in Core, Start(c) PROVE IInv'
    <2> USE <1>2 DEF Start, Goto
    <2>1. TypeOK'
      BY DEF TypeOK, Pc
    <2>2. MasterOrder'
      BY DEF TypeOK, MasterOrder, Preparing, Calling, Called, Written
    <2>3. CallsAreLast' /\ PreparedBeforeCalled'
      BY DEF TypeOK, CallsAreLast, PreparedBeforeCalled, Called
    <2> QED
      BY <2>1, <2>2, <2>3
  <1>3. ASSUME NEW c \in Core, SmpScheduler(c) PROVE IInv'
    <2> USE <1>3 DEF SmpScheduler, Goto
    <2>1. TypeOK'
      BY DEF TypeOK, Pc
    <2>2. MasterOrder'
      BY DEF TypeOK, MasterOrder, Preparing, Calling, Called, Written
    <2>3. CallsAreLast' /\ PreparedBeforeCalled'
      BY DEF TypeOK, CallsAreLast, PreparedBeforeCalled, Called
    <2> QED
      BY <2>1, <2>2, <2>3
  <1>4. ASSUME NEW s \in Stage, Write(s),
               pc[0] \in Preparing, pc'[0] \notin {"ce_str", "wfe", "ldr", "clear"},
               \A c \in Slave : pc'[c] = pc[c],
               UNCHANGED <<target, calls, epoch, memory, mailbox>>
        PROVE  CallsAreLast' /\ PreparedBeforeCalled' /\ Written' = Written \cup {s}
    <2>1. CallsAreLast'
      BY <1>4 DEF Write, TypeOK, MasterOrder, CallsAreLast
    <2>2. PreparedBeforeCalled'
      BY <1>4 DEF PreparedBeforeCalled
    <2>3. Written' = Written \cup {s}
      <3> DEFINE new == [what |-> s, epoch |-> epoch]
      <3>1. writes' = writes \cup {new}
        BY <1>4 DEF Write
      <3>2. new.what = s
        OBVIOUS
      <3> HIDE DEF new
      <3>3. {r.what : r \in writes'} = {r.what : r \in writes} \cup {s}
        BY <3>1, <3>2
      <3> QED
        BY <1>4, <3>3 DEF Written
    <2> QED
      BY <2>1, <2>2, <2>3
  <1>5. CASE Memzero
    <2>1. TypeOK'
      BY <1>5 DEF Memzero, Goto, Write, TypeOK, Pc, Stage
    <2>2. CallsAreLast' /\ PreparedBeforeCalled' /\ Written' = Written \cup {"bss"}
      BY <1>5, <1>4 DEF Memzero, Goto, TypeOK, Preparing, Stage
    <2>3. MasterOrder'
      BY <1>5, <2>2 DEF Memzero, Goto, TypeOK, MasterOrder, Preparing, Calling, Called
    <2> QED
      BY <2>1, <2>2, <2>3
  <1>6. CASE InitPageTables
    <2>1. TypeOK'
      BY <1>6 DEF InitPageTables, Goto, Write, TypeOK, Pc, Stage
    <2>2. CallsAreLast' /\ PreparedBeforeCalled' /\ Written' = Written \cup {"page_tables"}
      BY <1>6, <1>4 DEF InitPageTables, Goto, TypeOK, Preparing, Stage
    <2>3. MasterOrder'
      BY <1>6, <2>2 DEF InitPageTables, Goto, TypeOK, MasterOrder, Preparing, Calling, Called
    <2> QED
      BY <2>1, <2>2, <2>3
  <1>7. CASE InitPtable
    <2>1. TypeOK'
      BY <1>7 DEF InitPtable, Goto, Write, TypeOK, Pc, Stage
    <2>2. CallsAreLast' /\ PreparedBeforeCalled' /\ Written' = Written \cup {"ptable"}
      BY <1>7, <1>4 DEF InitPtable, Goto, TypeOK, Preparing, Stage
    <2>3. Slave # {} => 1 \in Slave
      BY DEF Slave
    <2>4. MasterOrder'
      BY <1>7, <2>2, <2>3
         DEF InitPtable, Goto, TypeOK, MasterOrder, Preparing, Calling, Called
    <2> QED
      BY <2>1, <2>2, <2>4
  <1>8. CASE MmuInit \/ CeSev
    <2> USE <1>8 DEF MmuInit, CeSev, Goto
    <2>1. TypeOK'
      BY DEF TypeOK, Pc
    <2>2. MasterOrder'
      BY DEF TypeOK, MasterOrder, Preparing, Calling, Called, Written
    <2>3. CallsAreLast' /\ PreparedBeforeCalled'
      BY DEF TypeOK, CallsAreLast, PreparedBeforeCalled, Called
    <2> QED
      BY <2>1, <2>2, <2>3
  <1>9. CASE CeDmb
    <2> USE <1>9 DEF CeDmb, Goto
    <2>1. TypeOK'
      BY DEF TypeOK, Pc
    <2>2. MasterOrder'
      BY DEF TypeOK, MasterOrder, Preparing, Calling, Called, Written
    <2>3. CallsAreLast'
      BY DEF TypeOK, CallsAreLast
    <2>4. PreparedBeforeCalled'
      BY DEF TypeOK, PreparedBeforeCalled, Called
    <2> QED
      BY <2>1, <2>2, <2>3, <2>4
  <1>10. CASE CeStr
    <2> USE <1>10 DEF CeStr, Goto
    <2>1. target \in Slave
      BY DEF MasterOrder, Calling
    <2>2. TypeOK'
      BY <2>1 DEF TypeOK, Pc
    <2>3. MasterOrder'
      BY DEF TypeOK, MasterOrder, Preparing, Calling, Called, Written
    <2>4. CallsAreLast'
      BY DEF TypeOK, CallsAreLast
    <2>5. PreparedBeforeCalled'
      BY DEF TypeOK, PreparedBeforeCalled, Called
    <2> QED
      BY <2>2, <2>3, <2>4, <2>5
  <1>11. CASE CeRet
    <2> USE <1>11 DEF CeRet, Goto
    <2>1. target \in Slave
      BY DEF MasterOrder, Calling
    <2>2. target' \in 1 .. LastCore + 1 /\ (target # LastCore => target' \in Slave)
      BY <2>1 DEF Slave
    <2>3. TypeOK'
      BY <2>2 DEF TypeOK, Pc
    <2>4. MasterOrder'
      BY <2>2 DEF TypeOK, MasterOrder, Preparing, Calling, Called, Written
    <2>5. CallsAreLast'
      BY DEF TypeOK, CallsAreLast
    <2>6. PreparedBeforeCalled'
      BY DEF TypeOK, PreparedBeforeCalled, Called
    <2> QED
      BY <2>3, <2>4, <2>5, <2>6
  <1>12. CASE WriteArrives
    <2> PICK s \in writes : /\ writes' = writes \ {s}
                            /\ memory' = memory \cup {s.what}
                            /\ UNCHANGED <<pc, target, calls, epoch, mailbox, event>>
      BY <1>12 DEF WriteArrives
    <2>1. TypeOK'
      BY DEF TypeOK
    <2>2. Written \subseteq Written'
      BY DEF Written
    <2>3. MasterOrder'
      BY <2>2 DEF MasterOrder
    <2>4. CallsAreLast'
      BY DEF CallsAreLast
    <2>5. PreparedBeforeCalled'
      BY DEF TypeOK, PreparedBeforeCalled
    <2> QED
      BY <2>1, <2>3, <2>4, <2>5
  <1>13. CASE CallArrives
    <2> PICK s \in calls : /\ Oldest(s)
                           /\ calls' = calls \ {s}
                           /\ mailbox' = mailbox \cup {s.what}
                           /\ UNCHANGED <<pc, target, writes, epoch, memory, event>>
      BY <1>13 DEF CallArrives
    <2>1. TypeOK'
      BY DEF TypeOK
    <2>2. MasterOrder'
      BY DEF MasterOrder, Written
    <2>3. writes = {}
      <3> SUFFICES ASSUME NEW t \in writes PROVE FALSE
        OBVIOUS
      <3>1. t.epoch < s.epoch /\ s.epoch <= t.epoch
        BY DEF CallsAreLast, Oldest
      <3>2. s.epoch \in Nat /\ t.epoch \in Nat
        BY DEF TypeOK
      <3> QED
        BY <3>1, <3>2
    <2>4. CallsAreLast'
      BY <2>3 DEF CallsAreLast
    <2>5. PreparedBeforeCalled'
      BY DEF PreparedBeforeCalled
    <2> QED
      BY <2>1, <2>2, <2>4, <2>5
  <1>14. ASSUME NEW c \in Slave, Wfe(c) \/ WakeUp(c) PROVE IInv'
    <2> USE <1>14 DEF Wfe, WakeUp, Goto
    <2>1. TypeOK'
      BY DEF TypeOK, Pc
    <2>2. MasterOrder'
      BY DEF TypeOK, MasterOrder, Preparing, Calling, Called, Written
    <2>3. CallsAreLast' /\ PreparedBeforeCalled'
      BY DEF TypeOK, CallsAreLast, PreparedBeforeCalled, Called
    <2> QED
      BY <2>1, <2>2, <2>3
  <1>15. ASSUME NEW c \in Slave, ReadMailbox(c) PROVE IInv'
    <2> USE <1>15 DEF ReadMailbox, Goto
    <2>1. TypeOK'
      BY DEF TypeOK, Pc
    <2>2. MasterOrder'
      BY DEF TypeOK, MasterOrder, Preparing, Calling, Called, Written
    <2>3. CallsAreLast'
      BY DEF TypeOK, CallsAreLast
    <2>4. c \in mailbox => memory = Stage
      <3> SUFFICES ASSUME c \in mailbox PROVE memory = Stage
        OBVIOUS
      <3>1. writes = {} /\ pc[0] \notin Preparing
        BY DEF CallsAreLast, MasterOrder
      <3>2. Stage \subseteq Written
        BY <3>1 DEF MasterOrder, Preparing, Stage
      <3> QED
        BY <3>1, <3>2 DEF Written, TypeOK
    <2>5. PreparedBeforeCalled'
      BY <2>4 DEF TypeOK, PreparedBeforeCalled, Called
    <2> QED
      BY <2>1, <2>2, <2>3, <2>5
  <1>16. ASSUME NEW c \in Slave, ClearMailbox(c) PROVE IInv'
    <2> USE <1>16 DEF ClearMailbox, Goto
    <2>1. TypeOK'
      BY DEF TypeOK, Pc
    <2>2. MasterOrder'
      BY DEF TypeOK, MasterOrder, Preparing, Calling, Called, Written
    <2>3. CallsAreLast' /\ PreparedBeforeCalled'
      BY DEF TypeOK, CallsAreLast, PreparedBeforeCalled, Called
    <2> QED
      BY <2>1, <2>2, <2>3
  <1> QED
    BY <1>1, <1>2, <1>3, <1>5, <1>6, <1>7, <1>8, <1>9, <1>10, <1>11, <1>12,
       <1>13, <1>14, <1>15, <1>16 DEF Next, MasterStep, SlaveStep

\* The invariant holds throughout the boot, whatever the number of cores and
\* whether or not sev may overtake a store.
THEOREM Invariance == Spec => []IInv
  BY InitIInv, NextIInv, PTL DEF Spec

\* No core gets to smp_scheduler before everything kernel_main prepares for it
\* is visible.
THEOREM MemoryIsPrepared == Spec => []PreparedBeforeCalled
  <1>1. IInv => PreparedBeforeCalled
    BY DEF IInv
  <1> QED
    BY <1>1, Invariance, PTL
-----------------------------------------------------------------------------
\* Without posted stores: the stores are in place when sev is executed.
LEMMA SentStep ==
  ASSUME ~Posted, IInv, SentAfterStored, NoLostWakeup, [Next]_vars
  PROVE  SentAfterStored' /\ NoLostWakeup'
  <1> USE BootAssumption DEF IInv
  <1>0. 0 \in Core /\ Slave \subseteq Core /\ 0 \notin Slave
    BY DEF Core, Slave
  <1> USE <1>0
  <1>1. CASE UNCHANGED vars
    BY <1>1 DEF vars, SentAfterStored, NoLostWakeup
  <1>2. ASSUME NEW c \in Core, Start(c) \/ SmpScheduler(c)
        PROVE  SentAfterStored' /\ NoLostWakeup'
    BY <1>2 DEF Start, SmpScheduler, Goto, TypeOK, SentAfterStored, NoLostWakeup
  <1>3. CASE Memzero \/ InitPageTables \/ MmuInit \/ InitPtable
    BY <1>3 DEF Memzero, InitPageTables, MmuInit, InitPtable, Goto, TypeOK,
                SentAfterStored, NoLostWakeup
  <1>4. CASE CeDmb \/ CeRet
    BY <1>4 DEF CeDmb, CeRet, Goto, TypeOK, SentAfterStored, NoLostWakeup
  <1>5. CASE CeStr
    BY <1>5 DEF CeStr, Goto, TypeOK, SentAfterStored, NoLostWakeup
  <1>6. CASE CeSev
    BY <1>6 DEF CeSev, Dsb, Goto, TypeOK, SentAfterStored, NoLostWakeup
  <1>7. CASE WriteArrives
    BY <1>7 DEF WriteArrives, SentAfterStored, NoLostWakeup
  <1>8. CASE CallArrives
    BY <1>8 DEF CallArrives, SentAfterStored, NoLostWakeup
  <1>9. ASSUME NEW c \in Slave, SlaveStep(c) \/ WakeUp(c)
        PROVE  SentAfterStored' /\ NoLostWakeup'
    BY <1>9 DEF SlaveStep, Wfe, WakeUp, ReadMailbox, ClearMailbox, Goto, TypeOK,
                SentAfterStored, NoLostWakeup
  <1> QED
    BY <1>1, <1>2, <1>3, <1>4, <1>5, <1>6, <1>7, <1>8, <1>9 DEF Next, MasterStep

\* Then no core ever sleeps on a call in its mailbox.
THEOREM CallsAreHeard ==
  ASSUME ~Posted
  PROVE  Spec => []NoLostWakeup
  <1>1. Init => SentAfterStored /\ NoLostWakeup
    BY DEF Init, SentAfterStored, NoLostWakeup
  <1>2. IInv /\ SentAfterStored /\ NoLostWakeup /\ [Next]_vars =>
          SentAfterStored' /\ NoLostWakeup'
    BY SentStep
  <1> QED
    BY <1>1, <1>2, Invariance, PTL DEF Spec
=============================================================================
