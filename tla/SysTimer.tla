------------------------------ MODULE SysTimer ------------------------------
(***************************************************************************)
(* The system timer and the interrupts of src/timer/timer.c and            *)
(* src/irq/irq.c: handle_irq on several cores, the handlers of the timers  *)
(* 1 and 3, the local timer, and a process in sys_timer_sleep_ms.  Every   *)
(* access to a shared word is a step, as in the code the compiler makes    *)
(* without optimisation.  kernel_main starts neither timer; the process    *)
(* sleeps in a system where they are not started, which is the shipped one.*)
(***************************************************************************)
EXTENDS Integers

CONSTANTS
  Cores,      \* numbers, core 0 takes the interrupts of the VideoCore
  CLOCKHZ,    \* ticks of a second
  Word,       \* the number of values of a register: 2^32
  Start,      \* the values of the counter when the system is started
  Delay,      \* the times to sleep, in ticks
  MaxLate,    \* bound: ticks until an interrupt is taken, and until a handler is done
  MaxTime     \* bound: the last tick

ASSUME CoresAssumption == Cores \subseteq Nat /\ 0 \in Cores
ASSUME ClockAssumption == Start \subseteq Nat /\ Delay \subseteq Nat

Timer == {1, 3}
Period == [t \in Timer |-> IF t = 1 THEN CLOCKHZ ELSE CLOCKHZ * 5]

\* Interrupts are served within a third of a second: 2^32 ticks are 71 minutes.
ASSUME WordAssumption ==
  /\ CLOCKHZ \in Nat /\ Word \in Nat \ {0} /\ MaxLate \in Nat \ {0} /\ 3 * MaxLate < CLOCKHZ
  /\ Period[3] < Word

VARIABLES
  now,      \* the counter, timer_chi and timer_clo together
  cs,       \* timer_cs: the timers that matched
  cmp,      \* timer_c1 and timer_c3
  cur,      \* cur_val_1 and cur_val_3
  enabled,  \* irq0_enable_1
  local,    \* the local timer: off, running, expired
  routing,  \* the core it interrupts
  ctimer,   \* the cores whose own timer ran out
  h,        \* the core's handle_irq: place, irq, timer handled, value loaded, entry time
  last,     \* history: when the timer last matched; for timer 1 first its start
  extra,    \* history: the timers handled without a match of their own, because
            \* two cores took one, or one was left from before the start
  lost,     \* history: the timers whose last match was cleared but not handled
  sleeper   \* the sleeping process: place, first word read and when, start and
            \* time to sleep; when it began, and whether a reading was torn

tvars == <<cs, cmp, cur, enabled, local, routing, ctimer, h, last, extra, lost>>
vars == <<now, tvars, sleeper>>

Low(n) == n % Word
Pending == cs \cap enabled
Handled(t) == \E c \in Cores : h[c].t = t \/ t \in h[c].irq
Out == [pc |-> "out", irq |-> {}, t |-> 0, v |-> 0, since |-> 0]
Awake == [pc |-> "awake", first |-> "low", seen |-> 0, start |-> 0, delay |-> 0, began |-> 0, torn |-> FALSE]

Init ==
  /\ now \in Start
  /\ cs = {} /\ cmp = [t \in Timer |-> 0] /\ cur = [t \in Timer |-> 0]
  /\ enabled = {} /\ local = "off" /\ routing = 0 /\ ctimer = {}
  /\ h = [c \in Cores |-> Out]
  /\ last = [t \in Timer |-> 0] /\ extra = {} /\ lost = {}
  /\ sleeper = Awake

\* Code is not arbitrarily slow: at most MaxLate ticks pass before core 0 takes
\* a pending interrupt, and from the entry of a handler to its end.
InTime ==
  /\ \A c \in Cores : h[c].pc # "out" => now - h[c].since < MaxLate
  /\ h[0].pc = "out" => \A t \in Pending : now - last[t] < MaxLate

\* timer_cs gets the bits of the timers whose compare value is reached.
Tick ==
  /\ now < MaxTime /\ InTime
  /\ now' = now + 1
  /\ LET matched == {t \in Timer : cmp[t] = Low(now')}
     IN /\ cs' = cs \cup matched
        /\ last' = [t \in Timer |-> IF t \in matched THEN now' ELSE last[t]]
        /\ lost' = lost \ matched
  /\ UNCHANGED <<cmp, cur, enabled, local, routing, ctimer, h, extra, sleeper>>
-----------------------------------------------------------------------------
\* sys_timer_init, which leaves timer 3 as it is, and enable_interrupt_controller.
SysTimerInit ==
  /\ enabled = {}
  /\ \E read \in {now, now - 1} \cap Nat :
       /\ cur' = [cur EXCEPT ![1] = Low(read + CLOCKHZ)]
       /\ cmp' = [cmp EXCEPT ![1] = Low(read + CLOCKHZ)]
       /\ last' = [last EXCEPT ![1] = read]
  /\ enabled' = Timer /\ extra' = extra \cup cs
  /\ UNCHANGED <<now, cs, local, routing, ctimer, h, lost, sleeper>>

\* local_timer_init, called once: routing |= core, and the timer runs.
LocalTimerInit(core) ==
  /\ local = "off" /\ local' = "running"
  /\ routing' = core
  /\ UNCHANGED <<now, cs, cmp, cur, enabled, ctimer, h, last, extra, lost, sleeper>>

LocalTimerExpires ==
  /\ local = "running" /\ local' = "expired"
  /\ UNCHANGED <<now, cs, cmp, cur, enabled, routing, ctimer, h, last, extra, lost, sleeper>>

CoreTimerExpires(c) ==
  /\ ctimer' = ctimer \cup {c}
  /\ UNCHANGED <<now, cs, cmp, cur, enabled, local, routing, h, last, extra, lost, sleeper>>
-----------------------------------------------------------------------------
\* handle_irq.
Goto(c, record) == h' = [h EXCEPT ![c] = record]

\* Whatever interrupts it, a core reads the one register of pending interrupts.
EnterIrq(c) ==
  /\ h[c].pc = "out"
  /\ \/ c \in ctimer
     \/ c = 0 /\ Pending # {}
     \/ local = "expired" /\ routing = c
  /\ Goto(c, [Out EXCEPT !.pc = "loop", !.irq = Pending, !.since = now])
  /\ extra' = extra \cup {t \in Pending : Handled(t)}
  /\ UNCHANGED <<now, cs, cmp, cur, enabled, local, routing, ctimer, last, lost, sleeper>>

\* Faulty: the next match is computed from the time, not from the last one.
LoadClo(c) ==
  /\ h[c].pc = "loop" /\ h[c].irq # {}
  /\ LET t == IF 1 \in h[c].irq THEN 1 ELSE 3
     IN Goto(c, [h[c] EXCEPT !.pc = "advance", !.irq = @ \ {t}, !.t = t, !.v = Low(now + Period[t])])
  /\ UNCHANGED <<now, cs, cmp, cur, enabled, local, routing, ctimer, last, extra, lost, sleeper>>

\* cur_val_t += ...: a load and a store; timer 1 is handled before timer 3.
LoadCur(c) ==
  /\ h[c].pc = "loop" /\ h[c].irq # {}
  /\ LET t == IF 1 \in h[c].irq THEN 1 ELSE 3
     IN Goto(c, [h[c] EXCEPT !.pc = "advance", !.irq = @ \ {t}, !.t = t, !.v = Low(cur[t] + Period[t])])
  /\ UNCHANGED <<now, cs, cmp, cur, enabled, local, routing, ctimer, last, extra, lost, sleeper>>

StoreCur(c) ==
  /\ h[c].pc = "advance"
  /\ cur' = [cur EXCEPT ![h[c].t] = h[c].v]
  /\ Goto(c, [h[c] EXCEPT !.pc = "compare"])
  /\ UNCHANGED <<now, cs, cmp, enabled, local, routing, ctimer, last, extra, lost, sleeper>>

\* timer_ct = cur_val_t: a load and a store.
ReloadCur(c) ==
  /\ h[c].pc = "compare"
  /\ Goto(c, [h[c] EXCEPT !.pc = "arm", !.v = cur[h[c].t]])
  /\ UNCHANGED <<now, cs, cmp, cur, enabled, local, routing, ctimer, last, extra, lost, sleeper>>

\* Faulty: the compare register is not written.
ArmNothing(c) ==
  /\ h[c].pc = "arm"
  /\ cmp' = cmp
  /\ Goto(c, [h[c] EXCEPT !.pc = "cs", !.v = 0])
  /\ UNCHANGED <<now, cs, cur, enabled, local, routing, ctimer, last, extra, lost, sleeper>>

Arm(c) ==
  /\ h[c].pc = "arm"
  /\ cmp' = [cmp EXCEPT ![h[c].t] = h[c].v]
  /\ Goto(c, [h[c] EXCEPT !.pc = "cs", !.v = 0])
  /\ UNCHANGED <<now, cs, cur, enabled, local, routing, ctimer, last, extra, lost, sleeper>>

\* timer_cs |= bit: what is read is written back, and a 1 clears its bit.
ReadCs(c) ==
  /\ h[c].pc = "cs"
  /\ Goto(c, [h[c] EXCEPT !.pc = "ack", !.v = cs])
  /\ UNCHANGED <<now, cs, cmp, cur, enabled, local, routing, ctimer, last, extra, lost, sleeper>>

Ack(c) ==
  /\ h[c].pc = "ack"
  /\ cs' = cs \ (h[c].v \cup {h[c].t})
  /\ lost' = lost \cup {t \in Pending \ cs' : ~Handled(t)}
  /\ Goto(c, [h[c] EXCEPT !.pc = "loop", !.v = 0, !.t = 0])
  /\ UNCHANGED <<now, cmp, cur, enabled, local, routing, ctimer, last, extra, sleeper>>

\* No known interrupt is left: the local timer, then the core's own, each with
\* a call of schedule().  That of the first may return in a process that comes
\* from the second, which does not look at the core's timer again.
Leave(c) ==
  /\ h[c].pc = "loop" /\ h[c].irq = {}
  /\ local' = IF local = "expired" THEN "running" ELSE local
  /\ ctimer' \in {ctimer \ {c}} \cup (IF local = "expired" THEN {ctimer} ELSE {})
  /\ Goto(c, Out)
  /\ UNCHANGED <<now, cs, cmp, cur, enabled, routing, last, extra, lost, sleeper>>
-----------------------------------------------------------------------------
\* sys_timer_get_ticks: ldp reads two words, in either order, at two times.
ReadFirst(first) ==
  /\ sleeper.pc \in {"start", "test"}
  /\ sleeper' = [sleeper EXCEPT !.pc = IF @ = "start" THEN "start2" ELSE "test2", !.first = first, !.seen = now]
  /\ UNCHANGED <<now, tvars>>

\* The value when the second word is read now; the high word may be another
\* one by now.
High(n) == n - Low(n)
Ticks == IF sleeper.first = "low" THEN High(now) + Low(sleeper.seen) ELSE High(sleeper.seen) + Low(now)
Torn == High(sleeper.seen) # High(now)

\* Faulty: the sum is an unsigned int.
WakeLow(start, delay) == Low(start + delay)

Wake(start, delay) == start + delay

\* sys_timer_sleep_ms.
Sleep(delay) ==
  /\ sleeper.pc = "awake"
  /\ sleeper' = [Awake EXCEPT !.pc = "start", !.delay = delay, !.began = now]
  /\ UNCHANGED <<now, tvars>>

SleepStart ==
  /\ sleeper.pc = "start2"
  /\ sleeper' = [sleeper EXCEPT !.pc = "test", !.start = Ticks, !.torn = Torn]
  /\ UNCHANGED <<now, tvars>>

SleepTest ==
  /\ sleeper.pc = "test2"
  /\ LET over == Ticks >= Wake(sleeper.start, sleeper.delay)
     IN sleeper' = [sleeper EXCEPT !.pc = IF over THEN "slept" ELSE "test", !.torn = @ \/ Torn]
  /\ UNCHANGED <<now, tvars>>

SleepReturn ==
  /\ sleeper.pc = "slept" /\ sleeper' = Awake
  /\ UNCHANGED <<now, tvars>>

Handler(c) ==
  \/ EnterIrq(c) \/ LoadCur(c) \/ StoreCur(c) \/ ReloadCur(c)
  \/ Arm(c) \/ ReadCs(c) \/ Ack(c) \/ Leave(c)

\* The timers are looked at without a sleeping process, and the process
\* without them: what they share is the counter, which neither writes.
NotStarted == enabled = {} /\ local = "off" /\ ctimer = {} /\ h = [c \in Cores |-> Out]

Next ==
  \/ Tick
  \/ /\ sleeper = Awake
     /\ \/ SysTimerInit \/ LocalTimerExpires
        \/ \E c \in Cores : LocalTimerInit(c) \/ CoreTimerExpires(c) \/ Handler(c)
  \/ /\ NotStarted
     /\ \/ \E d \in Delay : Sleep(d)
        \/ \E first \in {"low", "high"} : ReadFirst(first)
        \/ SleepStart \/ SleepTest \/ SleepReturn

Spec == Init /\ [][Next]_vars
-----------------------------------------------------------------------------
(* Properties *)

Waiting(t) == t \in enabled /\ t \notin cs /\ ~Handled(t)

\* A timer that is started goes on: its next match lies ahead, at most a
\* period, or timer 3, never set, waits for the counter to wrap.  Two races
\* stop it: timer_cs |= in the handler of the other timer (timer.c:48,55) clears
\* a match that came in the meantime, and cores that handle one match together
\* add a period each: with three of them, cur_val can end up behind timer_c1,
\* and the next handler arms a value that has passed.
TimerStaysArmed ==
  \A t \in Timer \ (extra \cup lost) : Waiting(t) =>
    \/ Low(cmp[t] - now) \in 1 .. Period[t]
    \/ t = 3 /\ last[3] = 0 /\ cmp[3] = 0

\* "Timer 1 will go off every 1 second" (timer.c:33): as long as every match
\* is handled by one core, the next one comes a period after the last, however
\* late it was handled.
EverySecond ==
  \A t \in Timer \ (extra \cup lost) : Waiting(t) /\ last[t] > 0 =>
    cmp[t] = Low(last[t] + Period[t]) /\ cur[t] = cmp[t]

\* sys_timer_sleep_ms returns early only when a reading of the counter was
\* torn: its low word wrapped between the two loads of utils.S:58.
SleepNeverShort == sleeper.pc = "slept" /\ ~sleeper.torn => now - sleeper.began >= sleeper.delay
=============================================================================
