--------------------------- MODULE SysTimerProofs ---------------------------
(***************************************************************************)
(* For a register of any width, every delay and every time: a sleep is     *)
(* never too short unless a reading was torn.  For any number of cores: a  *)
(* timer whose matches are handled one by one goes on, a period after each *)
(* match, however its handler is interleaved with the others.              *)
(***************************************************************************)
EXTENDS SysTimer, TLAPS

Sleeper == [pc : {"awake", "start", "start2", "test", "test2", "slept"}, first : {"low", "high"},
            seen : Nat, start : Int, delay : Nat, began : Nat, torn : BOOLEAN]

\* What is inductive: the first word is read after the sleep began; a start that
\* was read whole is not before that; and then no sleep has been too short.
SleepInv ==
  /\ now \in Nat /\ sleeper \in Sleeper
  /\ sleeper.began <= now
  /\ sleeper.pc \in {"start2", "test2"} => sleeper.began <= sleeper.seen /\ sleeper.seen <= now
  /\ sleeper.pc \in {"test", "test2", "slept"} /\ ~sleeper.torn => sleeper.began <= sleeper.start
  /\ SleepNeverShort

\* The low word of a time is an integer.
LEMMA LowType == ASSUME NEW n \in Nat PROVE Low(n) \in Int
BY WordAssumption DEF Low

\* A reading that is not torn gives the time at which the first word was read
\* or the second one was.
LEMMA WholeReading ==
  ASSUME now \in Nat, sleeper.seen \in Nat, sleeper.first \in {"low", "high"}
  PROVE  /\ Ticks \in Int /\ Torn \in BOOLEAN
         /\ ~Torn => Ticks \in {sleeper.seen, now}
<1>1. Low(now) \in Int /\ Low(sleeper.seen) \in Int
  BY LowType
<1> QED  BY <1>1 DEF Ticks, Torn, High

\* No process sleeps at the start.
LEMMA SleepInitially == Init => SleepInv
BY ClockAssumption DEF Init, SleepInv, Sleeper, Awake, SleepNeverShort

\* No handler touches the time or the process that sleeps.
LEMMA HandlerApart == ASSUME NEW c \in Cores, Handler(c) PROVE UNCHANGED <<now, sleeper>>
BY DEF Handler, EnterIrq, LoadCur, StoreCur, ReloadCur, Arm, ReadCs, Ack, Leave

\* Each step of the counter, of the timers and of the sleeping process.
LEMMA SleepStep ==
  ASSUME SleepInv, [Next]_vars
  PROVE  SleepInv'
<1>1. CASE Tick
  <2>1. now' = now + 1 /\ sleeper' = sleeper
    BY <1>1 DEF Tick
  <2>2. now \in Nat /\ sleeper.began \in Nat /\ sleeper.delay \in Nat
    BY DEF SleepInv, Sleeper
  <2>3. SleepNeverShort'
    BY <2>1, <2>2 DEF SleepInv, SleepNeverShort
  <2>4. now' \in Nat /\ (\A n \in Int : n <= now => n <= now')
    BY <2>1, <2>2
  <2>5. sleeper.seen \in Int /\ sleeper.began \in Int
    BY DEF SleepInv, Sleeper
  <2>6. sleeper.began <= now' /\ (sleeper.seen <= now => sleeper.seen <= now')
    BY <2>4, <2>5 DEF SleepInv
  <2>7. sleeper'.pc = sleeper.pc /\ sleeper'.began = sleeper.began /\ sleeper'.seen = sleeper.seen
    BY <2>1
  <2>8. (sleeper.pc \in {"start2", "test2"} => sleeper.began <= sleeper.seen /\ sleeper.seen <= now)'
    BY <2>6, <2>7 DEF SleepInv
  <2> QED  BY <2>1, <2>3, <2>4, <2>6, <2>8 DEF SleepInv
<1>2. ASSUME UNCHANGED <<now, sleeper>> PROVE SleepInv'
  BY <1>2 DEF SleepInv, SleepNeverShort
<1>3. ASSUME NEW d \in Delay, Sleep(d) PROVE SleepInv'
  <2>1. now' = now /\ sleeper' = [Awake EXCEPT !.pc = "start", !.delay = d, !.began = now]
    BY <1>3 DEF Sleep
  <2>2. now \in Nat /\ d \in Nat
    BY ClockAssumption DEF SleepInv
  <2>3. sleeper' = [pc |-> "start", first |-> "low", seen |-> 0, start |-> 0, delay |-> d, began |-> now, torn |-> FALSE]
    BY <2>1 DEF Awake
  <2>4. sleeper' \in Sleeper
    BY <2>2, <2>3 DEF Sleeper
  <2> QED  BY <2>1, <2>2, <2>3, <2>4 DEF SleepInv, SleepNeverShort
<1>4. ASSUME NEW first \in {"low", "high"}, ReadFirst(first) PROVE SleepInv'
  <2>1. now' = now /\ sleeper.pc \in {"start", "test"}
    BY <1>4 DEF ReadFirst
  <2>2. sleeper' = [sleeper EXCEPT !.pc = IF @ = "start" THEN "start2" ELSE "test2", !.first = first, !.seen = now]
    BY <1>4 DEF ReadFirst
  <2>3. /\ sleeper' \in Sleeper
        /\ sleeper'.pc \in {"start2", "test2"} /\ (sleeper'.pc = "test2" => sleeper.pc = "test")
        /\ sleeper'.seen = now /\ sleeper'.began = sleeper.began
        /\ sleeper'.start = sleeper.start /\ sleeper'.torn = sleeper.torn
    BY <2>1, <2>2 DEF SleepInv, Sleeper
  <2> QED  BY <2>1, <2>3 DEF SleepInv, SleepNeverShort
<1>5. CASE SleepStart
  <2>1. now' = now /\ sleeper.pc = "start2" /\ sleeper' = [sleeper EXCEPT !.pc = "test", !.start = Ticks, !.torn = Torn]
    BY <1>5 DEF SleepStart
  <2>2. Ticks \in Int /\ Torn \in BOOLEAN /\ (~Torn => Ticks \in {sleeper.seen, now})
    BY WholeReading DEF SleepInv, Sleeper
  <2>3. /\ sleeper' \in Sleeper /\ sleeper'.pc = "test" /\ sleeper'.began = sleeper.began
        /\ sleeper'.start = Ticks /\ sleeper'.torn = Torn
    BY <2>1, <2>2 DEF SleepInv, Sleeper
  <2>4. ~sleeper'.torn => sleeper'.began <= sleeper'.start
    BY <2>1, <2>2, <2>3 DEF SleepInv, Sleeper
  <2> QED  BY <2>1, <2>3, <2>4 DEF SleepInv, SleepNeverShort
<1>6. CASE SleepTest
  <2> DEFINE over == Ticks >= Wake(sleeper.start, sleeper.delay)
  <2>1. /\ now' = now /\ sleeper.pc = "test2"
        /\ sleeper' = [sleeper EXCEPT !.pc = IF over THEN "slept" ELSE "test", !.torn = @ \/ Torn]
    BY <1>6 DEF SleepTest
  <2>2. Ticks \in Int /\ Torn \in BOOLEAN /\ (~Torn => Ticks \in {sleeper.seen, now})
    BY WholeReading DEF SleepInv, Sleeper
  <2>3. /\ sleeper' \in Sleeper /\ sleeper'.began = sleeper.began /\ sleeper'.start = sleeper.start
        /\ sleeper'.delay = sleeper.delay /\ sleeper'.torn = (sleeper.torn \/ Torn)
        /\ sleeper'.pc = IF over THEN "slept" ELSE "test"
    <3> HIDE DEF over
    <3> QED  BY <2>1, <2>2 DEF SleepInv, Sleeper
  <2>4. over /\ ~sleeper.torn /\ ~Torn => now - sleeper.began >= sleeper.delay
    BY <2>1, <2>2 DEF SleepInv, Sleeper, Wake
  <2>5. SleepNeverShort'
    <3>1. ASSUME sleeper'.pc = "slept", ~sleeper'.torn
          PROVE  now - sleeper.began >= sleeper.delay
      <4>1. over
        <5> HIDE DEF over
        <5> QED  BY <3>1, <2>3
      <4>2. ~sleeper.torn /\ ~Torn
        BY <3>1, <2>3
      <4> QED  BY <4>1, <4>2, <2>4
    <3> QED  BY <2>1, <2>3, <3>1 DEF SleepNeverShort
  <2>6. ~sleeper'.torn => sleeper'.began <= sleeper'.start
    BY <2>1, <2>3 DEF SleepInv
  <2>7. sleeper'.pc \in {"slept", "test"}
    BY <2>3
  <2> QED  BY <2>1, <2>3, <2>5, <2>6, <2>7 DEF SleepInv
<1>7. CASE SleepReturn
  BY <1>7 DEF SleepReturn, SleepInv, Sleeper, Awake, SleepNeverShort
<1>8. CASE SysTimerInit \/ LocalTimerExpires
  BY <1>8, <1>2 DEF SysTimerInit, LocalTimerExpires
<1>9. ASSUME NEW c \in Cores, LocalTimerInit(c) \/ CoreTimerExpires(c) \/ Handler(c) PROVE SleepInv'
  BY <1>9, <1>2, HandlerApart DEF LocalTimerInit, CoreTimerExpires
<1>10. CASE UNCHANGED vars
  BY <1>10, <1>2 DEF vars
<1> QED  BY <1>1, <1>3, <1>4, <1>5, <1>6, <1>7, <1>8, <1>9, <1>10 DEF Next

\* sys_timer_sleep_ms (timer.c:82) with the ticks of utils.S:58.
THEOREM SleepLongEnough == Spec => []SleepNeverShort
<1>1. SleepInv => SleepNeverShort
  BY DEF SleepInv
<1> QED  BY SleepInitially, SleepStep, <1>1, PTL DEF Spec
-----------------------------------------------------------------------------
(* The timers.  Arithmetic of the registers first.                          *)

\* A quotient and a remainder in range are the only ones.
LEMMA Remainder ==
  ASSUME NEW w \in Nat \ {0}, NEW q \in Int, NEW r \in 0 .. w - 1
  PROVE  (w * q + r) % w = r
<1>1. ASSUME NEW n \in Int
      PROVE  n = w * (n \div w) + (n % w) /\ n % w \in Int /\ 0 <= n % w /\ n % w < w /\ n \div w \in Int
  OBVIOUS
<1>2. ASSUME NEW d \in Int, d >= 1 PROVE w * d >= w
  BY <1>2
<1>3. ASSUME NEW p \in Int, NEW m \in Int, 0 <= m, m < w, w * q + r = w * p + m
      PROVE  m = r
  <2>1. w * (p - q) = r - m /\ w * (q - p) = m - r
    BY <1>3
  <2>2. ~(p - q >= 1)
    BY <1>2, <1>3, <2>1
  <2>3. ~(q - p >= 1)
    BY <1>2, <1>3, <2>1
  <2>4. p = q
    BY <2>2, <2>3
  <2> QED  BY <1>3, <2>4
<1>4. w * q + r \in Int
  OBVIOUS
<1> QED  BY <1>1, <1>3, <1>4

\* What a register holds.
LEMMA LowFacts ==
  ASSUME NEW n \in Int
  PROVE  /\ Low(n) \in Nat /\ Low(n) < Word
         /\ \E q \in Int : n = Word * q + Low(n)
<1>1. Word \in Nat \ {0}
  BY WordAssumption
<1>2. ASSUME NEW w \in Nat \ {0}
      PROVE  n % w \in Nat /\ n % w < w /\ n = w * (n \div w) + (n % w) /\ n \div w \in Int
  OBVIOUS
<1> QED  BY <1>1, <1>2 DEF Low

\* Adding to a register wraps like adding first.
LEMMA LowAdd ==
  ASSUME NEW a \in Int, NEW b \in Int
  PROVE  Low(Low(a) + b) = Low(a + b)
<1>w. Word \in Nat \ {0}
  BY WordAssumption
<1>1. PICK q \in Int : a = Word * q + Low(a)
  BY LowFacts
<1>2. Low(a) \in Nat
  BY LowFacts
<1>3. PICK p \in Int : Low(a) + b = Word * p + Low(Low(a) + b)
  BY <1>2, LowFacts
<1>4. Low(Low(a) + b) \in 0 .. Word - 1
  <2>1. Low(Low(a) + b) \in Nat /\ Low(Low(a) + b) < Word
    BY <1>2, LowFacts
  <2> QED  BY <2>1, <1>w
<1>5. a + b = Word * (q + p) + Low(Low(a) + b)
  <2> DEFINE x == Low(a)
             y == Low(Low(a) + b)
  <2>1. x \in Int /\ y \in Int
    BY <1>2, <1>4
  <2> HIDE DEF x, y
  <2>2. a = Word * q + x /\ x + b = Word * p + y
    BY <1>1, <1>3 DEF x, y
  <2>3. a + b = Word * (q + p) + y
    BY <1>w, <2>1, <2>2
  <2> QED  BY <2>3 DEF y
<1>6. (Word * (q + p) + Low(Low(a) + b)) % Word = Low(Low(a) + b)
  BY <1>w, <1>4, Remainder
<1> QED  BY <1>5, <1>6 DEF Low

\* A difference of less than a register shows.
LEMMA LowSmall ==
  ASSUME NEW n \in Nat, n < Word
  PROVE  Low(n) = n
<1>1. Word \in Nat \ {0} /\ n \in 0 .. Word - 1
  BY WordAssumption
<1>2. (Word * 0 + n) % Word = n
  BY <1>1, Remainder
<1> QED  BY <1>1, <1>2 DEF Low

LEMMA LowApart ==
  ASSUME NEW a \in Int, NEW b \in Int, a < b, b - a < Word
  PROVE  Low(a) # Low(b)
<1>1. SUFFICES ASSUME Low(a) = Low(b) PROVE FALSE
  OBVIOUS
<1>2. Low(Low(b) - a) = Low(b - a) /\ Low(Low(a) - a) = Low(a - a)
  <2> DEFINE m == 0 - a
  <2>1. m \in Int /\ \A n \in Int : n + m = n - a
    OBVIOUS
  <2> HIDE DEF m
  <2>2. Low(Low(b) + m) = Low(b + m) /\ Low(Low(a) + m) = Low(a + m)
    BY <2>1, LowAdd
  <2>3. Low(a) \in Int /\ Low(b) \in Int
    BY LowFacts
  <2> QED  BY <2>1, <2>2, <2>3
<1>3. Low(b - a) = b - a /\ Low(a - a) = 0
  <2>1. b - a \in Nat /\ a - a = 0 /\ 0 \in Nat /\ 0 < Word
    BY WordAssumption
  <2>2. Low(b - a) = b - a
    BY <2>1, LowSmall
  <2>3. Low(0) = 0
    BY <2>1, LowSmall
  <2> QED  BY <2>1, <2>2, <2>3
<1> QED  BY <1>1, <1>2, <1>3

\* What the periods have in common.
LEMMA PeriodFacts ==
  ASSUME NEW t \in Timer
  PROVE  /\ Period[t] \in Nat /\ Period[t] < Word /\ Period[1] = CLOCKHZ
         /\ 3 * MaxLate < Period[t] /\ MaxLate \in Nat /\ MaxLate >= 1 /\ Word \in Nat
<1>1. /\ CLOCKHZ \in Nat /\ MaxLate \in Nat /\ MaxLate >= 1 /\ Word \in Nat
      /\ 3 * MaxLate < CLOCKHZ
  BY WordAssumption
<1>2. Period[1] = CLOCKHZ /\ Period[3] = CLOCKHZ * 5
  BY DEF Period, Timer
<1>3. CLOCKHZ <= CLOCKHZ * 5 /\ CLOCKHZ * 5 < Word
  BY <1>1, <1>2, WordAssumption
<1>4. t = 1 \/ t = 3
  BY DEF Timer
<1> QED  BY <1>1, <1>2, <1>3, <1>4
-----------------------------------------------------------------------------
(* The invariant of the timers and of handle_irq.                           *)

Frame == [pc : {"out", "loop", "advance", "compare", "arm", "cs", "ack"}, irq : SUBSET Timer,
          t : Timer \cup {0}, v : Nat \cup SUBSET Timer, since : Nat]

TimersType ==
  /\ now \in Nat /\ cs \subseteq Timer /\ enabled \in {{}, Timer}
  /\ cmp \in [Timer -> Nat] /\ cur \in [Timer -> Nat] /\ last \in [Timer -> Nat]
  /\ h \in [Cores -> Frame]

\* The core c has timer t to handle, or handles it.
Has(c, t) == h[c].t = t \/ t \in h[c].irq

\* A core handles one timer at a time, is not longer than MaxLate in handle_irq,
\* and has no timer to handle before sys_timer_init.
HandlerOK(c) ==
  /\ h[c].pc \in {"out", "loop"} <=> h[c].t = 0
  /\ h[c].pc = "out" => h[c].irq = {}
  /\ h[c].t \notin h[c].irq
  /\ h[c].pc \in {"advance", "arm"} => h[c].v \in Nat
  /\ h[c].pc # "out" => h[c].since <= now /\ now - h[c].since <= MaxLate
  /\ enabled = {} => h[c].irq = {} /\ h[c].t = 0

Matched(t) == Low(last[t])
Ahead(t) == Low(last[t] + Period[t])

\* How far cur_val and the compare register are, by the place of the handler.
Phase(c, t) ==
  /\ t \in h[c].irq \/ h[c].pc = "advance" => cur[t] = Matched(t) /\ cmp[t] = Matched(t)
  /\ h[c].t = t /\ h[c].pc \in {"compare", "arm"} => cur[t] = Ahead(t) /\ cmp[t] = Matched(t)
  /\ h[c].t = t /\ h[c].pc \in {"advance", "arm"} => h[c].v = Ahead(t)
  /\ h[c].t = t /\ h[c].pc \in {"cs", "ack"} => cur[t] = Ahead(t) /\ cmp[t] = Ahead(t)

OneHandler(t) == \A c, d \in Cores : Has(c, t) /\ Has(d, t) => c = d

InHand(t) == \A c \in Cores :
  Has(c, t) => last[t] <= h[c].since /\ h[c].since - last[t] <= MaxLate /\ last[t] > 0 /\ Phase(c, t)

\* Nobody handles it: it is not started, has matched, or waits for its match.
InRest(t) ==
  /\ t \notin enabled => cmp[t] = 0 /\ (last[t] > 0 => t \in cs)
  /\ ~Handled(t) => cur[t] = cmp[t]
  /\ t \in cs /\ ~Handled(t) => cmp[t] = Matched(t) /\ last[t] > 0
  /\ t \in Pending /\ ~Handled(t) => now - last[t] <= MaxLate /\ (h[0].pc # "out" => h[0].since <= last[t])
  /\ Waiting(t) /\ t \notin lost =>
       IF t = 1 \/ last[t] > 0 THEN cmp[t] = Ahead(t) /\ now < last[t] + Period[t] ELSE cmp[t] = 0

TimerOK(t) == last[t] <= now /\ OneHandler(t) /\ InHand(t) /\ InRest(t)

TimersInv ==
  /\ TimersType
  /\ \A c \in Cores : HandlerOK(c)
  /\ \A t \in Timer \ extra : TimerOK(t)

\* Nothing is set at the start.
LEMMA TimersInitially == Init => TimersInv
<1> SUFFICES ASSUME Init PROVE TimersInv
  OBVIOUS
<1>1. /\ now \in Nat /\ cs = {} /\ enabled = {} /\ cmp = [t \in Timer |-> 0] /\ cur = [t \in Timer |-> 0]
      /\ last = [t \in Timer |-> 0] /\ h = [c \in Cores |-> Out]
  BY ClockAssumption DEF Init
<1>2. Out \in Frame /\ Out.pc = "out" /\ Out.irq = {} /\ Out.t = 0
  BY DEF Out, Frame
<1>3. TimersType
  BY <1>1, <1>2 DEF TimersType
<1>4. \A c \in Cores : h[c].pc = "out" /\ h[c].irq = {} /\ h[c].t = 0
  BY <1>1, <1>2
<1>5. ASSUME NEW c \in Cores PROVE HandlerOK(c)
  BY <1>4 DEF HandlerOK
<1>6. ASSUME NEW t \in Timer PROVE TimerOK(t)
  <2>1. t # 0 /\ last[t] = 0 /\ cmp[t] = 0 /\ cur[t] = 0 /\ t \notin cs /\ t \notin enabled
    BY <1>1 DEF Timer
  <2>2. \A c \in Cores : ~Has(c, t)
    BY <1>4, <2>1 DEF Has
  <2> QED  BY <1>1, <2>1, <2>2 DEF TimerOK, OneHandler, InHand, InRest, Waiting, Pending
<1> QED  BY <1>3, <1>5, <1>6 DEF TimersInv

\* A compare register that a handler has yet to pass, or has just set, does not
\* match: the counter is at most two delays past the last match.
LEMMA NoMatchInHand ==
  ASSUME TimersInv, Tick, NEW t \in Timer \ extra, NEW c \in Cores, Has(c, t)
  PROVE  cmp[t] # Low(now')
<1>1. /\ last[t] <= h[c].since /\ h[c].since - last[t] <= MaxLate /\ last[t] > 0 /\ Phase(c, t)
      /\ last[t] <= now /\ HandlerOK(c)
  BY DEF TimersInv, TimerOK, InHand
<1>2. h[c].since \in Nat /\ last[t] \in Nat /\ now \in Nat /\ now' = now + 1
  BY DEF TimersInv, TimersType, Frame, Tick
<1>3. h[c].pc # "out" /\ (t \notin h[c].irq => h[c].t = t /\ h[c].pc \notin {"out", "loop"})
  BY <1>1 DEF Has, HandlerOK, Timer
<1>4. now - h[c].since < MaxLate
  BY <1>3 DEF Tick, InTime
<1>5. last[t] < now' /\ now' - last[t] <= 2 * MaxLate
  BY <1>1, <1>2, <1>4, WordAssumption
<1>6. /\ now' < last[t] + Period[t] /\ (last[t] + Period[t]) - now' < Word
      /\ now' - last[t] < Word /\ last[t] + Period[t] \in Int
  BY <1>2, <1>5, PeriodFacts
<1>7. Low(last[t]) # Low(now') /\ Low(now') # Low(last[t] + Period[t])
  BY <1>2, <1>5, <1>6, LowApart
<1>8. cmp[t] = Matched(t) \/ cmp[t] = Ahead(t)
  <2>1. h[c].pc \in {"out", "loop", "advance", "compare", "arm", "cs", "ack"}
    BY DEF TimersInv, TimersType, Frame
  <2> QED  BY <1>1, <1>3, <2>1 DEF Phase
<1> QED  BY <1>7, <1>8 DEF Matched, Ahead

\* A match that waits for core 0 is not older than MaxLate, so that the next
\* value of the counter is not the one it came with.
LEMMA NoMatchPending ==
  ASSUME TimersInv, Tick, NEW t \in Timer \ extra, t \in Pending, ~Handled(t)
  PROVE  cmp[t] # Low(now') /\ now' - last[t] <= MaxLate
<1>1. /\ cmp[t] = Matched(t) /\ last[t] > 0 /\ last[t] <= now
      /\ h[0].pc # "out" => h[0].since <= last[t]
  BY DEF TimersInv, TimerOK, InRest, Pending
<1>2. /\ h[0].since \in Nat /\ last[t] \in Nat /\ now \in Nat /\ now' = now + 1
  BY CoresAssumption DEF TimersInv, TimersType, Frame, Tick
<1>3. now - last[t] < MaxLate
  <2>1. CASE h[0].pc = "out"
    BY <2>1 DEF Tick, InTime
  <2>2. CASE h[0].pc # "out"
    <3>1. now - h[0].since < MaxLate
      BY <2>2, CoresAssumption DEF Tick, InTime
    <3> QED  BY <1>1, <1>2, <2>2, <3>1, WordAssumption
  <2> QED  BY <2>1, <2>2
<1>4. last[t] < now' /\ now' - last[t] <= MaxLate /\ now' - last[t] < Word
  BY <1>1, <1>2, <1>3, PeriodFacts
<1>5. Low(last[t]) # Low(now')
  BY <1>2, <1>4, LowApart
<1> QED  BY <1>1, <1>4, <1>5 DEF Matched

\* The counter goes on.
LEMMA TickStep ==
  ASSUME TimersInv, Tick
  PROVE  TimersInv'
<1>1. /\ now' = now + 1 /\ cmp' = cmp /\ cur' = cur /\ enabled' = enabled /\ h' = h /\ extra' = extra /\ InTime
  BY DEF Tick
<1>2. /\ now \in Nat /\ cmp \in [Timer -> Nat] /\ last \in [Timer -> Nat] /\ cs \subseteq Timer
      /\ h \in [Cores -> Frame]
  BY DEF TimersInv, TimersType
<1>3. \A t \in Timer :
        /\ cmp[t] = Low(now') => t \in cs' /\ last'[t] = now'
        /\ cmp[t] # Low(now') => (t \in cs' <=> t \in cs) /\ last'[t] = last[t] /\ (t \in lost' <=> t \in lost)
  BY DEF Tick
<1>4. TimersType'
  <2>1. cs' \subseteq Timer /\ last' = [t \in Timer |-> last'[t]]
    BY <1>2 DEF Tick
  <2>2. \A t \in Timer : last'[t] \in Nat
    BY <1>1, <1>2, <1>3
  <2>3. last' \in [Timer -> Nat]
    BY <2>1, <2>2
  <2> QED  BY <1>1, <2>1, <2>3 DEF TimersInv, TimersType
<1>5. ASSUME NEW c \in Cores PROVE HandlerOK(c)'
  <2>1. h[c].since \in Nat
    BY <1>2 DEF Frame
  <2>2. h[c].pc # "out" => now - h[c].since < MaxLate
    BY <1>1 DEF InTime
  <2>3. HandlerOK(c)
    BY DEF TimersInv
  <2>4. h[c].pc # "out" => h[c].since <= now' /\ now' - h[c].since <= MaxLate
    BY <1>1, <1>2, <2>1, <2>2, <2>3, WordAssumption DEF HandlerOK
  <2> QED  BY <1>1, <2>3, <2>4 DEF HandlerOK
<1>6. ASSUME NEW t \in Timer \ extra PROVE TimerOK(t)'
  <2>1. TimerOK(t) /\ last[t] \in Nat
    BY <1>2 DEF TimersInv
  <2>2. (\A c \in Cores : Has(c, t)' <=> Has(c, t)) /\ (Handled(t)' <=> Handled(t)) /\ OneHandler(t)'
    BY <1>1, <2>1 DEF Has, Handled, TimerOK, OneHandler
  <2>3. CASE cmp[t] = Low(now')
    <3>1. \A c \in Cores : ~Has(c, t)
      BY <2>3, NoMatchInHand
    <3>2. ~Handled(t)
      BY <3>1 DEF Handled, Has
    <3>3. t \in cs' /\ last'[t] = now'
      BY <1>3, <2>3
    <3>4. InHand(t)'
      BY <3>1, <2>2 DEF InHand
    <3>5. h[0].pc # "out" => h[0].since <= now'
      <4>1. h[0].since \in Nat /\ HandlerOK(0)
        BY <1>2, CoresAssumption DEF Frame, TimersInv
      <4> QED  BY <1>1, <1>2, <4>1 DEF HandlerOK
    <3>6. InRest(t)'
      <4>1. cmp'[t] = Matched(t)' /\ last'[t] > 0 /\ now' - last'[t] <= MaxLate
        BY <1>1, <1>2, <2>3, <3>3, WordAssumption DEF Matched
      <4>2. (t \notin enabled => cmp[t] = 0) /\ cur[t] = cmp[t]
        BY <2>1, <3>2 DEF TimerOK, InRest
      <4> QED  BY <1>1, <3>3, <3>5, <4>1, <4>2 DEF InRest, Waiting
    <3>7. last'[t] <= now'
      BY <1>1, <1>2, <3>3
    <3> QED  BY <2>2, <3>4, <3>6, <3>7 DEF TimerOK
  <2>4. CASE cmp[t] # Low(now')
    <3>1. (t \in cs' <=> t \in cs) /\ last'[t] = last[t] /\ (t \in lost' <=> t \in lost)
      BY <1>3, <2>4
    <3>2. last'[t] <= now'
      BY <1>1, <1>2, <2>1, <3>1 DEF TimerOK
    <3>3. InHand(t)'
      BY <1>1, <2>1, <2>2, <3>1 DEF TimerOK, InHand, Phase, Matched, Ahead
    <3>4. (t \in Pending' <=> t \in Pending) /\ (Waiting(t)' <=> Waiting(t))
      BY <1>1, <2>2, <3>1 DEF Pending, Waiting
    <3>5. t \in Pending /\ ~Handled(t) => now' - last[t] <= MaxLate
      BY NoMatchPending
    <3>6. Matched(t)' = Matched(t) /\ Ahead(t)' = Ahead(t)
      BY <3>1 DEF Matched, Ahead
    <3>7. cmp[t] = Ahead(t) /\ now < last[t] + Period[t] => now' < last[t] + Period[t]
      BY <1>1, <1>2, <2>1, <2>4, PeriodFacts DEF Ahead
    <3>8. InRest(t)'
      BY <1>1, <2>1, <2>2, <3>1, <3>4, <3>5, <3>6, <3>7 DEF TimerOK, InRest
    <3> QED  BY <2>2, <3>2, <3>3, <3>8 DEF TimerOK
  <2> QED  BY <2>3, <2>4
<1> QED  BY <1>1, <1>4, <1>5, <1>6 DEF TimersInv

\* A step of core c in a handler that leaves the timers to its cores: only what
\* the handler does to the timers of c has to be looked at.
WithinHandler(c) ==
  /\ UNCHANGED <<now, cs, enabled, last, extra, lost>>
  /\ h[c].pc # "out" /\ h'[c].pc # "out" /\ h'[c].since = h[c].since
  /\ h' \in [Cores -> Frame] /\ cmp' \in [Timer -> Nat] /\ cur' \in [Timer -> Nat]
  /\ \A d \in Cores \ {c} : h'[d] = h[d]
  /\ \A t \in Timer : Has(c, t)' <=> Has(c, t)
  /\ \A t \in Timer : ~Has(c, t) => cmp'[t] = cmp[t] /\ cur'[t] = cur[t]

LEMMA HandlerGoesOn ==
  ASSUME TimersInv, NEW c \in Cores, WithinHandler(c), HandlerOK(c)',
         \A t \in Timer \ extra : Has(c, t) => Phase(c, t)'
  PROVE  TimersInv'
<1>1. TimersType'
  BY DEF WithinHandler, TimersInv, TimersType
<1>2. ASSUME NEW d \in Cores PROVE HandlerOK(d)'
  <2>1. CASE d # c
    BY <2>1 DEF WithinHandler, TimersInv, HandlerOK
  <2> QED  BY <2>1
<1>3. ASSUME NEW t \in Timer \ extra PROVE TimerOK(t)'
  <2>1. TimerOK(t)
    BY DEF TimersInv
  <2>2. \A d \in Cores : (Has(d, t)' <=> Has(d, t)) /\ (d # c => h'[d] = h[d])
    BY DEF WithinHandler, Has
  <2>3. (Handled(t)' <=> Handled(t)) /\ OneHandler(t)'
    BY <2>1, <2>2 DEF Handled, Has, TimerOK, OneHandler
  <2>4. ASSUME NEW d \in Cores, Has(d, t)
        PROVE  last'[t] <= h'[d].since /\ h'[d].since - last'[t] <= MaxLate /\ last'[t] > 0 /\ Phase(d, t)'
    <3>1. last'[t] = last[t] /\ h'[d].since = h[d].since
      BY <2>2 DEF WithinHandler
    <3>2. Phase(d, t)'
      <4>1. CASE d = c
        BY <4>1, <2>4
      <4>2. CASE d # c
        <5>1. ~Has(c, t)
          BY <4>2, <2>1, <2>4 DEF TimerOK, OneHandler
        <5>2. cmp'[t] = cmp[t] /\ cur'[t] = cur[t] /\ h'[d] = h[d]
          BY <4>2, <5>1, <2>2 DEF WithinHandler
        <5>3. Phase(d, t)
          BY <2>1, <2>4 DEF TimerOK, InHand
        <5> QED  BY <3>1, <5>2, <5>3 DEF Phase, Matched, Ahead
      <4> QED  BY <4>1, <4>2
    <3> QED  BY <2>1, <2>4, <3>1, <3>2 DEF TimerOK, InHand
  <2>5. InHand(t)'
    BY <2>2, <2>4 DEF InHand
  <2>6. ~Handled(t) => cmp'[t] = cmp[t] /\ cur'[t] = cur[t]
    BY DEF Handled, Has, WithinHandler
  <2>7. t \notin enabled => ~Handled(t)
    <3>1. t \notin enabled => enabled = {}
      BY DEF TimersInv, TimersType
    <3> QED  BY <3>1 DEF TimersInv, HandlerOK, Handled, Timer
  <2>8. InRest(t)'
    <3>1. /\ (t \in Pending' <=> t \in Pending) /\ (Waiting(t)' <=> Waiting(t))
          /\ Matched(t)' = Matched(t) /\ Ahead(t)' = Ahead(t) /\ (t \in cs' <=> t \in cs)
          /\ last'[t] = last[t] /\ now' = now /\ (t \in enabled' <=> t \in enabled) /\ (t \in lost' <=> t \in lost)
      BY <2>3 DEF WithinHandler, Pending, Waiting, Matched, Ahead
    <3>2. h'[0].pc # "out" => h[0].pc # "out" /\ h'[0].since = h[0].since
      BY CoresAssumption DEF WithinHandler
    <3>3. Waiting(t) => ~Handled(t)
      BY DEF Waiting
    <3> QED  BY <2>1, <2>3, <2>6, <2>7, <3>1, <3>2, <3>3 DEF TimerOK, InRest
  <2>9. last'[t] <= now'
    BY <2>1 DEF TimerOK, WithinHandler
  <2> QED  BY <2>3, <2>5, <2>8, <2>9 DEF TimerOK
<1> QED  BY <1>1, <1>2, <1>3 DEF TimersInv, WithinHandler

\* What is known of a timer that core c handles.
LEMMA HasPhase ==
  ASSUME TimersInv, NEW c \in Cores, NEW t \in Timer \ extra, Has(c, t)
  PROVE  Phase(c, t)
BY DEF TimersInv, TimerOK, InHand

\* cur_val_t += ...: the load.
LEMMA LoadCurStep ==
  ASSUME TimersInv, NEW c \in Cores, LoadCur(c)
  PROVE  TimersInv'
<1> DEFINE t == IF 1 \in h[c].irq THEN 1 ELSE 3
           f == [h[c] EXCEPT !.pc = "advance", !.irq = @ \ {t}, !.t = t, !.v = Low(cur[t] + Period[t])]
<1>1. /\ h' = [h EXCEPT ![c] = f] /\ h[c].pc = "loop" /\ h[c].irq # {}
      /\ UNCHANGED <<now, cs, cmp, cur, enabled, last, extra, lost>>
  BY DEF LoadCur, Goto
<1>2. h \in [Cores -> Frame] /\ h[c] \in Frame /\ HandlerOK(c) /\ cur \in [Timer -> Nat] /\ cmp \in [Timer -> Nat]
  BY DEF TimersInv, TimersType
<1>3. t \in h[c].irq /\ t \in Timer /\ h[c].t = 0 /\ t # 0 /\ t \in {1, 3}
  BY <1>1, <1>2 DEF Frame, Timer, HandlerOK
<1>4. Low(cur[t] + Period[t]) \in Nat
  <2>1. cur[t] + Period[t] \in Int
    BY <1>2, <1>3, PeriodFacts
  <2> QED  BY <2>1, LowFacts
<1> HIDE DEF t
<1>5. /\ f.pc = "advance" /\ f.irq = h[c].irq \ {t} /\ f.t = t /\ f.v = Low(cur[t] + Period[t])
      /\ f.since = h[c].since /\ f \in Frame
  BY <1>2, <1>3, <1>4 DEF Frame
<1> HIDE DEF f
<1>6. h'[c] = f /\ h' \in [Cores -> Frame] /\ \A d \in Cores \ {c} : h'[d] = h[d]
  BY <1>1, <1>2, <1>5
<1>7. \A u \in Timer : Has(c, u)' <=> Has(c, u)
  BY <1>3, <1>5, <1>6 DEF Has, Timer
<1>8. WithinHandler(c)
  BY <1>1, <1>2, <1>5, <1>6, <1>7 DEF WithinHandler
<1>9. HandlerOK(c)'
  BY <1>1, <1>2, <1>3, <1>4, <1>5, <1>6 DEF HandlerOK
<1>10. ASSUME NEW u \in Timer \ extra, Has(c, u) PROVE Phase(c, u)'
  <2>1. u \in h[c].irq
    BY <1>3, <1>10 DEF Has, Timer
  <2>2. cur[u] = Matched(u) /\ cmp[u] = Matched(u)
    BY <1>10, <2>1, HasPhase DEF Phase
  <2>3. Matched(u)' = Matched(u) /\ Ahead(u)' = Ahead(u) /\ cur'[u] = cur[u] /\ cmp'[u] = cmp[u]
    BY <1>1 DEF Matched, Ahead
  <2>4. u = t => f.v = Ahead(u)
    <3>1. last[u] \in Int /\ Period[u] \in Int
      BY PeriodFacts DEF TimersInv, TimersType
    <3>2. Low(Low(last[u]) + Period[u]) = Low(last[u] + Period[u])
      BY <3>1, LowAdd
    <3> QED  BY <1>5, <2>2, <3>2 DEF Matched, Ahead
  <2> QED  BY <1>5, <1>6, <2>2, <2>3, <2>4 DEF Phase
<1> QED  BY <1>8, <1>9, <1>10, HandlerGoesOn

\* A handler goes from place to place with a value of its own.
Moves(c, pc, v) == h' = [h EXCEPT ![c] = [h[c] EXCEPT !.pc = pc, !.v = v]]

LEMMA MoveFacts ==
  ASSUME TimersInv, NEW c \in Cores, NEW pc \in {"compare", "arm", "cs", "ack"}, NEW v \in Nat \cup SUBSET Timer,
         h[c].pc \in {"advance", "compare", "arm", "cs"}, pc = "arm" => v \in Nat,
         Moves(c, pc, v), UNCHANGED <<now, cs, enabled, last, extra, lost>>
  PROVE  /\ h'[c].pc = pc /\ h'[c].irq = h[c].irq /\ h'[c].t = h[c].t /\ h'[c].v = v /\ h'[c].since = h[c].since
         /\ HandlerOK(c)' /\ h[c].t \in Timer /\ h[c].t \notin h[c].irq
         /\ cmp' \in [Timer -> Nat] /\ cur' \in [Timer -> Nat] /\ (\A t \in Timer : ~Has(c, t) => cmp'[t] = cmp[t] /\ cur'[t] = cur[t])
              => WithinHandler(c)
<1> DEFINE f == [h[c] EXCEPT !.pc = pc, !.v = v]
<1>1. h \in [Cores -> Frame] /\ h[c] \in Frame /\ HandlerOK(c)
  BY DEF TimersInv, TimersType
<1>2. /\ f.pc = pc /\ f.irq = h[c].irq /\ f.t = h[c].t /\ f.v = v /\ f.since = h[c].since /\ f \in Frame
  BY <1>1 DEF Frame
<1>3. h' = [h EXCEPT ![c] = f]
  BY DEF Moves
<1> HIDE DEF f
<1>4. h'[c] = f /\ h' \in [Cores -> Frame] /\ \A d \in Cores \ {c} : h'[d] = h[d]
  BY <1>1, <1>2, <1>3
<1>5. HandlerOK(c)' /\ h[c].t \in Timer /\ h[c].t \notin h[c].irq
  <2>1. h[c].t \in Timer
    BY <1>1 DEF Frame, HandlerOK
  <2> QED  BY <1>1, <1>2, <1>4, <2>1 DEF HandlerOK
<1>6. \A t \in Timer : Has(c, t)' <=> Has(c, t)
  BY <1>2, <1>4 DEF Has
<1>7. ASSUME cmp' \in [Timer -> Nat], cur' \in [Timer -> Nat], \A t \in Timer : ~Has(c, t) => cmp'[t] = cmp[t] /\ cur'[t] = cur[t]
      PROVE  WithinHandler(c)
  BY <1>2, <1>4, <1>6, <1>7 DEF WithinHandler
<1> QED  BY <1>2, <1>4, <1>5, <1>7

\* cur_val_t += ...: the store.
LEMMA StoreCurStep ==
  ASSUME TimersInv, NEW c \in Cores, StoreCur(c)
  PROVE  TimersInv'
<1>1. /\ h[c].pc = "advance" /\ cur' = [cur EXCEPT ![h[c].t] = h[c].v] /\ h' = [h EXCEPT ![c] = [h[c] EXCEPT !.pc = "compare"]]
      /\ UNCHANGED <<now, cs, cmp, enabled, last, extra, lost>>
  BY DEF StoreCur, Goto
<1>2. h[c] \in Frame /\ cur \in [Timer -> Nat] /\ cmp \in [Timer -> Nat] /\ h[c].v \in Nat
  BY <1>1 DEF TimersInv, TimersType, HandlerOK
<1>3. Moves(c, "compare", h[c].v)
  <2>1. [h[c] EXCEPT !.pc = "compare"] = [h[c] EXCEPT !.pc = "compare", !.v = h[c].v]
    BY <1>2 DEF Frame
  <2> QED  BY <1>1, <2>1 DEF Moves
<1>4. /\ h'[c].pc = "compare" /\ h'[c].irq = h[c].irq /\ h'[c].t = h[c].t
      /\ HandlerOK(c)' /\ h[c].t \in Timer /\ h[c].t \notin h[c].irq
  BY <1>1, <1>2, <1>3, MoveFacts
<1>5. /\ cur' \in [Timer -> Nat] /\ cur'[h[c].t] = h[c].v /\ \A t \in Timer : t # h[c].t => cur'[t] = cur[t]
  BY <1>1, <1>2, <1>4
<1>6. WithinHandler(c)
  BY <1>1, <1>2, <1>3, <1>5, MoveFacts DEF Has
<1>7. ASSUME NEW t \in Timer \ extra, Has(c, t) PROVE Phase(c, t)'
  <2>1. Phase(c, t) /\ Matched(t)' = Matched(t) /\ Ahead(t)' = Ahead(t) /\ cmp'[t] = cmp[t]
    BY <1>1, <1>7, HasPhase DEF Matched, Ahead
  <2> QED  BY <1>1, <1>4, <1>5, <1>7, <2>1 DEF Phase, Has
<1> QED  BY <1>4, <1>6, <1>7, HandlerGoesOn

\* timer_ct = cur_val_t: the load.
LEMMA ReloadCurStep ==
  ASSUME TimersInv, NEW c \in Cores, ReloadCur(c)
  PROVE  TimersInv'
<1>1. /\ h[c].pc = "compare" /\ Moves(c, "arm", cur[h[c].t])
      /\ UNCHANGED <<now, cs, cmp, cur, enabled, last, extra, lost>>
  BY DEF ReloadCur, Goto, Moves
<1>2. h[c] \in Frame /\ cur \in [Timer -> Nat] /\ cmp \in [Timer -> Nat] /\ h[c].t \in Timer
  BY <1>1 DEF TimersInv, TimersType, HandlerOK, Frame
<1>3. cur[h[c].t] \in Nat
  BY <1>2
<1>4. /\ h'[c].pc = "arm" /\ h'[c].irq = h[c].irq /\ h'[c].t = h[c].t /\ h'[c].v = cur[h[c].t]
      /\ HandlerOK(c)' /\ h[c].t \notin h[c].irq /\ WithinHandler(c)
  BY <1>1, <1>2, <1>3, MoveFacts
<1>5. ASSUME NEW t \in Timer \ extra, Has(c, t) PROVE Phase(c, t)'
  <2>1. Phase(c, t) /\ Matched(t)' = Matched(t) /\ Ahead(t)' = Ahead(t)
    BY <1>1, <1>5, HasPhase DEF Matched, Ahead
  <2> QED  BY <1>1, <1>4, <1>5, <2>1 DEF Phase, Has
<1> QED  BY <1>4, <1>5, HandlerGoesOn

\* timer_ct = cur_val_t: the store.
LEMMA ArmStep ==
  ASSUME TimersInv, NEW c \in Cores, Arm(c)
  PROVE  TimersInv'
<1>1. /\ h[c].pc = "arm" /\ cmp' = [cmp EXCEPT ![h[c].t] = h[c].v] /\ Moves(c, "cs", 0)
      /\ UNCHANGED <<now, cs, cur, enabled, last, extra, lost>>
  BY DEF Arm, Goto, Moves
<1>2. h[c] \in Frame /\ cur \in [Timer -> Nat] /\ cmp \in [Timer -> Nat] /\ h[c].v \in Nat
  BY <1>1 DEF TimersInv, TimersType, HandlerOK
<1>3. /\ h'[c].pc = "cs" /\ h'[c].irq = h[c].irq /\ h'[c].t = h[c].t
      /\ HandlerOK(c)' /\ h[c].t \in Timer /\ h[c].t \notin h[c].irq
  BY <1>1, <1>2, MoveFacts
<1>4. cmp' \in [Timer -> Nat] /\ cmp'[h[c].t] = h[c].v /\ \A t \in Timer : t # h[c].t => cmp'[t] = cmp[t]
  BY <1>1, <1>2, <1>3
<1>5. WithinHandler(c)
  BY <1>1, <1>2, <1>4, MoveFacts DEF Has
<1>6. ASSUME NEW t \in Timer \ extra, Has(c, t) PROVE Phase(c, t)'
  <2>1. Phase(c, t) /\ Matched(t)' = Matched(t) /\ Ahead(t)' = Ahead(t)
    BY <1>1, <1>6, HasPhase DEF Matched, Ahead
  <2> QED  BY <1>1, <1>3, <1>4, <1>6, <2>1 DEF Phase, Has
<1> QED  BY <1>3, <1>5, <1>6, HandlerGoesOn

\* timer_cs |= bit: the load.
LEMMA ReadCsStep ==
  ASSUME TimersInv, NEW c \in Cores, ReadCs(c)
  PROVE  TimersInv'
<1>1. /\ h[c].pc = "cs" /\ Moves(c, "ack", cs)
      /\ UNCHANGED <<now, cs, cmp, cur, enabled, last, extra, lost>>
  BY DEF ReadCs, Goto, Moves
<1>2. cur \in [Timer -> Nat] /\ cmp \in [Timer -> Nat] /\ cs \in SUBSET Timer
  BY DEF TimersInv, TimersType
<1>3. /\ h'[c].pc = "ack" /\ h'[c].irq = h[c].irq /\ h'[c].t = h[c].t
      /\ HandlerOK(c)' /\ h[c].t \notin h[c].irq /\ WithinHandler(c)
  BY <1>1, <1>2, MoveFacts
<1>4. ASSUME NEW t \in Timer \ extra, Has(c, t) PROVE Phase(c, t)'
  <2>1. Phase(c, t) /\ Matched(t)' = Matched(t) /\ Ahead(t)' = Ahead(t)
    BY <1>1, <1>4, HasPhase DEF Matched, Ahead
  <2> QED  BY <1>1, <1>3, <1>4, <2>1 DEF Phase, Has
<1> QED  BY <1>3, <1>4, HandlerGoesOn

\* Core c takes what is pending: what another core already has becomes extra.
LEMMA EnterIrqStep ==
  ASSUME TimersInv, NEW c \in Cores, EnterIrq(c)
  PROVE  TimersInv'
<1> DEFINE f == [Out EXCEPT !.pc = "loop", !.irq = Pending, !.since = now]
<1>1. /\ h[c].pc = "out" /\ h' = [h EXCEPT ![c] = f] /\ extra' = extra \cup {t \in Pending : Handled(t)}
      /\ UNCHANGED <<now, cs, cmp, cur, enabled, last, lost>>
  BY DEF EnterIrq, Goto
<1>2. /\ h \in [Cores -> Frame] /\ HandlerOK(c) /\ cur \in [Timer -> Nat] /\ cmp \in [Timer -> Nat]
      /\ now \in Nat /\ Pending \subseteq Timer /\ last \in [Timer -> Nat]
  BY DEF TimersInv, TimersType, Pending
<1>3. /\ f.pc = "loop" /\ f.irq = Pending /\ f.t = 0 /\ f.since = now /\ f \in Frame
  BY <1>2 DEF Out, Frame
<1> HIDE DEF f
<1>4. h'[c] = f /\ h' \in [Cores -> Frame] /\ \A d \in Cores \ {c} : h'[d] = h[d]
  BY <1>1, <1>2, <1>3
<1>5. TimersType'
  BY <1>1, <1>4 DEF TimersInv, TimersType
<1>6. ASSUME NEW d \in Cores PROVE HandlerOK(d)'
  <2>1. CASE d = c
    <3>1. now - now = 0 /\ now <= now /\ 0 <= MaxLate /\ (enabled = {} => Pending = {}) /\ 0 \notin Pending
      BY <1>2, WordAssumption DEF Pending, Timer
    <3> QED  BY <2>1, <3>1, <1>1, <1>3, <1>4 DEF HandlerOK
  <2>2. CASE d # c
    BY <2>2, <1>1, <1>4 DEF TimersInv, HandlerOK
  <2> QED  BY <2>1, <2>2
<1>7. ASSUME NEW t \in Timer \ extra' PROVE TimerOK(t)'
  <2>1. t \in Timer \ extra /\ TimerOK(t) /\ (t \in Pending => ~Handled(t)) /\ t # 0
    BY <1>1 DEF TimersInv, Timer
  <2>2. ~Has(c, t) /\ (Has(c, t)' <=> t \in Pending) /\ \A d \in Cores \ {c} : Has(d, t)' <=> Has(d, t)
    BY <1>1, <1>2, <1>3, <1>4, <2>1 DEF Has, HandlerOK
  <2>3. Matched(t)' = Matched(t) /\ Ahead(t)' = Ahead(t) /\ last'[t] = last[t] /\ cur'[t] = cur[t] /\ cmp'[t] = cmp[t]
    BY <1>1 DEF Matched, Ahead
  <2>4. CASE t \in Pending
    <3>1. \A d \in Cores : Has(d, t)' => d = c
      BY <2>1, <2>2, <2>4 DEF Handled, Has
    <3>2. /\ last[t] <= now /\ now - last[t] <= MaxLate /\ cur[t] = Matched(t) /\ cmp[t] = Matched(t) /\ last[t] > 0
      BY <2>1, <2>4 DEF TimerOK, InRest, Pending
    <3>3. Phase(c, t)'
      BY <1>3, <1>4, <2>1, <2>3, <3>2 DEF Phase
    <3>4. InHand(t)'
      BY <1>3, <1>4, <2>3, <3>1, <3>2, <3>3 DEF InHand
    <3>5. Handled(t)'
      BY <2>2, <2>4 DEF Handled, Has
    <3>6. InRest(t)'
      BY <1>1, <2>4, <3>5 DEF InRest, Waiting, Pending
    <3>7. OneHandler(t)'
      BY <3>1 DEF OneHandler
    <3> QED  BY <1>1, <3>2, <3>4, <3>6, <3>7 DEF TimerOK
  <2>5. CASE t \notin Pending
    <3>1. \A d \in Cores : Has(d, t)' <=> Has(d, t)
      BY <2>2, <2>5
    <3>2. (Handled(t)' <=> Handled(t)) /\ OneHandler(t)'
      BY <2>1, <3>1 DEF Handled, Has, TimerOK, OneHandler
    <3>3. ASSUME NEW d \in Cores, Has(d, t)
          PROVE  h'[d] = h[d] /\ Phase(d, t)'
      <4>1. h'[d] = h[d]
        BY <1>4, <2>2, <3>3
      <4>2. Phase(d, t)
        BY <2>1, <3>3, HasPhase
      <4> QED  BY <2>3, <4>1, <4>2 DEF Phase
    <3>4. InHand(t)'
      BY <1>1, <2>1, <3>1, <3>3 DEF InHand, TimerOK
    <3>5. (t \notin Pending)' /\ (Waiting(t)' <=> Waiting(t))
      BY <1>1, <2>5, <3>2 DEF Waiting, Pending
    <3>6. InRest(t)'
      BY <1>1, <2>1, <2>3, <3>2, <3>5 DEF InRest, TimerOK
    <3> QED  BY <1>1, <2>1, <3>2, <3>4, <3>6 DEF TimerOK
  <2> QED  BY <2>4, <2>5
<1> QED  BY <1>5, <1>6, <1>7 DEF TimersInv

\* Core c lets go of its timer, and what it clears with it is lost.
LEMMA AckStep ==
  ASSUME TimersInv, NEW c \in Cores, Ack(c)
  PROVE  TimersInv'
<1> DEFINE f == [h[c] EXCEPT !.pc = "loop", !.v = 0, !.t = 0]
<1>1. /\ h[c].pc = "ack" /\ h' = [h EXCEPT ![c] = f] /\ cs' = cs \ (h[c].v \cup {h[c].t})
      /\ lost' = lost \cup {t \in Pending \ cs' : ~Handled(t)}
      /\ UNCHANGED <<now, cmp, cur, enabled, last, extra>>
  BY DEF Ack, Goto
<1>2. /\ h \in [Cores -> Frame] /\ h[c] \in Frame /\ HandlerOK(c) /\ now \in Nat /\ last \in [Timer -> Nat]
      /\ cs \subseteq Timer /\ enabled \in {{}, Timer}
  BY DEF TimersInv, TimersType
<1>3. f.pc = "loop" /\ f.irq = h[c].irq /\ f.t = 0 /\ f.since = h[c].since /\ f \in Frame
  BY <1>2 DEF Frame
<1> HIDE DEF f
<1>4. h'[c] = f /\ h' \in [Cores -> Frame] /\ \A d \in Cores \ {c} : h'[d] = h[d]
  BY <1>1, <1>2, <1>3
<1>5. h[c].t \in Timer /\ h[c].t \notin h[c].irq /\ enabled = Timer /\ 0 \notin Timer
  BY <1>1, <1>2 DEF HandlerOK, Frame, Timer
<1>6. TimersType'
  BY <1>1, <1>4 DEF TimersInv, TimersType
<1>7. ASSUME NEW d \in Cores PROVE HandlerOK(d)'
  <2>1. CASE d = c
    BY <2>1, <1>1, <1>2, <1>3, <1>4, <1>5 DEF HandlerOK, Frame
  <2>2. CASE d # c
    BY <2>2, <1>1, <1>4 DEF TimersInv, HandlerOK
  <2> QED  BY <2>1, <2>2
<1>8. ASSUME NEW t \in Timer \ extra' PROVE TimerOK(t)'
  <2>1. t \in Timer \ extra /\ TimerOK(t)
    BY <1>1 DEF TimersInv
  <2>2. Matched(t)' = Matched(t) /\ Ahead(t)' = Ahead(t) /\ last'[t] = last[t] /\ cur'[t] = cur[t] /\ cmp'[t] = cmp[t]
    BY <1>1 DEF Matched, Ahead
  <2>3. \A d \in Cores \ {c} : Has(d, t)' <=> Has(d, t)
    BY <1>4 DEF Has
  <2>4. h'[0].pc # "out" => h[0].pc # "out" /\ h'[0].since = h[0].since
    BY <1>1, <1>3, <1>4, CoresAssumption
  <2>5. CASE t = h[c].t
    <3>1. Has(c, t) /\ Phase(c, t) /\ last[t] <= h[c].since /\ h[c].since - last[t] <= MaxLate /\ last[t] > 0
      BY <2>1, <2>5 DEF Has, TimerOK, InHand
    <3>2. \A d \in Cores : ~Has(d, t)'
      BY <1>3, <1>4, <1>5, <2>1, <2>3, <2>5, <3>1 DEF Has, TimerOK, OneHandler
    <3>3. ~Handled(t)' /\ OneHandler(t)' /\ InHand(t)'
      BY <3>2 DEF Handled, Has, OneHandler, InHand
    <3>4. cur[t] = Ahead(t) /\ cmp[t] = Ahead(t)
      BY <1>1, <2>5, <3>1 DEF Phase
    <3>5. now < last[t] + Period[t]
      <4>1. h[c].since \in Nat /\ now - h[c].since <= MaxLate
        BY <1>1, <1>2 DEF HandlerOK, Frame
      <4> QED  BY <1>2, <3>1, <4>1, PeriodFacts
    <3>6. InRest(t)'
      BY <1>1, <1>5, <2>2, <2>5, <3>1, <3>3, <3>4, <3>5 DEF InRest, Pending
    <3> QED  BY <1>1, <2>1, <3>3, <3>6 DEF TimerOK
  <2>6. CASE t # h[c].t
    <3>1. \A d \in Cores : Has(d, t)' <=> Has(d, t)
      BY <1>3, <1>4, <1>5, <2>3, <2>6 DEF Has
    <3>2. (Handled(t)' <=> Handled(t)) /\ OneHandler(t)'
      BY <2>1, <3>1 DEF Handled, Has, TimerOK, OneHandler
    <3>3. ASSUME NEW d \in Cores, Has(d, t)
          PROVE  h'[d].since = h[d].since /\ Phase(d, t)'
      <4>1. h'[d].since = h[d].since
        BY <1>3, <1>4
      <4>2. Phase(d, t)
        BY <2>1, <3>3, HasPhase
      <4>3. CASE d = c
        BY <1>1, <1>3, <1>4, <1>5, <2>2, <2>6, <3>3, <4>2, <4>3 DEF Phase, Has
      <4>4. CASE d # c
        BY <1>4, <2>2, <4>2, <4>4 DEF Phase
      <4> QED  BY <4>1, <4>3, <4>4
    <3>4. InHand(t)'
      BY <1>1, <2>1, <3>1, <3>3 DEF InHand, TimerOK
    <3>5. (t \in Pending' => t \in Pending) /\ (t \in cs' => t \in cs) /\ t \in enabled'
      BY <1>1, <1>5, <2>1 DEF Pending
    <3>6. Waiting(t)' /\ t \notin lost' => Waiting(t) /\ t \notin lost
      BY <1>1, <1>5, <3>2 DEF Waiting, Pending
    <3>7. InRest(t)'
      BY <1>1, <2>1, <2>2, <2>4, <3>2, <3>5, <3>6 DEF InRest, TimerOK
    <3> QED  BY <1>1, <2>1, <3>2, <3>4, <3>7 DEF TimerOK
  <2> QED  BY <2>5, <2>6
<1> QED  BY <1>6, <1>7, <1>8 DEF TimersInv

\* A core that has no timer left leaves handle_irq.
LEMMA LeaveStep ==
  ASSUME TimersInv, NEW c \in Cores, Leave(c)
  PROVE  TimersInv'
<1>1. /\ h[c].pc = "loop" /\ h[c].irq = {} /\ h' = [h EXCEPT ![c] = Out]
      /\ UNCHANGED <<now, cs, cmp, cur, enabled, last, extra, lost>>
  BY DEF Leave, Goto
<1>2. h \in [Cores -> Frame] /\ HandlerOK(c)
  BY DEF TimersInv, TimersType
<1>3. Out.pc = "out" /\ Out.irq = {} /\ Out.t = 0 /\ Out \in Frame
  BY DEF Out, Frame
<1>4. h'[c] = Out /\ h' \in [Cores -> Frame] /\ \A d \in Cores \ {c} : h'[d] = h[d]
  BY <1>1, <1>2, <1>3
<1>5. TimersType'
  BY <1>1, <1>4 DEF TimersInv, TimersType
<1>6. ASSUME NEW d \in Cores PROVE HandlerOK(d)'
  <2>1. CASE d = c
    BY <2>1, <1>3, <1>4 DEF HandlerOK
  <2>2. CASE d # c
    BY <2>2, <1>1, <1>4 DEF TimersInv, HandlerOK
  <2> QED  BY <2>1, <2>2
<1>7. ASSUME NEW t \in Timer \ extra' PROVE TimerOK(t)'
  <2>1. t \in Timer \ extra /\ TimerOK(t) /\ t # 0
    BY <1>1 DEF TimersInv, Timer
  <2>2. Matched(t)' = Matched(t) /\ Ahead(t)' = Ahead(t)
    BY <1>1 DEF Matched, Ahead
  <2>3. ~Has(c, t) /\ \A d \in Cores : Has(d, t)' <=> Has(d, t)
    BY <1>1, <1>2, <1>3, <1>4, <2>1 DEF Has, HandlerOK
  <2>4. (Handled(t)' <=> Handled(t)) /\ OneHandler(t)'
    BY <2>1, <2>3 DEF Handled, Has, TimerOK, OneHandler
  <2>5. ASSUME NEW d \in Cores, Has(d, t)
        PROVE  h'[d] = h[d] /\ Phase(d, t)'
    <3>1. h'[d] = h[d]
      BY <1>4, <2>3, <2>5
    <3>2. Phase(d, t)
      BY <2>1, <2>5, HasPhase
    <3> QED  BY <1>1, <2>2, <3>1, <3>2 DEF Phase
  <2>6. InHand(t)'
    BY <1>1, <2>1, <2>3, <2>5 DEF InHand, TimerOK
  <2>7. h'[0].pc # "out" => h'[0] = h[0]
    BY <1>3, <1>4, CoresAssumption
  <2>8. (t \in Pending' <=> t \in Pending) /\ (Waiting(t)' <=> Waiting(t))
    BY <1>1, <2>4 DEF Pending, Waiting
  <2>9. InRest(t)'
    BY <1>1, <2>1, <2>2, <2>4, <2>7, <2>8 DEF InRest, TimerOK
  <2> QED  BY <1>1, <2>1, <2>4, <2>6, <2>9 DEF TimerOK
<1> QED  BY <1>5, <1>6, <1>7 DEF TimersInv

\* Timer 1 is set, timer 3 left alone; a match from before counts as extra.
LEMMA SysTimerInitStep ==
  ASSUME TimersInv, SysTimerInit
  PROVE  TimersInv'
<1>1. PICK read \in {now, now - 1} \cap Nat :
        /\ cur' = [cur EXCEPT ![1] = Low(read + CLOCKHZ)]
        /\ cmp' = [cmp EXCEPT ![1] = Low(read + CLOCKHZ)]
        /\ last' = [last EXCEPT ![1] = read]
  BY DEF SysTimerInit
<1>2. enabled = {} /\ enabled' = Timer /\ extra' = extra \cup cs /\ UNCHANGED <<now, cs, h, lost>>
  BY DEF SysTimerInit
<1>3. /\ now \in Nat /\ cs \subseteq Timer /\ last \in [Timer -> Nat] /\ cmp \in [Timer -> Nat]
      /\ cur \in [Timer -> Nat] /\ h \in [Cores -> Frame]
  BY DEF TimersInv, TimersType
<1>4. read \in Nat /\ read <= now /\ now - read <= 1 /\ 1 \in Timer
  BY <1>3 DEF Timer
<1>5. Low(read + CLOCKHZ) \in Nat
  <2>1. read + CLOCKHZ \in Int
    BY <1>4, WordAssumption
  <2> QED  BY <2>1, LowFacts
<1>6. TimersType'
  BY <1>1, <1>2, <1>3, <1>4, <1>5 DEF TimersType
<1>7. ASSUME NEW c \in Cores PROVE HandlerOK(c)'
  BY <1>2 DEF TimersInv, HandlerOK, Timer
<1>8. ASSUME NEW t \in Timer \ extra' PROVE TimerOK(t)'
  <2>1. t \in Timer \ extra /\ TimerOK(t) /\ t \notin cs /\ t # 0
    BY <1>2 DEF TimersInv, Timer
  <2>2. \A c \in Cores : ~Has(c, t)'
    BY <1>2, <2>1 DEF TimersInv, HandlerOK, Has
  <2>3. ~Handled(t) /\ ~Handled(t)' /\ OneHandler(t)' /\ InHand(t)'
    BY <1>2, <2>2 DEF Handled, Has, OneHandler, InHand
  <2>4. cmp[t] = 0 /\ cur[t] = 0 /\ last[t] = 0
    <3>1. last[t] \in Nat
      BY <1>3
    <3> QED  BY <1>2, <2>1, <2>3, <3>1 DEF TimerOK, InRest
  <2>5. CASE t = 1
    <3>1. last'[t] = read /\ cmp'[t] = Low(read + CLOCKHZ) /\ cur'[t] = cmp'[t]
      BY <1>1, <1>3, <1>4, <2>5
    <3>2. cmp'[t] = Ahead(t)' /\ Period[1] = CLOCKHZ
      BY <2>5, <3>1, <1>4, PeriodFacts DEF Ahead
    <3>3. now < read + Period[t]
      BY <1>3, <1>4, <2>5, PeriodFacts
    <3>4. InRest(t)'
      BY <1>2, <2>1, <2>3, <2>5, <3>1, <3>2, <3>3 DEF InRest, Pending
    <3> QED  BY <1>2, <1>4, <2>3, <3>1, <3>4 DEF TimerOK
  <2>6. CASE t # 1
    <3>1. last'[t] = 0 /\ cmp'[t] = 0 /\ cur'[t] = 0
      BY <1>1, <1>3, <2>4, <2>6
    <3>2. InRest(t)'
      BY <1>2, <2>1, <2>3, <2>6, <3>1 DEF InRest, Pending
    <3> QED  BY <1>2, <1>3, <2>3, <3>1, <3>2 DEF TimerOK
  <2> QED  BY <2>5, <2>6
<1> QED  BY <1>6, <1>7, <1>8 DEF TimersInv

\* The local timer, the cores' own timers and the sleeping process use nothing
\* of this.
LEMMA TimersApart ==
  ASSUME TimersInv, UNCHANGED <<now, cs, cmp, cur, enabled, h, last, extra, lost>>
  PROVE  TimersInv'
<1>1. TimersType' /\ \A c \in Cores : HandlerOK(c)'
  BY DEF TimersInv, TimersType, HandlerOK
<1>2. ASSUME NEW t \in Timer \ extra PROVE TimerOK(t)'
  <2>1. TimerOK(t)
    BY DEF TimersInv
  <2>2. OneHandler(t)' /\ InHand(t)'
    BY <2>1 DEF TimerOK, OneHandler, InHand, Has, Phase, Matched, Ahead
  <2>3. InRest(t)'
    BY <2>1 DEF TimerOK, InRest, Handled, Pending, Waiting, Matched, Ahead
  <2> QED  BY <2>1, <2>2, <2>3 DEF TimerOK
<1> QED  BY <1>1, <1>2 DEF TimersInv

LEMMA TimersStep ==
  ASSUME TimersInv, [Next]_vars
  PROVE  TimersInv'
<1>1. CASE Tick
  BY <1>1, TickStep
<1>2. CASE SysTimerInit
  BY <1>2, SysTimerInitStep
<1>3. CASE LocalTimerExpires
  BY <1>3, TimersApart DEF LocalTimerExpires
<1>4. ASSUME NEW c \in Cores, LocalTimerInit(c) \/ CoreTimerExpires(c) PROVE TimersInv'
  BY <1>4, TimersApart DEF LocalTimerInit, CoreTimerExpires
<1>5. ASSUME NEW c \in Cores, Handler(c) PROVE TimersInv'
  BY <1>5, EnterIrqStep, LoadCurStep, StoreCurStep, ReloadCurStep, ArmStep, ReadCsStep, AckStep, LeaveStep DEF Handler
<1>6. ASSUME UNCHANGED <<now, tvars>> PROVE TimersInv'
  BY <1>6, TimersApart DEF tvars
<1>7. ASSUME NEW d \in Delay, Sleep(d) PROVE TimersInv'
  BY <1>6, <1>7 DEF Sleep
<1>8. ASSUME NEW first \in {"low", "high"}, ReadFirst(first) PROVE TimersInv'
  BY <1>6, <1>8 DEF ReadFirst
<1>9. CASE SleepStart \/ SleepTest \/ SleepReturn
  BY <1>6, <1>9 DEF SleepStart, SleepTest, SleepReturn
<1>10. CASE UNCHANGED vars
  BY <1>6, <1>10 DEF vars
<1> QED  BY <1>1, <1>2, <1>3, <1>4, <1>5, <1>7, <1>8, <1>9, <1>10 DEF Next

\* For any number of cores: a timer whose matches are handled one by one, and
\* not cleared by the other's handler, always has its next match ahead (the
\* handlers of timer.c:39-57, entered from irq.c:19).
THEOREM TimerGoesOn == Spec => []TimerStaysArmed
<1>1. ASSUME TimersInv PROVE TimerStaysArmed
  <2>1. SUFFICES ASSUME NEW t \in Timer \ (extra \cup lost), Waiting(t)
                 PROVE  Low(cmp[t] - now) \in 1 .. Period[t] \/ (t = 3 /\ last[3] = 0 /\ cmp[3] = 0)
    BY DEF TimerStaysArmed
  <2>2. /\ last[t] <= now /\ last[t] \in Nat /\ now \in Nat
        /\ IF t = 1 \/ last[t] > 0 THEN cmp[t] = Ahead(t) /\ now < last[t] + Period[t] ELSE cmp[t] = 0
    BY <1>1, <2>1 DEF TimersInv, TimersType, TimerOK, InRest
  <2>3. CASE t = 1 \/ last[t] > 0
    <3> DEFINE m == 0 - now
               n == (last[t] + Period[t]) - now
    <3>1. Period[t] \in Nat /\ Period[t] < Word /\ Word \in Nat
      BY PeriodFacts
    <3>2. /\ cmp[t] = Ahead(t) /\ m \in Int /\ n \in 1 .. Period[t] /\ n \in Nat /\ n < Word
          /\ last[t] + Period[t] \in Int /\ (last[t] + Period[t]) + m = n
      BY <2>2, <2>3, <3>1
    <3>3. Ahead(t) \in Int /\ Ahead(t) + m = Ahead(t) - now
      <4>1. Ahead(t) \in Int
        BY <3>2, LowFacts DEF Ahead
      <4> QED  BY <2>2, <4>1
    <3> HIDE DEF m, n
    <3>4. Low(Ahead(t) + m) = Low((last[t] + Period[t]) + m)
      BY <3>2, LowAdd DEF Ahead
    <3>5. Low(n) = n
      BY <3>2, LowSmall
    <3> QED  BY <3>2, <3>3, <3>4, <3>5
  <2>4. CASE ~(t = 1 \/ last[t] > 0)
    BY <2>2, <2>4 DEF Timer
  <2> QED  BY <2>3, <2>4
<1> QED  BY TimersInitially, TimersStep, <1>1, PTL DEF Spec

\* "Timer 1 will go off every 1 second" (timer.c:33), for any number of cores,
\* any second and any width of the registers, as long as one core handles each
\* match: however late it does, the next one is a period after the last.
THEOREM MatchesEverySecond == Spec => []EverySecond
<1>1. ASSUME TimersInv PROVE EverySecond
  <2>1. SUFFICES ASSUME NEW t \in Timer \ (extra \cup lost), Waiting(t), last[t] > 0
                 PROVE  cmp[t] = Low(last[t] + Period[t]) /\ cur[t] = cmp[t]
    BY DEF EverySecond
  <2> QED  BY <1>1, <2>1 DEF TimersInv, TimerOK, InRest, Waiting, Ahead
<1> QED  BY TimersInitially, TimersStep, <1>1, PTL DEF Spec
=============================================================================
