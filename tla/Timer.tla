------------------------------- MODULE Timer -------------------------------
(* devices/timer.c: calibration of the delay loop, then sleeps and delays of  *)
(* several threads.  PerTick, the number of loops the machine runs in a tick, *)
(* is what timer_calibrate() has to find out.  The powers of two the code     *)
(* starts and stops at (1 << 10, high_bit >> 10) are constants.               *)
EXTENDS Integers, FiniteSetsExt

CONSTANTS
  Thread,
  Speeds,      \* the possible values of PerTick
  First,       \* timer_calibrate()'s first value of loops_per_tick, 1 << 10
  Refine,      \* high_bit / Refine is the last value of test_bit: 1 << 10
  Wrap,        \* unsigned arithmetic is modulo Wrap
  Freq,        \* TIMER_FREQ
  Thousand,    \* 1000
  Requests     \* <<num, denom>>: sleeps for num/denom seconds

VARIABLES
  perTick,         \* loops in a tick on this machine
  loops_per_tick,
  test_bit, high_bit,
  phase,           \* of timer_calibrate(): "double", "refine", "done"
  part,            \* loops since the last tick
  sleeper          \* per thread: what it sleeps for and since when

cal == <<perTick, loops_per_tick, test_bit, high_bit, phase>>
vars == <<cal, part, sleeper>>

MaxPassed == 1 + Max({(p * r[1] * Freq) \div r[2] + p : p \in Speeds, r \in Requests})

Awake == [mode |-> "awake"]
-----------------------------------------------------------------------------
Init ==
  /\ perTick \in Speeds
  /\ loops_per_tick = First
  /\ test_bit = 0 /\ high_bit = 0
  /\ phase = "double"
  /\ part = 0
  /\ sleeper = [t \in Thread |-> Awake]

\* Waits for a tick, then runs loops loops: the tick count changes if they take
\* until the next tick.
too_many_loops(loops) == loops >= perTick

Double ==
  /\ phase = "double"
  /\ IF ~too_many_loops((2 * loops_per_tick) % Wrap)
     THEN /\ loops_per_tick' = (2 * loops_per_tick) % Wrap
          /\ UNCHANGED <<test_bit, high_bit, phase>>
     ELSE /\ high_bit' = loops_per_tick
          /\ test_bit' = loops_per_tick \div 2
          /\ phase' = "refine"
          /\ UNCHANGED loops_per_tick
  /\ UNCHANGED <<perTick, part, sleeper>>

\* Each bit is tried together with high_bit alone.
RefineBit ==
  /\ phase = "refine" /\ test_bit # high_bit \div Refine
  /\ loops_per_tick' = IF too_many_loops(high_bit + test_bit) THEN loops_per_tick ELSE loops_per_tick + test_bit
  /\ test_bit' = test_bit \div 2
  /\ UNCHANGED <<perTick, high_bit, phase, part, sleeper>>

Refined ==
  /\ phase = "refine" /\ test_bit = high_bit \div Refine
  /\ phase' = "done"
  /\ UNCHANGED <<perTick, loops_per_tick, test_bit, high_bit, part, sleeper>>
-----------------------------------------------------------------------------
\* The number of loops of a delay of num/denom seconds.
DelayLoops(num, denom) == (((loops_per_tick * num) \div Thousand) * Freq) \div (denom \div Thousand)

\* timer_msleep(), timer_usleep(), timer_nsleep(): whole ticks are slept in
\* timer_sleep(), which reads the clock first; less than one is busy-waited.
\* elapsed stands for ticks - start; passed counts the loops that time took.
real_time_sleep(t, num, denom) ==
  LET n == (num * Freq) \div denom
  IN  /\ phase = "done"
      /\ sleeper[t] = Awake
      /\ sleeper' = [sleeper EXCEPT ![t] =
           [mode |-> IF n > 0 THEN "sleep" ELSE "delay", num |-> num, denom |-> denom, ticks |-> n,
            loops |-> IF n > 0 THEN 0 ELSE DelayLoops(num, denom), elapsed |-> 0, passed |-> 0]]
      /\ UNCHANGED <<cal, part>>

\* Faulty: waits for the exact tick.
timer_sleep_exact(t) ==
  /\ sleeper[t].mode = "sleep" /\ sleeper[t].elapsed = sleeper[t].ticks
  /\ sleeper' = [sleeper EXCEPT ![t].mode = "slept"]
  /\ UNCHANGED <<cal, part>>

\* The loop of timer_sleep() ends; until then it yields.
timer_sleep(t) ==
  /\ sleeper[t].mode = "sleep" /\ sleeper[t].elapsed >= sleeper[t].ticks
  /\ sleeper' = [sleeper EXCEPT ![t].mode = "slept"]
  /\ UNCHANGED <<cal, part>>

busy_wait(t) ==
  /\ sleeper[t].mode = "delay" /\ sleeper[t].loops = 0
  /\ sleeper' = [sleeper EXCEPT ![t].mode = "delayed"]
  /\ UNCHANGED <<cal, part>>

\* The time of one loop passes, for a busy-waiting thread on the CPU (in run) or
\* for other code; timer_interrupt() counts a tick at the end of one.  Sleepers
\* count no further than they will ever look.
Loop(run) ==
  /\ phase = "done"
  /\ \E t \in Thread : sleeper[t] # Awake
  /\ \A t \in run : sleeper[t] # Awake /\ sleeper[t].mode = "delay" /\ sleeper[t].loops > 0
  /\ part' = (part + 1) % perTick
  /\ sleeper' = [t \in Thread |->
       IF sleeper[t] = Awake THEN Awake
       ELSE [sleeper[t] EXCEPT !.loops = IF t \in run THEN @ - 1 ELSE @,
                               !.elapsed = IF part + 1 = perTick THEN Min({@ + 1, sleeper[t].ticks + 1}) ELSE @,
                               !.passed = Min({@ + 1, MaxPassed})]]
  /\ UNCHANGED cal

Return(t) ==
  /\ sleeper[t].mode \in {"slept", "delayed"}
  /\ sleeper' = [sleeper EXCEPT ![t] = Awake]
  /\ UNCHANGED <<cal, part>>

Run(t) == busy_wait(t) \/ Return(t) \/ Loop({t})
Next ==
  \/ Double \/ RefineBit \/ Refined
  \/ Loop({})
  \/ \E t \in Thread : Run(t) \/ timer_sleep(t) \/ \E r \in Requests : real_time_sleep(t, r[1], r[2])

Spec == Init /\ [][Next]_vars
-----------------------------------------------------------------------------
\* What calibration may lose: the bits below the last one it tries.
Least == perTick - perTick \div (Refine \div 2) - 1

\* A sleep of whole ticks ends no sooner than one tick short of them (it starts
\* within a tick), a shorter one no sooner than the loops of that time, less the
\* rounding of calibration and division: timer.c:51-65, 95, 245.
NotShort ==
  \A t \in Thread :
    /\ sleeper[t].mode = "slept" => sleeper[t].passed > (sleeper[t].ticks - 1) * perTick
    /\ sleeper[t].mode = "delayed" =>
         LET s == sleeper[t]
             unit == s.denom \div Thousand
         IN  (s.passed + 1) * unit + Freq >= (Least * s.num * Freq) \div Thousand
=============================================================================
