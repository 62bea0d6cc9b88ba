-------------------------------- MODULE Rtc --------------------------------
(* devices/rtc.c: reading the clock chip's registers while it counts, and     *)
(* turning what was read into seconds since 1970.  Registers hold BCD bytes.  *)
EXTENDS Integers, Sequences, FiniteSetsExt

CONSTANTS
  Starts,      \* what the clock may show when the read begins
  MaxTicks     \* seconds that may pass during a read, fewer than a minute

VARIABLES
  clock,       \* the chip: <<sec, min, hour, mday, mon, year>>
  shown,       \* everything the clock has shown since the read began
  got,         \* the local variables read so far, in the registers' order
  time         \* what rtc_get_time() returned, or NotYet

vars == <<clock, shown, got, time>>

NotYet == -1
days_per_month == <<31, 28, 31, 30, 31, 30, 31, 31, 30, 31, 30, 31>>

\* The chip's calendar: a year in two digits, leap years every four.
MonthDays(mon, year) == IF mon = 2 /\ year % 4 = 0 THEN 29 ELSE days_per_month[mon]

\* One second later: the first field that does not overflow counts, the fields
\* before it start again.
After(c) ==
  LET last == <<59, 59, 23, MonthDays(c[5], c[6]), 12, 99>>
      first == <<0, 0, 0, 1, 1, 0>>
      k == Min({i \in 1 .. 6 : c[i] < last[i]} \cup {6})
  IN  [i \in 1 .. 6 |-> IF i < k THEN first[i] ELSE IF i > k THEN c[i]
                        ELSE IF c[i] < last[i] THEN c[i] + 1 ELSE first[i]]

Bcd(n) == 16 * (n \div 10) + (n % 10)

bcd_to_bin(x) == (x % 16) + 10 * (x \div 16)

\* The register's byte, converted.
cmos_read(i) == bcd_to_bin(Bcd(clock[i]))
-----------------------------------------------------------------------------
Init ==
  /\ clock \in Starts
  /\ shown = {clock}
  /\ got = <<>>
  /\ time = NotYet

Tick ==
  /\ time = NotYet
  /\ Cardinality(shown) <= MaxTicks
  /\ clock' = After(clock)
  /\ shown' = shown \cup {After(clock)}
  /\ UNCHANGED <<got, time>>

Read ==
  /\ Len(got) < 6
  /\ got' = Append(got, cmos_read(Len(got) + 1))
  /\ UNCHANGED <<clock, shown, time>>

Day == 24 * 60 * 60

\* The components in seconds, for years since 1970.
Seconds(sec, min, hour, mday, mon, since) ==
  LET months == FoldSet(LAMBDA i, n : n + days_per_month[i], 0, 1 .. mon)
  IN  (since * 365 + (IF since = 0 THEN 0 ELSE (since - 1) \div 4) + months + (IF mon > 2 /\ since % 4 = 0 THEN 1 ELSE 0) + (mday - 1)) * Day
      + hour * 3600 + min * 60 + sec

Since(year) == (IF year < 70 THEN year + 100 ELSE year) - 70

\* Faulty: accepts the components without looking at the seconds again.
CheckNot ==
  /\ Len(got) = 6 /\ time = NotYet
  /\ time' = Seconds(got[1], got[2], got[3], got[4], got[5], Since(got[6]))
  /\ UNCHANGED <<clock, shown, got>>

\* The loop's condition: starts again when the seconds have changed.
Check ==
  /\ Len(got) = 6 /\ time = NotYet
  /\ IF cmos_read(1) = got[1]
     THEN time' = Seconds(got[1], got[2], got[3], got[4], got[5], Since(got[6])) /\ UNCHANGED got
     ELSE got' = <<>> /\ UNCHANGED time
  /\ UNCHANGED <<clock, shown>>

Done == time # NotYet /\ UNCHANGED vars

Next == Tick \/ Read \/ Check \/ Done
Spec == Init /\ [][Next]_vars
-----------------------------------------------------------------------------
\* The components that are turned into a time were on the clock together, at
\* some moment of the read, although they are read one by one while it counts:
\* rtc.c:55-57, "We repeatedly read the time until it is stable".
ReadWhole == time # NotYet => got \in shown
=============================================================================
