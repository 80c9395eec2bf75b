-------------------------------- MODULE Clock --------------------------------
(***************************************************************************)
(* The time of day: gettime and get_time (kern/kclock.c), which read the   *)
(* registers of the real-time clock one after the other while it runs, and *)
(* the conversions timestamp and mktime (inc/time.h).  The time goes from  *)
(* the timer interrupt to the programs through vsys (kern/trap.c,          *)
(* lib/vsyscall.c) and through sys_gettime.                                *)
(*                                                                         *)
(* MINUTE, HOUR and DAY are seconds, as in inc/time.h, with values that    *)
(* need not be those there.  The clock advances by a second at a time; a   *)
(* call of gettime takes much less than a second, so that the registers    *)
(* change at most once while they are read.  The clock counts 24 hours; in *)
(* that mode the correction of get_time for 12 hours leaves the hour as it *)
(* is.                                                                     *)
(***************************************************************************)
EXTENDS Integers, Sequences

CONSTANTS MINUTE, HOUR, DAY,    \* dividing each other
          Moments               \* dates [year, mon, mday] to start from

VARIABLE clk
\* now    : what the clock shows, as a struct tm
\* uip    : RTC_UPDATE_IN_PROGRESS
\* binary : RTC_BINARY
\* ticks  : updates in the present phase of gettime
\* pc     : what gettime does: "idle", "uip", "read"
\* regs   : registers read by the get_time in progress
\* times  : results of get_time so far in this call
\* seen   : times the clock has shown since the call
\* vsys   : result of the last call, or none

-----------------------------------------------------------------------------
(* inc/time.h                                                               *)

ISLEAP(y) == y % 400 = 0 \/ (y % 4 = 0 /\ y % 100 # 0)

Y2DAYS(y) == 365 * y + (y - 1) \div 4 - (y - 1) \div 100 + (y - 1) \div 400

M2DAYS(m, y) ==
  <<0, 31, 59, 90, 120, 151, 181, 212, 243, 273, 304, 334, 365>>[m + 1]
    + IF ISLEAP(y) /\ m > 1 THEN 1 ELSE 0

timestamp(tm) ==
  DAY * (Y2DAYS(tm.year) - Y2DAYS(1970) + M2DAYS(tm.mon, tm.year) + tm.mday - 1)
    + tm.hour * HOUR + tm.min * MINUTE + tm.sec

Least(S) == CHOOSE n \in S : \A k \in S : n <= k

mktime(time) ==
  LET year == Least({y \in 1970 + time \div (DAY * 366 + 1) .. 1971 + time \div (DAY * 365) :
                       time < DAY * (Y2DAYS(y + 1) - Y2DAYS(1970))})
      t == time - DAY * (Y2DAYS(year) - Y2DAYS(1970))
      mon == Least({m \in t \div (DAY * 32) .. 11 : t < DAY * M2DAYS(m + 1, year)})
      d == t - DAY * M2DAYS(mon, year)
  IN [year |-> year, mon |-> mon, mday |-> d \div DAY + 1,
      hour |-> (d % DAY) \div HOUR, min |-> (d % HOUR) \div MINUTE, sec |-> d % MINUTE]

-----------------------------------------------------------------------------
(* The clock: one second later, by the calendar of the years 1901 to 2099.  *)

DaysIn(m, y) == <<31, IF y % 4 = 0 THEN 29 ELSE 28, 31, 30, 31, 30, 31, 31, 30, 31, 30, 31>>[m + 1]

Second(tm) ==
  IF tm.sec + 1 < MINUTE THEN [tm EXCEPT !.sec = @ + 1]
  ELSE LET a == [tm EXCEPT !.sec = 0]
  IN IF a.min + 1 < HOUR \div MINUTE THEN [a EXCEPT !.min = @ + 1]
  ELSE LET b == [a EXCEPT !.min = 0]
  IN IF b.hour + 1 < DAY \div HOUR THEN [b EXCEPT !.hour = @ + 1]
  ELSE LET c == [b EXCEPT !.hour = 0]
  IN IF c.mday < DaysIn(c.mon, c.year) THEN [c EXCEPT !.mday = @ + 1]
  ELSE LET d == [c EXCEPT !.mday = 1]
  IN IF d.mon < 11 THEN [d EXCEPT !.mon = @ + 1] ELSE [d EXCEPT !.mon = 0, !.year = @ + 1]

Bin2Bcd(n) == (n \div 10) * 16 + (n % 10)
Stored(n) == IF clk.binary THEN n ELSE Bin2Bcd(n)

Register(r) ==
  CASE r = "sec"  -> Stored(clk.now.sec)
    [] r = "min"  -> Stored(clk.now.min)
    [] r = "hour" -> Stored(clk.now.hour)
    [] r = "day"  -> Stored(clk.now.mday)
    [] r = "mon"  -> Stored(clk.now.mon + 1)
    [] r = "year" -> Stored(clk.now.year % 100)
    [] r = "high" -> Stored(clk.now.year \div 100)

Init ==
  \E d \in Moments, b \in BOOLEAN, u \in BOOLEAN, s \in 0 .. MINUTE - 1 :
    clk = [now |-> [year |-> d.year, mon |-> d.mon, mday |-> d.mday, hour |-> DAY \div HOUR - 1,
                    min |-> HOUR \div MINUTE - 1, sec |-> s],
           uip |-> u, binary |-> b, ticks |-> 0, pc |-> "idle", regs |-> <<>>, times |-> <<>>,
           seen |-> {}, vsys |-> 0]

Announce == clk.pc # "idle" /\ ~clk.uip /\ clk' = [clk EXCEPT !.uip = TRUE]

Update ==
  /\ clk.pc # "idle" /\ clk.uip /\ clk.ticks = 0
  /\ LET now == Second(clk.now)
     IN clk' = [clk EXCEPT !.now = now, !.uip = FALSE, !.ticks = 1, !.seen = @ \cup {now}]

-----------------------------------------------------------------------------
(* kern/kclock.c                                                            *)

BCD2BIN(b) == (b % 16) + (b \div 16) * 10

RegisterOrder == <<"sec", "min", "hour", "day", "mon", "year", "high">>

get_time(regs) ==
  LET v == [i \in 1 .. 7 |-> IF clk.binary THEN regs[i] ELSE BCD2BIN(regs[i])]
  IN timestamp([sec |-> v[1], min |-> v[2], hour |-> v[3], mday |-> v[4],
                mon |-> v[5] - 1, year |-> v[6] + v[7] * 100])

(* The result of gettime, from the get_times so far, or one more is needed. *)
gettime_once(times) == [done |-> TRUE, time |-> times[1]]
gettime(times) ==
  CASE Len(times) = 2 -> [done |-> times[1] = times[2], time |-> times[1]]
    [] Len(times) = 3 -> [done |-> TRUE, time |-> times[3]]
    [] OTHER -> [done |-> FALSE, time |-> 0]

Call ==
  /\ clk.pc = "idle" /\ clk.vsys = 0
  /\ clk' = [clk EXCEPT !.pc = "uip", !.ticks = 0, !.seen = {clk.now}]

WaitForUpdate ==
  /\ clk.pc = "uip" /\ ~clk.uip
  /\ clk' = [clk EXCEPT !.pc = "read", !.ticks = 0]

(* cmos_read8 of the next register; after the last the time is made.        *)
cmos_read8 ==
  /\ clk.pc = "read"
  /\ LET regs == Append(clk.regs, Register(RegisterOrder[Len(clk.regs) + 1]))
         times == Append(clk.times, get_time(regs))
         res == gettime(times)
     IN clk' = IF Len(regs) < 7 THEN [clk EXCEPT !.regs = regs]
               ELSE IF ~res.done THEN [clk EXCEPT !.regs = <<>>, !.times = times]
               ELSE [clk EXCEPT !.regs = <<>>, !.times = <<>>, !.pc = "idle", !.vsys = res.time]

Next == Announce \/ Update \/ Call \/ WaitForUpdate \/ cmos_read8

-----------------------------------------------------------------------------
(* gettime returns a time that the clock showed during the call, although   *)
(* seven registers are read one by one and the clock may carry from second  *)
(* to year in between; and mktime takes that time back to the date, with    *)
(* every leap year (timestamp, mktime).                                     *)
TimeWasShown ==
  clk.pc = "idle" /\ clk.vsys # 0 => mktime(clk.vsys) \in clk.seen
=============================================================================
