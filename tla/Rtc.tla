-------------------------------- MODULE Rtc --------------------------------
(***************************************************************************)
(* The clock of the node (src/RAK811BreakBoard/rtc-board.c): milliseconds  *)
(* from a calendar that runs 2048 times too fast, so that a second of it   *)
(* is a tick of 125/256 ms, a month twenty minutes and a century 18 days,  *)
(* and an alarm by day of the month and time of day, at most 28 days away. *)
(*                                                                         *)
(* The chip counts ticks; its calendar goes from a day to the next.  The   *)
(* code goes the other way and adds up years and months.  Hours, minutes   *)
(* and seconds are one number: carrying them in base 60 and 24 is          *)
(* addition.  tick is the true time.                                       *)
(***************************************************************************)
EXTENDS Integers, Sequences, FiniteSetsExt

CONSTANTS
  MsNum, MsDen,          \* RTC_ALARM_TICK_DURATION: ms of a tick (125/256)
  SecondsInDay,
  DaysInMonth,
  DaysInMonthLeapYear,
  YearsInCentury,        \* 100, of which every fourth is a leap year
  MaxNumberOfDays,       \* RTC_ALARM_MAX_NUMBER_OF_DAYS (28)
  MaxTime,               \* 0xFFFFFFFF
  Starts,                \* bound: ticks at which a behaviour may start
  Horizon,               \* bound: ticks it may last
  Late                   \* bound: ticks that pass while the alarm is set

ASSUME RtcAssumption ==
  /\ {MsNum, MsDen, SecondsInDay, MaxNumberOfDays, MaxTime} \subseteq Nat \ {0}
  /\ DaysInMonth \in Seq(Nat \ {0})
  /\ DaysInMonthLeapYear \in Seq(Nat \ {0})
  /\ Len(DaysInMonthLeapYear) = Len(DaysInMonth)
  /\ DaysInMonth # <<>>
  /\ \A m \in DOMAIN DaysInMonth :
       /\ MaxNumberOfDays <= DaysInMonth[m]
       /\ MaxNumberOfDays <= DaysInMonthLeapYear[m]
  /\ YearsInCentury \in Nat \ {0} /\ YearsInCentury % 4 = 0
  /\ MsNum <= MsDen /\ MsDen <= SecondsInDay * MsNum
  /\ Starts \subseteq Nat /\ Horizon \in Nat /\ Late \in {0, 1}

VARIABLES
  tick,
  Century,
  CalendarRollOverReady,
  alarm,      \* RTC alarm A: day of the month and time of day, or Off
  context,    \* RtcCalendarContext: when it was set; not kept without an alarm
  until,      \* bound: the last tick of this behaviour
  ring        \* history: the tick the alarm was set for

rtcVars == <<tick, Century, CalendarRollOverReady, alarm, context, until, ring>>

Off == [date |-> -1, time |-> -1]
NoContext == [tick |-> 0, century |-> 0]

-----------------------------------------------------------------------------
(* Days of months and years; the sum of the first n numbers of f.          *)
MonthsOf(leap) == IF leap THEN DaysInMonthLeapYear ELSE DaysInMonth

SumUpTo(f, n) ==
  LET sum[i \in 0 .. n] == IF i = 0 THEN 0 ELSE sum[i - 1] + f[i]
  IN  sum[n]

DaysInYear ==
  [leap \in BOOLEAN |-> SumUpTo(MonthsOf(leap), Len(DaysInMonth))]

Years == [i \in Nat |-> DaysInYear[i = 1 \/ (i - 1) % 4 = 0]]

DaysInCentury == SumUpTo(Years, YearsInCentury)

(* The calendar of the chip: the day after a day.  HAL_RTC_GetDate and     *)
(* HAL_RTC_GetTime at t.                                                   *)
FirstDay == [year |-> 0, month |-> 1, date |-> 1]

MonthLength(cal) == MonthsOf(cal.year % 4 = 0)[cal.month]

NextMonth(cal) ==
  IF cal.month < Len(DaysInMonth)
  THEN [year |-> cal.year, month |-> cal.month + 1, date |-> 1]
  ELSE [year |-> (cal.year + 1) % YearsInCentury, month |-> 1, date |-> 1]

NextDay(cal) ==
  IF cal.date < MonthLength(cal) THEN [cal EXCEPT !.date = @ + 1]
                                 ELSE NextMonth(cal)

CalendarDay(n) ==
  LET day[i \in 0 .. n] == IF i = 0 THEN FirstDay ELSE NextDay(day[i - 1])
  IN  day[n]

CalendarDays == [n \in 0 .. DaysInCentury - 1 |-> CalendarDay(n)]

Calendar(t) == CalendarDays[(t \div SecondsInDay) % DaysInCentury]
TimeOfDay(t) == t % SecondsInDay

-----------------------------------------------------------------------------
Rounded(num, den) == (2 * num + den) \div (2 * den)

Ms(ticks) == Rounded(ticks * MsNum, MsDen)
Ticks(ms) == Rounded(ms * MsDen, MsNum)

Leap(year, century) == year = 0 \/ (year + century) % 4 = 0

(* RtcConvertCalendarTickToTimerTime of the calendar at t in a century:    *)
(* the days until then, and the ticks of the day.                          *)
Days(cal, century) ==
  SumUpTo(Years, cal.year + century)
    + SumUpTo(MonthsOf(Leap(cal.year, century)), cal.month - 1) + cal.date

TimerTime(t, century) ==
  Ms(Days(Calendar(t), century) * SecondsInDay + TimeOfDay(t))

(* A behaviour starts in the first century and ends before the time takes  *)
(* more than 32 bits.                                                      *)
ASSUME StartsAssumption ==
  \A t \in Starts :
    /\ t \div SecondsInDay < DaysInCentury
    /\ Ms(t + Horizon + SecondsInDay) <= MaxTime

(* Seeded fault: the mark is cleared as the century rolls over. *)
BugReady(year, ready) == year = YearsInCentury - 1

(* RtcCheckCalendarRollOver *)
Ready(year, ready) == ready \/ year = YearsInCentury - 1

RollsOver(year, ready) == Ready(year, ready) /\ year = 0

(* RtcGetCalendar, any number of times, at tick t: the first takes Century *)
(* before the others see it moved.                                         *)
ReadsClock(t) ==
  LET year == Calendar(t).year
      over == RollsOver(year, CalendarRollOverReady)
  IN  /\ Century' = IF over THEN Century + YearsInCentury ELSE Century
      /\ CalendarRollOverReady' = (Ready(year, CalendarRollOverReady) /\ ~over)

FirstTime == TimerTime(tick, Century)     \* TimerGetCurrentTime
NextTime == TimerTime(tick, Century')     \* the same, read again

(* RtcComputeElapsedTime and RtcGetElapsedAlarmTime *)
Since(now, time) ==
  IF now < time THEN now + (MaxTime - time) ELSE now - time

Elapsed(now, event) == IF event = 0 THEN 0 ELSE Since(now, event)

AlarmTime == TimerTime(context.tick, context.century)

-----------------------------------------------------------------------------
(* RtcComputeTimerTimeToAlarmTick: the ticks to wait; the compensation of  *)
(* errors (TimeoutValueError) may add one.                                 *)
MaxTimeout == (MaxNumberOfDays * SecondsInDay * MsNum) \div MsDen
Wait(timeout) ==
  LET ms == IF timeout < MaxTimeout THEN timeout ELSE MaxTimeout
  IN  Ticks(IF ms < 1 THEN 1 ELSE ms)

(* Seeded fault: every month has the days of a leap year. *)
BugLength(cal, century) == DaysInMonthLeapYear[cal.month]

Length(cal, century) == MonthsOf(Leap(cal.year, century))[cal.month]

Date(cal, days, century) ==
  IF days > Length(cal, century) THEN days % Length(cal, century) ELSE days

AlarmTick(wait, century) ==
  LET cal == Calendar(tick)
      time == TimeOfDay(tick) + wait
  IN  [date |-> Date(cal, cal.date + time \div SecondsInDay, century),
       time |-> time % SecondsInDay]

(* RtcStartWakeUpAlarm, with the clock read before if it was. *)
RtcSetTimeout(timeout, century) ==
  \E more \in {0, 1}, late \in 0 .. Late :
    /\ alarm' = AlarmTick(Wait(timeout) + more, Century')
    /\ context' = [tick |-> tick, century |-> century]
    /\ ring' = tick + Wait(timeout) + more
    /\ tick + late <= until
    /\ tick' = tick + late

NoAlarm == alarm' = Off /\ context' = NoContext /\ ring' = 0 /\ UNCHANGED tick

(* The alarm matches as the calendar gets to it. *)
Rings ==
  /\ tick > context.tick
  /\ alarm = [date |-> Calendar(tick).date, time |-> TimeOfDay(tick)]

(* The chip goes on; the interrupt of an alarm comes within the tick, and  *)
(* the node reads its clock at least once in a year of the calendar (four  *)
(* hours): the timers of the application do.  It is the first and the last *)
(* year of a century that matter.                                          *)
Tick ==
  /\ tick < until /\ ~Rings
  /\ tick' = tick + 1
  /\ Calendar(tick').year # Calendar(tick).year =>
       CalendarRollOverReady = (Calendar(tick).year = YearsInCentury - 1)
  /\ UNCHANGED <<Century, CalendarRollOverReady, alarm, context, until, ring>>

RtcInit ==
  /\ tick \in Starts
  /\ Century = 0 /\ CalendarRollOverReady = FALSE
  /\ alarm = Off
  /\ context = NoContext
  /\ until = tick + Horizon /\ ring = 0

-----------------------------------------------------------------------------
(* The clock is right: read now, it is the true time (a day more, for the  *)
(* calendar starts at date 1), but for the first reading after the century *)
(* rolled over.                                                            *)
ClockRight ==
  \/ TimerTime(tick, Century) = Ms(tick + SecondsInDay)
  \/ RollsOver(Calendar(tick).year, CalendarRollOverReady)

(* An alarm is never missed, for then it would come a month later: at the  *)
(* end of a month, of a year, of February.  The exceptions: day 0, 28 days *)
(* from February 28 of a year of 365 days; and a day the next month has    *)
(* not, 28 days and a tick of compensation from the end of January 31.     *)
NeverComes ==
  LET cal == Calendar(context.tick)
  IN  \/ alarm.date = 0
      \/ MonthLength(NextMonth(cal)) < alarm.date /\ alarm.date < cal.date

AlarmInTime == alarm # Off => tick <= ring \/ NeverComes
=============================================================================
