------------------------------ MODULE TimerList ------------------------------
(***************************************************************************)
(* The software timers of lib/system_utils/src/timer.c over the one RTC    *)
(* alarm of rtc-board.c.                                                   *)
(*                                                                         *)
(* The linked list is a sequence, head first.  The Timestamp of the head   *)
(* counts from the last time the alarm was armed; the Timestamp of every   *)
(* other timer counts from the expiry of the one before it.  Time is kept  *)
(* relative: elapsed is the ms since RtcCalendarContext was saved, so that *)
(* no clock grows without bound.                                           *)
(*                                                                         *)
(* TimerStart and TimerStop run with interrupts disabled, so each is one   *)
(* step.  TimerIrqHandler does not: it is split where it calls back, and   *)
(* the callbacks, the main loop and the radio interrupts may all use the   *)
(* timers between two of its steps.  Steps finer than that are the subject *)
(* of TimerListRace.                                                       *)
(***************************************************************************)
EXTENDS Naturals, Sequences, SequencesExt

CONSTANTS
  Timers,         \* the timer objects
  Values,         \* the intervals, in ms, given to TimerSetValue
  MaxValue,       \* a bound on Values
  McuWakeUpTime,  \* ms from an alarm to its handler, when first measured
  LowPowerMin,    \* 50 in the code: no low power below this many ms
  Off             \* the RTC alarm is not armed

ASSUME TimerListAssumption ==
  /\ MaxValue \in Nat
  /\ Values \subseteq 1 .. MaxValue
  /\ Values # {}
  /\ McuWakeUpTime \in Nat
  /\ LowPowerMin \in Nat
  /\ Off \notin Nat

VARIABLES
  list,        \* TimerListHead and the Next pointers
  timestamp,   \* obj->Timestamp
  reload,      \* obj->ReloadValue
  running,     \* obj->IsRunning
  elapsed,     \* RtcGetElapsedAlarmTime( ), saturated at MaxValue
  alarmIn,     \* ms until the RTC alarm matches, or Off
  pending,     \* the alarm interrupt is pending
  irq,         \* "idle", or "loop" inside TimerIrqHandler
  wakeUpTime,  \* McuWakeUpTime, 0 until the first alarm measured it
  nonScheduled,\* NonScheduledWakeUp
  due          \* history: ms before a timer in the list may fire

vars == <<list, timestamp, reload, running, elapsed, alarmIn, pending, irq,
          wakeUpTime, nonScheduled, due>>

-----------------------------------------------------------------------------
Smaller(a, b) == IF a < b THEN a ELSE b

Lapse(d, c) == [t \in Timers |-> IF d[t] > c THEN d[t] - c ELSE 0]

(* Seeded fault: no test, every TimerStart links its timer. *)
BugExists(t) == FALSE

(* TimerExists *)
Exists(t) == t \in ToSet(list)

(* Seeded fault: without the guard the compensation takes more than there is. *)
BugRecovered(v) == IF nonScheduled THEN v - wakeUpTime ELSE v

(* RtcGetAdjustedTimeoutValue: the timeout actually armed for v ms. *)
Recovered(v) ==
  IF v > wakeUpTime /\ nonScheduled THEN v - wakeUpTime ELSE v

Adjusted(v) ==
  LET r == Recovered(v)
  IN  IF r > wakeUpTime /\ r >= LowPowerMin THEN r - wakeUpTime ELSE r

(* TimerSetTimeout for the head h of the new list, whose Timestamp is v    *)
(* in ts.  The alarm is at least one tick away.  RtcStartWakeUpAlarm saves *)
(* the time elapsed counts from; an interrupt already pending stays so.    *)
SetTimeout(h, v, ts, d) ==
  LET a == Adjusted(v)
  IN  /\ timestamp' = [ts EXCEPT ![h] = a]
      /\ alarmIn' = IF a = 0 THEN 1 ELSE a
      /\ elapsed' = 0
      /\ nonScheduled' = (nonScheduled /\ ~(v > wakeUpTime))
      /\ due' = Lapse(d, v - a)

NoTimeout(ts, d) ==
  /\ timestamp' = ts
  /\ due' = d
  /\ UNCHANGED <<alarmIn, elapsed, nonScheduled>>

(* What is left of the head, as TimerStart and TimerStop compute it. *)
HeadRemaining ==
  LET h == Head(list)
  IN  IF running[h] THEN timestamp[h] - Smaller(elapsed, timestamp[h])
                    ELSE timestamp[h]

(* f holds aggregatedTimestamp of TimerInsertTimer at each timer. *)
SumsUp(f) ==
  /\ f[1] = HeadRemaining
  /\ \A i \in 2 .. Len(list) : f[i] = f[i - 1] + timestamp[list[i]]

Aggregated == CHOOSE f \in [1 .. Len(list) -> 0 .. MaxValue] : SumsUp(f)

(* The timer after which one of v ms goes: behind those due no later. *)
InsertAfter(v) ==
  CHOOSE p \in 1 .. Len(list) :
    /\ \A i \in 2 .. p : Aggregated[i] <= v
    /\ p < Len(list) => Aggregated[p + 1] > v

-----------------------------------------------------------------------------
HeadMarked(t) ==
  IF list = <<>> THEN [running EXCEPT ![t] = TRUE]
  ELSE [running EXCEPT ![Head(list)] = FALSE, ![t] = TRUE]

(* TimerInsertNewHeadTimer: the old head, if any, is pushed back. *)
InsertNewHead(t) ==
  LET v == reload[t]
      old == IF list = <<>> THEN timestamp
             ELSE [timestamp EXCEPT ![Head(list)] = HeadRemaining - v]
  IN  /\ list # <<>> => v < HeadRemaining
      /\ list' = <<t>> \o list
      /\ running' = HeadMarked(t)
      /\ SetTimeout(t, v, old, [due EXCEPT ![t] = v])

(* The list with t linked behind its p-th timer, or its k-th one unlinked. *)
LinkedAfter(p, t) ==
  [i \in 1 .. Len(list) + 1 |-> IF i <= p THEN list[i]
                                ELSE IF i = p + 1 THEN t ELSE list[i - 1]]

Unlinked(k) ==
  [i \in 1 .. Len(list) - 1 |-> IF i < k THEN list[i] ELSE list[i + 1]]

(* TimerInsertTimer *)
InsertTimer(t) ==
  LET v == reload[t]
      p == InsertAfter(v)
      delta == v - Aggregated[p]
  IN  /\ list # <<>>
      /\ v >= HeadRemaining
      /\ list' = LinkedAfter(p, t)
      /\ running' = [running EXCEPT ![t] = FALSE]
      /\ NoTimeout([u \in Timers |->
                      IF u = t THEN delta
                      ELSE IF p < Len(list) /\ u = list[p + 1]
                           THEN timestamp[u] - delta
                      ELSE timestamp[u]],
                   [due EXCEPT ![t] = v])

(* TimerStart; it returns early when the timer is in the list already. *)
TimerStart(t) ==
  /\ ~Exists(t)
  /\ InsertNewHead(t) \/ InsertTimer(t)
  /\ UNCHANGED <<reload, pending, irq, wakeUpTime>>

(* TimerStop of the only timer: the alarm is left armed. *)
StopLast(t) ==
  /\ list = <<t>>
  /\ list' = <<>>
  /\ NoTimeout(timestamp, [due EXCEPT ![t] = 0])
  /\ UNCHANGED running

StopHead(t) ==
  /\ Len(list) > 1
  /\ t = Head(list)
  /\ LET n == list[2]
         v == timestamp[n] + HeadRemaining
         d == [due EXCEPT ![t] = 0]
     IN  /\ list' = Tail(list)
         /\ IF running[t]
            THEN /\ running' = [running EXCEPT ![t] = FALSE, ![n] = TRUE]
                 /\ SetTimeout(n, v, timestamp, d)
            ELSE /\ UNCHANGED running
                 /\ NoTimeout([timestamp EXCEPT ![n] = v], d)

(* Seeded fault: the delta is lost to the timers behind. *)
BugDeltaKept(i) == timestamp

(* Seeded fault: the delta of the timer before is handed on instead. *)
BugDeltaOfHead(i) ==
  IF i = Len(list) THEN timestamp
  ELSE [timestamp EXCEPT ![list[i + 1]] = @ + timestamp[list[i - 1]]]

(* The delta of the timer taken out goes to the one behind it. *)
DeltaKept(i) ==
  IF i = Len(list) THEN timestamp
  ELSE [timestamp EXCEPT ![list[i + 1]] = @ + timestamp[list[i]]]

StopWithin(t) ==
  \E i \in 2 .. Len(list) :
    /\ list[i] = t
    /\ list' = Unlinked(i)
    /\ NoTimeout(DeltaKept(i), [due EXCEPT ![t] = 0])
    /\ UNCHANGED running

(* TimerStop; a timer that is not in the list is left alone. *)
TimerStop(t) ==
  /\ Exists(t)
  /\ StopLast(t) \/ StopHead(t) \/ StopWithin(t)
  /\ UNCHANGED <<reload, pending, irq, wakeUpTime>>

(* TimerSetValue stops the timer, a TimerStop of its own, and then writes. *)
TimerSetValue(t) ==
  /\ ~Exists(t)
  /\ \E v \in Values :
       /\ timestamp' = [timestamp EXCEPT ![t] = v]
       /\ reload' = [reload EXCEPT ![t] = v]
  /\ UNCHANGED <<list, running, elapsed, alarmIn, pending, irq,
                 wakeUpTime, nonScheduled, due>>

-----------------------------------------------------------------------------
(* Seeded fault: any alarm taken for the expiry of the head. *)
BugDrained(h) == 0

(* What is left of the head h when the alarm interrupt is served. *)
Drained(h) == timestamp[h] - Smaller(elapsed, timestamp[h])

(* RTC_Alarm_IRQHandler up to the loop of TimerIrqHandler.  An interrupt   *)
(* served since the alarm matched has already taken the wake-up flag that  *)
(* RtcRecoverMcuStatus looks for.                                          *)
IrqEnter ==
  /\ irq = "idle"
  /\ pending
  /\ pending' = FALSE
  /\ alarmIn' = Off
  /\ IF list = <<>>
     THEN UNCHANGED <<irq, timestamp, running>>
     ELSE LET h == Head(list)
          IN  /\ irq' = "loop"
              /\ timestamp' = [timestamp EXCEPT ![h] = Drained(h)]
              /\ running' = [running EXCEPT ![h] = FALSE]
  /\ wakeUpTime' = McuWakeUpTime
  /\ nonScheduled' \in {nonScheduled, TRUE}
  /\ UNCHANGED <<list, reload, elapsed, due>>

(* One round of the loop: unlink the elapsed head and call back.  What the *)
(* callback does to the timers are steps of their own.                     *)
IrqPop ==
  /\ irq = "loop"
  /\ list # <<>>
  /\ timestamp[Head(list)] = 0
  /\ list' = Tail(list)
  /\ UNCHANGED <<timestamp, reload, running, elapsed, alarmIn, pending, irq,
                 wakeUpTime, nonScheduled, due>>

(* Seeded fault: forgets that an early alarm leaves the same, only timer at the head. *)
BugHeadWaits == Len(list) > 1 /\ ~running[Head(list)]

HeadWaits == list # <<>> /\ ~running[Head(list)]

(* The loop is over: restart the head, unless a callback started it. *)
IrqLeave ==
  /\ irq = "loop"
  /\ list # <<>> => timestamp[Head(list)] # 0
  /\ irq' = "idle"
  /\ IF HeadWaits
     THEN LET h == Head(list)
          IN  /\ running' = [running EXCEPT ![h] = TRUE]
              /\ SetTimeout(h, timestamp[h], timestamp, due)
     ELSE UNCHANGED <<running, timestamp, alarmIn, elapsed, nonScheduled, due>>
  /\ UNCHANGED <<list, reload, pending, wakeUpTime>>

(* A radio interrupt (EXTIx_IRQHandler) finds no wake-up flag set.         *)
OtherWakeUp ==
  /\ nonScheduled' = TRUE
  /\ UNCHANGED <<list, timestamp, reload, running, elapsed, alarmIn, pending,
                 irq, wakeUpTime, due>>

(* One ms: the alarm matches once and is then pending. *)
Tick ==
  /\ elapsed' = Smaller(elapsed + 1, MaxValue)
  /\ due' = Lapse(due, 1)
  /\ IF alarmIn = Off THEN UNCHANGED <<alarmIn, pending>>
     ELSE IF alarmIn = 1 THEN alarmIn' = Off /\ pending' = TRUE
     ELSE alarmIn' = alarmIn - 1 /\ UNCHANGED pending
  /\ UNCHANGED <<list, timestamp, reload, running, irq, wakeUpTime,
                 nonScheduled>>

Init ==
  /\ list = <<>>
  /\ timestamp = [t \in Timers |-> 0]
  /\ reload \in [Timers -> Values]
  /\ running = [t \in Timers |-> FALSE]
  /\ elapsed = 0
  /\ alarmIn = Off
  /\ pending = FALSE
  /\ irq = "idle"
  /\ wakeUpTime = 0
  /\ nonScheduled = FALSE
  /\ due = [t \in Timers |-> 0]

Next ==
  \/ \E t \in Timers : TimerStart(t) \/ TimerStop(t) \/ TimerSetValue(t)
  \/ IrqEnter \/ IrqPop \/ IrqLeave
  \/ OtherWakeUp
  \/ Tick

Safety == Init /\ [][Next]_vars

(* The clock runs, and the CPU serves the interrupt and leaves it. *)
Spec == Safety /\ WF_vars(Tick) /\ WF_vars(IrqEnter)
               /\ WF_vars(IrqPop) /\ WF_vars(IrqLeave)

-----------------------------------------------------------------------------
TypeOK ==
  /\ list \in Seq(Timers)
  /\ timestamp \in [Timers -> 0 .. MaxValue]
  /\ reload \in [Timers -> Values]
  /\ running \in [Timers -> BOOLEAN]
  /\ elapsed \in 0 .. MaxValue
  /\ alarmIn \in 1 .. MaxValue \cup {Off}
  /\ pending \in BOOLEAN
  /\ irq \in {"idle", "loop"}
  /\ wakeUpTime \in {0, McuWakeUpTime}
  /\ nonScheduled \in BOOLEAN
  /\ due \in [Timers -> 0 .. MaxValue]

(* No timer object is linked twice, whatever mix of callers starts it:     *)
(* the TimerExists test of TimerStart.  Linked twice, the list is a cycle. *)
NoDoubleLink == IsInjective(list)

(* Only the head of the list may be marked running, or its remaining time  *)
(* would be computed from an alarm armed for another timer.                *)
OnlyHeadRuns == \A i \in 2 .. Len(list) : ~running[list[i]]

(* A timer waits only if an interrupt is bound to come for it: outside     *)
(* the handler a non-empty list has a running head, whose alarm is armed   *)
(* for the moment its Timestamp is used up, or the interrupt is pending.   *)
AlarmServesHead ==
  irq = "idle" /\ list # <<>> =>
    /\ running[Head(list)]
    /\ \/ pending
       \/ /\ alarmIn # Off
          /\ \/ alarmIn + elapsed = timestamp[Head(list)]
             \/ timestamp[Head(list)] = 0 /\ alarmIn = 1

(* The sums of the deltas stay within the longest interval, so that no     *)
(* uint32_t of TimerInsertTimer wraps.                                     *)
NoOverflow ==
  list # <<>> => \E f \in [1 .. Len(list) -> 0 .. MaxValue] : SumsUp(f)

(* No timer fires early: what the list still holds back for a timer, the   *)
(* sum of the deltas up to it, covers what is left of its interval.        *)
NeverEarly ==
  list # <<>> => \A i \in 1 .. Len(list) : Aggregated[i] >= due[list[i]]

Service == INSTANCE TimerService WITH armed <- ToSet(list)

(* The list implements the timers of timer.h: a timer fires only once its  *)
(* interval is over, and while it stays armed it does fire.                *)
Implements == Service!Spec

=============================================================================
