---------------------------- MODULE TimerService ----------------------------
(***************************************************************************)
(* What lib/system_utils/inc/timer.h promises its callers, without the     *)
(* delta list and without the RTC alarm: a set of armed one-shot timers,   *)
(* each with the time left before it may fire.                             *)
(*                                                                         *)
(* A timer never fires before the interval it was started with has passed  *)
(* (less the wake-up compensation that arming the alarm takes off), and a  *)
(* timer that stays armed does fire.                                       *)
(***************************************************************************)
EXTENDS Naturals

CONSTANTS
  Timers,         \* the timer objects
  Values,         \* the intervals callers ask for, in ms
  McuWakeUpTime   \* ms taken off an interval, at most twice per arming

VARIABLES
  armed,    \* timers started, neither stopped nor fired yet
  due       \* ms left before an armed timer may fire; 0 when not armed

svars == <<armed, due>>

(* The deadlines d, c ms later. *)
Lapse(d, c) == [t \in Timers |-> IF d[t] > c THEN d[t] - c ELSE 0]

(* Every operation may re-arm the alarm and so take compensation off. *)
Compensated(d) == \E c \in 0 .. 2 * McuWakeUpTime : due' = Lapse(d, c)

Init ==
  /\ armed = {}
  /\ due = [t \in Timers |-> 0]

Start(t) ==
  /\ t \notin armed
  /\ armed' = armed \cup {t}
  /\ \E v \in Values : Compensated([due EXCEPT ![t] = v])

Stop(t) ==
  /\ t \in armed
  /\ armed' = armed \ {t}
  /\ Compensated([due EXCEPT ![t] = 0])

Fire(t) ==
  /\ t \in armed
  /\ due[t] = 0
  /\ armed' = armed \ {t}
  /\ UNCHANGED due

Elapse ==
  /\ due' = Lapse(due, 1)
  /\ UNCHANGED armed

Rearm ==
  /\ Compensated(due)
  /\ UNCHANGED armed

Next ==
  \/ \E t \in Timers : Start(t) \/ Stop(t) \/ Fire(t)
  \/ Elapse
  \/ Rearm

Fairness == \A t \in Timers : WF_svars(Fire(t))

Spec == Init /\ [][Next]_svars /\ Fairness

=============================================================================
