---------------------------- MODULE TimerListRace ----------------------------
(***************************************************************************)
(* The loop of TimerIrqHandler in lib/system_utils/src/timer.c, pointer by *)
(* pointer.  The RTC alarm has priority 4 and the handler does not disable *)
(* interrupts, so the radio interrupts (priority 1, SX1276IoIrqInit) start *)
(* and stop timers between its loads and stores.  TimerStart and TimerStop *)
(* themselves run with interrupts disabled and are single steps.           *)
(*                                                                         *)
(* Time is left out: an alarm may come at any moment, and of a Timestamp    *)
(* only whether it is 0 is kept, which is all the loop looks at.  Where    *)
(* the deltas decide, every outcome some deltas have is taken.             *)
(***************************************************************************)
EXTENDS Naturals, Sequences, FiniteSets, SequencesExt

CONSTANTS
  Timers,    \* the timer objects
  NULL

ASSUME TimerListRaceAssumption ==
  /\ IsFiniteSet(Timers)
  /\ NULL \notin Timers

VARIABLES
  head,       \* TimerListHead
  next,       \* obj->Next; an unlinked timer keeps its old one
  expired,    \* the timers whose Timestamp is 0
  running,    \* the timers whose IsRunning is true
  pc,         \* where TimerIrqHandler is
  cur,        \* elapsedTimer, or the register it will be loaded from
  behind,     \* elapsedTimer->Next, loaded and not stored yet
  armed       \* history: started, and neither stopped nor called back since

vars == <<head, next, expired, running, pc, cur, behind, armed>>
handler == <<pc, cur, behind>>

-----------------------------------------------------------------------------
Count == Cardinality(Timers)

(* The i-th timer from the head, and the timers up to the first NULL. *)
Place ==
  LET at[i \in 1 .. Count + 1] ==
        IF i = 1 THEN head
        ELSE IF at[i - 1] = NULL THEN NULL ELSE next[at[i - 1]]
  IN  at

Chain ==
  LET n == Cardinality({i \in 1 .. Count : \A j \in 1 .. i : Place[j] # NULL})
  IN  [i \in 1 .. n |-> Place[i]]

(* Seeded fault: every start links its timer. *)
BugExists(t) == FALSE

(* TimerExists *)
Exists(t) == t \in ToSet(Chain)

(* Whether remainingTime of TimerStart and TimerStop may be 0, or not. *)
MayBeOver == head \in running \cup expired
MayRemain == head \notin expired

With(set, t, in) == IF in THEN set \cup {t} ELSE set \ {t}

(* TimerInsertTimer, behind the p-th timer: the sum of the deltas up to it *)
(* is at most the interval of t, the next sum is longer.  The delta of t   *)
(* is 0 if it is due with the timer before it.                             *)
Insert(t, p, due) ==
  LET q == next[Chain[p]]
  IN  /\ q # NULL => q \notin expired
      /\ due => MayRemain \/ \E i \in 2 .. p : Chain[i] \notin expired
      /\ next' = [next EXCEPT ![Chain[p]] = t, ![t] = q]
      /\ expired' = With(expired, t, due)
      /\ running' = running \ {t}
      /\ UNCHANGED head

(* TimerInsertNewHeadTimer: what remains of the old head is longer. *)
InsertNewHead(t) ==
  /\ head # NULL => MayRemain
  /\ head' = t
  /\ next' = [next EXCEPT ![t] = head]
  /\ expired' = expired \ {t}
  /\ running' = (running \ {head}) \cup {t}

TimerStart(t) ==
  /\ ~Exists(t)
  /\ \/ InsertNewHead(t)
     \/ \E p \in 1 .. Len(Chain), due \in BOOLEAN : Insert(t, p, due)
  /\ armed' = armed \cup {t}
  /\ UNCHANGED handler

(* q takes over what was left of the timer taken out before it. *)
TakesOver(q, over) == IF q \in expired /\ ~over THEN expired \ {q} ELSE expired

StopHead(t) ==
  /\ head' = next[t]
  /\ \/ MayBeOver /\ expired' = TakesOver(next[t], TRUE)
     \/ MayRemain /\ expired' = TakesOver(next[t], FALSE)
  /\ running' = IF t \in running /\ next[t] # NULL
                THEN (running \ {t}) \cup {next[t]} ELSE running
  /\ UNCHANGED next

StopWithin(t) ==
  \E i \in 2 .. Len(Chain) :
    /\ Chain[i] = t
    /\ next' = [next EXCEPT ![Chain[i - 1]] = next[t]]
    /\ expired' = TakesOver(next[t], t \in expired)
    /\ UNCHANGED <<head, running>>

TimerStop(t) ==
  /\ Exists(t)
  /\ IF t = head THEN StopHead(t) ELSE StopWithin(t)
  /\ armed' = armed \ {t}
  /\ UNCHANGED handler

-----------------------------------------------------------------------------
(* The early out. *)
IrqEnter ==
  /\ pc = "idle"
  /\ head # NULL
  /\ pc' = "charge"
  /\ UNCHANGED <<head, next, expired, running, cur, behind, armed>>

(* The elapsed time is taken off the head, whichever timer it is by now;   *)
(* it may have been stopped: writes through NULL are lost.                 *)
IrqCharge ==
  /\ pc = "charge"
  /\ pc' = "test"
  /\ IF head = NULL THEN UNCHANGED <<expired, running>>
     ELSE /\ expired' \in {expired, expired \cup {head}}
          /\ running' = running \ {head}
  /\ UNCHANGED <<head, next, cur, behind, armed>>

IrqTest ==
  /\ pc = "test"
  /\ pc' = IF head # NULL /\ head \in expired THEN "load" ELSE "leave"
  /\ cur' = head
  /\ UNCHANGED <<head, next, expired, running, behind, armed>>

(* TimerListHead is not volatile: it may be loaded again for the body, or  *)
(* not.  Loaded again as NULL it would be dereferenced; that is left out.  *)
IrqLoad ==
  /\ pc = "load"
  /\ pc' = "store"
  /\ cur' \in {cur, head} \ {NULL}
  /\ behind' = next[cur']
  /\ UNCHANGED <<head, next, expired, running, armed>>

(* What TimerListHead becomes. *)
Unlinked == behind

IrqStore ==
  /\ pc = "store"
  /\ pc' = "call"
  /\ head' = Unlinked
  /\ behind' = NULL
  /\ UNCHANGED <<next, expired, running, cur, armed>>

(* The callback; the timers it starts and stops are steps of their own. *)
IrqCall ==
  /\ pc = "call"
  /\ pc' = "test"
  /\ armed' = armed \ {cur}
  /\ cur' = NULL
  /\ UNCHANGED <<head, next, expired, running, behind>>

IrqLeave ==
  /\ pc = "leave"
  /\ pc' = "idle"
  /\ running' = IF head = NULL THEN running ELSE running \cup {head}
  /\ UNCHANGED <<head, next, expired, cur, behind, armed>>

Init ==
  /\ head = NULL
  /\ next = [t \in Timers |-> NULL]
  /\ expired = Timers
  /\ running = {}
  /\ pc = "idle"
  /\ cur = NULL
  /\ behind = NULL
  /\ armed = {}

Next ==
  \/ \E t \in Timers : TimerStart(t) \/ TimerStop(t)
  \/ IrqEnter \/ IrqCharge \/ IrqTest \/ IrqLoad \/ IrqStore \/ IrqCall
  \/ IrqLeave

Spec == Init /\ [][Next]_vars

-----------------------------------------------------------------------------
(* However the handler is preempted, its stale stores never close the list *)
(* into a cycle, on which TimerStart would walk forever with interrupts    *)
(* disabled: following Next from any timer ends.                           *)
EndsFrom(t) ==
  LET at[i \in 0 .. Count] ==
        IF i = 0 THEN t
        ELSE IF at[i - 1] = NULL THEN NULL ELSE next[at[i - 1]]
  IN  at[Count] = NULL

WalksEnd == \A t \in Timers : EndsFrom(t)

(* timer.h says of TimerStart that it "Starts and adds the timer object to *)
(* the list of timer events": between two alarms, every timer started and  *)
(* neither stopped nor called back is on the list.                         *)
ArmedIsLinked == pc = "idle" => armed \subseteq ToSet(Chain)

=============================================================================
