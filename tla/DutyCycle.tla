----------------------------- MODULE DutyCycle -----------------------------
(***************************************************************************)
(* When a frame may be sent: ScheduleTx and OnRadioTxDone of               *)
(* src/mac/LoRaMac.c, the back-off and time off of bands (RegionCommon.c,  *)
(* RegionEU868.c), on the clock of Rtc, whose alarm wakes the one timer    *)
(* that matters here, TxDelayedTimer (the list of timers is TimerList).    *)
(*                                                                         *)
(* A band stands for its channels: they are all on and take the data rate, *)
(* and all can be drawn.  The duty cycle is on.  Frames have lengths only. *)
(***************************************************************************)
EXTENDS Rtc

CONSTANTS
  DCycle,       \* of each band: one part in DCycle
  JoinBands,    \* the bands of EU868_JOIN_CHANNELS
  Band0,        \* the band of channel 0
  JoinDc,       \* RegionCommonGetJoinDc
  AirTimes,     \* time on air of frames, in ms
  MaxDCycles    \* what the network may ask for (DUTY_CYCLE_REQ)

(* EU868_JOIN_CHANNELS are in the band of channel 0; AggregatedDCycle has  *)
(* 16 bits.                                                                *)
ASSUME DutyCycleAssumption ==
  /\ DCycle \in Seq(Nat \ {0})
  /\ Band0 \in DOMAIN DCycle /\ JoinBands = {Band0}
  /\ JoinDc \in Nat
  /\ AirTimes \subseteq Nat
  /\ MaxDCycles \subseteq 0 .. 15

Bands == DOMAIN DCycle

VARIABLES
  IsLoRaMacNetworkJoined,
  MaxDCycle,
  LastTxDoneTime, LastJoinTxDoneTime, TimeOff,   \* of each band
  AggregatedTimeOff, AggregatedLastTxDoneTime,
  TxTimeOnAir,
  LastTxBand,     \* the band of LastTxChannel
  sending,        \* the band of the frame on the air, or None
  Timestamp,      \* TxDelayedTimer: ms to wait since the alarm was set, or None
  rest,           \* history: the tick until which a band must rest
  latest          \* history: the tick by which the delayed frame must go

macVars == <<IsLoRaMacNetworkJoined, MaxDCycle, LastTxDoneTime,
             LastJoinTxDoneTime, TimeOff, AggregatedTimeOff,
             AggregatedLastTxDoneTime, TxTimeOnAir, LastTxBand, sending,
             Timestamp, rest, latest>>

vars == <<rtcVars, macVars>>

None == -1

AggregatedDCycle(max) == 2 ^ max

(* After LoRaMacInitialization, or long after a join on the band of        *)
(* channel 0.                                                              *)
Init ==
  /\ RtcInit
  /\ IsLoRaMacNetworkJoined \in BOOLEAN
  /\ MaxDCycle = 0
  /\ LastTxDoneTime = [b \in Bands |->
       IF IsLoRaMacNetworkJoined /\ b = Band0 THEN 1 ELSE 0]
  /\ LastJoinTxDoneTime = LastTxDoneTime
  /\ TimeOff = [b \in Bands |-> 0]
  /\ AggregatedTimeOff = 0
  /\ AggregatedLastTxDoneTime = LastTxDoneTime[Band0]
  /\ TxTimeOnAir \in IF IsLoRaMacNetworkJoined THEN AirTimes ELSE {0}
  /\ LastTxBand = Band0
  /\ sending = None /\ Timestamp = None
  /\ rest = [b \in Bands |-> 0] /\ latest = 0

-----------------------------------------------------------------------------
(* RegionCommonCalcBackOff: the time off of the band used last. *)
BackOff(joined, band) ==
  LET dc == IF joined THEN DCycle[band] ELSE Max({DCycle[band], JoinDc})
  IN  TxTimeOnAir * dc - TxTimeOnAir

(* CalculateBackOff.  ScheduleTx clears the old value if MaxDCycle is 0.   *)
Aggregated(max) ==
  (IF max = 0 THEN 0 ELSE AggregatedTimeOff)
    + (TxTimeOnAir * AggregatedDCycle(max) - TxTimeOnAir)

(* Seeded fault: a data frame is not counted when the device joins. *)
BugSinceTx(b, joined, now) == Elapsed(now, LastJoinTxDoneTime[b])

(* RegionCommonUpdateBandTimeOff: the time a band has rested, ... *)
SinceTx(b, joined, now) ==
  IF joined THEN Elapsed(now, LastTxDoneTime[b])
            ELSE Max({Elapsed(now, LastJoinTxDoneTime[b]),
                      Elapsed(now, LastTxDoneTime[b])})

(* ... and its time off, 0 when it is over. *)
(* Seeded fault: what is left of it, which may be less than nothing. *)
BugLeft(off, since) == off - since

Left(off, since) == IF off <= since THEN 0 ELSE off

(* CountNbOfEnabledChannels: the bands of the channels that may be used.   *)
Usable(joined) == IF joined THEN Bands ELSE JoinBands

(* ScheduleTx: the frame goes on one of the open bands, or TxDelayedTimer  *)
(* is set to the time the first of the closed ones opens.                  *)
Send(b, off) ==
  /\ sending' = b
  /\ TxTimeOnAir' \in AirTimes
  /\ TimeOff' = off
  /\ Timestamp' = None
  /\ NoAlarm /\ latest' = 0 /\ UNCHANGED until

(* The time until a band opens, any that is closed. *)
Closed(off, now, joined) ==
  {off[b] - SinceTx(b, joined, now) : b \in {x \in Bands : off[x] # 0}}

(* Seeded fault: the frame is put off until the last band opens. *)
BugDelay(off, now, joined) == Max(Closed(off, now, joined))

Delay(off, now, joined) == Min(Closed(off, now, joined))

(* The time until a channel of the frame is open, at least the time wait.  *)
Needed(off, now, joined, wait) ==
  Max({wait, Min({off[b] - SinceTx(b, joined, now) : b \in Usable(joined)})})

(* Ticks by which a delay may be longer than promised: both ends of it are *)
(* rounded, and so is the alarm, which may be set again for the rest.      *)
Slack == 2 + Late

PutOff(delay, off, needed, again) ==
  /\ Timestamp' = delay
  /\ TimeOff' = off
  /\ RtcSetTimeout(delay, Century')
  /\ latest' = IF again THEN latest ELSE tick + Ticks(needed) + Slack
  /\ UNCHANGED <<until, sending, TxTimeOnAir>>

ScheduleTx(joined, again) ==
  LET off1 == [TimeOff EXCEPT ![LastTxBand'] = BackOff(joined, LastTxBand')]
      now == NextTime
      aggrOff == Aggregated(MaxDCycle')
      aggr == Elapsed(now, AggregatedLastTxDoneTime)
      off2 == [b \in Bands |-> Left(off1[b], SinceTx(b, joined, now))]
      open == {b \in Usable(joined) : off2[b] = 0}
  IN  /\ ReadsClock(tick)
      /\ IF aggrOff <= aggr
         THEN /\ AggregatedTimeOff' = 0
              /\ IF open # {}
                 THEN \E b \in open : Send(b, off2)
                 ELSE PutOff(Delay(off2, now, joined), off2,
                             Needed(off2, now, joined, 0), again)
         ELSE /\ AggregatedTimeOff' = aggrOff
              /\ PutOff(aggrOff - aggr, off1,
                        Needed(off1, now, joined, aggrOff - aggr), again)
      /\ UNCHANGED <<LastTxDoneTime, LastJoinTxDoneTime,
                     AggregatedLastTxDoneTime>>

Idle == sending = None /\ Timestamp = None

(* A data frame of the session. *)
McpsRequest ==
  /\ Idle /\ IsLoRaMacNetworkJoined
  /\ UNCHANGED <<IsLoRaMacNetworkJoined, MaxDCycle, LastTxBand, rest>>
  /\ ScheduleTx(TRUE, FALSE)

(* A join request: ResetMacParameters, then ScheduleTx without the limit   *)
(* of the network.  LastTxChannel becomes 0: the time off of the last      *)
(* frame replaces that of the band of channel 0, and its own band is not   *)
(* charged.                                                                *)
MlmeJoin ==
  /\ Idle
  /\ IsLoRaMacNetworkJoined' = FALSE
  /\ MaxDCycle' = 0
  /\ LastTxBand' = Band0
  /\ ScheduleTx(FALSE, FALSE)
  /\ rest' = IF LastTxBand = Band0 THEN rest
             ELSE [rest EXCEPT ![LastTxBand] = 0, ![Band0] = 0]

(* OnRadioTxDone *)
OnRadioTxDone ==
  LET now == FirstTime
      off == TxTimeOnAir * DCycle[sending] - TxTimeOnAir
      stale == RollsOver(Calendar(tick).year, CalendarRollOverReady)
  IN  /\ sending # None
      /\ ReadsClock(tick)
      /\ LastTxDoneTime' = [LastTxDoneTime EXCEPT ![sending] = now]
      /\ LastJoinTxDoneTime' =
           IF IsLoRaMacNetworkJoined THEN LastJoinTxDoneTime
           ELSE [LastJoinTxDoneTime EXCEPT ![sending] = now]
      /\ AggregatedLastTxDoneTime' = now
      /\ LastTxBand' = sending
      /\ sending' = None
      /\ rest' = [rest EXCEPT ![sending] =
                    IF stale THEN 0 ELSE tick + ((off - 1) * MsDen) \div MsNum]
      /\ UNCHANGED <<tick, alarm, context, until, ring, IsLoRaMacNetworkJoined,
                     MaxDCycle, TimeOff, AggregatedTimeOff, TxTimeOnAir,
                     Timestamp, latest>>

(* OnRadioRxDone of a join accept, and of a DUTY_CYCLE_REQ. *)
JoinAccepted ==
  /\ Idle /\ ~IsLoRaMacNetworkJoined
  /\ LastJoinTxDoneTime[LastTxBand] # 0
  /\ IsLoRaMacNetworkJoined' = TRUE
  /\ UNCHANGED <<rtcVars, MaxDCycle, LastTxDoneTime, LastJoinTxDoneTime,
                 TimeOff, AggregatedTimeOff, AggregatedLastTxDoneTime,
                 TxTimeOnAir, LastTxBand, sending, Timestamp, rest, latest>>

DutyCycleReq(max) ==
  /\ Idle /\ IsLoRaMacNetworkJoined
  /\ MaxDCycle' = max
  /\ UNCHANGED <<rtcVars, IsLoRaMacNetworkJoined, LastTxDoneTime,
                 LastJoinTxDoneTime, TimeOff, AggregatedTimeOff,
                 AggregatedLastTxDoneTime, TxTimeOnAir, LastTxBand, sending,
                 Timestamp, rest, latest>>

(* RTC_Alarm_IRQHandler, TimerIrqHandler: OnTxDelayedTimerEvent when the   *)
(* time is over, else the alarm is set for what is left.                   *)
Expired == Since(FirstTime, AlarmTime) >= Timestamp

OnTxDelayedTimerEvent ==
  /\ Rings /\ Expired
  /\ UNCHANGED <<IsLoRaMacNetworkJoined, MaxDCycle, LastTxBand, rest>>
  /\ ScheduleTx(IsLoRaMacNetworkJoined, TRUE)

Rearm ==
  /\ Rings /\ ~Expired
  /\ ReadsClock(tick)
  /\ Timestamp' = Timestamp - Since(FirstTime, AlarmTime)
  /\ RtcSetTimeout(Timestamp', Century')
  /\ UNCHANGED <<until, IsLoRaMacNetworkJoined, MaxDCycle, LastTxDoneTime,
                 LastJoinTxDoneTime, TimeOff, AggregatedTimeOff,
                 AggregatedLastTxDoneTime, TxTimeOnAir, LastTxBand, sending,
                 rest, latest>>

(* Any other part of the node looks at the clock. *)
ReadClock ==
  /\ ReadsClock(tick)
  /\ UNCHANGED <<tick, alarm, context, until, ring, macVars>>

TimePasses == Tick /\ UNCHANGED macVars

Next ==
  \/ McpsRequest \/ MlmeJoin \/ OnRadioTxDone
  \/ JoinAccepted \/ \E max \in MaxDCycles : DutyCycleReq(max)
  \/ OnTxDelayedTimerEvent \/ Rearm
  \/ ReadClock \/ TimePasses

Spec == Init /\ [][Next]_vars

-----------------------------------------------------------------------------
(* Types; a delayed frame has its alarm. *)
TypeOK ==
  /\ tick \in 0 .. until /\ Century \in Nat
  /\ CalendarRollOverReady \in BOOLEAN
  /\ IsLoRaMacNetworkJoined \in BOOLEAN /\ MaxDCycle \in MaxDCycles \cup {0}
  /\ \A b \in Bands : /\ LastTxDoneTime[b] \in 0 .. MaxTime
                      /\ LastJoinTxDoneTime[b] \in 0 .. MaxTime
                      /\ TimeOff[b] \in Nat
  /\ AggregatedTimeOff \in Nat /\ TxTimeOnAir \in AirTimes \cup {0}
  /\ LastTxBand \in Bands /\ sending \in Bands \cup {None}
  /\ Timestamp \in Nat \cup {None}
  /\ sending = None \/ Timestamp = None
  /\ (alarm # Off) = (Timestamp # None)

(* No band is used by a data frame before its time off is over, to the     *)
(* millisecond, whatever bands and frames came between, and however the    *)
(* calendar stands.  The exceptions: a frame that ends as the century      *)
(* rolls over is stamped a century early; a join forgets which band was    *)
(* used last; and join requests: see the maximum in SinceTx.               *)
DutyKept ==
  [][sending' # None /\ sending' # sending /\ IsLoRaMacNetworkJoined'
       => tick >= rest[sending']]_vars

(* A delayed frame goes as soon as one of its bands is open and the limit  *)
(* of the network passed, as they stood when it was asked for, unless the  *)
(* alarm never comes: the delay is "the time which must be waited to       *)
(* perform the next uplink" (RegionCommon.h:271).                          *)
SentInTime == Timestamp # None => tick <= latest \/ NeverComes
=============================================================================
