--------------------------- MODULE LoRaMacProofs ---------------------------
(***************************************************************************)
(* The state machine of the MAC for every number of trials and repetitions *)
(* and every choice of requests: its types, and that the session ends only *)
(* for a join request that was accepted, as long as the application makes  *)
(* no request of the MLME while another is owed (~Overlap).                *)
(*                                                                         *)
(* SessionKept is about the steps that reset the session, most of them in  *)
(* timers that decide by the flags of a request made long before.  What    *)
(* is inductive is that the flags say what is owed (FlagsOwed).  What      *)
(* becomes of a request is the second part of the module.                  *)
(*                                                                         *)
(* The third part is about the application on top, for every choice of     *)
(* commands, trials and outcomes.                                          *)
(***************************************************************************)
EXTENDS App, TLAPS

Booleans ==
  /\ AckReceived \in BOOLEAN
  /\ NodeAckRequested \in BOOLEAN
  /\ AckTimeoutRetry \in BOOLEAN
  /\ IsLoRaMacNetworkJoined \in BOOLEAN

Sets ==
  /\ LoRaMacState \subseteq {"TX_RUNNING", "TX_DELAYED", "RX_ABORT"}
  /\ LoRaMacFlags \subseteq
       {"McpsReq", "McpsInd", "McpsIndSkip", "MlmeReq", "MacDone"}
  /\ Armed \subseteq Timers
  /\ radio \in {"idle", "tx", "cw", "rx"}
  /\ check \in Steps
  /\ owed \subseteq {"MCPS", "JOIN", "LINK_CHECK", "TXCW"}

Values ==
  /\ RxSlot \in {0, 1}
  /\ mcpsStatus \in Statuses
  /\ mlmeStatus \in Statuses
  /\ MlmeRequest \in {"JOIN", "LINK_CHECK", "TXCW"}

Counters ==
  /\ AckTimeoutRetries \in AckTrials \cup {1}
  /\ AckTimeoutRetriesCounter \in 1 .. MAX_ACK_RETRIES + 1
  /\ ChannelsNbRepCounter \in Nat
  /\ JoinRequestTrials \in Nat
  /\ MaxJoinRequestTrials \in JoinTrials \cup {1}
  /\ UpLinkCounter \in Nat
  /\ unused \in Nat

FrameSet == [kind : DataKinds \cup {"JOIN"}, cnt : Nat, tries : Nat,
             aired : BOOLEAN, grown : BOOLEAN]

Frames == frame \in FrameSet

(* A flag of a request that is to be confirmed stands for one that is owed. *)
FlagsOwed ==
  /\ "McpsReq" \in LoRaMacFlags => "MCPS" \in owed
  /\ "MlmeReq" \in LoRaMacFlags => MlmeRequest \in owed

LEMMA Parts == TypeOK <=> Booleans /\ Sets /\ Values /\ Counters /\ Frames
BY Zenon DEF TypeOK, Booleans, Sets, Values, Counters, Frames,
             FrameSet

LEMMA InitParts ==
  Init => Booleans /\ Sets /\ Values /\ Counters /\ Frames /\ FlagsOwed
<1> SUFFICES ASSUME Init
             PROVE  Booleans /\ Sets /\ Values /\ Counters /\ Frames /\ FlagsOwed
  OBVIOUS
<1>1. Booleans
  BY Zenon DEF Init, Booleans
<1>2. Sets /\ FlagsOwed
  BY DEF Init, Sets, FlagsOwed, Timers, Steps
<1>3. Values
  BY DEF Init, Values, Statuses
<1>4. Counters
  BY LoRaMacAssumption DEF Init, Counters
<1>5. Frames
  BY DEF Init, Frames, FrameSet, DataKinds
<1> QED
  BY <1>1, <1>2, <1>3, <1>4, <1>5

LEMMA NextBooleans == Booleans /\ [Next]_vars => Booleans'
<1> SUFFICES ASSUME Booleans, [Next]_vars PROVE Booleans'
  OBVIOUS
<1> USE DEF Booleans, confirmVars, retryVars, joinVars, histVars
<1>1. ASSUME NEW kind \in DataKinds, NEW n \in AckTrials \cup {1},
             McpsRequest(kind, n)
      PROVE  Booleans'
  BY <1>1, Zenon DEF McpsRequest, ScheduleTx
<1>2. ASSUME NEW n \in JoinTrials, Join(n) PROVE Booleans'
  BY <1>2, Zenon DEF Join, ScheduleTx, ResetMacParameters
<1>3. CASE LinkCheck
  BY <1>3, Zenon DEF LinkCheck
<1>4. CASE TxContinuousWave
  BY <1>4, Zenon DEF TxContinuousWave
<1>5. CASE OnRadioTxDone
  BY <1>5, Zenon DEF OnRadioTxDone
<1>6. CASE OnRadioTxTimeout
  BY <1>6, Zenon DEF OnRadioTxTimeout
<1>7. CASE OnRadioRxDone
  BY <1>7, Zenon
  DEF OnRadioRxDone, RxRejected, RxJoinAccept, RxData, RxProprietary,
      PrepareRxDoneAbort, FrameAccepted
<1>8. ASSUME NEW late \in BOOLEAN, OnRadioRxFailed(late) PROVE Booleans'
  BY <1>8, Zenon DEF OnRadioRxFailed
<1>9. CASE CheckEnter
  BY <1>9, Zenon DEF CheckEnter, Ended
<1>10. CASE CheckReceived
  BY <1>10, Zenon DEF CheckReceived, CycleEnd
<1>11. CASE CheckReport
  BY <1>11, Zenon DEF CheckReport
<1>12. CASE CheckIndicate
  BY <1>12, Zenon DEF CheckIndicate, IndicationDone
<1>13. CASE CheckLeave
  BY <1>13, Zenon DEF CheckLeave, IndicationDone
<1>14. ASSUME NEW out \in SendOutcomes, CheckJoin(out) PROVE Booleans'
  BY <1>14, Zenon
  DEF CheckJoin, CycleEnd, SendAgain, ScheduleTx, ResetMacParameters
<1>15. ASSUME NEW out \in SendOutcomes, CheckRepeat(out) PROVE Booleans'
  BY <1>15, Zenon
  DEF CheckRepeat, CycleEnd, SendAgain, ScheduleTx, ResetMacParameters
<1>16. ASSUME NEW out \in SendOutcomes, CheckRetry(out) PROVE Booleans'
  BY <1>16, Zenon DEF CheckRetry, ScheduleTx, GiveUp, CycleEnd
<1>17. CASE OnRxWindow1TimerEvent
  BY <1>17, Zenon DEF OnRxWindow1TimerEvent
<1>18. CASE OnRxWindow2TimerEvent
  BY <1>18, Zenon DEF OnRxWindow2TimerEvent
<1>19. CASE OnAckTimeoutTimerEvent
  BY <1>19, Zenon DEF OnAckTimeoutTimerEvent
<1>20. ASSUME NEW out \in SendOutcomes, OnTxDelayedTimerEvent(out)
      PROVE  Booleans'
  BY <1>20, Zenon
  DEF OnTxDelayedTimerEvent, SendAgain, ScheduleTx, ResetMacParameters
<1>21. CASE UNCHANGED vars
  BY <1>21, Zenon DEF vars
<1> QED
  BY <1>1, <1>2, <1>3, <1>4, <1>5, <1>6, <1>7, <1>8, <1>9, <1>10, <1>11, <1>12,
     <1>13, <1>14, <1>15, <1>16, <1>17, <1>18, <1>19, <1>20, <1>21
  DEF Next, Application, Radio, Check

LEMMA NextSets == Sets /\ [Next]_vars => Sets'
<1> SUFFICES ASSUME Sets, [Next]_vars PROVE Sets'
  OBVIOUS
<1> USE DEF Sets, When, Timers, Steps, confirmVars, retryVars, joinVars, histVars
<1>1. ASSUME NEW kind \in DataKinds, NEW n \in AckTrials \cup {1},
             McpsRequest(kind, n)
      PROVE  Sets'
  BY <1>1 DEF McpsRequest, ScheduleTx
<1>2. ASSUME NEW n \in JoinTrials, Join(n) PROVE Sets'
  BY <1>2 DEF Join, ScheduleTx, ResetMacParameters
<1>3. CASE LinkCheck
  BY <1>3 DEF LinkCheck
<1>4. CASE TxContinuousWave
  BY <1>4 DEF TxContinuousWave
<1>5. CASE OnRadioTxDone
  BY <1>5 DEF OnRadioTxDone, WindowTimers
<1>6. CASE OnRadioTxTimeout
  BY <1>6 DEF OnRadioTxTimeout
<1>7. CASE OnRadioRxDone
  BY <1>7
  DEF OnRadioRxDone, RxRejected, RxJoinAccept, RxData, RxProprietary,
      PrepareRxDoneAbort, FrameAccepted
<1>8. ASSUME NEW late \in BOOLEAN, OnRadioRxFailed(late) PROVE Sets'
  BY <1>8 DEF OnRadioRxFailed
<1>9. CASE CheckEnter
  BY <1>9 DEF CheckEnter, Ended
<1>10. CASE CheckReceived
  BY <1>10 DEF CheckReceived, CycleEnd
<1>11. CASE CheckReport
  BY <1>11 DEF CheckReport
<1>12. CASE CheckIndicate
  BY <1>12 DEF CheckIndicate, IndicationDone
<1>13. CASE CheckLeave
  BY <1>13 DEF CheckLeave, IndicationDone
<1>14. ASSUME NEW out \in SendOutcomes, CheckJoin(out) PROVE Sets'
  BY <1>14 DEF CheckJoin, CycleEnd, SendAgain, ScheduleTx, ResetMacParameters
<1>15. ASSUME NEW out \in SendOutcomes, CheckRepeat(out) PROVE Sets'
  BY <1>15 DEF CheckRepeat, CycleEnd, SendAgain, ScheduleTx, ResetMacParameters
<1>16. ASSUME NEW out \in SendOutcomes, CheckRetry(out) PROVE Sets'
  BY <1>16 DEF CheckRetry, ScheduleTx, GiveUp, CycleEnd
<1>17. CASE OnRxWindow1TimerEvent
  BY <1>17 DEF OnRxWindow1TimerEvent
<1>18. CASE OnRxWindow2TimerEvent
  BY <1>18 DEF OnRxWindow2TimerEvent
<1>19. CASE OnAckTimeoutTimerEvent
  BY <1>19 DEF OnAckTimeoutTimerEvent
<1>20. ASSUME NEW out \in SendOutcomes, OnTxDelayedTimerEvent(out) PROVE Sets'
  BY <1>20 DEF OnTxDelayedTimerEvent, SendAgain, ScheduleTx, ResetMacParameters
<1>21. CASE UNCHANGED vars
  BY <1>21 DEF vars
<1> QED
  BY <1>1, <1>2, <1>3, <1>4, <1>5, <1>6, <1>7, <1>8, <1>9, <1>10, <1>11, <1>12,
     <1>13, <1>14, <1>15, <1>16, <1>17, <1>18, <1>19, <1>20, <1>21
  DEF Next, Application, Radio, Check

LEMMA NextValues == Values /\ [Next]_vars => Values'
<1> SUFFICES ASSUME Values, [Next]_vars PROVE Values'
  OBVIOUS
<1> USE DEF Values, Statuses, StatusAfter, When, confirmVars, retryVars, joinVars, histVars
<1>1. ASSUME NEW kind \in DataKinds, NEW n \in AckTrials \cup {1},
             McpsRequest(kind, n)
      PROVE  Values'
  BY <1>1 DEF McpsRequest, ScheduleTx
<1>2. ASSUME NEW n \in JoinTrials, Join(n) PROVE Values'
  BY <1>2 DEF Join, ScheduleTx, ResetMacParameters
<1>3. CASE LinkCheck
  BY <1>3 DEF LinkCheck
<1>4. CASE TxContinuousWave
  BY <1>4 DEF TxContinuousWave
<1>5. CASE OnRadioTxDone
  BY <1>5 DEF OnRadioTxDone
<1>6. CASE OnRadioTxTimeout
  BY <1>6 DEF OnRadioTxTimeout
<1>7. CASE OnRadioRxDone
  BY <1>7
  DEF OnRadioRxDone, RxRejected, RxJoinAccept, RxData, RxProprietary,
      PrepareRxDoneAbort, FrameAccepted
<1>8. ASSUME NEW late \in BOOLEAN, OnRadioRxFailed(late) PROVE Values'
  BY <1>8 DEF OnRadioRxFailed
<1>9. CASE CheckEnter
  BY <1>9 DEF CheckEnter, Ended
<1>10. CASE CheckReceived
  BY <1>10 DEF CheckReceived, CycleEnd
<1>11. CASE CheckReport
  BY <1>11 DEF CheckReport
<1>12. CASE CheckIndicate
  BY <1>12 DEF CheckIndicate, IndicationDone
<1>13. CASE CheckLeave
  BY <1>13 DEF CheckLeave, IndicationDone
<1>14. ASSUME NEW out \in SendOutcomes, CheckJoin(out) PROVE Values'
  BY <1>14 DEF CheckJoin, CycleEnd, SendAgain, ScheduleTx, ResetMacParameters
<1>15. ASSUME NEW out \in SendOutcomes, CheckRepeat(out) PROVE Values'
  BY <1>15 DEF CheckRepeat, CycleEnd, SendAgain, ScheduleTx, ResetMacParameters
<1>16. ASSUME NEW out \in SendOutcomes, CheckRetry(out) PROVE Values'
  BY <1>16 DEF CheckRetry, ScheduleTx, GiveUp, CycleEnd
<1>17. CASE OnRxWindow1TimerEvent
  BY <1>17 DEF OnRxWindow1TimerEvent
<1>18. CASE OnRxWindow2TimerEvent
  BY <1>18 DEF OnRxWindow2TimerEvent
<1>19. CASE OnAckTimeoutTimerEvent
  BY <1>19 DEF OnAckTimeoutTimerEvent
<1>20. ASSUME NEW out \in SendOutcomes, OnTxDelayedTimerEvent(out)
      PROVE  Values'
  BY <1>20 DEF OnTxDelayedTimerEvent, SendAgain, ScheduleTx, ResetMacParameters
<1>21. CASE UNCHANGED vars
  BY <1>21 DEF vars
<1> QED
  BY <1>1, <1>2, <1>3, <1>4, <1>5, <1>6, <1>7, <1>8, <1>9, <1>10, <1>11, <1>12,
     <1>13, <1>14, <1>15, <1>16, <1>17, <1>18, <1>19, <1>20, <1>21
  DEF Next, Application, Radio, Check

LEMMA NextCounters == Counters /\ Frames /\ [Next]_vars => Counters'
<1> SUFFICES ASSUME Counters /\ Frames, [Next]_vars PROVE Counters'
  OBVIOUS
<1> USE LoRaMacAssumption DEF Counters, Frames, FrameSet, TrialsAfter, UnusedAfter, confirmVars, retryVars, joinVars, histVars
<1>1. ASSUME NEW kind \in DataKinds, NEW n \in AckTrials \cup {1},
             McpsRequest(kind, n)
      PROVE  Counters'
  BY <1>1 DEF McpsRequest, ScheduleTx
<1>2. ASSUME NEW n \in JoinTrials, Join(n) PROVE Counters'
  BY <1>2 DEF Join, ScheduleTx, ResetMacParameters
<1>3. CASE LinkCheck
  BY <1>3 DEF LinkCheck
<1>4. CASE TxContinuousWave
  BY <1>4 DEF TxContinuousWave
<1>5. CASE OnRadioTxDone
  BY <1>5 DEF OnRadioTxDone
<1>6. CASE OnRadioTxTimeout
  BY <1>6 DEF OnRadioTxTimeout
<1>7. CASE OnRadioRxDone
  BY <1>7
  DEF OnRadioRxDone, RxRejected, RxJoinAccept, RxData, RxProprietary,
      PrepareRxDoneAbort, FrameAccepted
<1>8. ASSUME NEW late \in BOOLEAN, OnRadioRxFailed(late) PROVE Counters'
  BY <1>8 DEF OnRadioRxFailed
<1>9. CASE CheckEnter
  BY <1>9 DEF CheckEnter, Ended
<1>10. CASE CheckReceived
  BY <1>10 DEF CheckReceived, CycleEnd
<1>11. CASE CheckReport
  BY <1>11 DEF CheckReport
<1>12. CASE CheckIndicate
  BY <1>12 DEF CheckIndicate, IndicationDone
<1>13. CASE CheckLeave
  BY <1>13 DEF CheckLeave, IndicationDone
<1>14. ASSUME NEW out \in SendOutcomes, CheckJoin(out) PROVE Counters'
  BY <1>14 DEF CheckJoin, CycleEnd, SendAgain, ScheduleTx, ResetMacParameters
<1>15. ASSUME NEW out \in SendOutcomes, CheckRepeat(out) PROVE Counters'
  BY <1>15 DEF CheckRepeat, CycleEnd, SendAgain, ScheduleTx, ResetMacParameters
<1>16. ASSUME NEW out \in SendOutcomes, CheckRetry(out) PROVE Counters'
  BY <1>16 DEF CheckRetry, ScheduleTx, GiveUp, CycleEnd, MayRetry
<1>17. CASE OnRxWindow1TimerEvent
  BY <1>17 DEF OnRxWindow1TimerEvent
<1>18. CASE OnRxWindow2TimerEvent
  BY <1>18 DEF OnRxWindow2TimerEvent
<1>19. CASE OnAckTimeoutTimerEvent
  BY <1>19 DEF OnAckTimeoutTimerEvent
<1>20. ASSUME NEW out \in SendOutcomes, OnTxDelayedTimerEvent(out)
      PROVE  Counters'
  BY <1>20 DEF OnTxDelayedTimerEvent, SendAgain, ScheduleTx, ResetMacParameters
<1>21. CASE UNCHANGED vars
  BY <1>21 DEF vars
<1> QED
  BY <1>1, <1>2, <1>3, <1>4, <1>5, <1>6, <1>7, <1>8, <1>9, <1>10, <1>11, <1>12,
     <1>13, <1>14, <1>15, <1>16, <1>17, <1>18, <1>19, <1>20, <1>21
  DEF Next, Application, Radio, Check

(* Frames, new and sent. *)
LEMMA FrameTypes ==
  /\ \A kind \in DataKinds \cup {"JOIN"}, cnt \in Nat :
       NewFrame(kind, cnt) \in FrameSet
  /\ \A f \in FrameSet : \A out : FrameAfter(out, f) \in FrameSet
  /\ \A f \in FrameSet, b \in BOOLEAN : [f EXCEPT !.grown = b] \in FrameSet
<1>1. \A kind \in DataKinds \cup {"JOIN"}, cnt \in Nat :
        NewFrame(kind, cnt) \in FrameSet
  BY DEF NewFrame, FrameSet
<1>2. ASSUME NEW f \in FrameSet, NEW out PROVE FrameAfter(out, f) \in FrameSet
  BY DEF FrameAfter, FrameSet
<1>3. ASSUME NEW f \in FrameSet, NEW b \in BOOLEAN
      PROVE  [f EXCEPT !.grown = b] \in FrameSet
  BY DEF FrameSet
<1> QED
  BY <1>1, <1>2, <1>3

LEMMA NextFrames == Frames /\ Counters /\ [Next]_vars => Frames'
<1> SUFFICES ASSUME Frames /\ Counters, [Next]_vars PROVE Frames'
  OBVIOUS
<1> USE DEF Frames, Counters, confirmVars, retryVars, joinVars, histVars
<1>1. ASSUME NEW kind \in DataKinds, NEW n \in AckTrials \cup {1},
             McpsRequest(kind, n)
      PROVE  Frames'
  BY <1>1, FrameTypes DEF McpsRequest, ScheduleTx
<1>2. ASSUME NEW n \in JoinTrials, Join(n) PROVE Frames'
  <2>1. CASE JoinBusy
    BY <1>2, <2>1 DEF Join
  <2>2. CASE ~JoinBusy
    <3>1. PICK out \in SendOutcomes :
            frame' = FrameAfter(out, NewFrame("JOIN", 0))
      BY <1>2, <2>2 DEF Join
    <3>2. NewFrame("JOIN", 0) \in FrameSet
      BY FrameTypes
    <3> QED
      BY <3>1, <3>2, FrameTypes
  <2> QED
    BY <2>1, <2>2
<1>3. CASE LinkCheck
  <2>1. frame' \in {frame,
                    [frame EXCEPT !.grown = "TX_DELAYED" \in LoRaMacState]}
    BY <1>3 DEF LinkCheck
  <2>2. ("TX_DELAYED" \in LoRaMacState) \in BOOLEAN
    OBVIOUS
  <2> QED
    BY <2>1, <2>2, FrameTypes, Zenon
<1>4. CASE TxContinuousWave
  BY <1>4 DEF TxContinuousWave
<1>5. CASE OnRadioTxDone
  BY <1>5 DEF OnRadioTxDone, FrameSet
<1>6. CASE OnRadioTxTimeout
  BY <1>6 DEF OnRadioTxTimeout
<1>7. CASE OnRadioRxDone
  BY <1>7
  DEF OnRadioRxDone, RxRejected, RxJoinAccept, RxData, RxProprietary,
      PrepareRxDoneAbort, FrameAccepted
<1>8. ASSUME NEW late \in BOOLEAN, OnRadioRxFailed(late) PROVE Frames'
  BY <1>8 DEF OnRadioRxFailed
<1>9. CASE CheckEnter
  BY <1>9 DEF CheckEnter, Ended
<1>10. CASE CheckReceived
  BY <1>10 DEF CheckReceived, CycleEnd
<1>11. CASE CheckReport
  BY <1>11 DEF CheckReport
<1>12. CASE CheckIndicate
  BY <1>12 DEF CheckIndicate, IndicationDone
<1>13. CASE CheckLeave
  BY <1>13 DEF CheckLeave, IndicationDone
<1>14. ASSUME NEW out \in SendOutcomes, CheckJoin(out) PROVE Frames'
  BY <1>14, FrameTypes
  DEF CheckJoin, CycleEnd, SendAgain, ScheduleTx, ResetMacParameters
<1>15. ASSUME NEW out \in SendOutcomes, CheckRepeat(out) PROVE Frames'
  BY <1>15, FrameTypes
  DEF CheckRepeat, CycleEnd, SendAgain, ScheduleTx, ResetMacParameters
<1>16. ASSUME NEW out \in SendOutcomes, CheckRetry(out) PROVE Frames'
  BY <1>16, FrameTypes DEF CheckRetry, ScheduleTx, GiveUp, CycleEnd
<1>17. CASE OnRxWindow1TimerEvent
  BY <1>17 DEF OnRxWindow1TimerEvent
<1>18. CASE OnRxWindow2TimerEvent
  BY <1>18 DEF OnRxWindow2TimerEvent
<1>19. CASE OnAckTimeoutTimerEvent
  BY <1>19 DEF OnAckTimeoutTimerEvent
<1>20. ASSUME NEW out \in SendOutcomes, OnTxDelayedTimerEvent(out)
      PROVE  Frames'
  BY <1>20, FrameTypes
  DEF OnTxDelayedTimerEvent, SendAgain, ScheduleTx, ResetMacParameters
<1>21. CASE UNCHANGED vars
  BY <1>21 DEF vars
<1> QED
  BY <1>1, <1>2, <1>3, <1>4, <1>5, <1>6, <1>7, <1>8, <1>9, <1>10, <1>11, <1>12,
     <1>13, <1>14, <1>15, <1>16, <1>17, <1>18, <1>19, <1>20, <1>21
  DEF Next, Application, Radio, Check

LEMMA NextFlags == FlagsOwed /\ Values /\ ~Overlap /\ [Next]_vars => FlagsOwed'
<1> SUFFICES ASSUME FlagsOwed /\ Values /\ ~Overlap, [Next]_vars PROVE FlagsOwed'
  OBVIOUS
<1> USE DEF FlagsOwed, When, confirmVars, retryVars, joinVars, histVars
<1>1. ASSUME NEW kind \in DataKinds, NEW n \in AckTrials \cup {1},
             McpsRequest(kind, n)
      PROVE  FlagsOwed'
  BY <1>1 DEF McpsRequest, ScheduleTx
<1>2. ASSUME NEW n \in JoinTrials, Join(n) PROVE FlagsOwed'
  <2>1. CASE JoinBusy
    <3>1. LoRaMacFlags' = LoRaMacFlags /\ owed' = owed /\ MlmeRequest' = "JOIN"
      BY <1>2, <2>1 DEF Join
    <3>2. owed \cap {"LINK_CHECK", "TXCW"} = {}
      BY <1>2 DEF Join, Alone
    <3> QED
      BY <3>1, <3>2 DEF Values
  <2>2. CASE ~JoinBusy
    <3>1. /\ LoRaMacFlags' = LoRaMacFlags \cup {"MlmeReq"}
          /\ owed' = owed \cup {"JOIN"} /\ MlmeRequest' = "JOIN"
      BY <1>2, <2>2 DEF Join
    <3> QED
      BY <3>1
  <2> QED
    BY <2>1, <2>2
<1>3. CASE LinkCheck
  BY <1>3 DEF LinkCheck
<1>4. CASE TxContinuousWave
  BY <1>4 DEF TxContinuousWave
<1>5. CASE OnRadioTxDone
  BY <1>5 DEF OnRadioTxDone
<1>6. CASE OnRadioTxTimeout
  BY <1>6 DEF OnRadioTxTimeout
<1>7. CASE OnRadioRxDone
  BY <1>7
  DEF OnRadioRxDone, RxRejected, RxJoinAccept, RxData, RxProprietary,
      PrepareRxDoneAbort, FrameAccepted
<1>8. ASSUME NEW late \in BOOLEAN, OnRadioRxFailed(late) PROVE FlagsOwed'
  BY <1>8 DEF OnRadioRxFailed
<1>9. CASE CheckEnter
  BY <1>9 DEF CheckEnter, Ended
<1>10. CASE CheckReceived
  BY <1>10 DEF CheckReceived, CycleEnd
<1>11. CASE CheckReport
  BY <1>11 DEF CheckReport
<1>12. CASE CheckIndicate
  BY <1>12 DEF CheckIndicate, IndicationDone
<1>13. CASE CheckLeave
  BY <1>13 DEF CheckLeave, IndicationDone
<1>14. ASSUME NEW out \in SendOutcomes, CheckJoin(out) PROVE FlagsOwed'
  BY <1>14 DEF CheckJoin, CycleEnd, SendAgain, ScheduleTx, ResetMacParameters
<1>15. ASSUME NEW out \in SendOutcomes, CheckRepeat(out) PROVE FlagsOwed'
  BY <1>15 DEF CheckRepeat, CycleEnd, SendAgain, ScheduleTx, ResetMacParameters
<1>16. ASSUME NEW out \in SendOutcomes, CheckRetry(out) PROVE FlagsOwed'
  BY <1>16 DEF CheckRetry, ScheduleTx, GiveUp, CycleEnd
<1>17. CASE OnRxWindow1TimerEvent
  BY <1>17 DEF OnRxWindow1TimerEvent
<1>18. CASE OnRxWindow2TimerEvent
  BY <1>18 DEF OnRxWindow2TimerEvent
<1>19. CASE OnAckTimeoutTimerEvent
  BY <1>19 DEF OnAckTimeoutTimerEvent
<1>20. ASSUME NEW out \in SendOutcomes, OnTxDelayedTimerEvent(out)
      PROVE  FlagsOwed'
  BY <1>20 DEF OnTxDelayedTimerEvent, SendAgain, ScheduleTx, ResetMacParameters
<1>21. CASE UNCHANGED vars
  BY <1>21 DEF vars
<1> QED
  BY <1>1, <1>2, <1>3, <1>4, <1>5, <1>6, <1>7, <1>8, <1>9, <1>10, <1>11, <1>12,
     <1>13, <1>14, <1>15, <1>16, <1>17, <1>18, <1>19, <1>20, <1>21
  DEF Next, Application, Radio, Check

-----------------------------------------------------------------------------
IInv == Booleans /\ Sets /\ Values /\ Counters /\ Frames

LEMMA Invariant == Spec => []IInv
<1>1. Init => IInv
  BY InitParts DEF IInv
<1>2. IInv /\ [Next]_vars => IInv'
  BY NextBooleans, NextSets, NextValues, NextCounters, NextFrames DEF IInv
<1> QED
  BY <1>1, <1>2, PTL DEF Spec, Safety

(* Types of every variable; AckTimeoutRetriesCounter, which is compared    *)
(* with two limits, never gets past MAX_ACK_RETRIES + 1.                   *)
THEOREM TypeCorrect == Spec => []TypeOK
<1>1. IInv => TypeOK
  BY Parts DEF IInv
<1> QED
  BY Invariant, <1>1, PTL

(* The session is reset by a join request that is made, and by a join that *)
(* is sent again, which the flags must show.                               *)
LEMMA SessionStep ==
  ASSUME FlagsOwed, Next, IsLoRaMacNetworkJoined, ~IsLoRaMacNetworkJoined'
  PROVE  "JOIN" \in owed'
<1> USE DEF confirmVars, retryVars, joinVars, histVars
<1>1. ASSUME NEW out, SendAgain(out) PROVE "JOIN" \in owed
  BY <1>1 DEF SendAgain, Joining, FlagsOwed
<1>2. ASSUME NEW n \in JoinTrials, Join(n) PROVE "JOIN" \in owed'
  <2>1. ~JoinBusy
    BY <1>2 DEF Join
  <2>2. owed' = owed \cup {"JOIN"}
    BY <1>2, <2>1 DEF Join
  <2> QED
    BY <2>2
<1>3. ASSUME NEW out \in SendOutcomes,
             CheckJoin(out) \/ CheckRepeat(out) \/ OnTxDelayedTimerEvent(out)
      PROVE  "JOIN" \in owed'
  <2>1. SendAgain(out) /\ owed' = owed
    BY <1>3 DEF CheckJoin, CheckRepeat, OnTxDelayedTimerEvent
  <2> QED
    BY <1>1, <2>1
<1>4. ASSUME NEW kind \in DataKinds, NEW n \in AckTrials \cup {1},
             McpsRequest(kind, n)
      PROVE  FALSE
  BY <1>4 DEF McpsRequest
<1>5. CASE LinkCheck \/ TxContinuousWave
  BY <1>5 DEF LinkCheck, TxContinuousWave
<1>6. CASE OnRadioTxDone \/ OnRadioTxTimeout
  BY <1>6 DEF OnRadioTxDone, OnRadioTxTimeout
<1>7. CASE OnRadioRxDone
  BY <1>7 DEF OnRadioRxDone, RxRejected, RxJoinAccept, RxData, RxProprietary
<1>8. ASSUME NEW late \in BOOLEAN, OnRadioRxFailed(late) PROVE FALSE
  BY <1>8 DEF OnRadioRxFailed
<1>9. CASE CheckEnter \/ CheckReceived \/ CheckReport \/ CheckIndicate
             \/ CheckLeave
  BY <1>9 DEF CheckEnter, CheckReceived, CheckReport, CheckIndicate, CheckLeave
<1>10. ASSUME NEW out \in SendOutcomes, CheckRetry(out) PROVE FALSE
  BY <1>10 DEF CheckRetry
<1>11. CASE OnRxWindow1TimerEvent \/ OnRxWindow2TimerEvent
              \/ OnAckTimeoutTimerEvent
  BY <1>11 DEF OnRxWindow1TimerEvent, OnRxWindow2TimerEvent,
               OnAckTimeoutTimerEvent
<1> QED
  BY <1>2, <1>3, <1>4, <1>5, <1>6, <1>7, <1>8, <1>9, <1>10, <1>11
  DEF Next, Application, Radio, Check

(* A join refused as busy is not started: the session ends only for a join *)
(* request that was accepted.                                              *)
THEOREM SessionIsKept == ASSUME ~Overlap PROVE Spec => SessionKept
<1>1. Init => IInv /\ FlagsOwed
  BY InitParts DEF IInv
<1>2. IInv /\ FlagsOwed /\ [Next]_vars => (IInv /\ FlagsOwed)'
  BY NextBooleans, NextSets, NextValues, NextCounters, NextFrames, NextFlags
     DEF IInv
<1>3. IInv /\ FlagsOwed /\ [Next]_vars =>
        [IsLoRaMacNetworkJoined /\ ~IsLoRaMacNetworkJoined'
           => "JOIN" \in owed']_vars
  BY SessionStep
<1> QED
  BY <1>1, <1>2, <1>3, PTL DEF Spec, Safety, SessionKept

(* Every flag that lets a confirmation be given stands for a request that  *)
(* was accepted and not confirmed yet.                                     *)
THEOREM ConfirmsOwed == ASSUME ~Overlap PROVE Spec => []FlagsOwed
<1>1. Init => IInv /\ FlagsOwed
  BY InitParts DEF IInv
<1>2. IInv /\ FlagsOwed /\ [Next]_vars => (IInv /\ FlagsOwed)'
  BY NextBooleans, NextSets, NextValues, NextCounters, NextFrames, NextFlags
     DEF IInv
<1> QED
  BY <1>1, <1>2, PTL DEF Spec, Safety

-----------------------------------------------------------------------------
(***************************************************************************)
(* What becomes of a request that the MAC accepted, for every number of    *)
(* trials and repetitions and every choice of requests and outcomes, with  *)
(* radio events at any moment: how often its frame is sent and with which  *)
(* counter, when it is confirmed, and that nothing is forgotten.           *)
(*                                                                         *)
(* Each of these is about the end of a transmission that five timers, the  *)
(* radio and the check handler carry on in turns, so none is inductive by  *)
(* itself.  Life is: it says what the flags, the timers, the radio and the *)
(* counters have to do with each other at every moment of a transmission.  *)
(*                                                                         *)
(* Assumed throughout: the radio reports the end of a frame (~TxTimeouts), *)
(* the first window ends before the alarm of the second (~LateWindow), and *)
(* no service of the MLME is asked for while another is owed (~Overlap).   *)
(* Without any of them some of these properties are violated.              *)
(***************************************************************************)

(* The life of a transmission.  A request that is accepted makes the MAC   *)
(* busy until the check handler has seen it end.                           *)
Waving == "MlmeReq" \in LoRaMacFlags /\ MlmeRequest = "TXCW"

Asked == "McpsReq" \in LoRaMacFlags \/ Joining \/ Waving

(* The frame is on the air, or a reception window is open or to come. *)
OnAir == radio \in {"tx", "rx"} \/ Armed \cap {"RxWindow1", "RxWindow2"} # {}

(* The check handler has done with the state; it reports and leaves. *)
Settled == check \in {"indicate", "callback", "rest"}

(* The flags say what is owed, and a link check alone may be asked for     *)
(* while a frame is.  One that is refused takes the flag of one before.    *)
OwedIsFlagged ==
  /\ "MCPS" \in owed <=> "McpsReq" \in LoRaMacFlags
  /\ "JOIN" \in owed <=> Joining
  /\ "TXCW" \in owed <=> Waving
  /\ "MlmeReq" \in LoRaMacFlags /\ MlmeRequest = "LINK_CHECK" =>
       "LINK_CHECK" \in owed
  /\ {"McpsReq", "MlmeReq"} \subseteq LoRaMacFlags =>
       MlmeRequest = "LINK_CHECK"

(* The MAC is busy for what was asked, with the frame of what was asked. *)
BusyFor ==
  /\ McpsBusy => Asked
  /\ Settled /\ Asked => McpsBusy
  /\ "McpsReq" \in LoRaMacFlags => frame.kind # "JOIN"
  /\ Joining => frame.kind = "JOIN"
  /\ frame.kind = "JOIN" => UpLinkCounter = 0 /\ ~AckReceived
  /\ ~frame.grown

(* A continuous wave has no window and no retry; TX_RUNNING is cleared by  *)
(* the time out that ends it.                                              *)
Wave ==
  /\ radio = "cw" => Waving /\ "TX_RUNNING" \in LoRaMacState
                            /\ "MacDone" \notin LoRaMacFlags
  /\ Waving =>
       /\ "TX_DELAYED" \notin LoRaMacState
       /\ ~OnAir
       /\ check \in {"cycle", "received", "retry"} =>
            "TX_RUNNING" \notin LoRaMacState
       /\ "MacDone" \in LoRaMacFlags => mcpsStatus = "TX_TIMEOUT"

(* Until its windows are over a transmission is not done. *)
Flight ==
  /\ OnAir =>
       /\ "TX_RUNNING" \in LoRaMacState /\ "TX_DELAYED" \notin LoRaMacState
       /\ "MacDone" \notin LoRaMacFlags
       /\ ~("McpsInd" \in LoRaMacFlags /\ AckReceived)
       /\ "TX_TIMEOUT" \notin {mcpsStatus, mlmeStatus}
  /\ radio = "tx" => "AckTimeout" \notin Armed /\ ~AckTimeoutRetry
  /\ "RxWindow1" \in Armed => radio = "idle"
  /\ "RxWindow2" \in Armed /\ RxSlot = 1 => "RxWindow1" \in Armed
  /\ radio = "rx" => "McpsInd" \notin LoRaMacFlags
                     /\ check \notin {"received", "retry"}

(* A frame put off is neither done nor waited for. *)
PutOff ==
  /\ "TxDelayed" \in Armed => "TX_DELAYED" \in LoRaMacState
  /\ "TX_DELAYED" \in LoRaMacState =>
       /\ "MacDone" \notin LoRaMacFlags /\ ~AckTimeoutRetry
       /\ "AckTimeout" \notin Armed

(* An acknowledgement is waited for from the request until the check       *)
(* handler has seen it, has it sent again or gives it up.                  *)
Waiting ==
  /\ NodeAckRequested =>
       /\ "McpsReq" \in LoRaMacFlags /\ frame.kind = "confirmed"
       /\ check # "cycle"
       /\ McpsBusy \/ AckTimeoutRetry
       /\ check = "report" \/ Settled => McpsBusy
       /\ check \in {"received", "retry"} => "MacDone" \in LoRaMacFlags
       /\ check = "retry" => ~("McpsInd" \in LoRaMacFlags /\ AckReceived)
  /\ AckTimeoutRetry => NodeAckRequested
  /\ "AckTimeout" \in Armed =>
       /\ NodeAckRequested /\ ~AckTimeoutRetry
       /\ ~("McpsInd" \in LoRaMacFlags /\ AckReceived)
  /\ "McpsReq" \in LoRaMacFlags /\ frame.kind = "confirmed" =>
       NodeAckRequested \/ (~McpsBusy /\ check # "cycle")
  /\ frame.kind = "confirmed" => IsLoRaMacNetworkJoined

(* What is done keeps TX_RUNNING until the check handler comes. *)
Done ==
  /\ "MacDone" \in LoRaMacFlags /\ Settled => "TX_RUNNING" \in LoRaMacState
  /\ "RX_ABORT" \in LoRaMacState =>
       /\ "TX_RUNNING" \in LoRaMacState /\ "MacDone" \in LoRaMacFlags
       /\ check = "report" \/ Settled
       /\ NodeAckRequested => AckTimeoutRetry
  /\ "McpsInd" \in LoRaMacFlags /\ check = "rest" => "MacDone" \in LoRaMacFlags
  /\ "McpsReq" \in LoRaMacFlags =>
       /\ mcpsStatus # "TX_TIMEOUT"
       /\ "MacDone" \in LoRaMacFlags => mlmeStatus # "TX_TIMEOUT"
  /\ check = "cycle" => /\ "MacDone" \in LoRaMacFlags
                        /\ "McpsReq" \in LoRaMacFlags \/ Joining

(* A join is put off only if a trial is left, and has joined if it went    *)
(* well.                                                                   *)
Joins ==
  Joining =>
    /\ "TX_DELAYED" \in LoRaMacState =>
         JoinRequestTrials < MaxJoinRequestTrials
    /\ JoinRequestTrials <= MaxJoinRequestTrials
    /\ mlmeStatus = "OK" => IsLoRaMacNetworkJoined
    /\ IsLoRaMacNetworkJoined => "MacDone" \in LoRaMacFlags

(* The transmissions of a confirmed frame are counted by                   *)
(* AckTimeoutRetriesCounter, one ahead of those put off; the others by     *)
(* ChannelsNbRepCounter, once they are done.                               *)
Repeating == frame.kind \in {"unconfirmed", "proprietary"}

Tries ==
  /\ AckTimeoutRetriesCounter <= AckTimeoutRetries
  /\ frame.kind = "confirmed" =>
       /\ frame.tries <= AckTimeoutRetriesCounter
       /\ "TX_DELAYED" \in LoRaMacState =>
            frame.tries < AckTimeoutRetriesCounter
  /\ Repeating =>
       /\ frame.tries <= ChannelsNbRep
       /\ "McpsReq" \in LoRaMacFlags /\ (McpsBusy \/ check = "cycle") =>
            frame.tries <=
              ChannelsNbRepCounter + (IF radio = "tx" THEN 1 ELSE 0)
       /\ "McpsReq" \in LoRaMacFlags /\ "TX_DELAYED" \in LoRaMacState =>
            frame.tries = 0 \/ ChannelsNbRepCounter < ChannelsNbRep

(* A frame that was on the air keeps its counter to itself, from the time  *)
(* the handler has seen it end on.                                         *)
Counted ==
  /\ unused <= UpLinkCounter
  /\ "McpsReq" \in LoRaMacFlags =>
       unused <= frame.cnt /\ frame.cnt <= UpLinkCounter
  /\ frame.aired /\ frame.kind # "JOIN" =>
       /\ unused <= frame.cnt
       /\ \/ "McpsReq" \in LoRaMacFlags /\ McpsBusy
          \/ frame.cnt < UpLinkCounter
          \/ check = "cycle"
          \/ AckTimeoutRetry /\ check \in {"received", "retry"}

Life == /\ OwedIsFlagged /\ BusyFor /\ Wave /\ Flight /\ PutOff /\ Waiting
        /\ Done /\ Joins /\ Tries /\ Counted

LEMMA InitLife == Init => Life
  BY LoRaMacAssumption
  DEF Init, Life, OwedIsFlagged, BusyFor, Wave, Flight, PutOff, Waiting, Done,
      Joins, Tries, Counted, Asked, Waving, OnAir, Settled, Repeating,
      McpsBusy, Joining

(* One step for each action; what an action does to one part is seldom     *)
(* understood without the other parts.                                     *)
LEMMA NextLife ==
  ASSUME IInv, Life, ~TxTimeouts, ~LateWindow, ~Overlap, [Next]_vars
  PROVE  Life'
<1> USE LoRaMacAssumption
    DEF When, Timers, Steps, confirmVars, retryVars, joinVars, histVars,
        IInv, Booleans, Sets, Values, Counters, Frames, FrameSet,
        Life, OwedIsFlagged, BusyFor, Wave, Flight, PutOff, Waiting, Done,
        Joins, Tries, Counted, Asked, Waving, OnAir, Settled, Repeating,
        McpsBusy, Joining
<1>1. ASSUME NEW kind \in DataKinds, NEW n \in AckTrials \cup {1},
             McpsRequest(kind, n)
      PROVE  Life'
  BY <1>1
  DEF McpsRequest, ScheduleTx, StatusAfter, TrialsAfter, FrameAfter, NewFrame,
      UnusedAfter, AppMayCall, DataKinds
<1>2. ASSUME NEW n \in JoinTrials, Join(n) PROVE Life'
  BY <1>2
  DEF Join, JoinBusy, MlmeMayStart, AppMayCall, Alone, ScheduleTx,
      ResetMacParameters, StatusAfter, TrialsAfter, FrameAfter, NewFrame
<1>3. CASE LinkCheck
  BY <1>3 DEF LinkCheck, MlmeMayStart, AppMayCall, Alone
<1>4. CASE TxContinuousWave
  BY <1>4 DEF TxContinuousWave, MlmeMayStart, AppMayCall, Alone
<1>5. CASE OnRadioTxDone
  BY <1>5 DEF OnRadioTxDone, WindowTimers
<1>6. CASE OnRadioTxTimeout
  BY <1>6 DEF OnRadioTxTimeout
<1>7. CASE OnRadioRxDone
  BY <1>7
  DEF OnRadioRxDone, RxRejected, RxJoinAccept, RxData, RxProprietary,
      PrepareRxDoneAbort, FrameAccepted
<1>8. ASSUME NEW late \in BOOLEAN, OnRadioRxFailed(late) PROVE Life'
  BY <1>8 DEF OnRadioRxFailed, SecondWindowPassed
<1>9. CASE CheckEnter
  BY <1>9 DEF CheckEnter, Ended, TxTimedOut
<1>10. CASE CheckReceived
  BY <1>10 DEF CheckReceived, CycleEnd
<1>11. CASE CheckReport
  BY <1>11 DEF CheckReport
<1>12. CASE CheckIndicate
  BY <1>12 DEF CheckIndicate, IndicationDone
<1>13. CASE CheckLeave
  BY <1>13 DEF CheckLeave, IndicationDone
<1>14. ASSUME NEW out \in SendOutcomes, CheckJoin(out) PROVE Life'
  BY <1>14
  DEF CheckJoin, JoinCycleOver, CycleEnd, SendAgain, ScheduleTx,
      ResetMacParameters, StatusAfter, TrialsAfter, FrameAfter, NewFrame
<1>15. ASSUME NEW out \in SendOutcomes, CheckRepeat(out) PROVE Life'
  BY <1>15
  DEF CheckRepeat, RepetitionsOver, CycleEnd, SendAgain, ScheduleTx,
      ResetMacParameters, StatusAfter, TrialsAfter, FrameAfter, NewFrame
<1>16. ASSUME NEW out \in SendOutcomes, CheckRetry(out) PROVE Life'
  BY <1>16
  DEF CheckRetry, MayRetry, GiveUp, CycleEnd, ScheduleTx, StatusAfter,
      TrialsAfter, FrameAfter
<1>17. CASE OnRxWindow1TimerEvent
  BY <1>17 DEF OnRxWindow1TimerEvent
<1>18. CASE OnRxWindow2TimerEvent
  BY <1>18 DEF OnRxWindow2TimerEvent, RxConfigOk
<1>19. CASE OnAckTimeoutTimerEvent
  BY <1>19 DEF OnAckTimeoutTimerEvent
<1>20. ASSUME NEW out \in SendOutcomes, OnTxDelayedTimerEvent(out)
      PROVE  Life'
  BY <1>20
  DEF OnTxDelayedTimerEvent, SendAgain, ScheduleTx, ResetMacParameters,
      StatusAfter, TrialsAfter, FrameAfter, NewFrame
<1>21. CASE UNCHANGED vars
  BY <1>21 DEF vars
<1> QED
  BY <1>1, <1>2, <1>3, <1>4, <1>5, <1>6, <1>7, <1>8, <1>9, <1>10, <1>11,
     <1>12, <1>13, <1>14, <1>15, <1>16, <1>17, <1>18, <1>19, <1>20, <1>21
  DEF Next, Application, Radio, Check

Alive == IInv /\ Life

LEMMA AliveAlways ==
  ASSUME ~TxTimeouts, ~LateWindow, ~Overlap PROVE Spec => []Alive
<1>1. Init => Alive
  BY InitParts, InitLife DEF Alive, IInv
<1>2. Alive /\ [Next]_vars => Alive'
  BY NextBooleans, NextSets, NextValues, NextCounters, NextFrames, NextLife
  DEF Alive, IInv
<1> QED
  BY <1>1, <1>2, PTL DEF Spec, Safety

(* No frame is sent more often than was asked for and the limits allow,    *)
(* whichever of the timers, the check handler and OnTxDelayedTimerEvent    *)
(* sends it: a frame put off is counted before it is sent.                 *)
THEOREM TrialsAreBounded ==
  ASSUME ~TxTimeouts, ~LateWindow, ~Overlap PROVE Spec => []TrialsBounded
<1>1. Alive => TrialsBounded
  BY LoRaMacAssumption
  DEF Alive, IInv, Counters, Frames, FrameSet, Life, Tries, Repeating, Joins,
      TrialsBounded
<1> QED
  BY AliveAlways, <1>1, PTL

(* No frame goes on the air with a counter another frame of the session    *)
(* was sent with: LoRaMac.c steps UpLinkCounter at each of the four ends   *)
(* of a transmission, and at none twice before the next frame is made.     *)
THEOREM CountersAreFresh ==
  ASSUME ~TxTimeouts, ~LateWindow, ~Overlap PROVE Spec => []CounterFresh
<1>1. Alive => CounterFresh
  BY DEF Alive, IInv, Frames, FrameSet, Life, Counted, CounterFresh, DataKinds
<1> QED
  BY AliveAlways, <1>1, PTL

(* Confirmations are given for requests that are owed, once the radio      *)
(* rests and no window, retry or delayed frame is to come.                 *)
THEOREM ConfirmedAtRest ==
  ASSUME ~TxTimeouts, ~LateWindow, ~Overlap PROVE Spec => []ConfirmsAtRest
<1>1. ASSUME Alive, LoRaMacState = {}, check = "report"
      PROVE  radio = "idle" /\ Armed \subseteq {"MacStateCheck"}
  BY <1>1 DEF Alive, IInv, Sets, Timers, Life, Wave, Flight, OnAir, PutOff,
              Waiting, McpsBusy, Settled
<1>2. Alive => ConfirmsAtRest
  BY <1>1 DEF Alive, IInv, Values, Life, OwedIsFlagged, Waving, Joining,
              ConfirmsAtRest
<1> QED
  BY AliveAlways, <1>2, PTL

(* A join is confirmed with success only if the network let the node in:   *)
(* the Status that frames and other requests share is never taken for it.  *)
THEOREM ConfirmedHasJoined ==
  ASSUME ~TxTimeouts, ~LateWindow, ~Overlap PROVE Spec => []JoinedIfConfirmed
<1>1. Alive => JoinedIfConfirmed
  BY DEF Alive, Life, Joins, JoinedIfConfirmed
<1> QED
  BY AliveAlways, <1>1, PTL

(* When the MAC has come to rest every request but a link check, which     *)
(* waits for the next uplink, has been confirmed.                          *)
THEOREM NothingIsForgotten ==
  ASSUME ~TxTimeouts, ~LateWindow, ~Overlap PROVE Spec => []NothingForgotten
<1>1. Alive => NothingForgotten
  BY DEF Alive, IInv, Sets, Life, OwedIsFlagged, BusyFor, McpsBusy, Asked,
         Waving, Joining, Settled, NothingForgotten
<1> QED
  BY AliveAlways, <1>1, PTL

-----------------------------------------------------------------------------
(* Nothing else ends a transmission.  While TX_RUNNING is set the check    *)
(* handler comes again, and finds it done or the radio, a window or the    *)
(* acknowledge timeout still to come.  This holds only as long as no radio *)
(* event comes within the check handler (~RadioPreempts): there it clears  *)
(* McpsInd, and with it the acknowledgement a preempting interrupt brought.*)
Attending ==
  /\ "TX_DELAYED" \in LoRaMacState => "TxDelayed" \in Armed
  /\ "TX_RUNNING" \in LoRaMacState /\ Settled => "MacStateCheck" \in Armed
  /\ "TX_RUNNING" \in LoRaMacState /\ "TX_DELAYED" \notin LoRaMacState
       /\ "MacDone" \notin LoRaMacFlags
     => radio # "idle" \/ "RxWindow2" \in Armed
  /\ NodeAckRequested /\ "TX_DELAYED" \notin LoRaMacState =>
       \/ radio = "tx" \/ "AckTimeout" \in Armed \/ AckTimeoutRetry
       \/ /\ {"MacDone", "McpsInd"} \subseteq LoRaMacFlags /\ AckReceived
          /\ check \in {"rest", "received"}

LEMMA InitAttending == Init => Attending
  BY DEF Init, Attending

LEMMA NextAttending ==
  ASSUME IInv, Life, Attending,
         ~TxTimeouts, ~LateWindow, ~Overlap, ~RadioPreempts, [Next]_vars
  PROVE  Attending'
<1> USE LoRaMacAssumption
    DEF When, Timers, Steps, confirmVars, retryVars, joinVars, histVars,
        IInv, Booleans, Sets, Values, Counters, Frames, FrameSet, Attending,
        RadioMayInterrupt,
        Life, OwedIsFlagged, BusyFor, Wave, Flight, PutOff, Waiting, Done,
        Joins, Tries, Counted, Asked, Waving, OnAir, Settled, Repeating,
        McpsBusy, Joining
<1>1. ASSUME NEW kind \in DataKinds, NEW n \in AckTrials \cup {1},
             McpsRequest(kind, n)
      PROVE  Attending'
  BY <1>1
  DEF McpsRequest, ScheduleTx, StatusAfter, TrialsAfter, FrameAfter, NewFrame,
      UnusedAfter, AppMayCall, DataKinds
<1>2. ASSUME NEW n \in JoinTrials, Join(n) PROVE Attending'
  BY <1>2
  DEF Join, JoinBusy, MlmeMayStart, AppMayCall, Alone, ScheduleTx,
      ResetMacParameters, StatusAfter, TrialsAfter, FrameAfter, NewFrame
<1>3. CASE LinkCheck
  BY <1>3 DEF LinkCheck, MlmeMayStart, AppMayCall, Alone
<1>4. CASE TxContinuousWave
  BY <1>4 DEF TxContinuousWave, MlmeMayStart, AppMayCall, Alone
<1>5. CASE OnRadioTxDone
  BY <1>5 DEF OnRadioTxDone, WindowTimers
<1>6. CASE OnRadioTxTimeout
  BY <1>6 DEF OnRadioTxTimeout
<1>7. CASE OnRadioRxDone
  BY <1>7
  DEF OnRadioRxDone, RxRejected, RxJoinAccept, RxData, RxProprietary,
      PrepareRxDoneAbort, FrameAccepted
<1>8. ASSUME NEW late \in BOOLEAN, OnRadioRxFailed(late) PROVE Attending'
  BY <1>8 DEF OnRadioRxFailed, SecondWindowPassed
<1>9. CASE CheckEnter
  BY <1>9 DEF CheckEnter, Ended, TxTimedOut
<1>10. CASE CheckReceived
  BY <1>10 DEF CheckReceived, CycleEnd
<1>11. CASE CheckReport
  BY <1>11 DEF CheckReport
<1>12. CASE CheckIndicate
  BY <1>12 DEF CheckIndicate, IndicationDone
<1>13. CASE CheckLeave
  BY <1>13 DEF CheckLeave, IndicationDone
<1>14. ASSUME NEW out \in SendOutcomes, CheckJoin(out) PROVE Attending'
  BY <1>14
  DEF CheckJoin, JoinCycleOver, CycleEnd, SendAgain, ScheduleTx,
      ResetMacParameters, StatusAfter, TrialsAfter, FrameAfter, NewFrame
<1>15. ASSUME NEW out \in SendOutcomes, CheckRepeat(out) PROVE Attending'
  BY <1>15
  DEF CheckRepeat, RepetitionsOver, CycleEnd, SendAgain, ScheduleTx,
      ResetMacParameters, StatusAfter, TrialsAfter, FrameAfter, NewFrame
<1>16. ASSUME NEW out \in SendOutcomes, CheckRetry(out) PROVE Attending'
  BY <1>16
  DEF CheckRetry, MayRetry, GiveUp, CycleEnd, ScheduleTx, StatusAfter,
      TrialsAfter, FrameAfter
<1>17. CASE OnRxWindow1TimerEvent
  BY <1>17 DEF OnRxWindow1TimerEvent
<1>18. CASE OnRxWindow2TimerEvent
  BY <1>18 DEF OnRxWindow2TimerEvent, RxConfigOk
<1>19. CASE OnAckTimeoutTimerEvent
  BY <1>19 DEF OnAckTimeoutTimerEvent
<1>20. ASSUME NEW out \in SendOutcomes, OnTxDelayedTimerEvent(out)
      PROVE  Attending'
  BY <1>20
  DEF OnTxDelayedTimerEvent, SendAgain, ScheduleTx, ResetMacParameters,
      StatusAfter, TrialsAfter, FrameAfter, NewFrame
<1>21. CASE UNCHANGED vars
  BY <1>21 DEF vars
<1> QED
  BY <1>1, <1>2, <1>3, <1>4, <1>5, <1>6, <1>7, <1>8, <1>9, <1>10, <1>11,
     <1>12, <1>13, <1>14, <1>15, <1>16, <1>17, <1>18, <1>19, <1>20, <1>21
  DEF Next, Application, Radio, Check

(* While TX_RUNNING refuses every request something is still to come that  *)
(* ends the transmission, and MacStateCheck runs to see it; a frame put    *)
(* off has its timer.                                                      *)
THEOREM AlwaysAttended ==
  ASSUME ~TxTimeouts, ~LateWindow, ~Overlap, ~RadioPreempts
  PROVE  Spec => []Attended
<1>1. Init => Alive /\ Attending
  BY InitParts, InitLife, InitAttending DEF Alive, IInv
<1>2. Alive /\ Attending /\ [Next]_vars => (Alive /\ Attending)'
  BY NextBooleans, NextSets, NextValues, NextCounters, NextFrames, NextLife,
     NextAttending
  DEF Alive, IInv
<1>3. Alive /\ Attending => Attended
  BY DEF Alive, IInv, Sets, Life, BusyFor, McpsBusy, Asked, Waving, Joining,
         Wave, Waiting, Settled, Attending, Attended, Pending, CheckEnds
<1> QED
  BY <1>1, <1>2, <1>3, PTL DEF Spec, Safety
-----------------------------------------------------------------------------
(***************************************************************************)
(* The application on top of the MAC: a sleeping node wakes up, the main   *)
(* loop waits only for a confirmation that will come, and a session is     *)
(* given up only by order of the network.                                  *)
(*                                                                         *)
(* Each is about what the main loop, TxNextPacketTimer, the callbacks and  *)
(* the MAC have agreed on, so AppLife says what they know of each other.   *)
(* It takes neither ~TxTimeouts nor ~Overlap: the application asks for a   *)
(* service of the MLME only where nothing else is owed, and this, which is *)
(* assumed above, is proved here.  What is left of the assumptions is      *)
(* ~LateWindow.                                                            *)
(***************************************************************************)

AppTypes ==
  /\ DeviceState \in {"INIT", "JOIN", "SEND", "CYCLE", "SLEEP"}
  /\ NextTx \in BOOLEAN
  /\ at \in {"switch", "join", "asked", "result", "sent", "arm"}
  /\ failed \in BOOLEAN
  /\ TxNextPacket \in BOOLEAN
  /\ Running \in BOOLEAN
  /\ IsTxConfirmed \in BOOLEAN
  /\ rxData \in BOOLEAN
  /\ rejoined \in BOOLEAN

LEMMA MacStep == ASSUME [AppNext]_allVars PROVE [Next]_vars
<1>1. CASE MainLoop
  <2>1. ASSUME NEW kind \in FrameKinds,
               McpsRequest(kind, IF kind = "confirmed" THEN NbTrials ELSE 1)
        PROVE  Next
    BY <2>1, AppAssumption DEF FrameKinds, When, DataKinds, Next, Application
  <2>2. AskJoin => [Next]_vars
    BY AppAssumption DEF AskJoin, macVars, Next, Application
  <2> QED
    BY <1>1, <2>1, <2>2
    DEF MainLoop, PassInit, PassJoin, JoinRequest, JoinLeave, PassSend,
        SendFrame, PassSendNothing, SendResult, SendLeave, PassCycle,
        CycleArm, macVars
<1>2. CASE OnTxNextPacketTimerEvent
  BY <1>2 DEF OnTxNextPacketTimerEvent, macVars
<1>3. CASE Confirmations
  BY <1>3 DEF Confirmations, Next, Check
<1>4. ASSUME NEW command \in Commands \cup {"none"}, McpsIndication(command)
      PROVE  [Next]_vars
  BY <1>4, AppAssumption
  DEF McpsIndication, Test, AskJoin, macVars, Next, Application
<1>5. CASE IndicationLeave
  BY <1>5 DEF IndicationLeave, Next, Check
<1>6. CASE RadioEvent
  BY <1>6 DEF RadioEvent, Next, Radio
<1>7. CASE MacTimer
  BY <1>7 DEF MacTimer, Next, Check
<1>8. CASE UNCHANGED allVars
  BY <1>8 DEF allVars, macVars
<1> QED
  BY <1>1, <1>2, <1>3, <1>4, <1>5, <1>6, <1>7, <1>8 DEF AppNext

LEMMA MacInvariant == IInv /\ [AppNext]_allVars => IInv'
BY MacStep, NextBooleans, NextSets, NextValues, NextCounters, NextFrames
   DEF IInv

LEMMA NextAppTypes == AppTypes /\ [AppNext]_allVars => AppTypes'
<1> SUFFICES ASSUME AppTypes, [AppNext]_allVars PROVE AppTypes'
  OBVIOUS
<1> USE DEF AppTypes, testVars
<1>1. CASE MainLoop
  BY <1>1
  DEF MainLoop, Pass, MainAt, PassInit, PassJoin, JoinRequest, JoinLeave,
      PassSend, SendFrame, PassSendNothing, SendResult, SendLeave, PassCycle,
      CycleArm
<1>2. CASE OnTxNextPacketTimerEvent
  BY <1>2 DEF OnTxNextPacketTimerEvent, AfterTimer
<1>3. CASE Confirmations
  BY <1>3 DEF Confirmations, NextTxAfter, AfterJoin
<1>4. ASSUME NEW command \in Commands \cup {"none"}, McpsIndication(command)
      PROVE  AppTypes'
  BY <1>4 DEF McpsIndication, Test
<1>5. CASE IndicationLeave
  BY <1>5 DEF IndicationLeave, appVars
<1>6. CASE RadioEvent
  <2>1. ASSUME NEW b, NEW x \in {FALSE} \cup When(b, {TRUE})
        PROVE x \in BOOLEAN
    BY <2>1 DEF When
  <2>2. CASE UNCHANGED appVars
    BY <2>2 DEF appVars
  <2>3. CASE /\ rxData' \in BOOLEAN
             /\ UNCHANGED <<DeviceState, NextTx, at, failed, TxNextPacket,
                            testVars, rejoined>>
    BY <2>3, Zenon
  <2> QED
    BY <1>6, <2>1, <2>2, <2>3, Zenon DEF RadioEvent
<1>7. CASE MacTimer
  BY <1>7 DEF MacTimer, appVars
<1>8. CASE UNCHANGED allVars
  BY <1>8 DEF allVars, appVars
<1> QED
  BY <1>1, <1>2, <1>3, <1>4, <1>5, <1>6, <1>7, <1>8 DEF AppNext

LEMMA InitAppTypes == AppInit => AppTypes
  BY DEF AppInit, AppTypes

(* Every variable of the application and of the MAC keeps its type.        *)
THEOREM AppTypeCorrect == AppSpec => []AppTypeOK
<1>1. AppInit => IInv /\ AppTypes
  BY InitParts, InitAppTypes DEF AppInit, IInv
<1>2. IInv /\ AppTypes /\ [AppNext]_allVars => (IInv /\ AppTypes)'
  BY MacInvariant, NextAppTypes
<1>3. IInv /\ AppTypes => AppTypeOK
  BY Parts, Zenon DEF IInv, AppTypes, AppTypeOK
<1> QED
  BY <1>1, <1>2, <1>3, PTL DEF AppSpec

-----------------------------------------------------------------------------
(* What the parts know of each other.  The first five parts of Life hold   *)
(* as they are.  A transmission that timed out leaves NodeAckRequested and *)
(* the statuses as they were, until the next request.                      *)
TimedOut == "TX_TIMEOUT" \in {mcpsStatus, mlmeStatus}

Awaited ==
  /\ NodeAckRequested =>
       /\ check # "cycle"
       /\ "McpsReq" \in LoRaMacFlags \/ mcpsStatus = "TX_TIMEOUT"
       /\ McpsBusy \/ AckTimeoutRetry \/ mcpsStatus = "TX_TIMEOUT"
       /\ check = "report" \/ Settled =>
            McpsBusy \/ mcpsStatus = "TX_TIMEOUT"
       /\ check \in {"received", "retry"} => "MacDone" \in LoRaMacFlags
       /\ check = "retry" => ~("McpsInd" \in LoRaMacFlags /\ AckReceived)
  /\ AckTimeoutRetry => NodeAckRequested /\ "McpsReq" \in LoRaMacFlags
  /\ "AckTimeout" \in Armed =>
       /\ NodeAckRequested /\ ~AckTimeoutRetry
       /\ ~("McpsInd" \in LoRaMacFlags /\ AckReceived)
       /\ mcpsStatus # "TX_TIMEOUT"
  /\ AckTimeoutRetriesCounter <= AckTimeoutRetries

Ending ==
  /\ "MacDone" \in LoRaMacFlags /\ Settled => "TX_RUNNING" \in LoRaMacState
  /\ "RX_ABORT" \in LoRaMacState =>
       /\ "TX_RUNNING" \in LoRaMacState
       /\ check = "report" \/ Settled
       /\ NodeAckRequested => AckTimeoutRetry
  /\ "McpsInd" \in LoRaMacFlags /\ check = "rest" => "MacDone" \in LoRaMacFlags
  /\ check = "cycle" => /\ "MacDone" \in LoRaMacFlags /\ ~TimedOut
                        /\ "McpsReq" \in LoRaMacFlags \/ Joining
  /\ "McpsReq" \in LoRaMacFlags /\ mcpsStatus = "TX_TIMEOUT" =>
       "MacDone" \in LoRaMacFlags
  /\ {"McpsReq", "MacDone"} \subseteq LoRaMacFlags /\ TimedOut =>
       mcpsStatus = "TX_TIMEOUT" /\ ~AckTimeoutRetry
  /\ radio = "tx" => "RxWindow2" \notin Armed

(* A join is answered by the network or not at all.                        *)
Answered ==
  Joining => /\ mlmeStatus = "OK" => IsLoRaMacNetworkJoined
             /\ IsLoRaMacNetworkJoined =>
                  "MacDone" \in LoRaMacFlags /\ mlmeStatus = "OK"

(* NextTx is clear only while a frame is owed, which the pass of the main  *)
(* loop that sent it does not see end.                                     *)
InPass ==
  /\ NextTx \/ "MCPS" \in owed
  /\ at = "result" /\ ~failed =>
       "MCPS" \in owed /\ (radio = "tx" \/ "TX_DELAYED" \in LoRaMacState)

(* While a command of the test is there the check handler has not reported *)
(* it; if it finds the MAC free to take a request, nothing is owed, so     *)
(* that no link check is refused while another is owed.                    *)
Command ==
  /\ rxData =>
       /\ "McpsInd" \in LoRaMacFlags /\ "McpsIndSkip" \notin LoRaMacFlags
       /\ "RX_ABORT" \notin LoRaMacState
       /\ "TX_DELAYED" \in LoRaMacState =>
            "TX_RUNNING" \in LoRaMacState /\ (check = "report" \/ Settled)
       /\ AckTimeoutRetry => "TX_RUNNING" \in LoRaMacState
       /\ Settled /\ "TX_RUNNING" \notin LoRaMacState =>
            "MlmeReq" \notin LoRaMacFlags
  /\ "LINK_CHECK" \in owed =>
       "MlmeReq" \in LoRaMacFlags /\ MlmeRequest = "LINK_CHECK"

(* A node that is to join, or that is about to ask for it, has nothing     *)
(* else under way.                                                         *)
OnlyJoins ==
  \/ ~IsLoRaMacNetworkJoined
  \/ DeviceState \in {"INIT", "JOIN"} \/ at \in {"join", "asked"}
  => /\ "McpsReq" \notin LoRaMacFlags /\ owed \subseteq {"JOIN"}
     /\ ~rxData

(* Up to the first order to rejoin the application makes join requests     *)
(* until it has joined, and none after that.                               *)
FirstSession ==
  ~rejoined =>
    /\ at = "asked" => radio = "tx" \/ "TX_DELAYED" \in LoRaMacState
    /\ ~IsLoRaMacNetworkJoined =>
         ~TxNextPacket /\ at \in {"switch", "join", "asked"}
    /\ "JOIN" \in owed =>
         /\ ~TxNextPacket
         /\ at = "asked" \/ (at = "switch" /\ DeviceState = "SLEEP")
    /\ ~IsLoRaMacNetworkJoined /\ "JOIN" \notin owed =>
         /\ DeviceState \in {"INIT", "JOIN"}
         /\ at = "join" => DeviceState = "JOIN"
    /\ IsLoRaMacNetworkJoined /\ "JOIN" \notin owed =>
         /\ DeviceState \notin {"INIT", "JOIN"}
         /\ at \notin {"join", "asked"}
         /\ DeviceState = "SLEEP" /\ at = "switch" => TxNextPacket

AppLife == /\ OwedIsFlagged /\ BusyFor /\ Wave /\ Flight /\ PutOff
           /\ Awaited /\ Ending /\ Answered
           /\ InPass /\ Command /\ OnlyJoins /\ FirstSession

LEMMA InitAppLife == AppInit => AppLife
  BY LoRaMacAssumption
  DEF AppInit, Init, AppLife, OwedIsFlagged, BusyFor, Wave, Flight, PutOff,
      Awaited, Ending, Answered, InPass, Command, OnlyJoins, FirstSession,
      TimedOut, Asked, Waving, OnAir, Settled, McpsBusy, Joining

LEMMA NextAppLife ==
  ASSUME IInv, AppTypes, AppLife, ~LateWindow, [AppNext]_allVars
  PROVE  AppLife'
<1> USE LoRaMacAssumption, AppAssumption
    DEF When, Timers, Steps, confirmVars, retryVars, joinVars, histVars, IInv,
        Booleans, Sets, Values, Counters, Frames, FrameSet, AppTypes,
        testVars, appVars, macVars, vars, MainAt, Pass, AppLife,
        OwedIsFlagged, BusyFor, Wave, Flight, PutOff, Awaited, Ending,
        Answered, InPass, Command, OnlyJoins, FirstSession, TimedOut, Asked,
        Waving, OnAir, Settled, McpsBusy, Joining
<1>1. CASE PassInit
  BY <1>1 DEF PassInit
<1>2. CASE PassJoin
  BY <1>2 DEF PassJoin
<1>3. CASE JoinRequest
  BY <1>3
  DEF JoinRequest, AskJoin, Join, JoinBusy, MlmeMayStart, AppMayCall, Alone,
      ScheduleTx, ResetMacParameters, StatusAfter, TrialsAfter, FrameAfter,
      NewFrame
<1>4. CASE JoinLeave
  BY <1>4 DEF JoinLeave
<1>5. CASE PassSend
  <2>1. Pass("SEND", "result") /\ NextTx /\ SendFrame
        /\ UNCHANGED <<DeviceState, NextTx>>
    BY <1>5, Zenon DEF PassSend
  <2>2. CASE McpsBusy
    <3>1. /\ check = "rest" /\ at = "switch" /\ at' = "result"
          /\ DeviceState = "SEND"
          /\ NextTx /\ failed' = TRUE
          /\ UNCHANGED <<TxNextPacket, rxData, rejoined, DeviceState, NextTx,
                         vars>>
      BY <2>2, <2>1 DEF SendFrame
    <3> QED
      BY <3>1
  <2>3. ASSUME NEW kind \in {"unconfirmed", "confirmed"},
               NEW n \in AckTrials \cup {1},
               ~McpsBusy, McpsRequest(kind, n),
               DeviceState = "SEND", DeviceState' = "SEND", NextTx, NextTx',
               check = "rest", at = "switch", at' = "result",
               failed' => "McpsReq" \notin LoRaMacFlags',
               ~failed' => "McpsReq" \in LoRaMacFlags',
               UNCHANGED <<TxNextPacket, rxData, rejoined>>
        PROVE  AppLife'
    <3> USE <2>3 DEF McpsRequest, ScheduleTx, StatusAfter, TrialsAfter,
                     FrameAfter, NewFrame, UnusedAfter, AppMayCall, DataKinds
    <3>1. OwedIsFlagged' /\ BusyFor' /\ Wave'
      OBVIOUS
    <3>2. Flight' /\ PutOff'
      OBVIOUS
    <3>3. Awaited'
      OBVIOUS
    <3>4. Ending' /\ Answered'
      OBVIOUS
    <3>5. InPass'
      OBVIOUS
    <3>6. Command'
      OBVIOUS
    <3>7. OnlyJoins'
      OBVIOUS
    <3>8. FirstSession'
      OBVIOUS
    <3> QED
      BY <3>1, <3>2, <3>3, <3>4, <3>5, <3>6, <3>7, <3>8
  <2>4. CASE ~McpsBusy
    <3>1. PICK kind \in FrameKinds :
                 McpsRequest(kind, IF kind = "confirmed" THEN NbTrials ELSE 1)
      BY <2>1, <2>4, Zenon DEF SendFrame
    <3>2. failed' = ("McpsReq" \notin LoRaMacFlags')
      BY <2>1, <2>4, Zenon DEF SendFrame
    <3>3. kind \in {"unconfirmed", "confirmed"}
      BY DEF FrameKinds
    <3>4. (IF kind = "confirmed" THEN NbTrials ELSE 1) \in AckTrials \cup {1}
      OBVIOUS
    <3>5. /\ DeviceState = "SEND" /\ DeviceState' = "SEND" /\ NextTx /\ NextTx'
          /\ check = "rest" /\ at = "switch" /\ at' = "result"
          /\ UNCHANGED <<TxNextPacket, rxData, rejoined>>
      BY <2>1
    <3>6. /\ failed' => "McpsReq" \notin LoRaMacFlags'
          /\ ~failed' => "McpsReq" \in LoRaMacFlags'
      BY <3>2, Zenon
    <3> QED
      BY <2>3, <2>4, <3>1, <3>3, <3>4, <3>5, <3>6, Zenon
  <2> QED
    BY <2>2, <2>4, Zenon
<1>6. CASE PassSendNothing
  BY <1>6 DEF PassSendNothing
<1>7. CASE SendResult
  BY <1>7 DEF SendResult
<1>8. CASE SendLeave
  BY <1>8 DEF SendLeave
<1>9. CASE PassCycle
  BY <1>9 DEF PassCycle
<1>10. CASE CycleArm
  BY <1>10 DEF CycleArm
<1>11. CASE OnTxNextPacketTimerEvent
  BY <1>11 DEF OnTxNextPacketTimerEvent, AfterTimer
<1>12. CASE Confirmations
  <2> USE <1>12 DEF Confirmations, CheckReport, NextTxAfter, ConfirmGiven,
                    JoinConfirmed, AfterJoin
  <2>1. OwedIsFlagged' /\ BusyFor' /\ Wave'
    OBVIOUS
  <2>2. Flight' /\ PutOff'
    OBVIOUS
  <2>3. Awaited'
    OBVIOUS
  <2>4. Ending' /\ Answered'
    OBVIOUS
  <2>5. InPass'
    OBVIOUS
  <2>6. Command'
    OBVIOUS
  <2>7. OnlyJoins'
    <3>1. DeviceState' \in {"INIT", "JOIN"} =>
            DeviceState \in {"INIT", "JOIN"} \/ ~IsLoRaMacNetworkJoined
      BY <1>12 DEF Confirmations, JoinConfirmed, AfterJoin
    <3>2. /\ UNCHANGED <<IsLoRaMacNetworkJoined, at, rxData>>
          /\ owed' \subseteq owed /\ LoRaMacFlags' \subseteq LoRaMacFlags
      BY <1>12 DEF Confirmations, CheckReport
    <3> QED
      BY <3>1, <3>2
  <2>8. FirstSession'
    OBVIOUS
  <2> QED
    BY <2>1, <2>2, <2>3, <2>4, <2>5, <2>6, <2>7, <2>8
<1>13. ASSUME NEW command \in Commands \cup {"none"}, McpsIndication(command)
      PROVE  AppLife'
  BY <1>13
  DEF McpsIndication, Test, LinkCheck, TxContinuousWave, AskJoin, Join,
      JoinBusy, MlmeMayStart, AppMayCall, Alone, ScheduleTx,
      ResetMacParameters, StatusAfter, TrialsAfter, FrameAfter, NewFrame
<1>14. CASE IndicationLeave
  BY <1>14 DEF IndicationLeave, CheckLeave, IndicationDone
<1>15. CASE OnRadioTxDone /\ at = "switch" /\ UNCHANGED appVars
  BY <1>15 DEF OnRadioTxDone, WindowTimers
<1>16. CASE OnRadioTxTimeout /\ at = "switch" /\ UNCHANGED appVars
  BY <1>16 DEF OnRadioTxTimeout
<1>17. CASE /\ OnRadioRxDone
            /\ rxData' \in {FALSE} \cup
                 When(/\ IsLoRaMacNetworkJoined /\ mcpsStatus' = "OK"
                      /\ "RX_ABORT" \notin LoRaMacState'
                      /\ "McpsIndSkip" \notin LoRaMacFlags', {TRUE})
            /\ UNCHANGED <<DeviceState, NextTx, at, failed, TxNextPacket,
                           testVars, rejoined>>
  <2>0. /\ rxData' => /\ IsLoRaMacNetworkJoined /\ mcpsStatus' = "OK"
                     /\ "RX_ABORT" \notin LoRaMacState'
                     /\ "McpsIndSkip" \notin LoRaMacFlags'
        /\ UNCHANGED <<DeviceState, NextTx, at, failed, TxNextPacket,
                       rejoined>>
    BY <1>17, Zenon DEF When, testVars
  <2> USE <1>17, <2>0 DEF OnRadioRxDone, RxRejected, RxJoinAccept, RxData,
                          RxProprietary, PrepareRxDoneAbort, FrameAccepted
  <2>1. OwedIsFlagged' /\ BusyFor' /\ Wave'
    OBVIOUS
  <2>2. Flight' /\ PutOff'
    OBVIOUS
  <2>3. Awaited'
    OBVIOUS
  <2>4. Ending' /\ Answered'
    OBVIOUS
  <2>5. InPass'
    OBVIOUS
  <2>6. Command'
    OBVIOUS
  <2>7. OnlyJoins'
    OBVIOUS
  <2>8. FirstSession'
    OBVIOUS
  <2> QED
    BY <2>1, <2>2, <2>3, <2>4, <2>5, <2>6, <2>7, <2>8
<1>18. ASSUME NEW late \in BOOLEAN, OnRadioRxFailed(late), UNCHANGED appVars
      PROVE  AppLife'
  BY <1>18 DEF OnRadioRxFailed, SecondWindowPassed
<1>19. CASE CheckEnter /\ UNCHANGED appVars
  BY <1>19 DEF CheckEnter, Ended, TxTimedOut
<1>20. CASE CheckReceived /\ UNCHANGED appVars
  BY <1>20 DEF CheckReceived, CycleEnd
<1>21. CASE CheckIndicate /\ UNCHANGED appVars
  BY <1>21 DEF CheckIndicate, IndicationDone
<1>22. ASSUME NEW out \in SendOutcomes, CheckJoin(out), UNCHANGED appVars
      PROVE  AppLife'
  BY <1>22
  DEF CheckJoin, JoinCycleOver, CycleEnd, SendAgain, ScheduleTx,
      ResetMacParameters, StatusAfter, TrialsAfter, FrameAfter, NewFrame
<1>23. ASSUME NEW out \in SendOutcomes, CheckRepeat(out), UNCHANGED appVars
      PROVE  AppLife'
  BY <1>23
  DEF CheckRepeat, RepetitionsOver, CycleEnd, SendAgain, ScheduleTx,
      ResetMacParameters, StatusAfter, TrialsAfter, FrameAfter, NewFrame
<1>24. ASSUME NEW out \in SendOutcomes, CheckRetry(out), UNCHANGED appVars
      PROVE  AppLife'
  BY <1>24
  DEF CheckRetry, MayRetry, GiveUp, CycleEnd, ScheduleTx, StatusAfter,
      TrialsAfter, FrameAfter
<1>25. CASE OnRxWindow1TimerEvent /\ UNCHANGED appVars
  BY <1>25 DEF OnRxWindow1TimerEvent
<1>26. CASE OnRxWindow2TimerEvent /\ UNCHANGED appVars
  BY <1>26 DEF OnRxWindow2TimerEvent, RxConfigOk
<1>27. CASE OnAckTimeoutTimerEvent /\ UNCHANGED appVars
  BY <1>27 DEF OnAckTimeoutTimerEvent
<1>28. ASSUME NEW out \in SendOutcomes, OnTxDelayedTimerEvent(out),
              UNCHANGED appVars
      PROVE  AppLife'
  BY <1>28
  DEF OnTxDelayedTimerEvent, SendAgain, ScheduleTx, ResetMacParameters,
      StatusAfter, TrialsAfter, FrameAfter, NewFrame
<1>29. CASE UNCHANGED allVars
  BY <1>29 DEF allVars
<1> QED
  BY <1>1, <1>2, <1>3, <1>4, <1>5, <1>6, <1>7, <1>8, <1>9, <1>10,
     <1>11, <1>12, <1>13, <1>14, <1>15, <1>16, <1>17, <1>18, <1>19, <1>20,
     <1>21, <1>22, <1>23, <1>24, <1>25, <1>26, <1>27, <1>28, <1>29
  DEF AppNext, MainLoop, RadioEvent, MacTimer

AppAlive == IInv /\ AppTypes /\ AppLife

LEMMA AppAliveAlways == ASSUME ~LateWindow PROVE AppSpec => []AppAlive
<1>1. AppInit => AppAlive
  BY InitParts, InitAppTypes, InitAppLife DEF AppAlive, IInv, AppInit
<1>2. AppAlive /\ [AppNext]_allVars => AppAlive'
  BY MacInvariant, NextAppTypes, NextAppLife DEF AppAlive
<1> QED
  BY <1>1, <1>2, PTL DEF AppSpec

(* The main loop never waits for a confirmation that will not come: the    *)
(* node stays silent for ever if NextTx is cleared for a frame that ended  *)
(* before SendFrame's result was looked at, or that was refused.           *)
THEOREM ConfirmIsComing ==
  ASSUME ~LateWindow PROVE AppSpec => []WaitsForConfirm
<1>1. AppAlive => WaitsForConfirm
  BY DEF AppAlive, AppLife, InPass, WaitsForConfirm
<1> QED
  BY AppAliveAlways, <1>1, PTL

(* As long as the network does not order to rejoin, DEVICE_STATE_SLEEP is  *)
(* left again: TxNextPacketTimer runs or a join is to be confirmed.        *)
THEOREM AwakeUntilRejoined ==
  ASSUME ~LateWindow PROVE AppSpec => []AwakeUntilRejoin
<1>1. AppAlive => AwakeUntilRejoin
  BY DEF AppAlive, AppLife, FirstSession, AwakeUntilRejoin, Awake
<1> QED
  BY AppAliveAlways, <1>1, PTL

(* What is proved above for a caller with discipline holds of this         *)
(* application, also when frames time out: its confirmations are given at  *)
(* rest, a join confirmed as OK has joined, and nothing is forgotten.      *)
THEOREM AppIsConfirmed ==
  ASSUME ~LateWindow
  PROVE  AppSpec => [](ConfirmsAtRest /\ JoinedIfConfirmed /\ NothingForgotten)
<1>1. ASSUME AppAlive, LoRaMacState = {}, check = "report"
      PROVE  radio = "idle" /\ Armed \subseteq {"MacStateCheck"}
  BY <1>1 DEF AppAlive, IInv, Sets, Timers, AppLife, Wave, Flight, OnAir,
              PutOff, Awaited, McpsBusy, Settled
<1>2. AppAlive => ConfirmsAtRest
  BY <1>1 DEF AppAlive, IInv, Values, AppLife, OwedIsFlagged, Waving, Joining,
              ConfirmsAtRest
<1>3. AppAlive => JoinedIfConfirmed
  BY DEF AppAlive, AppLife, Answered, JoinedIfConfirmed
<1>4. AppAlive => NothingForgotten
  BY DEF AppAlive, IInv, Sets, AppLife, OwedIsFlagged, BusyFor, McpsBusy,
         Asked, Waving, Joining, Settled, NothingForgotten
<1> QED
  BY AppAliveAlways, <1>2, <1>3, <1>4, PTL

LEMMA SessionStepHeld ==
  ASSUME IInv, AppTypes, AppLife, [AppNext]_allVars
  PROVE  IsLoRaMacNetworkJoined /\ ~IsLoRaMacNetworkJoined' => rejoined'
<1> USE LoRaMacAssumption, AppAssumption
    DEF When, Timers, Steps, confirmVars, retryVars, joinVars, histVars, IInv,
        Booleans, Sets, Values, Counters, Frames, FrameSet, AppTypes,
        testVars, appVars, macVars, vars, MainAt, Pass, AppLife,
        OwedIsFlagged, BusyFor, Wave, Flight, PutOff, Awaited, Ending,
        Answered, InPass, Command, OnlyJoins, FirstSession, TimedOut, Asked,
        Waving, OnAir, Settled, McpsBusy, Joining
<1>1. CASE JoinRequest
  BY <1>1
  DEF JoinRequest, AskJoin, Join, JoinBusy, MlmeMayStart, AppMayCall, Alone,
      ScheduleTx, ResetMacParameters, StatusAfter, TrialsAfter, FrameAfter,
      NewFrame
<1>2. CASE PassSend
  BY <1>2
  DEF PassSend, SendFrame, FrameKinds, McpsRequest, ScheduleTx, StatusAfter,
      TrialsAfter, FrameAfter, NewFrame, UnusedAfter, AppMayCall, DataKinds
<1>3. CASE Confirmations
  BY <1>3
  DEF Confirmations, CheckReport, NextTxAfter, ConfirmGiven, JoinConfirmed,
      AfterJoin
<1>4. ASSUME NEW command \in Commands \cup {"none"}, McpsIndication(command)
      PROVE  IsLoRaMacNetworkJoined /\ ~IsLoRaMacNetworkJoined' => rejoined'
  BY <1>4
  DEF McpsIndication, Test, LinkCheck, TxContinuousWave, AskJoin, Join,
      JoinBusy, MlmeMayStart, AppMayCall, Alone, ScheduleTx,
      ResetMacParameters, StatusAfter, TrialsAfter, FrameAfter, NewFrame
<1>5. CASE IndicationLeave
  BY <1>5 DEF IndicationLeave, CheckLeave, IndicationDone
<1>6. CASE OnRadioTxDone /\ at = "switch" /\ UNCHANGED appVars
  BY <1>6 DEF OnRadioTxDone, WindowTimers
<1>7. CASE OnRadioTxTimeout /\ at = "switch" /\ UNCHANGED appVars
  BY <1>7 DEF OnRadioTxTimeout
<1>8. CASE /\ OnRadioRxDone
           /\ rxData' \in {FALSE} \cup
                When(/\ IsLoRaMacNetworkJoined /\ mcpsStatus' = "OK"
                     /\ "RX_ABORT" \notin LoRaMacState'
                     /\ "McpsIndSkip" \notin LoRaMacFlags', {TRUE})
           /\ UNCHANGED <<DeviceState, NextTx, at, failed, TxNextPacket,
                          testVars, rejoined>>
  BY <1>8
  DEF OnRadioRxDone, RxRejected, RxJoinAccept, RxData, RxProprietary,
      PrepareRxDoneAbort, FrameAccepted
<1>9. ASSUME NEW late \in BOOLEAN, OnRadioRxFailed(late), UNCHANGED appVars
      PROVE  IsLoRaMacNetworkJoined /\ ~IsLoRaMacNetworkJoined' => rejoined'
  BY <1>9 DEF OnRadioRxFailed, SecondWindowPassed
<1>10. CASE CheckEnter /\ UNCHANGED appVars
  BY <1>10 DEF CheckEnter, Ended, TxTimedOut
<1>11. CASE CheckReceived /\ UNCHANGED appVars
  BY <1>11 DEF CheckReceived, CycleEnd
<1>12. CASE CheckIndicate /\ UNCHANGED appVars
  BY <1>12 DEF CheckIndicate, IndicationDone
<1>13. ASSUME NEW out \in SendOutcomes, CheckJoin(out), UNCHANGED appVars
      PROVE  IsLoRaMacNetworkJoined /\ ~IsLoRaMacNetworkJoined' => rejoined'
  BY <1>13
  DEF CheckJoin, JoinCycleOver, CycleEnd, SendAgain, ScheduleTx,
      ResetMacParameters, StatusAfter, TrialsAfter, FrameAfter, NewFrame
<1>14. ASSUME NEW out \in SendOutcomes, CheckRepeat(out), UNCHANGED appVars
      PROVE  IsLoRaMacNetworkJoined /\ ~IsLoRaMacNetworkJoined' => rejoined'
  BY <1>14
  DEF CheckRepeat, RepetitionsOver, CycleEnd, SendAgain, ScheduleTx,
      ResetMacParameters, StatusAfter, TrialsAfter, FrameAfter, NewFrame
<1>15. ASSUME NEW out \in SendOutcomes, CheckRetry(out), UNCHANGED appVars
      PROVE  IsLoRaMacNetworkJoined /\ ~IsLoRaMacNetworkJoined' => rejoined'
  BY <1>15
  DEF CheckRetry, MayRetry, GiveUp, CycleEnd, ScheduleTx, StatusAfter,
      TrialsAfter, FrameAfter
<1>16. CASE OnRxWindow1TimerEvent /\ UNCHANGED appVars
  BY <1>16 DEF OnRxWindow1TimerEvent
<1>17. CASE OnRxWindow2TimerEvent /\ UNCHANGED appVars
  BY <1>17 DEF OnRxWindow2TimerEvent, RxConfigOk
<1>18. CASE OnAckTimeoutTimerEvent /\ UNCHANGED appVars
  BY <1>18 DEF OnAckTimeoutTimerEvent
<1>19. ASSUME NEW out \in SendOutcomes, OnTxDelayedTimerEvent(out),
              UNCHANGED appVars
      PROVE  IsLoRaMacNetworkJoined /\ ~IsLoRaMacNetworkJoined' => rejoined'
  BY <1>19
  DEF OnTxDelayedTimerEvent, SendAgain, ScheduleTx, ResetMacParameters,
      StatusAfter, TrialsAfter, FrameAfter, NewFrame
<1>20. CASE \/ PassInit \/ PassJoin \/ JoinLeave \/ PassSendNothing
            \/ SendResult \/ SendLeave \/ PassCycle \/ CycleArm
            \/ OnTxNextPacketTimerEvent \/ UNCHANGED allVars
  BY <1>20
  DEF PassInit, PassJoin, JoinLeave, PassSendNothing, SendResult, SendLeave,
      PassCycle, CycleArm, OnTxNextPacketTimerEvent, allVars
<1> QED
  BY <1>1, <1>2, <1>3, <1>4, <1>5, <1>6, <1>7, <1>8, <1>9, <1>10,
     <1>11, <1>12, <1>13, <1>14, <1>15, <1>16, <1>17, <1>18, <1>19, <1>20
  DEF AppNext, MainLoop, RadioEvent, MacTimer

(* The session of a node is reset only by a join request, and the main     *)
(* loop makes none once the node has joined and was not told to rejoin:    *)
(* not when a timer that was started before the join runs out after it,    *)
(* and not from the step it was at when the join was accepted.             *)
THEOREM SessionIsHeld == ASSUME ~LateWindow PROVE AppSpec => SessionHeld
<1>1. AppAlive /\ [AppNext]_allVars =>
        [IsLoRaMacNetworkJoined /\ ~IsLoRaMacNetworkJoined'
         => rejoined']_allVars
  BY SessionStepHeld DEF AppAlive
<1> QED
  BY AppAliveAlways, <1>1, PTL DEF AppSpec, SessionHeld

(* While TX_RUNNING or TX_DELAYED is set something is still to come that   *)
(* ends the transmission, also of one the radio never reported the end of. *)
AppAttending ==
  /\ "TX_DELAYED" \in LoRaMacState => "TxDelayed" \in Armed
  /\ "TX_RUNNING" \in LoRaMacState /\ Settled => "MacStateCheck" \in Armed
  /\ "TX_RUNNING" \in LoRaMacState /\ "TX_DELAYED" \notin LoRaMacState
       /\ "MacDone" \notin LoRaMacFlags
     => radio # "idle" \/ "RxWindow2" \in Armed
  /\ NodeAckRequested /\ "TX_RUNNING" \in LoRaMacState
       /\ "TX_DELAYED" \notin LoRaMacState =>
       \/ radio \in {"tx", "cw"} \/ "AckTimeout" \in Armed \/ AckTimeoutRetry
       \/ /\ "MacDone" \in LoRaMacFlags
          /\ \/ TimedOut
             \/ /\ "McpsInd" \in LoRaMacFlags /\ AckReceived
                /\ check \in {"rest", "received"}

LEMMA InitAppAttending == AppInit => AppAttending
  BY DEF AppInit, Init, AppAttending

LEMMA NextAppAttending ==
  ASSUME IInv, AppTypes, AppLife, AppAttending,
         ~LateWindow, ~RadioPreempts, [AppNext]_allVars
  PROVE  AppAttending'
<1> USE LoRaMacAssumption, AppAssumption
    DEF When, Timers, Steps, confirmVars, retryVars, joinVars, histVars, IInv,
        Booleans, Sets, Values, Counters, Frames, FrameSet, AppTypes,
        testVars, appVars, macVars, vars, MainAt, Pass, AppLife,
        OwedIsFlagged, BusyFor, Wave, Flight, PutOff, Awaited, Ending,
        Answered, InPass, Command, OnlyJoins, FirstSession, TimedOut, Asked,
        Waving, OnAir, Settled, McpsBusy, Joining, AppAttending,
        RadioMayInterrupt
<1>1. CASE JoinRequest
  BY <1>1
  DEF JoinRequest, AskJoin, Join, JoinBusy, MlmeMayStart, AppMayCall, Alone,
      ScheduleTx, ResetMacParameters, StatusAfter, TrialsAfter, FrameAfter,
      NewFrame
<1>2. CASE PassSend
  <2>1. ASSUME NEW kind \in {"unconfirmed", "confirmed"},
               NEW n \in AckTrials \cup {1},
               McpsRequest(kind, n)
        PROVE  AppAttending'
    BY <2>1
    DEF McpsRequest, ScheduleTx, StatusAfter, TrialsAfter, FrameAfter,
        NewFrame, UnusedAfter, AppMayCall, DataKinds
  <2>2. SendFrame
    BY <1>2 DEF PassSend
  <2>3. CASE UNCHANGED vars
    BY <2>3
  <2>4. CASE ~McpsBusy
    <3>1. PICK kind \in FrameKinds :
                 McpsRequest(kind, IF kind = "confirmed" THEN NbTrials ELSE 1)
      BY <2>2, <2>4, Zenon DEF SendFrame
    <3>2. /\ kind \in {"unconfirmed", "confirmed"}
          /\ (IF kind = "confirmed" THEN NbTrials ELSE 1)
               \in AckTrials \cup {1}
      BY DEF FrameKinds
    <3> QED
      BY <2>1, <3>1, <3>2, Zenon
  <2> QED
    BY <2>2, <2>3, <2>4, Zenon DEF SendFrame, macVars
<1>3. CASE Confirmations
  BY <1>3
  DEF Confirmations, CheckReport, NextTxAfter, ConfirmGiven, JoinConfirmed,
      AfterJoin
<1>4. ASSUME NEW command \in Commands \cup {"none"}, McpsIndication(command)
      PROVE  AppAttending'
  BY <1>4
  DEF McpsIndication, Test, LinkCheck, TxContinuousWave, AskJoin, Join,
      JoinBusy, MlmeMayStart, AppMayCall, Alone, ScheduleTx,
      ResetMacParameters, StatusAfter, TrialsAfter, FrameAfter, NewFrame
<1>5. CASE IndicationLeave
  BY <1>5 DEF IndicationLeave, CheckLeave, IndicationDone
<1>6. CASE OnRadioTxDone /\ at = "switch" /\ UNCHANGED appVars
  BY <1>6 DEF OnRadioTxDone, WindowTimers
<1>7. CASE OnRadioTxTimeout /\ at = "switch" /\ UNCHANGED appVars
  BY <1>7 DEF OnRadioTxTimeout
<1>8. CASE /\ OnRadioRxDone
           /\ rxData' \in {FALSE} \cup
                When(/\ IsLoRaMacNetworkJoined /\ mcpsStatus' = "OK"
                     /\ "RX_ABORT" \notin LoRaMacState'
                     /\ "McpsIndSkip" \notin LoRaMacFlags', {TRUE})
           /\ UNCHANGED <<DeviceState, NextTx, at, failed, TxNextPacket,
                          testVars, rejoined>>
  BY <1>8
  DEF OnRadioRxDone, RxRejected, RxJoinAccept, RxData, RxProprietary,
      PrepareRxDoneAbort, FrameAccepted
<1>9. ASSUME NEW late \in BOOLEAN, OnRadioRxFailed(late), UNCHANGED appVars
      PROVE  AppAttending'
  BY <1>9 DEF OnRadioRxFailed, SecondWindowPassed
<1>10. CASE CheckEnter /\ UNCHANGED appVars
  BY <1>10 DEF CheckEnter, Ended, TxTimedOut
<1>11. CASE CheckReceived /\ UNCHANGED appVars
  BY <1>11 DEF CheckReceived, CycleEnd
<1>12. CASE CheckIndicate /\ UNCHANGED appVars
  BY <1>12 DEF CheckIndicate, IndicationDone
<1>13. ASSUME NEW out \in SendOutcomes, CheckJoin(out), UNCHANGED appVars
      PROVE  AppAttending'
  BY <1>13
  DEF CheckJoin, JoinCycleOver, CycleEnd, SendAgain, ScheduleTx,
      ResetMacParameters, StatusAfter, TrialsAfter, FrameAfter, NewFrame
<1>14. ASSUME NEW out \in SendOutcomes, CheckRepeat(out), UNCHANGED appVars
      PROVE  AppAttending'
  BY <1>14
  DEF CheckRepeat, RepetitionsOver, CycleEnd, SendAgain, ScheduleTx,
      ResetMacParameters, StatusAfter, TrialsAfter, FrameAfter, NewFrame
<1>15. ASSUME NEW out \in SendOutcomes, CheckRetry(out), UNCHANGED appVars
      PROVE  AppAttending'
  BY <1>15
  DEF CheckRetry, MayRetry, GiveUp, CycleEnd, ScheduleTx, StatusAfter,
      TrialsAfter, FrameAfter
<1>16. CASE OnRxWindow1TimerEvent /\ UNCHANGED appVars
  BY <1>16 DEF OnRxWindow1TimerEvent
<1>17. CASE OnRxWindow2TimerEvent /\ UNCHANGED appVars
  BY <1>17 DEF OnRxWindow2TimerEvent, RxConfigOk
<1>18. CASE OnAckTimeoutTimerEvent /\ UNCHANGED appVars
  BY <1>18 DEF OnAckTimeoutTimerEvent
<1>19. ASSUME NEW out \in SendOutcomes, OnTxDelayedTimerEvent(out),
              UNCHANGED appVars
      PROVE  AppAttending'
  BY <1>19
  DEF OnTxDelayedTimerEvent, SendAgain, ScheduleTx, ResetMacParameters,
      StatusAfter, TrialsAfter, FrameAfter, NewFrame
<1>20. CASE \/ PassInit \/ PassJoin \/ JoinLeave \/ PassSendNothing
            \/ SendResult \/ SendLeave \/ PassCycle \/ CycleArm
            \/ OnTxNextPacketTimerEvent \/ UNCHANGED allVars
  BY <1>20
  DEF PassInit, PassJoin, JoinLeave, PassSendNothing, SendResult, SendLeave,
      PassCycle, CycleArm, OnTxNextPacketTimerEvent, allVars
<1> QED
  BY <1>1, <1>2, <1>3, <1>4, <1>5, <1>6, <1>7, <1>8, <1>9, <1>10,
     <1>11, <1>12, <1>13, <1>14, <1>15, <1>16, <1>17, <1>18, <1>19, <1>20
  DEF AppNext, MainLoop, RadioEvent, MacTimer

(* The MAC of this application, which may be told of a frame that timed    *)
(* out, is never left busy with nothing to come that ends it.              *)
THEOREM AppIsAttended ==
  ASSUME ~LateWindow, ~RadioPreempts PROVE AppSpec => []Attended
<1>1. AppInit => AppAlive /\ AppAttending
  BY InitParts, InitAppTypes, InitAppLife, InitAppAttending
  DEF AppAlive, IInv, AppInit
<1>2. AppAlive /\ AppAttending /\ [AppNext]_allVars =>
        (AppAlive /\ AppAttending)'
  BY MacInvariant, NextAppTypes, NextAppLife, NextAppAttending DEF AppAlive
<1>3. AppAlive /\ AppAttending => Attended
  BY DEF AppAlive, IInv, Sets, AppLife, BusyFor, McpsBusy, Asked, Waving,
         Joining, Awaited, Ending, Settled, AppAttending, Attended, Pending,
         CheckEnds, TxTimedOut, TimedOut
<1> QED
  BY <1>1, <1>2, <1>3, PTL DEF AppSpec
=============================================================================
