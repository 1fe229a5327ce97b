------------------------------ MODULE LoRaMac ------------------------------
(***************************************************************************)
(* The class A state machine of src/mac/LoRaMac.c: requests of the          *)
(* application, events of the radio, the five timers of the MAC and the    *)
(* handler of MacStateCheckTimer, which alone ends a transmission.         *)
(*                                                                         *)
(* Requests are made by the main loop or in the indication callback.  The  *)
(* timer callbacks run in the RTC interrupt, one at a time, before the     *)
(* main loop goes on.  The radio events run in the DIO interrupts, which   *)
(* preempt the RTC interrupt: RadioPreempts says whether one may come      *)
(* between two steps of OnMacStateCheckTimerEvent.                         *)
(*                                                                         *)
(* Time is kept as an order: the first window opens before the second, and *)
(* the acknowledge timeout is over after both.  Data rates, channels and   *)
(* payloads are left out; whether a frame may go on the air at once, later *)
(* or not at all (SendOutcomes) is chosen at every ScheduleTx.  A status   *)
(* that is neither OK nor TX_TIMEOUT is "ERROR".                           *)
(***************************************************************************)
EXTENDS Naturals

CONSTANTS
  Requests,         \* what the application asks for, among RequestKinds
  AckTrials,        \* values of NbTrials in a confirmed request
  JoinTrials,       \* values of NbTrials in a join request
  ChannelsNbRep,    \* transmissions of an unconfirmed frame
  MAX_ACK_RETRIES,
  SendOutcomes,     \* among {"now", "later", "length"}
  RadioPreempts,    \* radio events within OnMacStateCheckTimerEvent
  TxTimeouts,       \* the radio may fail to report the end of a frame
  LateWindow,       \* RX1 may end while the alarm of RX2 is due
  Overlap,          \* services are requested while others are owed
  MaxUpLinkCounter  \* bound: no request once UpLinkCounter is there

DataKinds == {"unconfirmed", "confirmed", "proprietary"}
RequestKinds == DataKinds \cup {"JOIN", "LINK_CHECK", "TXCW"}

ASSUME LoRaMacAssumption ==
  /\ Requests \subseteq RequestKinds
  /\ AckTrials \subseteq Nat \ {0}
  /\ JoinTrials \subseteq Nat \ {0}
  /\ ChannelsNbRep \in Nat \ {0}
  /\ MAX_ACK_RETRIES \in Nat
  /\ "now" \in SendOutcomes
  /\ SendOutcomes \subseteq {"now", "later", "length"}
  /\ RadioPreempts \in BOOLEAN
  /\ TxTimeouts \in BOOLEAN
  /\ LateWindow \in BOOLEAN
  /\ Overlap \in BOOLEAN
  /\ MaxUpLinkCounter \in Nat

VARIABLES
  LoRaMacState,     \* the bits that are set
  LoRaMacFlags,     \* the bits that are set
  Armed,            \* the timers of the MAC that are started
  radio,            \* what the radio does: "idle", "tx", "cw" or "rx"
  RxSlot,           \* 0: first window, 1: second
  mcpsStatus,       \* McpsConfirm.Status
  mlmeStatus,       \* MlmeConfirm.Status
  MlmeRequest,      \* MlmeConfirm.MlmeRequest
  AckReceived,      \* McpsConfirm.AckReceived
  NodeAckRequested,
  AckTimeoutRetry,
  AckTimeoutRetries,
  AckTimeoutRetriesCounter,
  ChannelsNbRepCounter,
  IsLoRaMacNetworkJoined,
  JoinRequestTrials,
  MaxJoinRequestTrials,
  UpLinkCounter,
  check,            \* where OnMacStateCheckTimerEvent is; "rest": not running
  frame,            \* history: the frame in LoRaMacBuffer
  unused,           \* history: no counter from here on was on the air
  owed              \* history: requests accepted and not confirmed

confirmVars == <<mcpsStatus, mlmeStatus, MlmeRequest, AckReceived>>
retryVars == <<NodeAckRequested, AckTimeoutRetry, AckTimeoutRetries,
               AckTimeoutRetriesCounter, ChannelsNbRepCounter>>
joinVars == <<IsLoRaMacNetworkJoined, JoinRequestTrials, MaxJoinRequestTrials>>
histVars == <<frame, unused, owed>>
vars == <<LoRaMacState, LoRaMacFlags, Armed, radio, RxSlot, confirmVars,
          retryVars, joinVars, UpLinkCounter, check,
          histVars>>

Timers == {"MacStateCheck", "TxDelayed", "RxWindow1", "RxWindow2", "AckTimeout"}
Steps == {"rest", "cycle", "received", "retry", "report", "indicate", "callback"}
Statuses == {"OK", "ERROR", "TX_TIMEOUT"}

(* Types of every variable. *)
TypeOK ==
  /\ LoRaMacState \subseteq {"TX_RUNNING", "TX_DELAYED", "RX_ABORT"}
  /\ LoRaMacFlags \subseteq
       {"McpsReq", "McpsInd", "McpsIndSkip", "MlmeReq", "MacDone"}
  /\ Armed \subseteq Timers
  /\ radio \in {"idle", "tx", "cw", "rx"}
  /\ RxSlot \in {0, 1}
  /\ mcpsStatus \in Statuses
  /\ mlmeStatus \in Statuses
  /\ MlmeRequest \in {"JOIN", "LINK_CHECK", "TXCW"}
  /\ AckReceived \in BOOLEAN
  /\ NodeAckRequested \in BOOLEAN
  /\ AckTimeoutRetry \in BOOLEAN
  /\ AckTimeoutRetries \in AckTrials \cup {1}
  /\ AckTimeoutRetriesCounter \in 1 .. MAX_ACK_RETRIES + 1
  /\ ChannelsNbRepCounter \in Nat
  /\ IsLoRaMacNetworkJoined \in BOOLEAN
  /\ JoinRequestTrials \in Nat
  /\ MaxJoinRequestTrials \in JoinTrials \cup {1}
  /\ UpLinkCounter \in Nat
  /\ check \in Steps
  /\ frame \in [kind : DataKinds \cup {"JOIN"}, cnt : Nat, tries : Nat,
                aired : BOOLEAN, grown : BOOLEAN]
  /\ unused \in Nat
  /\ owed \subseteq {"MCPS", "JOIN", "LINK_CHECK", "TXCW"}

(* LoRaMacInitialization *)
Init ==
  /\ LoRaMacState = {} /\ LoRaMacFlags = {} /\ Armed = {}
  /\ radio = "idle" /\ RxSlot = 0
  /\ mcpsStatus = "OK" /\ mlmeStatus = "OK"
  /\ MlmeRequest = "JOIN" /\ AckReceived = FALSE
  /\ NodeAckRequested = FALSE /\ AckTimeoutRetry = FALSE
  /\ AckTimeoutRetries = 1 /\ AckTimeoutRetriesCounter = 1
  /\ ChannelsNbRepCounter = 0
  /\ IsLoRaMacNetworkJoined = FALSE
  /\ JoinRequestTrials = 0 /\ MaxJoinRequestTrials = 1
  /\ UpLinkCounter = 0
  /\ check = "rest"
  /\ frame = [kind |-> "JOIN", cnt |-> 0, tries |-> 0,
              aired |-> FALSE, grown |-> FALSE]
  /\ unused = 0 /\ owed = {}

When(b, s) == IF b THEN s ELSE {}

-----------------------------------------------------------------------------
(* Sending *)

(* Seeded fault: MlmeRequest is looked at without MlmeReq. *)
BugJoining == MlmeRequest = "JOIN"

Joining == "MlmeReq" \in LoRaMacFlags /\ MlmeRequest = "JOIN"

(* ScheduleTx: what it does to the state, the timers and the radio, called *)
(* with s and a in LoRaMacState and Armed, and the network joined or not.  *)
(* At "now" it ends in SendFrameOnChannel.                                 *)
ScheduleTx(out, joined, s, a) ==
  /\ out \in SendOutcomes
  /\ out = "length" => joined
  /\ LoRaMacState' = s \cup When(out = "now", {"TX_RUNNING"})
                       \cup When(out = "later", {"TX_DELAYED"})
  /\ Armed' = a \cup When(out = "now", {"MacStateCheck"})
                \cup When(out = "later", {"TxDelayed"})
  /\ radio' = IF out = "now" THEN "tx" ELSE radio

(* What SendFrameOnChannel does to a Status, to JoinRequestTrials and to   *)
(* the frame.                                                              *)
StatusAfter(out, status) == IF out = "now" THEN "ERROR" ELSE status
TrialsAfter(out, joined, n) == IF out = "now" /\ ~joined THEN n + 1 ELSE n
FrameAfter(out, f) == IF out = "now" THEN [f EXCEPT !.tries = @ + 1] ELSE f

NewFrame(kind, cnt) ==
  [kind |-> kind, cnt |-> cnt, tries |-> 0, aired |-> FALSE, grown |-> FALSE]

(* The counters the frame in the buffer leaves unused once it is replaced. *)
UnusedAfter ==
  IF frame.kind \in DataKinds /\ frame.aired /\ frame.cnt >= unused
  THEN frame.cnt + 1 ELSE unused

(* ResetMacParameters *)
ResetMacParameters ==
  /\ IsLoRaMacNetworkJoined' = FALSE
  /\ UpLinkCounter' = 0
  /\ ChannelsNbRepCounter' = 0
  /\ AckTimeoutRetries' = 1
  /\ AckTimeoutRetriesCounter' = 1
  /\ AckTimeoutRetry' = FALSE
  /\ NodeAckRequested' = FALSE
  /\ unused' = 0

(* OnTxDelayedTimerEvent, called by its timer and by the check handler to  *)
(* send the frame again.  The result of ScheduleTx is not looked at.  The  *)
(* frame fitted before; it is too long now only if a link check was added  *)
(* to the commands to send while it was put off.                           *)
SendAgain(out) ==
  LET s == LoRaMacState \ {"TX_DELAYED"}
      a == Armed \ {"TxDelayed"}
      joined == IsLoRaMacNetworkJoined /\ ~Joining
  IN  /\ out = "length" =>
              frame.grown /\ "TX_RUNNING" \notin LoRaMacState
      /\ ScheduleTx(out, joined, s, a)
      /\ mcpsStatus' = StatusAfter(out, mcpsStatus)
      /\ mlmeStatus' = StatusAfter(out, mlmeStatus)
      /\ JoinRequestTrials' = TrialsAfter(out, joined, JoinRequestTrials)
      /\ IF Joining
           THEN /\ ResetMacParameters
                /\ frame' = FrameAfter(out, NewFrame("JOIN", 0))
           ELSE /\ frame' = FrameAfter(out, frame)
                /\ UNCHANGED <<retryVars, IsLoRaMacNetworkJoined, UpLinkCounter, unused>>

-----------------------------------------------------------------------------
(* Requests.  One that is refused and changes nothing is a stutter. *)

AppMayCall == check \in {"rest", "callback"}

(* LoRaMacMcpsRequest: PrepareFrame, then ScheduleTx; McpsReq is set when  *)
(* both went well.                                                         *)
McpsBusy == LoRaMacState \cap {"TX_RUNNING", "TX_DELAYED"} # {}

McpsRequest(kind, trials) ==
  /\ AppMayCall /\ ~McpsBusy
  /\ kind \in Requests \cap DataKinds
  /\ trials \in (IF kind = "confirmed" THEN AckTrials ELSE {1})
  /\ UpLinkCounter < MaxUpLinkCounter
  /\ AckTimeoutRetriesCounter' = 1
  /\ AckTimeoutRetries' = trials
  /\ AckReceived' = FALSE
  /\ mcpsStatus' = "ERROR"
  /\ IF kind # "proprietary" /\ ~IsLoRaMacNetworkJoined
       THEN /\ NodeAckRequested' = FALSE
            /\ UNCHANGED <<LoRaMacState, Armed, radio, LoRaMacFlags, mlmeStatus,
                           JoinRequestTrials, frame, unused, owed>>
       ELSE \E out \in SendOutcomes :
              /\ ScheduleTx(out, IsLoRaMacNetworkJoined, LoRaMacState, Armed)
              /\ mlmeStatus' = StatusAfter(out, mlmeStatus)
              /\ JoinRequestTrials' =
                   TrialsAfter(out, IsLoRaMacNetworkJoined, JoinRequestTrials)
              /\ unused' = UnusedAfter
              /\ frame' = FrameAfter(out, NewFrame(kind, UpLinkCounter))
              /\ NodeAckRequested' = (kind = "confirmed" /\ out # "length")
              /\ LoRaMacFlags' =
                   LoRaMacFlags \cup When(out # "length", {"McpsReq"})
              /\ owed' = owed \cup When(out # "length", {"MCPS"})
  /\ UNCHANGED <<RxSlot, MlmeRequest, AckTimeoutRetry, ChannelsNbRepCounter,
                 IsLoRaMacNetworkJoined, MaxJoinRequestTrials, UpLinkCounter, check>>

(* LoRaMacMlmeRequest of each type.  MlmeConfirm is wiped once TX_RUNNING  *)
(* is found clear: MlmeRequest becomes 0, which is MLME_JOIN.              *)
MlmeMayStart == AppMayCall /\ "TX_RUNNING" \notin LoRaMacState

(* The caller's discipline: what it waits for when it makes a request.     *)
Alone(others) == Overlap \/ owed \cap others = {}

JoinBusy == "TX_DELAYED" \in LoRaMacState

Join(trials) ==
  /\ MlmeMayStart /\ Alone({"LINK_CHECK", "TXCW"})
  /\ "JOIN" \in Requests
  /\ MlmeRequest' = "JOIN"
  /\ mlmeStatus' = "ERROR"
  /\ IF JoinBusy
       THEN UNCHANGED <<LoRaMacState, LoRaMacFlags, Armed, radio, mcpsStatus,
                        AckReceived, retryVars, joinVars, UpLinkCounter, histVars>>
       ELSE \E out \in SendOutcomes :
              /\ ResetMacParameters
              /\ ScheduleTx(out, FALSE, LoRaMacState, Armed)
              /\ LoRaMacFlags' = LoRaMacFlags \cup {"MlmeReq"}
              /\ MaxJoinRequestTrials' = trials
              /\ JoinRequestTrials' = TrialsAfter(out, FALSE, 0)
              /\ mcpsStatus' = StatusAfter(out, mcpsStatus)
              /\ AckReceived' = FALSE
              /\ frame' = FrameAfter(out, NewFrame("JOIN", 0))
              /\ owed' = owed \cup {"JOIN"}
  /\ UNCHANGED <<RxSlot, check>>

(* The command that asks the network is added to those to send, if there   *)
(* is room for it; a frame put off does not carry it but is measured with  *)
(* it.                                                                     *)
LinkCheck ==
  /\ MlmeMayStart /\ Alone({"MCPS", "JOIN", "TXCW"})
  /\ "LINK_CHECK" \in Requests
  /\ MlmeRequest' = "LINK_CHECK"
  /\ mlmeStatus' = "ERROR"
  /\ \/ /\ LoRaMacFlags' = LoRaMacFlags \cup {"MlmeReq"}
        /\ owed' = owed \cup {"LINK_CHECK"}
        /\ frame' = [frame EXCEPT !.grown = "TX_DELAYED" \in LoRaMacState]
        /\ UNCHANGED NodeAckRequested
     \/ /\ LoRaMacFlags' = LoRaMacFlags \ {"MlmeReq"}
        /\ NodeAckRequested' = FALSE
        /\ UNCHANGED <<owed, frame>>
  /\ UNCHANGED <<LoRaMacState, Armed, radio, RxSlot, mcpsStatus, AckReceived,
                 AckTimeoutRetry, AckTimeoutRetries, AckTimeoutRetriesCounter,
                 ChannelsNbRepCounter, joinVars, UpLinkCounter, check, unused>>

TxContinuousWave ==
  /\ MlmeMayStart /\ Alone({"MCPS", "JOIN", "LINK_CHECK"})
  /\ "TXCW" \in Requests
  /\ LoRaMacFlags' = LoRaMacFlags \cup {"MlmeReq"}
  /\ MlmeRequest' = "TXCW"
  /\ mlmeStatus' = "ERROR"
  /\ LoRaMacState' = LoRaMacState \cup {"TX_RUNNING"}
  /\ Armed' = Armed \cup {"MacStateCheck"}
  /\ radio' = "cw"
  /\ owed' = owed \cup {"TXCW"}
  /\ UNCHANGED <<RxSlot, mcpsStatus, AckReceived, retryVars, joinVars,
                 UpLinkCounter, check, frame, unused>>

-----------------------------------------------------------------------------
(* Events of the radio *)

RadioMayInterrupt == check = "rest" \/ RadioPreempts

(* Seeded fault: the acknowledge timeout is not started. *)
BugWindowTimers == {"RxWindow1", "RxWindow2"}

(* The timers OnRadioTxDone starts: the receive windows are always on,     *)
(* nothing calls LoRaMacTestRxWindowsOn.                                   *)
WindowTimers ==
  {"RxWindow1", "RxWindow2"} \cup When(NodeAckRequested, {"AckTimeout"})

OnRadioTxDone ==
  /\ RadioMayInterrupt /\ radio = "tx"
  /\ radio' = "idle"
  /\ Armed' = Armed \cup WindowTimers
  /\ mcpsStatus' = IF NodeAckRequested THEN mcpsStatus ELSE "OK"
  /\ ChannelsNbRepCounter' =
       IF NodeAckRequested THEN ChannelsNbRepCounter
                           ELSE ChannelsNbRepCounter + 1
  /\ frame' = [frame EXCEPT !.aired = TRUE]
  /\ UNCHANGED <<LoRaMacState, LoRaMacFlags, RxSlot, mlmeStatus, MlmeRequest,
                 AckReceived, NodeAckRequested, AckTimeoutRetry,
                 AckTimeoutRetries, AckTimeoutRetriesCounter, joinVars,
                 UpLinkCounter, check, unused, owed>>

(* A callback of the timer list: it never comes within the check handler. *)
OnRadioTxTimeout ==
  /\ check = "rest"
  /\ radio = "cw" \/ (radio = "tx" /\ TxTimeouts)
  /\ radio' = "idle"
  /\ mcpsStatus' = "TX_TIMEOUT" /\ mlmeStatus' = "TX_TIMEOUT"
  /\ LoRaMacFlags' = LoRaMacFlags \cup {"MacDone"}
  /\ UNCHANGED <<LoRaMacState, Armed, RxSlot, MlmeRequest, AckReceived,
                 retryVars, joinVars, UpLinkCounter, check,
                 histVars>>

(* OnRadioRxTimeout and OnRadioRxError.  In the first window the cycle is  *)
(* done only if RxWindow2Delay is over: that is, if the second one was     *)
(* refused because the radio still received.                               *)
SecondWindowPassed(late) == "RxWindow2" \notin Armed \/ late

OnRadioRxFailed(late) ==
  /\ RadioMayInterrupt /\ radio = "rx"
  /\ late => LateWindow
  /\ radio' = "idle"
  /\ mcpsStatus' = IF NodeAckRequested THEN "ERROR" ELSE mcpsStatus
  /\ mlmeStatus' = "ERROR"
  /\ LoRaMacFlags' = LoRaMacFlags \cup
       When(RxSlot = 1 \/ SecondWindowPassed(late), {"MacDone"})
  /\ UNCHANGED <<LoRaMacState, Armed, RxSlot, MlmeRequest, AckReceived,
                 retryVars, joinVars, UpLinkCounter, check,
                 histVars>>

(* PrepareRxDoneAbort with OnAckTimeoutTimerEvent in it *)
PrepareRxDoneAbort ==
  /\ LoRaMacState' = LoRaMacState \cup {"RX_ABORT"}
  /\ AckTimeoutRetry' = (AckTimeoutRetry \/ NodeAckRequested)
  /\ LoRaMacFlags' = LoRaMacFlags \cup {"McpsInd", "MacDone"}
  /\ Armed' = (Armed \ ({"RxWindow2"} \cup When(NodeAckRequested, {"AckTimeout"})))
                \cup {"MacStateCheck"}

(* Seeded fault: the second window is not cancelled. *)
BugFrameAccepted(flags, a) ==
  /\ LoRaMacFlags' = (LoRaMacFlags \ {"McpsIndSkip"}) \cup flags \cup {"MacDone"}
  /\ Armed' = a \cup {"MacStateCheck"}

(* The end of OnRadioRxDone for a frame that is not aborted. *)
FrameAccepted(flags, a) ==
  /\ LoRaMacFlags' = (LoRaMacFlags \ {"McpsIndSkip"}) \cup flags \cup {"MacDone"}
  /\ Armed' = (a \ {"RxWindow2"}) \cup {"MacStateCheck"}

(* A frame that is for another node, damaged, repeated, unknown, too long, *)
(* or a join accept nobody waits for.  McpsConfirm.Status is OK already    *)
(* when the repetition is found.                                           *)
RxRejected ==
  /\ PrepareRxDoneAbort
  /\ mcpsStatus' \in {mcpsStatus} \cup When(IsLoRaMacNetworkJoined, {"OK"})
  /\ UNCHANGED <<mlmeStatus, IsLoRaMacNetworkJoined>>
  /\ AckReceived' = FALSE

(* Seeded fault: the status is set whatever the MIC. *)
BugRxJoinAccept(micOk) ==
  /\ ~IsLoRaMacNetworkJoined
  /\ LoRaMacFlags' = LoRaMacFlags \cup {"MacDone"}
  /\ Armed' = (Armed \ {"RxWindow2"}) \cup {"MacStateCheck"}
  /\ mlmeStatus' = "OK"
  /\ IsLoRaMacNetworkJoined' = micOk
  /\ AckReceived' = FALSE
  /\ UNCHANGED <<LoRaMacState, AckTimeoutRetry, mcpsStatus>>

RxJoinAccept(micOk) ==
  /\ ~IsLoRaMacNetworkJoined
  /\ LoRaMacFlags' = LoRaMacFlags \cup {"MacDone"}
  /\ Armed' = (Armed \ {"RxWindow2"}) \cup {"MacStateCheck"}
  /\ mlmeStatus' = IF micOk THEN "OK" ELSE "ERROR"
  /\ IsLoRaMacNetworkJoined' = micOk
  /\ AckReceived' = FALSE
  /\ UNCHANGED <<LoRaMacState, AckTimeoutRetry, mcpsStatus>>

(* A frame of the session.  The network sends one only to a node that has  *)
(* joined.  It may carry the answer to a link check.  skip: a confirmed    *)
(* downlink received before, or options and commands in the same frame.    *)
RxData(ack, skip) ==
  /\ IsLoRaMacNetworkJoined
  /\ FrameAccepted({"McpsInd"} \cup When(skip, {"McpsIndSkip"}),
       Armed \ When(~skip /\ (ack \/ AckTimeoutRetriesCounter > AckTimeoutRetries),
                    {"AckTimeout"}))
  /\ AckReceived' = (ack /\ ~skip)
  /\ mcpsStatus' = "OK"
  /\ mlmeStatus' \in {mlmeStatus, "OK"}
  /\ UNCHANGED <<LoRaMacState, AckTimeoutRetry, IsLoRaMacNetworkJoined>>

RxProprietary ==
  /\ LoRaMacFlags' = LoRaMacFlags \cup {"McpsInd", "MacDone"}
  /\ Armed' = (Armed \ {"RxWindow2"}) \cup {"MacStateCheck"}
  /\ AckReceived' = FALSE
  /\ UNCHANGED <<LoRaMacState, AckTimeoutRetry, mcpsStatus, mlmeStatus,
                 IsLoRaMacNetworkJoined>>

OnRadioRxDone ==
  /\ RadioMayInterrupt /\ radio = "rx"
  /\ radio' = "idle"
  /\ \/ RxRejected
     \/ \E micOk \in BOOLEAN : RxJoinAccept(micOk)
     \/ \E ack, skip \in BOOLEAN : RxData(ack, skip)
     \/ RxProprietary
  /\ UNCHANGED <<RxSlot, MlmeRequest, NodeAckRequested, AckTimeoutRetries,
                 AckTimeoutRetriesCounter, ChannelsNbRepCounter,
                 JoinRequestTrials, MaxJoinRequestTrials, UpLinkCounter, check, histVars>>

-----------------------------------------------------------------------------
(* Callbacks of the timers *)

OnRxWindow1TimerEvent ==
  /\ check = "rest" /\ "RxWindow1" \in Armed
  /\ Armed' = Armed \ {"RxWindow1"}
  /\ RxSlot' = 0
  /\ radio' = "rx"
  /\ UNCHANGED <<LoRaMacState, LoRaMacFlags, confirmVars, retryVars, joinVars,
                 UpLinkCounter, check, histVars>>

(* RegionRxConfig refuses while the radio is not RF_IDLE. *)
RxConfigOk == radio = "idle"

OnRxWindow2TimerEvent ==
  /\ check = "rest" /\ "RxWindow2" \in Armed /\ "RxWindow1" \notin Armed
  /\ Armed' = Armed \ {"RxWindow2"}
  /\ IF RxConfigOk THEN radio' = "rx" /\ RxSlot' = 1
                   ELSE UNCHANGED <<radio, RxSlot>>
  /\ UNCHANGED <<LoRaMacState, LoRaMacFlags, confirmVars, retryVars, joinVars,
                 UpLinkCounter, check, histVars>>

OnAckTimeoutTimerEvent ==
  /\ check = "rest" /\ "AckTimeout" \in Armed
  /\ Armed \cap {"RxWindow1", "RxWindow2"} = {}
  /\ Armed' = Armed \ {"AckTimeout"}
  /\ AckTimeoutRetry' = (AckTimeoutRetry \/ NodeAckRequested)
  /\ UNCHANGED <<LoRaMacState, LoRaMacFlags, radio, RxSlot, confirmVars,
                 NodeAckRequested, AckTimeoutRetries, AckTimeoutRetriesCounter,
                 ChannelsNbRepCounter, joinVars, UpLinkCounter, check, histVars>>

OnTxDelayedTimerEvent(out) ==
  /\ check = "rest" /\ "TxDelayed" \in Armed
  /\ SendAgain(out)
  /\ UNCHANGED <<LoRaMacFlags, RxSlot, MlmeRequest, AckReceived,
                 MaxJoinRequestTrials, check, owed>>

-----------------------------------------------------------------------------
(* OnMacStateCheckTimerEvent, test by test *)

TxTimedOut(flags) ==
  /\ flags \cap {"MlmeReq", "McpsReq"} # {}
  /\ "TX_TIMEOUT" \in {mcpsStatus, mlmeStatus}

(* The bits an aborted reception and a transmit timeout clear. *)
Ended(timedOut) ==
  When("RX_ABORT" \in LoRaMacState, {"RX_ABORT", "TX_RUNNING"})
    \cup When(timedOut, {"TX_RUNNING"})

CheckEnter ==
  LET timedOut == TxTimedOut(LoRaMacFlags)
  IN  /\ check = "rest" /\ "MacStateCheck" \in Armed
      /\ Armed' = Armed \ {"MacStateCheck"}
      /\ IF "MacDone" \notin LoRaMacFlags
           THEN check' = "report" /\ UNCHANGED <<LoRaMacState, AckReceived>>
           ELSE /\ LoRaMacState' = LoRaMacState \ Ended(timedOut)
                /\ AckReceived' = (AckReceived /\ ~timedOut)
                /\ check' = IF ~NodeAckRequested /\ ~timedOut
                              THEN "cycle" ELSE "received"
      /\ UNCHANGED <<LoRaMacFlags, radio, RxSlot, mcpsStatus, mlmeStatus,
                     MlmeRequest, retryVars, joinVars, UpLinkCounter, histVars>>

CycleEnd == LoRaMacState' = LoRaMacState \ {"TX_RUNNING"}

JoinCycleOver ==
  mlmeStatus = "OK" \/ JoinRequestTrials >= MaxJoinRequestTrials

(* The end of a join, or the next trial. *)
CheckJoin(out) ==
  /\ check = "cycle" /\ Joining
  /\ check' = "received"
  /\ IF JoinCycleOver
       THEN /\ out = "now"
            /\ CycleEnd
            /\ UpLinkCounter' = IF mlmeStatus = "OK" THEN 0 ELSE UpLinkCounter
            /\ ChannelsNbRepCounter' =
                 IF mlmeStatus = "OK" THEN 0 ELSE ChannelsNbRepCounter
            /\ UNCHANGED <<LoRaMacFlags, Armed, radio, mcpsStatus, mlmeStatus,
                           NodeAckRequested, AckTimeoutRetry, AckTimeoutRetries,
                           AckTimeoutRetriesCounter, IsLoRaMacNetworkJoined,
                           JoinRequestTrials, frame, unused>>
       ELSE /\ LoRaMacFlags' = LoRaMacFlags \ {"MacDone"}
            /\ SendAgain(out)
  /\ UNCHANGED <<RxSlot, MlmeRequest, AckReceived, MaxJoinRequestTrials, owed>>

(* Seeded fault: one repetition too many. *)
BugRepetitionsOver ==
  ChannelsNbRepCounter > ChannelsNbRep \/ "McpsInd" \in LoRaMacFlags

RepetitionsOver ==
  ChannelsNbRepCounter >= ChannelsNbRep \/ "McpsInd" \in LoRaMacFlags

(* The end of an unconfirmed frame, or its next repetition. *)
CheckRepeat(out) ==
  /\ check = "cycle" /\ ~Joining
  /\ check' = "received"
  /\ IF LoRaMacFlags \cap {"MlmeReq", "McpsReq"} = {}
       THEN /\ out = "now"
            /\ UNCHANGED <<LoRaMacState, LoRaMacFlags, Armed, radio, mcpsStatus,
                           mlmeStatus, retryVars, IsLoRaMacNetworkJoined,
                           JoinRequestTrials, UpLinkCounter,
                           frame, unused>>
       ELSE IF RepetitionsOver
       THEN /\ out = "now"
            /\ CycleEnd
            /\ ChannelsNbRepCounter' = 0
            /\ UpLinkCounter' = UpLinkCounter + 1
            /\ UNCHANGED <<LoRaMacFlags, Armed, radio, mcpsStatus, mlmeStatus,
                           NodeAckRequested, AckTimeoutRetry, AckTimeoutRetries,
                           AckTimeoutRetriesCounter, IsLoRaMacNetworkJoined,
                           JoinRequestTrials, frame, unused>>
       ELSE /\ LoRaMacFlags' = LoRaMacFlags \ {"MacDone"}
            /\ SendAgain(out)
  /\ UNCHANGED <<RxSlot, MlmeRequest, AckReceived, MaxJoinRequestTrials, owed>>

(* A frame was received: with the acknowledgement the cycle is over. *)
CheckReceived ==
  /\ check = "received"
  /\ check' = "retry"
  /\ IF /\ "McpsInd" \in LoRaMacFlags
        /\ AckReceived \/ AckTimeoutRetriesCounter > AckTimeoutRetries
       THEN /\ AckTimeoutRetry' = FALSE
            /\ NodeAckRequested' = FALSE
            /\ UpLinkCounter' = UpLinkCounter + 1
            /\ CycleEnd
       ELSE UNCHANGED <<AckTimeoutRetry, NodeAckRequested, UpLinkCounter,
                        LoRaMacState>>
  /\ UNCHANGED <<LoRaMacFlags, Armed, radio, RxSlot, confirmVars,
                 AckTimeoutRetries, AckTimeoutRetriesCounter,
                 ChannelsNbRepCounter, joinVars, histVars>>

(* Seeded fault: only the caller's limit. *)
BugMayRetry == AckTimeoutRetriesCounter < AckTimeoutRetries

MayRetry ==
  /\ AckTimeoutRetriesCounter < AckTimeoutRetries
  /\ AckTimeoutRetriesCounter <= MAX_ACK_RETRIES

(* Seeded fault: the frame given up leaves its counter to the next one. *)
BugGiveUp ==
  /\ CycleEnd
  /\ NodeAckRequested' = FALSE
  /\ AckReceived' = FALSE
  /\ UNCHANGED UpLinkCounter

(* No acknowledgement in time: the frame is sent again, or given up. *)
GiveUp ==
  /\ CycleEnd
  /\ NodeAckRequested' = FALSE
  /\ AckReceived' = FALSE
  /\ UpLinkCounter' = UpLinkCounter + 1

CheckRetry(out) ==
  /\ check = "retry"
  /\ check' = "report"
  /\ \/ /\ ~AckTimeoutRetry \/ "TX_DELAYED" \in LoRaMacState
        /\ out = "now"
        /\ UNCHANGED <<LoRaMacState, LoRaMacFlags, Armed, radio, mcpsStatus,
                       mlmeStatus, AckReceived, retryVars, JoinRequestTrials,
                       UpLinkCounter, frame>>
     \/ /\ AckTimeoutRetry /\ "TX_DELAYED" \notin LoRaMacState
        /\ AckTimeoutRetry' = FALSE
        /\ UNCHANGED <<AckTimeoutRetries, ChannelsNbRepCounter>>
        /\ IF MayRetry
             THEN /\ AckTimeoutRetriesCounter' = AckTimeoutRetriesCounter + 1
                  /\ JoinRequestTrials' =
                       TrialsAfter(out, IsLoRaMacNetworkJoined, JoinRequestTrials)
                  /\ mlmeStatus' = StatusAfter(out, mlmeStatus)
                  /\ frame' = FrameAfter(out, frame)
                  /\ \/ /\ ScheduleTx(out, IsLoRaMacNetworkJoined,
                                      LoRaMacState, Armed)
                        /\ out # "length"
                        /\ LoRaMacFlags' = LoRaMacFlags \ {"MacDone"}
                        /\ mcpsStatus' = StatusAfter(out, mcpsStatus)
                        /\ UNCHANGED <<AckReceived, NodeAckRequested, UpLinkCounter>>
                     \/ /\ out = "length" /\ IsLoRaMacNetworkJoined
                        /\ GiveUp
                        /\ mcpsStatus' = "ERROR"
                        /\ UNCHANGED <<LoRaMacFlags, Armed, radio>>
             ELSE /\ out = "now"
                  /\ GiveUp
                  /\ UNCHANGED <<LoRaMacFlags, Armed, radio, mcpsStatus, mlmeStatus,
                                 AckTimeoutRetriesCounter, JoinRequestTrials, frame>>
  /\ UNCHANGED <<RxSlot, MlmeRequest, IsLoRaMacNetworkJoined,
                 MaxJoinRequestTrials, unused, owed>>

(* With nothing under way the confirmations are given, McpsConfirm first. *)
CheckReport ==
  /\ check = "report"
  /\ check' = "indicate"
  /\ IF LoRaMacState = {}
       THEN /\ LoRaMacFlags' = LoRaMacFlags \ {"McpsReq", "MlmeReq", "MacDone"}
            /\ owed' = owed \ (When("McpsReq" \in LoRaMacFlags, {"MCPS"})
                               \cup When("MlmeReq" \in LoRaMacFlags, {MlmeRequest}))
            /\ UNCHANGED Armed
       ELSE /\ Armed' = Armed \cup {"MacStateCheck"}
            /\ UNCHANGED <<LoRaMacFlags, owed>>
  /\ UNCHANGED <<LoRaMacState, radio, RxSlot, confirmVars, retryVars, joinVars,
                 UpLinkCounter, frame, unused>>

(* Seeded fault: every flag is cleared. *)
BugIndicationDone == LoRaMacFlags' = {}

IndicationDone == LoRaMacFlags' = LoRaMacFlags \ {"McpsInd", "McpsIndSkip"}

CheckIndicate ==
  /\ check = "indicate"
  /\ IF "McpsInd" \in LoRaMacFlags /\ "McpsIndSkip" \notin LoRaMacFlags
       THEN check' = "callback" /\ UNCHANGED LoRaMacFlags
       ELSE /\ check' = "rest"
            /\ IF "McpsInd" \in LoRaMacFlags
                 THEN IndicationDone ELSE UNCHANGED LoRaMacFlags
  /\ UNCHANGED <<LoRaMacState, Armed, radio, RxSlot, confirmVars, retryVars,
                 joinVars, UpLinkCounter, histVars>>

(* MacMcpsIndication returns. *)
CheckLeave ==
  /\ check = "callback"
  /\ check' = "rest"
  /\ IndicationDone
  /\ UNCHANGED <<LoRaMacState, Armed, radio, RxSlot, confirmVars, retryVars,
                 joinVars, UpLinkCounter, histVars>>

-----------------------------------------------------------------------------
Application ==
  \/ \E kind \in DataKinds, n \in AckTrials \cup {1} : McpsRequest(kind, n)
  \/ \E n \in JoinTrials : Join(n)
  \/ LinkCheck \/ TxContinuousWave

Radio == \/ OnRadioTxDone \/ OnRadioTxTimeout \/ OnRadioRxDone
         \/ \E late \in BOOLEAN : OnRadioRxFailed(late)

Check == \/ CheckEnter \/ CheckReceived \/ CheckReport
         \/ CheckIndicate \/ CheckLeave
         \/ \E out \in SendOutcomes :
              CheckJoin(out) \/ CheckRepeat(out) \/ CheckRetry(out)

Next ==
  \/ Application \/ Radio \/ Check
  \/ OnRxWindow1TimerEvent \/ OnRxWindow2TimerEvent \/ OnAckTimeoutTimerEvent
  \/ \E out \in SendOutcomes : OnTxDelayedTimerEvent(out)

Safety == Init /\ [][Next]_vars

-----------------------------------------------------------------------------
(* What will end a transmission: the radio, a timer that opens a window or *)
(* sends, or the next check, which has all it needs to end it.             *)
CheckEnds ==
  /\ "MacDone" \in LoRaMacFlags
  /\ LoRaMacFlags \cap {"McpsReq", "MlmeReq"} # {}
  /\ NodeAckRequested =>
       \/ AckTimeoutRetry
       \/ "McpsInd" \in LoRaMacFlags /\ AckReceived
       \/ TxTimedOut(LoRaMacFlags)

Pending ==
  Armed \cap {"RxWindow1", "RxWindow2", "TxDelayed"} # {}
    \/ ("AckTimeout" \in Armed /\ NodeAckRequested)

(* No lost wake-up: while TX_RUNNING refuses every request, MacStateCheck  *)
(* runs and something is still to come that ends the transmission; a frame *)
(* put off has its timer.  Broken, the MAC answers BUSY until it is reset. *)
Attended ==
  check = "rest" =>
    /\ "TX_RUNNING" \in LoRaMacState =>
         /\ "MacStateCheck" \in Armed
         /\ radio # "idle" \/ Pending \/ CheckEnds
    /\ "TX_DELAYED" \in LoRaMacState => "TxDelayed" \in Armed

(* A confirmed frame is sent at most NbTrials times and never more than    *)
(* MAX_ACK_RETRIES + 1 times, an unconfirmed one at most ChannelsNbRep     *)
(* times, and a join request at most its number of trials.                 *)
TrialsBounded ==
  /\ frame.kind = "confirmed" =>
       frame.tries <= AckTimeoutRetries /\ frame.tries <= MAX_ACK_RETRIES + 1
  /\ frame.kind \in {"unconfirmed", "proprietary"} => frame.tries <= ChannelsNbRep
  /\ Joining => JoinRequestTrials <= MaxJoinRequestTrials

(* Two frames of a session never go on the air with the same UpLinkCounter *)
(* (LoRaMac.c:154: incremented each time a packet is sent): the network    *)
(* takes the second for a repetition of the first and drops it.            *)
CounterFresh ==
  frame.aired /\ frame.kind \in DataKinds => frame.cnt >= unused

(* Confirmations are given for requests that were accepted and not yet     *)
(* confirmed, when the radio rests and no window is still to come.         *)
ConfirmsAtRest ==
  check = "report" /\ LoRaMacState = {} =>
    /\ "McpsReq" \in LoRaMacFlags => "MCPS" \in owed
    /\ "MlmeReq" \in LoRaMacFlags => MlmeRequest \in owed
    /\ LoRaMacFlags \cap {"McpsReq", "MlmeReq"} # {} =>
         radio = "idle" /\ Armed \subseteq {"MacStateCheck"}

(* A join confirmed as successful has joined: no status left by another    *)
(* request or frame is taken for the answer of the network.                *)
JoinedIfConfirmed ==
  /\ check = "report" /\ LoRaMacState = {}
  /\ Joining /\ mlmeStatus = "OK"
  => IsLoRaMacNetworkJoined

(* Once nothing is under way nothing is owed, but the answer to a link     *)
(* check, which waits for the next uplink.                                 *)
NothingForgotten ==
  check = "rest" /\ LoRaMacState = {} /\ Armed = {} /\ radio = "idle" =>
    owed \subseteq {"LINK_CHECK"}

(* A join refused as busy is "not started" (LoRaMac.h:1571): the session   *)
(* ends only for a join request that was accepted.                         *)
SessionKept ==
  [][IsLoRaMacNetworkJoined /\ ~IsLoRaMacNetworkJoined' => "JOIN" \in owed']_vars

(* Every request that is accepted is confirmed (LoRaMac.h:678-681).        *)
Confirmed ==
  \A r \in {"MCPS", "JOIN", "TXCW"} : r \in owed ~> r \notin owed

-----------------------------------------------------------------------------
(* The radio reports the end of what it does.  Each timer is called back   *)
(* although the check handler runs again and again before it: strong       *)
(* fairness.  A band is not closed for ever: of a frame put off again and  *)
(* again, some ScheduleTx sends it.                                        *)
Fairness ==
  /\ WF_vars(Check)
  /\ SF_vars(Radio)
  /\ SF_vars(OnRxWindow1TimerEvent)
  /\ SF_vars(OnRxWindow2TimerEvent)
  /\ SF_vars(OnAckTimeoutTimerEvent)
  /\ SF_vars(OnTxDelayedTimerEvent("now"))

Spec == Safety /\ Fairness
=============================================================================
