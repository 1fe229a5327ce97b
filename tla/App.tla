-------------------------------- MODULE App --------------------------------
(***************************************************************************)
(* The application of src/main.c on top of the MAC: the main loop over      *)
(* DeviceState, the callbacks the MAC and TxNextPacketTimer make in         *)
(* interrupts, and the commands of the compliance test.                     *)
(*                                                                         *)
(* The main loop runs while no handler does (check = "rest") and may be    *)
(* interrupted between any two of its steps; at is where it stands in the  *)
(* pass.  Payloads, ports, LEDs and sensors are left out: a frame for which *)
(* there is no GPS position is a choice at every DEVICE_STATE_SEND.        *)
(***************************************************************************)
EXTENDS LoRaMac

CONSTANTS
  Commands,         \* the commands of the test the network sends
  NbTrials          \* of a confirmed frame and of a join request

CommandKinds ==
  {"enable", "disable", "confirmed", "unconfirmed", "link", "rejoin", "wave"}

ASSUME AppAssumption ==
  /\ Commands \subseteq CommandKinds
  /\ NbTrials \in AckTrials \cap JoinTrials

VARIABLES
  DeviceState,
  NextTx,
  at,               \* where the main loop is in a pass; "switch": at its top
  failed,           \* what SendFrame returned
  TxNextPacket,     \* TxNextPacketTimer is started
  Running,          \* ComplianceTest.Running
  IsTxConfirmed,
  rxData,           \* McpsIndication has a status OK and data
  rejoined          \* history: the network ordered a new join

macVars == vars
testVars == <<Running, IsTxConfirmed>>
appVars == <<DeviceState, NextTx, at, failed, TxNextPacket, testVars,
             rxData, rejoined>>
allVars == <<macVars, appVars>>

(* Types of the variables of the application and of the MAC. *)
AppTypeOK ==
  /\ TypeOK
  /\ DeviceState \in {"INIT", "JOIN", "SEND", "CYCLE", "SLEEP"}
  /\ NextTx \in BOOLEAN
  /\ at \in {"switch", "join", "asked", "result", "sent", "arm"}
  /\ failed \in BOOLEAN
  /\ TxNextPacket \in BOOLEAN
  /\ Running \in BOOLEAN
  /\ IsTxConfirmed \in BOOLEAN
  /\ rxData \in BOOLEAN
  /\ rejoined \in BOOLEAN

AppInit ==
  /\ Init
  /\ DeviceState = "INIT" /\ NextTx = TRUE /\ at = "switch" /\ failed = FALSE
  /\ TxNextPacket = FALSE
  /\ Running = FALSE /\ IsTxConfirmed = FALSE
  /\ rxData = FALSE /\ rejoined = FALSE

-----------------------------------------------------------------------------
(* The main loop *)

MainAt(place, there) ==
  /\ check = "rest" /\ at = place
  /\ at' = there
  /\ UNCHANGED <<TxNextPacket, testVars, rxData, rejoined>>

Pass(state, there) == DeviceState = state /\ MainAt("switch", there)

(* LoRaMacMlmeRequest with a join request *)
AskJoin == Join(NbTrials) \/ (~MlmeMayStart /\ UNCHANGED macVars)

PassInit ==
  /\ Pass("INIT", "switch")
  /\ DeviceState' = "JOIN"
  /\ UNCHANGED <<NextTx, failed, macVars>>

(* The keys are printed before the request. *)
PassJoin ==
  /\ Pass("JOIN", "join")
  /\ UNCHANGED <<DeviceState, NextTx, failed, macVars>>

JoinRequest ==
  /\ MainAt("join", "asked")
  /\ IF NextTx THEN AskJoin ELSE UNCHANGED macVars
  /\ UNCHANGED <<DeviceState, NextTx, failed>>

JoinLeave ==
  /\ MainAt("asked", "switch")
  /\ DeviceState' = "SLEEP"
  /\ UNCHANGED <<NextTx, failed, macVars>>

(* The kinds SendFrame may choose: a frame that does not fit is replaced   *)
(* by an empty unconfirmed one.                                            *)
FrameKinds == {"unconfirmed"} \cup When(IsTxConfirmed, {"confirmed"})

SendFrame ==
  \/ /\ ~McpsBusy
     /\ \E kind \in FrameKinds :
          McpsRequest(kind, IF kind = "confirmed" THEN NbTrials ELSE 1)
     /\ failed' = ("McpsReq" \notin LoRaMacFlags')
  \/ /\ McpsBusy
     /\ failed' = TRUE
     /\ UNCHANGED macVars

PassSend ==
  /\ Pass("SEND", "result")
  /\ NextTx
  /\ SendFrame
  /\ UNCHANGED <<DeviceState, NextTx>>

(* Nothing may be sent, or there is no position to send. *)
PassSendNothing ==
  /\ Pass("SEND", "sent")
  /\ UNCHANGED <<DeviceState, NextTx, failed, macVars>>

SendResult ==
  /\ MainAt("result", "sent")
  /\ NextTx' = failed
  /\ UNCHANGED <<DeviceState, failed, macVars>>

SendLeave ==
  /\ MainAt("sent", "switch")
  /\ DeviceState' = "CYCLE"
  /\ UNCHANGED <<NextTx, failed, macVars>>

PassCycle ==
  /\ Pass("CYCLE", "arm")
  /\ DeviceState' = "SLEEP"
  /\ UNCHANGED <<NextTx, failed, macVars>>

(* TimerSetValue and TimerStart of TxNextPacketTimer *)
CycleArm ==
  /\ check = "rest" /\ at = "arm"
  /\ at' = "switch"
  /\ TxNextPacket' = TRUE
  /\ UNCHANGED <<DeviceState, NextTx, failed, testVars, rxData, rejoined, macVars>>

MainLoop ==
  \/ PassInit \/ PassJoin \/ JoinRequest \/ JoinLeave
  \/ PassSend \/ PassSendNothing \/ SendResult \/ SendLeave
  \/ PassCycle \/ CycleArm

-----------------------------------------------------------------------------
(* Callbacks *)

(* Seeded fault: the timer does not look whether the node has joined. *)
BugAfterTimer == "JOIN"

AfterTimer == IF IsLoRaMacNetworkJoined THEN "SEND" ELSE "JOIN"

OnTxNextPacketTimerEvent ==
  /\ check = "rest" /\ TxNextPacket
  /\ TxNextPacket' = FALSE
  /\ DeviceState' = AfterTimer
  /\ NextTx' = (NextTx \/ IsLoRaMacNetworkJoined)
  /\ UNCHANGED <<at, failed, testVars, rxData, rejoined, macVars>>

ConfirmGiven == LoRaMacState = {} /\ LoRaMacFlags \cap {"McpsReq", "MlmeReq"} # {}
JoinConfirmed == LoRaMacState = {} /\ Joining

(* Seeded fault: a join that failed is not tried again. *)
BugAfterJoin == IF mlmeStatus = "OK" THEN "SEND" ELSE "SLEEP"

AfterJoin == IF mlmeStatus = "OK" THEN "SEND" ELSE "JOIN"

(* Seeded fault: only MlmeConfirm allows the next frame. *)
BugNextTxAfter == NextTx \/ JoinConfirmed

NextTxAfter == NextTx \/ ConfirmGiven

(* McpsConfirm and MlmeConfirm, called by the check handler *)
Confirmations ==
  /\ CheckReport
  /\ NextTx' = NextTxAfter
  /\ DeviceState' = IF JoinConfirmed THEN AfterJoin ELSE DeviceState
  /\ UNCHANGED <<at, failed, TxNextPacket, testVars, rxData, rejoined>>

Test(running, confirmed) ==
  /\ Running' = running /\ IsTxConfirmed' = confirmed
  /\ UNCHANGED <<DeviceState, macVars>>

(* McpsIndication with data: a command of the test on port 224 (1 1 1 1, 0, *)
(* 2, 3, 5, 6, 7), or any other data.  The result of LoRaMacMlmeRequest is *)
(* not looked at.                                                          *)
McpsIndication(command) ==
  /\ check = "callback" /\ rxData
  /\ rxData' = FALSE
  /\ rejoined' = (rejoined \/ command = "rejoin")
  /\ \/ command = "enable" /\ ~Running /\ Test(TRUE, FALSE)
     \/ command = "disable" /\ Running /\ Test(FALSE, FALSE)
     \/ command = "confirmed" /\ Running /\ Test(TRUE, TRUE)
     \/ command = "unconfirmed" /\ Running /\ Test(TRUE, FALSE)
     \/ /\ command = "link" /\ Running
        /\ LinkCheck \/ (~MlmeMayStart /\ UNCHANGED macVars)
        /\ UNCHANGED <<DeviceState, testVars>>
     \/ /\ command = "rejoin" /\ Running
        /\ Running' = FALSE /\ IsTxConfirmed' = FALSE
        /\ AskJoin
        /\ DeviceState' = "SLEEP"
     \/ /\ command = "wave" /\ Running
        /\ TxContinuousWave \/ (~MlmeMayStart /\ UNCHANGED macVars)
        /\ UNCHANGED <<DeviceState, testVars>>
     \/ command = "none" /\ Test(Running, IsTxConfirmed)
  /\ UNCHANGED <<NextTx, at, failed, TxNextPacket>>

IndicationLeave == ~rxData /\ CheckLeave /\ UNCHANGED appVars

-----------------------------------------------------------------------------
(* The MAC.  A pass of the main loop takes milliseconds, printing included, *)
(* a frame takes longer to send: a frame does not end within the pass that *)
(* sent it.                                                                *)
RadioEvent ==
  \/ at = "switch" /\ (OnRadioTxDone \/ OnRadioTxTimeout) /\ UNCHANGED appVars
  \/ /\ OnRadioRxDone
     /\ rxData' \in {FALSE} \cup
          When(/\ IsLoRaMacNetworkJoined /\ mcpsStatus' = "OK"
               /\ "RX_ABORT" \notin LoRaMacState'
               /\ "McpsIndSkip" \notin LoRaMacFlags', {TRUE})
     /\ UNCHANGED <<DeviceState, NextTx, at, failed, TxNextPacket, testVars,
                    rejoined>>
  \/ (\E late \in BOOLEAN : OnRadioRxFailed(late)) /\ UNCHANGED appVars

MacTimer ==
  /\ \/ OnRxWindow1TimerEvent \/ OnRxWindow2TimerEvent \/ OnAckTimeoutTimerEvent
     \/ \E out \in SendOutcomes : OnTxDelayedTimerEvent(out)
     \/ CheckEnter \/ CheckReceived \/ CheckIndicate
     \/ \E out \in SendOutcomes :
          CheckJoin(out) \/ CheckRepeat(out) \/ CheckRetry(out)
  /\ UNCHANGED appVars

AppNext ==
  \/ MainLoop \/ OnTxNextPacketTimerEvent \/ Confirmations
  \/ \E command \in Commands \cup {"none"} : McpsIndication(command)
  \/ IndicationLeave \/ RadioEvent \/ MacTimer

AppSpec == AppInit /\ [][AppNext]_allVars

-----------------------------------------------------------------------------
(* A sleeping node wakes up: its timer runs, or a join request is under    *)
(* way whose confirmation sets the next state (main.c:718).  Broken, the   *)
(* node is silent until it is reset.                                       *)
Awake ==
  check = "rest" /\ at = "switch" /\ DeviceState = "SLEEP" =>
    TxNextPacket \/ "JOIN" \in owed

(* The same of a node the network never ordered to join again.             *)
AwakeUntilRejoin == ~rejoined => Awake

(* The main loop waits for the confirmation of a frame only if there will  *)
(* be one: NextTx is clear only while the MAC owes it.                     *)
WaitsForConfirm ==
  check = "rest" /\ at # "result" /\ ~NextTx => "MCPS" \in owed

(* The application gives up a session only by order of the network: a node *)
(* that has joined and was not told to rejoin makes no join request.       *)
SessionHeld ==
  [][IsLoRaMacNetworkJoined /\ ~IsLoRaMacNetworkJoined' => rejoined']_allVars
=============================================================================
