---------------------------- MODULE RadioProofs ----------------------------
(***************************************************************************)
(* The driver of the SX1276 keeps its promises for frames of any lengths   *)
(* and a FIFO of any size: its timers belong to the operation under way    *)
(* and the bytes of FSK frames are all accounted for.                      *)
(*                                                                         *)
(* The inductive invariant counts the bytes of a frame: those the driver   *)
(* wrote or read, those in the FIFO and those the chip still has to move.  *)
(***************************************************************************)
EXTENDS Radio, TLAPS

(* The chip does what the state of the driver says. *)
ModeOfState ==
  /\ State = "IDLE" => mode = "sleep"
  /\ State = "TX_RUNNING" => mode \in {"tx", "wave"}
  /\ State = "RX_RUNNING" => mode = "rx"
  /\ mode = "wave" => lines = {}

(* The timer of the sync word, at any point of SX1276OnTimeoutIrq. *)
SyncTimer ==
  "RxTimeoutSyncWord" \in Armed => Modem = "FSK" /\ timeout # "TX_RUNNING"

IInv == TypeOK /\ TimersOfState /\ SyncTimer /\ ModeOfState

(* The bytes of a frame sent: its length byte is written with the first    *)
(* piece.                                                                  *)
TxBytes ==
  State = "TX_RUNNING" /\ Modem = "FSK" /\ mode = "tx" =>
    /\ Size = length
    /\ left = fifo + Size - NbBytes
    /\ "DIO0" \in lines => left = 0
    /\ "DIO1" \in lines => fifo = 0

Arrived == IF length = 0 THEN 0 ELSE 1 + length - left
Taken == NbBytes + (IF Size = 0 THEN 0 ELSE 1)

(* The bytes of a frame received.  FifoLevel comes at one byte more than   *)
(* the threshold, and is served before the next byte.                      *)
RxBytes ==
  State = "RX_RUNNING" /\ Modem = "FSK" =>
    /\ Size \in {0, length}
    /\ left <= 1 + length
    /\ length = 0 => left = 0
    /\ fifo = Arrived - Taken
    /\ fifo <= FifoThresh + 1
    /\ fifo = FifoThresh + 1 <=> "DIO1" \in lines
    /\ "DIO0" \in lines => length # 0 /\ left = 0

(* A frame that fills the FIFO is written with its length byte, one byte   *)
(* too many: what is proved of the FIFO leaves that length out.            *)
BytesKept ==
  /\ ChunkSize <= FifoSize
  /\ FifoKept /\ TxBytes /\ RxBytes /\ WholeFrames

-----------------------------------------------------------------------------
(* The driver starts at rest. *)
LEMMA InitInv == Init => IInv
<1>1. Init => /\ PreambleDetected \in BOOLEAN /\ SyncWordDetected \in BOOLEAN
              /\ broken \in BOOLEAN
  BY Zenon DEF Init
<1>2. Init => /\ Armed = {} /\ lines = {} /\ Size = 0 /\ NbBytes = 0
              /\ ChunkSize = 0 /\ fifo = 0 /\ left = 0 /\ length = 0
  BY Zenon DEF Init
<1>3. Init => /\ State = "IDLE" /\ Modem = "FSK" /\ timeout = "rest"
              /\ mode = "sleep" /\ due = "none"
  BY Zenon DEF Init
<1>4. Init => TypeOK
  BY <1>1, <1>2, <1>3 DEF TypeOK, Modems
<1>5. Init => TimersOfState /\ SyncTimer /\ ModeOfState
  BY DEF Init, TimersOfState, SyncTimer, ModeOfState
<1>6. QED BY <1>4, <1>5 DEF IInv

(* Types, timers and the mode of the chip, one case per operation, event   *)
(* of the chip and interrupt.                                              *)

LEMMA TimersStep ==
  ASSUME IInv, [Next]_vars
  PROVE  IInv'
<1> USE RadioAssumption DEF IInv, TypeOK, Modems, TimersOfState, SyncTimer, ModeOfState
<1>1. ASSUME NEW size \in Sizes, SendFsk(size) PROVE IInv'
  BY <1>1 DEF SendFsk, SetTx, TxTimers, FirstChunk, MayStart, ModemSet, Asleep
<1>2. CASE SendLora
  BY <1>2 DEF SendLora, SetTx, TxTimers, MayStart, ModemSet, Asleep
<1>3. CASE SetTxContinuousWave
  BY <1>3 DEF SetTxContinuousWave, SetTx, TxTimers, MayStart, ModemSet, Asleep
<1>4. ASSUME NEW m \in Modems, SetRx(m) PROVE IInv'
  <2>1. PreambleDetected' \in BOOLEAN /\ SyncWordDetected' \in BOOLEAN
    BY <1>4, Zenon DEF SetRx, handlerVars
  <2>2. Armed' \subseteq {"TxTimeout", "RxTimeout", "RxTimeoutSyncWord"}
    BY <1>4 DEF SetRx, handlerVars, ModemSet, Asleep
  <2>3. TypeOK'
    BY <2>1, <2>2, <1>4 DEF SetRx, handlerVars
  <2>4. TimersOfState'
    BY <1>4 DEF SetRx, handlerVars, ModemSet, Asleep, MayStart
  <2>5. SyncTimer' /\ ModeOfState'
    BY <1>4 DEF SetRx, handlerVars, ModemSet, Asleep, MayStart
  <2>6. QED BY <2>3, <2>4, <2>5
<1>5. CASE LoraTxDone
  BY <1>5 DEF LoraTxDone, Raise, handlerVars, histVars
<1>6. CASE LoraRxEnds
  BY <1>6 DEF LoraRxEnds, Raise, handlerVars, histVars
<1>7. CASE FskByteSent
  BY <1>7 DEF FskByteSent, Prompt, Raise, handlerVars, histVars
<1>8. CASE FskByteReceived
  BY <1>8 DEF FskByteReceived, Prompt, Raise, handlerVars, histVars
<1>9. CASE FskPreamble
  BY <1>9 DEF FskPreamble, Prompt, Raise, handlerVars, histVars
<1>10. ASSUME NEW size \in Sizes, FskSync(size) PROVE IInv'
  BY <1>10 DEF FskSync, Prompt, Raise, handlerVars, histVars
<1>11. CASE Dio0Tx
  BY <1>11 DEF Dio0Tx, Report, Asleep, handlerVars, Served
<1>12. CASE Dio0RxLora
  BY <1>12 DEF Dio0RxLora, Report, Asleep, handlerVars, Served
<1>13. ASSUME NEW c \in BOOLEAN, Dio0RxFsk(c) PROVE IInv'
  <2>1. PreambleDetected' \in BOOLEAN /\ SyncWordDetected' \in BOOLEAN
    BY <1>13, Zenon DEF Dio0RxFsk, handlerVars
  <2>2. QED
    BY <2>1, <1>13 DEF Dio0RxFsk, Dio0Rest, SizeRead, SizeBytes, Report,
       Asleep, handlerVars, Served
<1>14. CASE Dio1RxFsk
  BY <1>14 DEF Dio1RxFsk, Dio1Rx, SizeRead, SizeBytes, Served, histVars
<1>15. CASE Dio1RxLora
  BY <1>15 DEF Dio1RxLora, Report, Asleep, handlerVars, Served
<1>16. CASE Dio1TxFsk
  BY <1>16 DEF Dio1TxFsk, NextChunk, Served, histVars
<1>17. CASE Dio2
  BY <1>17 DEF Dio2, Served, histVars
<1>18. CASE Dio4
  BY <1>18 DEF Dio4, Served, histVars
<1>19. ASSUME State = "IDLE", NEW l \in lines, DioIgnored(l) PROVE IInv'
  BY <1>19 DEF DioIgnored, Served, handlerVars, histVars
<1>20. ASSUME NEW t \in Armed, TimeoutEnter(t) PROVE IInv'
  BY <1>20 DEF TimeoutEnter, handlerVars, chipVars, histVars
<1>21. CASE RxTimeout
  <2>1. PreambleDetected' \in BOOLEAN /\ SyncWordDetected' \in BOOLEAN
    BY <1>21, Zenon DEF RxTimeout, handlerVars
  <2>2. QED
    BY <2>1, <1>21 DEF RxTimeout, AfterRxTimeout, Report, Asleep, handlerVars
<1>22. CASE TxTimeout
  BY <1>22 DEF TxTimeout, Report, Asleep, handlerVars
<1>23. CASE UNCHANGED vars
  BY <1>23 DEF vars, handlerVars, chipVars, histVars
<1>24. QED
  BY <1>1, <1>2, <1>3, <1>4, <1>5, <1>6, <1>7, <1>8, <1>9, <1>10, <1>11, <1>12,
     <1>13, <1>14, <1>15, <1>16, <1>17, <1>18, <1>19, <1>20, <1>21, <1>22,
     <1>23 DEF Next, Operation, Chip, Dio, Timeout, TimeoutEnter, DioIgnored

(* The bytes of the frame under way. *)

LEMMA BytesStep ==
  ASSUME FifoSize \notin Sizes, IInv, BytesKept, [Next]_vars
  PROVE  BytesKept'
<1> USE RadioAssumption DEF IInv, TypeOK, Modems, ModeOfState, BytesKept, FifoKept, TxBytes, Arrived, Taken, RxBytes, WholeFrames
<1>1. ASSUME NEW size \in Sizes, SendFsk(size) PROVE BytesKept'
  BY <1>1 DEF SendFsk, SetTx, TxTimers, FirstChunk, MayStart, ModemSet, Asleep
<1>2. CASE SendLora
  BY <1>2 DEF SendLora, SetTx, TxTimers, MayStart, ModemSet, Asleep
<1>3. CASE SetTxContinuousWave
  BY <1>3 DEF SetTxContinuousWave, SetTx, TxTimers, MayStart, ModemSet, Asleep
<1>4. ASSUME NEW m \in Modems, SetRx(m) PROVE BytesKept'
  BY <1>4 DEF SetRx, MayStart, ModemSet, Asleep, Modems, handlerVars
<1>5. CASE LoraTxDone
  BY <1>5 DEF LoraTxDone, Raise, handlerVars, histVars
<1>6. CASE LoraRxEnds
  BY <1>6 DEF LoraRxEnds, Raise, handlerVars, histVars
<1>7. CASE FskByteSent
  BY <1>7 DEF FskByteSent, Prompt, Raise, handlerVars, histVars
<1>8. CASE FskByteReceived
  BY <1>8 DEF FskByteReceived, Prompt, Raise, handlerVars, histVars
<1>9. CASE FskPreamble
  BY <1>9 DEF FskPreamble, Prompt, Raise, handlerVars, histVars
<1>10. ASSUME NEW size \in Sizes, FskSync(size) PROVE BytesKept'
  BY <1>10 DEF FskSync, Prompt, Raise, handlerVars, histVars
<1>11. CASE Dio0Tx
  BY <1>11 DEF Dio0Tx, Report, Asleep, handlerVars, Served
<1>12. CASE Dio0RxLora
  BY <1>12 DEF Dio0RxLora, Report, Asleep, handlerVars, Served
<1>13. ASSUME NEW c \in BOOLEAN, Dio0RxFsk(c) PROVE BytesKept'
  BY <1>13 DEF Dio0RxFsk, Dio0Rest, SizeRead, SizeBytes, Report, Asleep,
     handlerVars, Served
<1>14. CASE Dio1RxFsk
  BY <1>14 DEF Dio1RxFsk, Dio1Rx, SizeRead, SizeBytes, Served, histVars
<1>15. CASE Dio1RxLora
  BY <1>15 DEF Dio1RxLora, Report, Asleep, handlerVars, Served
<1>16. CASE Dio1TxFsk
  BY <1>16 DEF Dio1TxFsk, NextChunk, Served, histVars
<1>17. CASE Dio2
  BY <1>17 DEF Dio2, Served, histVars
<1>18. CASE Dio4
  BY <1>18 DEF Dio4, Served, histVars
<1>19. ASSUME State = "IDLE", NEW l \in lines, DioIgnored(l) PROVE BytesKept'
  BY <1>19 DEF DioIgnored, Served, handlerVars, histVars
<1>20. ASSUME NEW t \in Armed, TimeoutEnter(t) PROVE BytesKept'
  BY <1>20 DEF TimeoutEnter, handlerVars, chipVars, histVars
<1>21. CASE RxTimeout
  BY <1>21 DEF RxTimeout, AfterRxTimeout, Report, Asleep, handlerVars
<1>22. CASE TxTimeout
  BY <1>22 DEF TxTimeout, Report, Asleep, handlerVars
<1>23. CASE UNCHANGED vars
  BY <1>23 DEF vars, handlerVars, chipVars, histVars
<1>24. QED
  BY <1>1, <1>2, <1>3, <1>4, <1>5, <1>6, <1>7, <1>8, <1>9, <1>10, <1>11, <1>12,
     <1>13, <1>14, <1>15, <1>16, <1>17, <1>18, <1>19, <1>20, <1>21, <1>22,
     <1>23 DEF Next, Operation, Chip, Dio, Timeout, TimeoutEnter, DioIgnored

-----------------------------------------------------------------------------
(* Every variable has its type. *)
THEOREM TypeCorrect == Spec => []TypeOK
<1>1. Init => IInv
  BY InitInv
<1>2. IInv /\ [Next]_vars => IInv'
  BY TimersStep
<1>3. IInv => TypeOK
  BY DEF IInv
<1>4. QED BY <1>1, <1>2, <1>3, PTL DEF Spec

(* No timer of the driver outlives the operation it was started for. *)
THEOREM TimersBelong == Spec => []TimersOfState
<1>1. Init => IInv
  BY InitInv
<1>2. IInv /\ [Next]_vars => IInv'
  BY TimersStep
<1>3. IInv => TimersOfState
  BY DEF IInv
<1>4. QED BY <1>1, <1>2, <1>3, PTL DEF Spec

LEMMA BytesAlways ==
  ASSUME FifoSize \notin Sizes PROVE Spec => []BytesKept
<1>1. Init => IInv /\ BytesKept
  <2>1. Init => BytesKept
    BY RadioAssumption DEF Init, BytesKept, FifoKept, TxBytes, RxBytes,
       WholeFrames
  <2>2. QED BY <2>1, InitInv
<1>2. IInv /\ BytesKept /\ [Next]_vars => (IInv /\ BytesKept)'
  BY TimersStep, BytesStep
<1>3. QED BY <1>1, <1>2, PTL DEF Spec

(* FSK frames are sent and received whole, if no frame is exactly as long  *)
(* as the FIFO.                                                            *)
THEOREM FramesWhole ==
  ASSUME FifoSize \notin Sizes PROVE Spec => []WholeFrames
<1>1. BytesKept => WholeFrames
  BY DEF BytesKept
<1>2. QED BY BytesAlways, <1>1, PTL

(* The chunks that FifoLevel and FifoEmpty move never overflow the FIFO    *)
(* and are never read from it before they are there.                       *)
THEOREM FifoIsKept ==
  ASSUME FifoSize \notin Sizes PROVE Spec => []FifoKept
<1>1. BytesKept => FifoKept
  BY DEF BytesKept
<1>2. QED BY BytesAlways, <1>1, PTL
=============================================================================
