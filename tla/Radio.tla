------------------------------- MODULE Radio -------------------------------
(***************************************************************************)
(* The driver of the SX1276 (lib/radio/sx1276/sx1276.c) as the class A MAC *)
(* uses it: one operation at a time, started while the radio rests; every  *)
(* event of the driver makes the MAC put the radio to sleep, which is part *)
(* of the event here.  Registers other than the mode, the FIFO and the     *)
(* mapping of the DIO lines are left out.                                  *)
(*                                                                         *)
(* The chip raises the DIO lines; their interrupts come before those of    *)
(* the timers, within SX1276OnTimeoutIrq too, which has read the state     *)
(* then, and, of FSK, within the time of a byte.                           *)
(***************************************************************************)
EXTENDS Integers

CONSTANTS
  Sizes,            \* lengths of frames
  FifoSize,         \* of the FIFO of the chip (64)
  FifoThresh,       \* RegFifoThresh (15)
  TxChunk           \* bytes written at a time once a frame is too long (32)

ASSUME RadioAssumption ==
  /\ Sizes \subseteq Nat \ {0}
  /\ FifoSize \in Nat /\ FifoThresh \in Nat \ {0} /\ TxChunk \in Nat \ {0}
  /\ FifoThresh < FifoSize /\ TxChunk < FifoSize

VARIABLES
  State,            \* Settings.State
  Modem,            \* Settings.Modem
  Armed,            \* the timers of the driver that are started
  PreambleDetected, SyncWordDetected,
  Size, NbBytes, ChunkSize,
  timeout,          \* where SX1276OnTimeoutIrq is: the state it found
  mode,             \* the chip: RegOpMode
  fifo,             \* the chip: bytes in the FIFO
  length,           \* the chip: length of the frame on the air
  left,             \* the chip: bytes of it still to send or to receive
  lines,            \* the chip: DIO lines that were raised
  due,              \* history: the operation not reported yet
  broken            \* history: the end of a frame was reported too early

handlerVars == <<PreambleDetected, SyncWordDetected, Size, NbBytes, ChunkSize>>
chipVars == <<mode, fifo, length, left, lines>>
histVars == <<due, broken>>
vars == <<State, Modem, Armed, handlerVars, timeout, chipVars, histVars>>

Modems == {"FSK", "LORA"}

(* Types of every variable. *)
TypeOK ==
  /\ State \in {"IDLE", "RX_RUNNING", "TX_RUNNING"}
  /\ Modem \in Modems
  /\ Armed \subseteq {"TxTimeout", "RxTimeout", "RxTimeoutSyncWord"}
  /\ PreambleDetected \in BOOLEAN /\ SyncWordDetected \in BOOLEAN
  /\ Size \in {0} \cup Sizes
  /\ NbBytes \in Nat /\ NbBytes <= Size
  /\ ChunkSize \in Nat
  /\ timeout \in {"rest", "RX_RUNNING", "TX_RUNNING"}
  /\ mode \in {"sleep", "standby", "tx", "wave", "rx"}
  /\ fifo \in Int /\ left \in Nat
  /\ length \in {0} \cup Sizes
  /\ lines \subseteq {"DIO0", "DIO1", "DIO2", "DIO4"}
  /\ due \in {"none", "tx", "rx"}
  /\ broken \in BOOLEAN

(* SX1276Init *)
Init ==
  /\ State = "IDLE" /\ Modem = "FSK" /\ Armed = {}
  /\ PreambleDetected = FALSE /\ SyncWordDetected = FALSE
  /\ Size = 0 /\ NbBytes = 0 /\ ChunkSize = 0
  /\ timeout = "rest"
  /\ mode = "sleep" /\ fifo = 0 /\ length = 0 /\ left = 0 /\ lines = {}
  /\ due = "none" /\ broken = FALSE

-----------------------------------------------------------------------------
(* Operations *)

MayStart == due = "none" /\ timeout = "rest" /\ State = "IDLE" /\ lines = {}

(* The timers that run once the radio was put to sleep. *)
Asleep(a) == a \ {"TxTimeout", "RxTimeout"}

(* SX1276SetModem sleeps only if the modem changes. *)
ModemSet(m) == IF m = Modem THEN Armed ELSE Asleep(Armed)

(* Seeded fault: frames that fit are written in chunks too. *)
BugFirstChunk(size) == TxChunk

(* SX1276Send: what is written to the FIFO before the frame starts.        *)
FirstChunk(size) == IF size <= FifoSize THEN size ELSE TxChunk

(* Seeded fault: the timer is started before the modem is set. *)
BugTxTimers(m) ==
  IF m = Modem THEN Armed \cup {"TxTimeout"} ELSE Asleep(Armed \cup {"TxTimeout"})

TxTimers(m) == ModemSet(m) \cup {"TxTimeout"}

SetTx(m) ==
  /\ Modem' = m
  /\ State' = "TX_RUNNING"
  /\ Armed' = TxTimers(m)
  /\ due' = "tx"
  /\ UNCHANGED <<PreambleDetected, SyncWordDetected, timeout, lines, broken>>

SendFsk(size) ==
  /\ MayStart
  /\ SetTx("FSK")
  /\ Size' = size
  /\ ChunkSize' = FirstChunk(size) /\ NbBytes' = FirstChunk(size)
  /\ mode' = "tx"
  /\ fifo' = 1 + FirstChunk(size) /\ length' = size /\ left' = 1 + size

(* The FIFO of the LoRa modem holds any frame. *)
SendLora ==
  /\ MayStart
  /\ SetTx("LORA")
  /\ mode' = "tx"
  /\ UNCHANGED <<Size, NbBytes, ChunkSize, fifo, length, left>>

(* SX1276SetTxContinuousWave: the DIO lines are off. *)
SetTxContinuousWave ==
  /\ MayStart
  /\ SetTx("FSK")
  /\ mode' = "wave"
  /\ UNCHANGED <<Size, NbBytes, ChunkSize, fifo, length, left>>

(* SX1276SetRx with the longest window the MAC waits, and not continuous.  *)
SetRx(m) ==
  /\ MayStart
  /\ Modem' = m
  /\ State' = "RX_RUNNING"
  /\ mode' = "rx"
  /\ fifo' = 0 /\ left' = 0 /\ length' = 0
  /\ due' = "rx"
  /\ IF m = "FSK"
       THEN /\ Armed' = ModemSet(m) \cup {"RxTimeout", "RxTimeoutSyncWord"}
            /\ PreambleDetected' = FALSE /\ SyncWordDetected' = FALSE
            /\ Size' = 0 /\ NbBytes' = 0
            /\ UNCHANGED ChunkSize
       ELSE /\ Armed' = ModemSet(m) \cup {"RxTimeout"}
            /\ UNCHANGED handlerVars
  /\ UNCHANGED <<timeout, lines, broken>>

-----------------------------------------------------------------------------
(* The chip *)

Prompt == Modem = "FSK" => lines = {}

Raise(ls) ==
  /\ lines' = lines \cup ls
  /\ UNCHANGED <<State, Modem, Armed, handlerVars, timeout, mode, histVars>>

LoraTxDone ==
  /\ mode = "tx" /\ Modem = "LORA" /\ Raise({"DIO0"})
  /\ UNCHANGED <<fifo, length, left>>

(* RxDone, or the symbol timeout of the single receive mode *)
LoraRxEnds ==
  /\ mode = "rx" /\ Modem = "LORA" /\ lines = {}
  /\ \E l \in {"DIO0", "DIO1"} : Raise({l})
  /\ UNCHANGED <<fifo, length, left>>

(* A byte leaves; DIO1 is FifoEmpty, DIO0 is PacketSent. *)
FskByteSent ==
  /\ mode = "tx" /\ Modem = "FSK" /\ Prompt
  /\ fifo > 0 /\ left > 0
  /\ fifo' = fifo - 1 /\ left' = left - 1
  /\ Raise((IF fifo = 1 THEN {"DIO1"} ELSE {})
             \cup (IF left = 1 THEN {"DIO0"} ELSE {}))
  /\ UNCHANGED length

FskPreamble ==
  /\ mode = "rx" /\ Modem = "FSK" /\ Prompt /\ ~PreambleDetected
  /\ Raise({"DIO4"})
  /\ UNCHANGED <<fifo, length, left>>

(* The sync word: the length and the frame follow. *)
FskSync(size) ==
  /\ mode = "rx" /\ Modem = "FSK" /\ Prompt /\ length = 0
  /\ length' = size /\ left' = 1 + size
  /\ Raise({"DIO2"})
  /\ UNCHANGED fifo

(* A byte arrives; DIO1 is FifoLevel, DIO0 is PayloadReady. *)
FskByteReceived ==
  /\ mode = "rx" /\ Modem = "FSK" /\ Prompt /\ left > 0
  /\ fifo' = fifo + 1 /\ left' = left - 1
  /\ Raise((IF fifo = FifoThresh THEN {"DIO1"} ELSE {})
             \cup (IF left = 1 THEN {"DIO0"} ELSE {}))
  /\ UNCHANGED length

Chip ==
  \/ LoraTxDone \/ LoraRxEnds
  \/ FskByteSent \/ FskByteReceived
  \/ FskPreamble \/ \E size \in Sizes : FskSync(size)

-----------------------------------------------------------------------------
(* Interrupts *)

(* An event of the driver: the MAC puts the radio to sleep in each.        *)
Report(whole, a) ==
  /\ Armed' = Asleep(a)
  /\ State' = "IDLE"
  /\ mode' = "sleep"
  /\ due' = "none"
  /\ broken' = (broken \/ ~whole)

Served(l) == lines' = lines \ {l}

(* The handlers do nothing in the states they do not name. *)
DioIgnored(l) ==
  /\ l \in lines
  /\ Served(l)
  /\ UNCHANGED <<State, Modem, Armed, handlerVars, timeout, mode, fifo, length,
                 left, histVars>>

Dio0Tx ==
  /\ "DIO0" \in lines /\ State = "TX_RUNNING"
  /\ Served("DIO0")
  /\ Report(Modem = "FSK" => NbBytes = length, Armed)
  /\ UNCHANGED <<Modem, handlerVars, timeout, fifo, length, left>>

Dio0RxLora ==
  /\ "DIO0" \in lines /\ State = "RX_RUNNING" /\ Modem = "LORA"
  /\ Served("DIO0")
  /\ Report(TRUE, Armed)
  /\ UNCHANGED <<Modem, handlerVars, timeout, fifo, length, left>>

(* The length of the frame, read from the FIFO at the first interrupt of   *)
(* the frame, and the bytes this takes.                                    *)
SizeRead == IF Size = 0 /\ NbBytes = 0 THEN length ELSE Size
SizeBytes == IF Size = 0 /\ NbBytes = 0 THEN 1 ELSE 0

(* Seeded fault: the length was not taken out of the FIFO. *)
BugDio0Rest == SizeRead - NbBytes + 1

Dio0Rest == SizeRead - NbBytes

(* PayloadReady.  With the CRC wrong nothing is read.                      *)
Dio0RxFsk(crcOk) ==
  /\ "DIO0" \in lines /\ State = "RX_RUNNING" /\ Modem = "FSK"
  /\ Served("DIO0")
  /\ fifo' = IF crcOk THEN fifo - SizeBytes - Dio0Rest ELSE fifo
  /\ Report(crcOk => NbBytes + Dio0Rest = length,
            Armed \ {"RxTimeoutSyncWord"})
  /\ PreambleDetected' = FALSE /\ SyncWordDetected' = FALSE
  /\ Size' = 0 /\ NbBytes' = 0
  /\ UNCHANGED <<Modem, ChunkSize, timeout, length, left>>

(* FifoLevel: never more than the threshold is read. *)
Dio1Rx(rest) == IF rest > FifoThresh THEN FifoThresh ELSE rest

Dio1RxFsk ==
  /\ "DIO1" \in lines /\ State = "RX_RUNNING" /\ Modem = "FSK"
  /\ Served("DIO1")
  /\ Size' = SizeRead
  /\ NbBytes' = NbBytes + Dio1Rx(SizeRead - NbBytes)
  /\ fifo' = fifo - SizeBytes - Dio1Rx(SizeRead - NbBytes)
  /\ UNCHANGED <<State, Modem, Armed, PreambleDetected, SyncWordDetected,
                 ChunkSize, timeout, mode, length, left, histVars>>

(* The symbol timeout *)
Dio1RxLora ==
  /\ "DIO1" \in lines /\ State = "RX_RUNNING" /\ Modem = "LORA"
  /\ Served("DIO1")
  /\ Report(TRUE, Armed)
  /\ UNCHANGED <<Modem, handlerVars, timeout, fifo, length, left>>

(* Seeded fault: the last chunk is as long as the others. *)
BugNextChunk == ChunkSize

(* FifoEmpty: the next chunk, or the last one. *)
NextChunk == IF Size - NbBytes > ChunkSize THEN ChunkSize ELSE Size - NbBytes

Dio1TxFsk ==
  /\ "DIO1" \in lines /\ State = "TX_RUNNING" /\ Modem = "FSK"
  /\ Served("DIO1")
  /\ fifo' = fifo + NextChunk
  /\ NbBytes' = NbBytes + NextChunk
  /\ UNCHANGED <<State, Modem, Armed, PreambleDetected, SyncWordDetected, Size,
                 ChunkSize, timeout, mode, length, left, histVars>>

(* SyncAddress *)
Dio2 ==
  /\ "DIO2" \in lines /\ State = "RX_RUNNING" /\ Modem = "FSK"
  /\ Served("DIO2")
  /\ IF PreambleDetected /\ ~SyncWordDetected
       THEN /\ Armed' = Armed \ {"RxTimeoutSyncWord"}
            /\ SyncWordDetected' = TRUE
       ELSE UNCHANGED <<Armed, SyncWordDetected>>
  /\ UNCHANGED <<State, Modem, PreambleDetected, Size, NbBytes, ChunkSize,
                 timeout, mode, fifo, length, left, histVars>>

Dio4 ==
  /\ "DIO4" \in lines /\ Modem = "FSK"
  /\ Served("DIO4")
  /\ PreambleDetected' = TRUE
  /\ UNCHANGED <<State, Modem, Armed, SyncWordDetected, Size, NbBytes,
                 ChunkSize, timeout, mode, fifo, length, left, histVars>>

Dio ==
  \/ Dio0Tx \/ Dio0RxLora \/ \E crcOk \in BOOLEAN : Dio0RxFsk(crcOk)
  \/ Dio1RxFsk \/ Dio1RxLora \/ Dio1TxFsk
  \/ Dio2 \/ Dio4
  \/ State = "IDLE" /\ \E l \in lines \ {"DIO4"} : DioIgnored(l)

(* SX1276OnTimeoutIrq, called by any of the three timers: the state found  *)
(* decides.                                                                *)
TimeoutEnter(t) ==
  /\ timeout = "rest" /\ lines = {}
  /\ t \in Armed
  /\ Armed' = Armed \ {t}
  /\ timeout' = IF State = "IDLE" THEN "rest" ELSE State
  /\ UNCHANGED <<State, Modem, handlerVars, chipVars, histVars>>

(* Seeded fault: the timer of the sync word is left running. *)
BugAfterRxTimeout == Armed

AfterRxTimeout ==
  IF Modem = "FSK" THEN Armed \ {"RxTimeoutSyncWord"} ELSE Armed

RxTimeout ==
  /\ timeout = "RX_RUNNING"
  /\ timeout' = "rest"
  /\ Report(TRUE, AfterRxTimeout)
  /\ IF Modem = "FSK"
       THEN /\ PreambleDetected' = FALSE /\ SyncWordDetected' = FALSE
            /\ Size' = 0 /\ NbBytes' = 0
            /\ UNCHANGED ChunkSize
       ELSE UNCHANGED handlerVars
  /\ UNCHANGED <<Modem, fifo, length, left, lines>>

(* The chip is reset and set up again, as LoRa modem. *)
TxTimeout ==
  /\ timeout = "TX_RUNNING"
  /\ timeout' = "rest"
  /\ Modem' = "LORA"
  /\ Report(TRUE, Armed)
  /\ fifo' = 0 /\ left' = 0
  /\ UNCHANGED <<handlerVars, length, lines>>

Timeout ==
  \/ \E t \in {"TxTimeout", "RxTimeout", "RxTimeoutSyncWord"} : TimeoutEnter(t)
  \/ RxTimeout \/ TxTimeout

-----------------------------------------------------------------------------
Operation ==
  \/ \E size \in Sizes : SendFsk(size)
  \/ SendLora \/ SetTxContinuousWave
  \/ \E m \in Modems : SetRx(m)

Next == Operation \/ Chip \/ Dio \/ Timeout

(* The timers and the interrupts are served; the chip owes nothing. *)
Fairness == WF_vars(Dio) /\ WF_vars(Timeout)

Spec == Init /\ [][Next]_vars /\ Fairness

-----------------------------------------------------------------------------
(* An operation has its timer, and no timer outlives its operation: one    *)
(* that did would end a later operation, and reset the chip within a       *)
(* transmission, since all three call SX1276OnTimeoutIrq.                  *)
TimersOfState ==
  timeout = "rest" =>
    /\ State = "TX_RUNNING" <=> "TxTimeout" \in Armed
    /\ State = "RX_RUNNING" <=> "RxTimeout" \in Armed
    /\ "RxTimeoutSyncWord" \in Armed => State = "RX_RUNNING" /\ Modem = "FSK"

(* Of a frame longer than the FIFO, written and read in pieces, the chip   *)
(* sends and the MAC gets every byte: its end is not reported before.      *)
WholeFrames == ~broken

(* The FIFO never holds more than it can and no more is read than is in it. *)
FifoKept == fifo \in 0 .. FifoSize

(* Every operation is reported, whatever the chip does. *)
Reported == due # "none" ~> due = "none"
=============================================================================
