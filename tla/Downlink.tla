------------------------------ MODULE Downlink ------------------------------
(***************************************************************************)
(* The counter of the downlinks and their acknowledgement (OnRadioRxDone   *)
(* and PrepareFrame of src/mac/LoRaMac.c), against a network that repeats  *)
(* frames and a radio that loses them either way.  A frame on the air has  *)
(* the low bits of its counter; the integrity code (MIC) is over all of    *)
(* it, so it is right exactly if the node reconstructs the counter.        *)
(*                                                                         *)
(* The device is of class A: frames come after an uplink the network had.  *)
(* The network repeats a confirmed frame until an uplink acknowledges it,  *)
(* sends nothing new before, and does not repeat it after; unconfirmed     *)
(* frames may come again, and late.  When uplinks start and end is left    *)
(* open (LoRaMac has it), so the properties hold whatever it is.           *)
(***************************************************************************)
EXTENDS Integers

CONSTANTS
  FCntMod,        \* values of the counter on the air (2^16)
  MAX_FCNT_GAP,   \* EU868_MAX_FCNT_GAP (16384)
  MaxDown         \* bound: frames the network sends in a session

ASSUME DownlinkAssumption ==
  FCntMod \in Nat \ {0} /\ MAX_FCNT_GAP \in Nat /\ MaxDown \in Nat

VARIABLES
  DownLinkCounter,
  SrvAckRequested,
  acks,        \* fCtrl.Bits.Ack of the frame in LoRaMacBuffer
  uplink,      \* this frame: "none" yet, in the "air", or the network "had" it
  sent,        \* network: frames sent in this session, their counters are below
  confirmed,   \* network: which of them ask for an acknowledgement
  await,       \* network: the one that is not acknowledged yet, or None
  took,        \* history: counter of the last frame that was valid, or None
  given,       \* history: counter of the last frame indicated, or None
  times        \* history: how often it was indicated, at most 2

vars == <<DownLinkCounter, SrvAckRequested, acks, uplink, sent, confirmed,
          await, took, given, times>>

None == -1
Counters == 0 .. MaxDown - 1

Init ==
  /\ DownLinkCounter = 0 /\ SrvAckRequested = FALSE
  /\ acks = FALSE /\ uplink = "none"
  /\ sent = 0 /\ confirmed = {} /\ await = None
  /\ took = None /\ given = None /\ times = 0

-----------------------------------------------------------------------------
(* PrepareFrame: the acknowledgement goes into this frame only.            *)
(* Seeded fault: it goes into the next one, too. *)
BugAckLeft == SrvAckRequested

AckLeft == FALSE

PrepareFrame ==
  /\ acks' = SrvAckRequested
  /\ SrvAckRequested' = AckLeft
  /\ uplink' = "air"
  /\ UNCHANGED <<DownLinkCounter, sent, confirmed, await, took, given, times>>

(* The network has the frame; the trials after the first tell it nothing.  *)
NetworkHears ==
  /\ uplink = "air" /\ uplink' = "had"
  /\ await' = IF acks THEN None ELSE await
  /\ UNCHANGED <<DownLinkCounter, SrvAckRequested, acks, sent, confirmed,
                 took, given, times>>

NetworkSends(confirm) ==
  /\ uplink = "had" /\ await = None
  /\ sent < MaxDown
  /\ sent' = sent + 1
  /\ confirmed' = IF confirm THEN confirmed \cup {sent} ELSE confirmed
  /\ await' = IF confirm THEN sent ELSE None
  /\ UNCHANGED <<DownLinkCounter, SrvAckRequested, acks, uplink, took, given,
                 times>>

-----------------------------------------------------------------------------
(* The 32 bits of the counter of frame n, from the bits on the air.        *)
Diff(n) == (n - DownLinkCounter) % FCntMod

Reconstructed(n) ==
  IF Diff(n) < FCntMod \div 2
  THEN DownLinkCounter + Diff(n)
  ELSE DownLinkCounter + FCntMod + (Diff(n) - FCntMod)

(* Seeded fault: the MIC has only the bits on the air. *)
BugMicOk(n) == Reconstructed(n) % FCntMod = n % FCntMod

MicOk(n) == Reconstructed(n) = n

Valid(n) == MicOk(n) /\ Diff(n) < MAX_FCNT_GAP

(* Seeded fault: a repeated frame is not told from a new one. *)
BugRepeated(n) == FALSE

Repeated(n) == n = DownLinkCounter /\ DownLinkCounter # 0

(* Seeded fault: a confirmed frame is acknowledged only the first time. *)
BugAckAsked(n) == n \in confirmed /\ ~Repeated(n)

AckAsked(n) == n \in confirmed

(* OnRadioRxDone for frame n.  A repeated frame, and one of port 0 that    *)
(* has options as well (mixed), is not indicated.                          *)
OnRadioRxDone(n, mixed) ==
  /\ uplink = "had"
  /\ n < sent /\ (n \in confirmed => n = await)
  /\ IF Valid(n)
     THEN /\ SrvAckRequested' = AckAsked(n)
          /\ DownLinkCounter' = Reconstructed(n)
          /\ took' = n
          /\ IF Repeated(n) \/ mixed
             THEN UNCHANGED <<given, times>>
             ELSE /\ given' = n
                  /\ times' = IF n = given THEN 2 ELSE 1
     ELSE UNCHANGED <<SrvAckRequested, DownLinkCounter, took, given, times>>
  /\ UNCHANGED <<acks, uplink, sent, confirmed, await>>

(* A join, with ResetMacParameters: a new session on either side. *)
Join ==
  /\ DownLinkCounter' = 0 /\ SrvAckRequested' = FALSE
  /\ acks' = FALSE /\ uplink' = "none"
  /\ sent' = 0 /\ confirmed' = {} /\ await' = None
  /\ took' = None /\ given' = None /\ times' = 0

-----------------------------------------------------------------------------
Receive(n) == \E mixed \in BOOLEAN : OnRadioRxDone(n, mixed)

Next ==
  \/ PrepareFrame
  \/ NetworkHears
  \/ \E confirm \in BOOLEAN : NetworkSends(confirm)
  \/ \E n \in Counters : Receive(n)
  \/ Join

Spec == Init /\ [][Next]_vars

(* The application sends again and again (TxNextPacketTimer of main.c),    *)
(* and the radio does not lose every frame of a kind that is sent over and *)
(* over: uplinks with and without an acknowledgement, and a frame the      *)
(* network repeats.                                                        *)
Fairness ==
  /\ WF_vars(PrepareFrame)
  /\ SF_vars(NetworkHears /\ acks) /\ SF_vars(NetworkHears /\ ~acks)
  /\ \A n \in Counters : SF_vars(n = await /\ Receive(n))

FairSpec == Spec /\ Fairness

-----------------------------------------------------------------------------
(* Types, and how the counters lie: the node never gets ahead of the       *)
(* network (a counter reconstructed too high makes it deaf), nor the       *)
(* application of the node.                                                *)
TypeOK ==
  /\ SrvAckRequested \in BOOLEAN /\ acks \in BOOLEAN
  /\ uplink \in {"none", "air", "had"}
  /\ DownLinkCounter \in Nat
  /\ sent \in 0 .. MaxDown
  /\ confirmed \subseteq 0 .. sent - 1 /\ await \in confirmed \cup {None}
  /\ took \in -1 .. sent - 1
  /\ DownLinkCounter = IF took = None THEN 0 ELSE took
  /\ given \in -1 .. took /\ times \in 0 .. 2

(* The acknowledgement in an uplink says that this node has the frame the  *)
(* network waits for, never another one: SrvAckRequested has no counter,   *)
(* so a bit left over from an older frame would stop the network from      *)
(* sending a newer one that was lost again.                                *)
AckTruthful ==
  uplink = "air" /\ acks /\ await # None => took = await

(* The abstract specification: the application gets a frame at most once,  *)
(* in order (the comment at line 952: "It should not provide the same      *)
(* frame to the application layer again").                                 *)
Service == INSTANCE DownlinkService
ServiceSpec == Service!Spec

(* A confirmed frame is acknowledged at last, unless as many frames were   *)
(* lost in a row that the node takes none any more (line 902).             *)
Acknowledged ==
  \A n \in Counters :
    (await = n /\ n - DownLinkCounter < MAX_FCNT_GAP) ~> (await # n)
=============================================================================
