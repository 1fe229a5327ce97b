--------------------------- MODULE DownlinkProofs ---------------------------
(***************************************************************************)
(* Downlink is right for every width of the counter on the air, every gap  *)
(* and every number of frames: its types, AckTruthful, and that it         *)
(* implements DownlinkService.                                             *)
(*                                                                         *)
(* AckTruthful is about a frame on the air; AckOpen is what makes it       *)
(* inductive: the flag waits only between a frame and the next uplink, and *)
(* stands for the frame the network waits for.  That the application gets  *)
(* frames in order rests on one fact, NeverBack: a counter is never        *)
(* reconstructed below the last one.                                       *)
(***************************************************************************)
EXTENDS Downlink, TLAPS

Flags ==
  /\ SrvAckRequested \in BOOLEAN /\ acks \in BOOLEAN
  /\ uplink \in {"none", "air", "had"}

Order ==
  /\ DownLinkCounter \in Nat
  /\ sent \in 0 .. MaxDown
  /\ confirmed \subseteq 0 .. sent - 1 /\ await \in confirmed \cup {None}
  /\ took \in -1 .. sent - 1
  /\ DownLinkCounter = IF took = None THEN 0 ELSE took
  /\ given \in -1 .. took /\ times \in 0 .. 2

AckOpen ==
  SrvAckRequested => uplink = "had" /\ await # None /\ took = await

IInv == Flags /\ Order /\ AckTruthful /\ AckOpen

-----------------------------------------------------------------------------
(* TypeOK in two parts: the provers take flags and counters one by one. *)
LEMMA Parts == TypeOK <=> Flags /\ Order
BY DEF TypeOK, Flags, Order

(* A valid frame gets its own counter, and never one below the last: the   *)
(* arithmetic on the bits on the air cannot go back.                       *)
LEMMA NeverBack ==
  ASSUME Order, NEW n \in Nat, Valid(n)
  PROVE  Reconstructed(n) = n /\ DownLinkCounter <= n /\ took <= n
<1>1. Reconstructed(n) = n
  BY DEF Valid, MicOk
<1>2. FCntMod \in Nat \ {0} /\ n - DownLinkCounter \in Int
  BY DownlinkAssumption DEF Order
<1>3. Diff(n) \in 0 .. FCntMod - 1
  BY <1>2 DEF Diff
<1>4. Reconstructed(n) = DownLinkCounter + Diff(n)
  BY <1>2, <1>3 DEF Reconstructed, Order
<1>5. DownLinkCounter <= n
  BY <1>1, <1>3, <1>4 DEF Order
<1>6. took <= n
  BY <1>5 DEF Order, None
<1> QED
  BY <1>1, <1>5, <1>6

LEMMA InitIInv == Init => IInv
<1> SUFFICES ASSUME Init PROVE IInv
  OBVIOUS
<1>1. Flags
  BY Zenon DEF Init, Flags
<1>2. Order
  BY DownlinkAssumption DEF Init, Order, None
<1>3. AckTruthful /\ AckOpen
  BY DEF Init, AckTruthful, AckOpen
<1> QED
  BY <1>1, <1>2, <1>3 DEF IInv

LEMMA NextFlags == Flags /\ [Next]_vars => Flags'
<1> SUFFICES ASSUME Flags, [Next]_vars PROVE Flags'
  OBVIOUS
<1>1. CASE PrepareFrame
  BY <1>1, Zenon DEF PrepareFrame, AckLeft, Flags
<1>2. CASE NetworkHears
  BY <1>2, Zenon DEF NetworkHears, Flags
<1>3. ASSUME NEW confirm \in BOOLEAN, NetworkSends(confirm) PROVE Flags'
  BY <1>3, Zenon DEF NetworkSends, Flags
<1>4. ASSUME NEW n \in Counters, NEW mixed \in BOOLEAN,
             OnRadioRxDone(n, mixed)
      PROVE  Flags'
  <2>1. SrvAckRequested' \in {(n \in confirmed), SrvAckRequested}
    BY <1>4, Zenon DEF OnRadioRxDone, AckAsked
  <2>2. (n \in confirmed) \in BOOLEAN
    OBVIOUS
  <2> QED
    BY <1>4, <2>1, <2>2, Zenon DEF OnRadioRxDone, Flags
<1>5. CASE Join
  BY <1>5, Zenon DEF Join, Flags
<1>6. CASE UNCHANGED vars
  BY <1>6, Zenon DEF vars, Flags
<1> QED
  BY <1>1, <1>2, <1>3, <1>4, <1>5, <1>6, Zenon DEF Next, Receive

(* What a reception does, in the terms the invariant needs. *)
LEMMA ReceiveIInv ==
  ASSUME IInv, NEW n \in Counters, NEW mixed \in BOOLEAN,
         OnRadioRxDone(n, mixed)
  PROVE  Order' /\ AckTruthful' /\ AckOpen'
<1> USE DEF None
<1>0. n \in Nat /\ n < sent /\ (n \in confirmed => n = await)
  BY DownlinkAssumption DEF OnRadioRxDone, Counters
<1>1. CASE Valid(n)
  <2>1. Reconstructed(n) = n /\ took <= n
    BY <1>0, <1>1, NeverBack DEF IInv
  <2>2. /\ DownLinkCounter' = n /\ took' = n
        /\ SrvAckRequested' = (n \in confirmed)
        /\ \/ given' = given /\ times' = times
           \/ given' = n /\ times' \in {1, 2}
    BY <1>1, <2>1 DEF OnRadioRxDone, AckAsked
  <2>3. Order'
    <3>1. given' \in -1 .. took'
      BY <1>0, <2>1, <2>2 DEF IInv, Order
    <3>2. DownLinkCounter' \in Nat /\ took' \in -1 .. sent' - 1
          /\ times' \in 0 .. 2
          /\ DownLinkCounter' = IF took' = None THEN 0 ELSE took'
      BY <1>0, <2>2 DEF OnRadioRxDone, IInv, Order
    <3> QED
      BY <3>1, <3>2 DEF OnRadioRxDone, IInv, Order
  <2>4. AckTruthful'
    BY DEF OnRadioRxDone, AckTruthful
  <2>5. AckOpen'
    <3>1. SrvAckRequested' => n \in confirmed
      BY <2>2, Zenon
    <3> QED
      BY <1>0, <2>2, <3>1 DEF OnRadioRxDone, AckOpen
  <2> QED
    BY <2>3, <2>4, <2>5
<1>2. CASE ~Valid(n)
  BY <1>2 DEF OnRadioRxDone, IInv, Order, AckTruthful, AckOpen
<1> QED
  BY <1>1, <1>2

LEMMA NextIInv == IInv /\ [Next]_vars => IInv'
<1> SUFFICES ASSUME IInv, [Next]_vars
             PROVE  Order' /\ AckTruthful' /\ AckOpen'
  BY NextFlags DEF IInv
<1> USE DEF None
<1>1. CASE PrepareFrame
  <2>1. Order'
    BY <1>1 DEF PrepareFrame, AckLeft, IInv, Order
  <2>2. AckTruthful' /\ AckOpen'
    BY <1>1 DEF PrepareFrame, AckLeft, IInv, AckTruthful, AckOpen
  <2> QED
    BY <2>1, <2>2
<1>2. CASE NetworkHears
  <2>1. Order'
    BY <1>2 DEF NetworkHears, IInv, Order
  <2>2. AckTruthful' /\ AckOpen'
    BY <1>2 DEF NetworkHears, IInv, AckTruthful, AckOpen
  <2> QED
    BY <2>1, <2>2
<1>3. ASSUME NEW confirm \in BOOLEAN, NetworkSends(confirm) PROVE Order' /\ AckTruthful' /\ AckOpen'
  <2>1. Order'
    BY <1>3, DownlinkAssumption DEF NetworkSends, IInv, Order
  <2>2. AckTruthful' /\ AckOpen'
    BY <1>3 DEF NetworkSends, IInv, AckTruthful, AckOpen
  <2> QED
    BY <2>1, <2>2
<1>4. ASSUME NEW n \in Counters, Receive(n) PROVE Order' /\ AckTruthful' /\ AckOpen'
  BY <1>4, ReceiveIInv DEF Receive
<1>5. CASE Join
  BY <1>5, DownlinkAssumption
  DEF Join, IInv, Order, AckTruthful, AckOpen
<1>6. CASE UNCHANGED vars
  BY <1>6 DEF vars, IInv, Order, AckTruthful, AckOpen
<1> QED
  BY <1>1, <1>2, <1>3, <1>4, <1>5, <1>6 DEF Next

LEMMA Invariance == Spec => []IInv
BY InitIInv, NextIInv, PTL DEF Spec

(* The counters never get out of order: the node is never ahead of the     *)
(* network, nor the application of the node. *)
THEOREM TypeCorrect == Spec => []TypeOK
<1>1. IInv => TypeOK
  BY Parts DEF IInv
<1> QED
  BY <1>1, Invariance, PTL

(* No uplink acknowledges a frame the node does not have. *)
THEOREM AcksTruthful == Spec => []AckTruthful
<1>1. IInv => AckTruthful
  BY DEF IInv
<1> QED
  BY <1>1, Invariance, PTL

-----------------------------------------------------------------------------
(* A reception gives the application a newer frame, frame 0 again, or      *)
(* nothing. *)
LEMMA ReceiveGives ==
  ASSUME IInv, NEW n \in Counters, NEW mixed \in BOOLEAN,
         OnRadioRxDone(n, mixed)
  PROVE  [Service!Next]_<<given, times>>
<1> USE DEF None
<1>0. n \in Nat
  BY DownlinkAssumption DEF Counters
<1>1. CASE Valid(n) /\ ~Repeated(n) /\ ~mixed
  <2>1. DownLinkCounter <= n /\ took <= n
    BY <1>0, <1>1, NeverBack DEF IInv
  <2>2. given' = n /\ times' = IF n = given THEN 2 ELSE 1
    BY <1>1 DEF OnRadioRxDone
  <2>3. n # DownLinkCounter \/ DownLinkCounter = 0
    BY <1>1 DEF Repeated
  <2>4. given <= n /\ given \in Int /\ (given = n => n = 0)
    BY <1>0, <2>1, <2>3 DEF IInv, Order
  <2>5. CASE given = n
    BY <2>2, <2>4, <2>5 DEF Service!Next, Service!GiveFirstAgain
  <2>6. CASE given # n
    BY <1>0, <2>2, <2>4, <2>6 DEF Service!Next, Service!Give
  <2> QED
    BY <2>5, <2>6
<1>2. CASE ~(Valid(n) /\ ~Repeated(n) /\ ~mixed)
  BY <1>2 DEF OnRadioRxDone
<1> QED
  BY <1>1, <1>2

(* The application gets each frame at most once and in the order of their  *)
(* counters, frame 0 apart: the node implements the abstract service. *)
THEOREM Implements == Spec => ServiceSpec
<1>1. Init => Service!Init
  BY DEF Init, Service!Init, None
<1>2. IInv /\ [Next]_vars => [Service!Next]_<<given, times>>
  <2> SUFFICES ASSUME IInv, [Next]_vars
               PROVE  [Service!Next]_<<given, times>>
    OBVIOUS
  <2>1. ASSUME NEW n \in Counters, Receive(n)
        PROVE  [Service!Next]_<<given, times>>
    BY <2>1, ReceiveGives DEF Receive
  <2>2. CASE Join
    BY <2>2 DEF Join, Service!Next, Service!NewSession, None
  <2>3. CASE \/ PrepareFrame \/ NetworkHears
             \/ \E confirm \in BOOLEAN : NetworkSends(confirm)
             \/ UNCHANGED vars
    BY <2>3 DEF PrepareFrame, NetworkHears, NetworkSends, vars
  <2> QED
    BY <2>1, <2>2, <2>3 DEF Next
<1> QED
  BY <1>1, <1>2, Invariance, PTL DEF Spec, ServiceSpec, Service!Spec
=============================================================================
