------------------------- MODULE MacCommandsProofs -------------------------
(***************************************************************************)
(* What is right of the commands, channels and rates of the node for every *)
(* number of channels and rates, every limit and delay of the ADR, every   *)
(* size of buffers and payloads.                                           *)
(*                                                                         *)
(* HeardAgain is about the end of a long silence.  What is inductive is a  *)
(* bound on the silence at every rate (Slack): the counter gets past it by *)
(* one at most, at the end of a frame, and at that value the next frame    *)
(* goes one rate lower, which moves the bound by a delay.                  *)
(*                                                                         *)
(* BufferKept and AnswersSent are about two buffers that are emptied at    *)
(* seven places.  What is inductive is that they fit together, and that    *)
(* every pending answer is in one of them (BufferSum, Pendings).           *)
(***************************************************************************)
EXTENDS MacCommands, SequenceTheorems, Induction

(* The frames that may go unheard before the rate dr is left. *)
Slack(dr) == ADR_ACK_LIMIT + ADR_ACK_DELAY * (MAX_DATARATE + 1 - dr)

AtRest == IF cycle = "rest" THEN 1 ELSE 0

ChannelsKept ==
  /\ Channels \in [Ids -> [defined : BOOLEAN, min : Rates, max : Rates]]
  /\ \A c \in Ids : Channels[c].min <= Channels[c].max
  /\ \A c \in Defaults : /\ Channels[c].defined
                         /\ Channels[c].min = 0

MaskKept ==
  /\ ChannelsMask \subseteq Ids
  /\ settled \in BOOLEAN
  /\ ChannelsDatarate = 0 => Defaults \subseteq ChannelsMask \/ settled

Counting ==
  /\ ChannelsDatarate \in Rates
  /\ AdrAckCounter \in 0 .. Lonely + 1 + AtRest
  /\ unheard \in 0 .. Lonely + 1
  /\ ChannelsDatarate > 0 =>
       /\ unheard = AdrAckCounter
       /\ AdrAckCounter <= Slack(ChannelsDatarate) + AtRest

IInv == ChannelsKept /\ MaskKept /\ Counting

-----------------------------------------------------------------------------
(* The arithmetic of Slack. *)
LEMMA SlackIs ==
  ASSUME NEW dr \in Rates
  PROVE  /\ Slack(dr) \in Nat
         /\ Slack(dr) >= ADR_ACK_LIMIT + ADR_ACK_DELAY
         /\ dr > 0 => Slack(dr) <= Lonely
         /\ dr > 0 => Slack(dr - 1) = Slack(dr) + ADR_ACK_DELAY
<1> DEFINE k == MAX_DATARATE + 1 - dr
<1>1. k \in Nat /\ k >= 1 /\ ADR_ACK_LIMIT \in Nat /\ ADR_ACK_DELAY \in Nat
  BY EU868Assumption DEF Rates
<1>2. Slack(dr) = ADR_ACK_LIMIT + ADR_ACK_DELAY * k
  BY DEF Slack
<1> HIDE DEF k
<1>3. ADR_ACK_DELAY * k \in Nat /\ ADR_ACK_DELAY * k >= ADR_ACK_DELAY
  <2>1. PICK j \in Nat : k = j + 1
    BY <1>1
  <2>2. ADR_ACK_DELAY * (j + 1) = ADR_ACK_DELAY * j + ADR_ACK_DELAY
    BY <1>1
  <2>3. ADR_ACK_DELAY * j \in Nat
    BY <1>1
  <2> QED
    BY <1>1, <2>1, <2>2, <2>3
<1>4. ASSUME dr > 0 PROVE Slack(dr) <= Lonely
  <2>1. PICK j \in Nat : MAX_DATARATE = k + j
    BY <1>1, <1>4, EU868Assumption DEF k, Rates
  <2>2. ADR_ACK_DELAY * (k + j) = ADR_ACK_DELAY * k + ADR_ACK_DELAY * j
    BY <1>1
  <2>3. ADR_ACK_DELAY * j \in Nat
    BY <1>1
  <2> QED
    BY <1>1, <1>2, <1>3, <2>1, <2>2, <2>3 DEF Lonely
<1>5. ASSUME dr > 0 PROVE Slack(dr - 1) = Slack(dr) + ADR_ACK_DELAY
  <2>1. MAX_DATARATE + 1 - (dr - 1) = k + 1
    BY EU868Assumption DEF k, Rates
  <2>2. ADR_ACK_DELAY * (k + 1) = ADR_ACK_DELAY * k + ADR_ACK_DELAY
    BY <1>1
  <2> QED
    BY <1>1, <1>2, <1>3, <2>1, <2>2 DEF Slack
<1> QED
  BY <1>1, <1>2, <1>3, <1>4, <1>5

(* One past the slack of a rate the counter is 1 modulo the delay. *)
LEMMA SlackEnds ==
  ASSUME NEW dr \in Rates
  PROVE  (Slack(dr) + 1) % ADR_ACK_DELAY = 1
<1> DEFINE D == ADR_ACK_DELAY
           q0 == ADR_ACK_LIMIT \div D
           n == Slack(dr) + 1
           q == n \div D
           r == n % D
           m == q - q0 - (MAX_DATARATE + 1 - dr)
<1>1. D \in Nat /\ D >= 2 /\ ADR_ACK_LIMIT \in Nat
  BY EU868Assumption
<1>2. n \in Nat
  BY SlackIs
<1>3. q0 \in Int /\ ADR_ACK_LIMIT = D * q0
  BY <1>1, EU868Assumption
<1>4. q \in Int /\ r \in 0 .. D - 1 /\ n = D * q + r
  BY <1>1, <1>2
<1>5. m \in Int
  BY <1>3, <1>4, EU868Assumption DEF Rates
<1>6. D * m = 1 - r
  BY <1>1, <1>3, <1>4, EU868Assumption DEF Slack, Rates
<1> HIDE DEF D, q0, q, r, m, n
<1>7. m = 0
  <2>1. ASSUME m >= 1 PROVE FALSE
    <3>1. PICK j \in Nat : m = j + 1
      BY <1>5, <2>1
    <3>2. D * (j + 1) = D * j + D /\ D * j \in Nat
      BY <1>1
    <3> QED
      BY <1>1, <1>4, <1>6, <3>1, <3>2
  <2>2. ASSUME m <= -1 PROVE FALSE
    <3>1. PICK j \in Nat : m = -1 - j
      BY <1>5, <2>2
    <3>2. D * (-1 - j) = -D - D * j /\ D * j \in Nat
      BY <1>1
    <3> QED
      BY <1>1, <1>4, <1>6, <3>1, <3>2
  <2> QED
    BY <1>5, <2>1, <2>2
<1>8. r = 1
  BY <1>1, <1>4, <1>6, <1>7
<1> QED
  BY <1>8 DEF r, n, D

-----------------------------------------------------------------------------
(* The loop of ScheduleTx ends: the rate 0 finds a default channel. *)
LEMMA DefaultUsable == ChannelsKept => LoopEnds
BY EU868Assumption DEF ChannelsKept, LoopEnds, Usable, Takes, DefaultDatarate,
                       Channel, Rates

LEMMA InitIInv == Init => IInv
<1> SUFFICES ASSUME Init PROVE IInv
  OBVIOUS
<1> USE EU868Assumption DEF Init, EUInit
<1>1. ChannelsKept
  BY DEF ChannelsKept, Channel, Undefined, Rates
<1>2. MaskKept
  BY DEF MaskKept
<1>3. Lonely \in Nat
  <2>1. ADR_ACK_DELAY * MAX_DATARATE \in Nat
    OBVIOUS
  <2> QED
    BY <2>1 DEF Lonely
<1>4. Counting
  BY <1>3 DEF Counting, AtRest, DefaultDatarate, Rates
<1> QED
  BY <1>1, <1>2, <1>4 DEF IInv

-----------------------------------------------------------------------------
(* Only requests of the network and joins change the channels. *)
LEMMA ChannelsStep ==
  Next => \/ UNCHANGED Channels
          \/ NewChannelReq
          \/ \E listed, refused \in SUBSET (Ids \ Defaults) :
               ApplyCFList(listed, refused)
<1> SUFFICES ASSUME Next PROVE
      \/ UNCHANGED Channels
      \/ NewChannelReq
      \/ \E listed, refused \in SUBSET (Ids \ Defaults) :
           ApplyCFList(listed, refused)
  OBVIOUS
<1> USE DEF euVars, channelVars
<1>1. ASSUME NEW size \in Sizes, NEW confirmed \in BOOLEAN,
             SendFrame(size, confirmed)
      PROVE  UNCHANGED Channels
  BY <1>1 DEF SendFrame
<1>2. CASE OnTxDelayedTimerEvent
  BY <1>2 DEF OnTxDelayedTimerEvent
<1>3. CASE LinkCheck
  BY <1>3 DEF LinkCheck
<1>4. CASE Join
  BY <1>4 DEF Join, Joined
<1>5. ASSUME NEW ack \in BOOLEAN, NEW skip \in BOOLEAN, NEW cs \in Requests,
             OnRadioRxDone(ack, skip, cs)
      PROVE  UNCHANGED Channels \/ NewChannelReq
  BY <1>5 DEF OnRadioRxDone, ChannelsAsked, LinkAdrReq
<1>6. CASE OnRadioRxRepeated
  BY <1>6 DEF OnRadioRxRepeated
<1>7. CASE Repeat
  BY <1>7 DEF Repeat
<1>8. ASSUME NEW slower \in BOOLEAN, Retry(slower) PROVE UNCHANGED Channels
  BY <1>8 DEF Retry
<1>9. CASE CycleHeard \/ CycleUnheard \/ CycleAborted \/ GivenUp \/ TxTimeout
  BY <1>9
  DEF CycleHeard, CycleUnheard, CycleAborted, GivenUp, TxTimeout, CycleEnd
<1> QED
  BY <1>1, <1>2, <1>3, <1>4, <1>5, <1>6, <1>7, <1>8, <1>9 DEF Next

LEMMA NextChannels == ChannelsKept /\ [Next]_vars => ChannelsKept'
<1> SUFFICES ASSUME ChannelsKept, [Next]_vars PROVE ChannelsKept'
  OBVIOUS
<1> USE DEF ChannelsKept
<1>1. CASE UNCHANGED Channels
  BY <1>1
<1>2. ASSUME NEW c \in Ids, ChannelsRemove(c) PROVE ChannelsKept'
  BY <1>2, EU868Assumption DEF ChannelsRemove, Undefined, Rates
<1>3. ASSUME NEW c \in Ids, NEW min \in Rates, NEW max \in Rates,
             ChannelAdd(c, min, max)
      PROVE  ChannelsKept'
  BY <1>3, EU868Assumption DEF ChannelAdd, AddOk, Channel, Rates
<1>4. ASSUME NEW listed \in SUBSET (Ids \ Defaults),
             NEW refused \in SUBSET (Ids \ Defaults),
             ApplyCFList(listed, refused)
      PROVE  ChannelsKept'
  BY <1>4, EU868Assumption DEF ApplyCFList, Channel, Undefined, Rates
<1>5. CASE UNCHANGED vars
  BY <1>1, <1>5 DEF vars, euVars, channelVars
<1> QED
  BY <1>1, <1>2, <1>3, <1>4, <1>5, ChannelsStep DEF NewChannelReq

-----------------------------------------------------------------------------
(* What ScheduleTx makes of a mask and a rate. *)
LEMMA Scheduled ==
  ASSUME NEW r, r.mask \subseteq Ids, r.dr \in Rates,
         NEW f, NEW buf, NEW later, NEW long,
         ScheduleTx(r, f, buf, later, long)
  PROVE  /\ ChannelsMask' \subseteq Ids
         /\ r.mask \subseteq ChannelsMask'
         /\ ChannelsDatarate' \in {r.dr, 0}
         /\ r.dr # 0 /\ ChannelsDatarate' = 0 => Defaults \subseteq ChannelsMask'
<1>1. PICK limited \in BOOLEAN :
        /\ ChannelsMask' = NextChannel(r, limited).mask
        /\ ChannelsDatarate' = NextChannel(r, limited).dr
  BY DEF ScheduleTx
<1> QED
  BY <1>1, EU868Assumption DEF NextChannel, Restored, DefaultDatarate

LEMMA AdrNextIs ==
  ASSUME IInv
  PROVE  /\ AdrNext.mask \subseteq Ids /\ ChannelsMask \subseteq AdrNext.mask
         /\ AdrNext.dr = IF BacksOff THEN Lower(ChannelsDatarate)
                                     ELSE ChannelsDatarate
         /\ AdrNext.dr \in Rates
         /\ AdrNext.dr = 0 /\ ChannelsDatarate # 0 =>
              Defaults \subseteq AdrNext.mask
BY EU868Assumption DEF IInv, MaskKept, Counting, AdrNext, Restored, Lower, Rates

LEMMA CurrentIs ==
  IInv => /\ Current.mask = ChannelsMask /\ Current.dr = ChannelsDatarate
          /\ ChannelsMask \subseteq Ids /\ ChannelsDatarate \in Rates
BY DEF IInv, MaskKept, Counting, Current

(* Requests of the network. *)
LEMMA Asked ==
  ASSUME IInv, NEW answer, ChannelsAsked(answer)
  PROVE  ChannelsMask' \subseteq Ids /\ ChannelsDatarate' \in Rates
<1> USE EU868Assumption DEF IInv, MaskKept, Counting
<1>1. CASE UNCHANGED channelVars
  BY <1>1 DEF channelVars
<1>2. ASSUME NEW dr \in Rates, NEW mask \in SUBSET Ids, NEW all \in BOOLEAN,
             LinkAdrReq(dr, mask, all)
      PROVE  ChannelsMask' \subseteq Ids /\ ChannelsDatarate' \in Rates
  BY <1>2 DEF LinkAdrReq
<1>3. CASE NewChannelReq
  BY <1>3 DEF NewChannelReq, ChannelsRemove, ChannelAdd
<1> QED
  BY <1>1, <1>2, <1>3 DEF ChannelsAsked

(* Whatever lowers the rate to 0 without the default channels is settled.  *)
LEMMA NextMask == IInv /\ [Next]_vars => MaskKept'
<1> SUFFICES ASSUME IInv, [Next]_vars PROVE MaskKept'
  OBVIOUS
<1>0. MaskKept /\ ChannelsDatarate \in Rates
  BY DEF IInv, Counting
<1> USE DEF MaskKept
<1>1. ASSUME NEW size \in Sizes, NEW confirmed \in BOOLEAN,
             SendFrame(size, confirmed)
      PROVE  MaskKept'
  <2>1. /\ ScheduleTx(AdrNext, frame', MacCommandsBuffer', "delayed", "rest")
        /\ settled' = settled
    BY <1>1 DEF SendFrame
  <2>2. /\ ChannelsMask' \subseteq Ids
        /\ AdrNext.mask \subseteq ChannelsMask'
        /\ ChannelsDatarate' \in {AdrNext.dr, 0}
        /\ AdrNext.dr # 0 /\ ChannelsDatarate' = 0 =>
             Defaults \subseteq ChannelsMask'
    BY <2>1, AdrNextIs, Scheduled
  <2> QED
    BY <1>0, <2>1, <2>2, AdrNextIs
<1>2. ASSUME NEW later, NEW long, settled' = settled,
             ScheduleTx(Current, frame, MacCommandsBuffer, later, long)
      PROVE  MaskKept'
  <2>1. /\ ChannelsMask' \subseteq Ids
        /\ Current.mask \subseteq ChannelsMask'
        /\ ChannelsDatarate' \in {Current.dr, 0}
        /\ Current.dr # 0 /\ ChannelsDatarate' = 0 =>
             Defaults \subseteq ChannelsMask'
    BY <1>2, CurrentIs, Scheduled
  <2> QED
    BY <1>0, <1>2, <2>1, CurrentIs
<1>3. CASE LinkCheck
  BY <1>0, <1>3 DEF LinkCheck, euVars, channelVars
<1>4. CASE Join
  <2>1. settled' = TRUE
    BY <1>4 DEF Join, Joined
  <2>2. ChannelsMask' \subseteq Ids
    BY <1>0, <1>4, EU868Assumption DEF Join, Joined, ApplyCFList
  <2> QED
    BY <2>1, <2>2
<1>5. ASSUME NEW ack \in BOOLEAN, NEW skip \in BOOLEAN, NEW cs \in Requests,
             OnRadioRxDone(ack, skip, cs)
      PROVE  MaskKept'
  <2>1. settled' = (ChannelsDatarate' = 0)
    BY <1>5 DEF OnRadioRxDone
  <2>2. ChannelsMask' \subseteq Ids
    BY <1>5, Asked DEF OnRadioRxDone
  <2> QED
    BY <2>1, <2>2, Zenon
<1>6. CASE OnRadioRxRepeated
  <2>1. /\ settled' = (ChannelsDatarate = 0)
        /\ UNCHANGED channelVars
    BY <1>6 DEF OnRadioRxRepeated
  <2> QED
    BY <1>0, <2>1, Zenon DEF channelVars
<1>7. ASSUME NEW slower \in BOOLEAN, Retry(slower) PROVE MaskKept'
  <2> DEFINE dr == IF slower THEN Lower(ChannelsDatarate) ELSE ChannelsDatarate
             r == [Current EXCEPT !.dr = dr]
  <2>1. /\ ScheduleTx(r, frame, MacCommandsBuffer, "again", "rest")
        /\ settled' = (settled \/ (dr = 0 /\ slower))
    BY <1>7 DEF Retry
  <2>2. r.mask = ChannelsMask /\ r.dr = dr /\ dr \in Rates
    BY <1>0, EU868Assumption DEF Current, Lower, Rates
  <2>3. /\ ChannelsMask' \subseteq Ids
        /\ r.mask \subseteq ChannelsMask'
        /\ ChannelsDatarate' \in {r.dr, 0}
        /\ r.dr # 0 /\ ChannelsDatarate' = 0 => Defaults \subseteq ChannelsMask'
    BY <1>0, <2>1, <2>2, Scheduled
  <2>4. settled' \in BOOLEAN
    BY <2>1, Zenon
  <2>5. ASSUME ChannelsDatarate' = 0
        PROVE  Defaults \subseteq ChannelsMask' \/ settled'
    <3>1. CASE dr = 0 /\ slower
      BY <2>1, <3>1, Zenon
    <3>2. CASE dr = 0 /\ ~slower
      <4>1. Defaults \subseteq ChannelsMask \/ settled
        BY <1>0, <3>2
      <4>2. ChannelsMask \subseteq ChannelsMask'
        BY <2>2, <2>3
      <4>3. settled => settled'
        BY <2>1, Zenon
      <4> QED
        BY <4>1, <4>2, <4>3
    <3>3. CASE dr # 0
      BY <2>2, <2>3, <2>5, <3>3
    <3> QED
      BY <3>1, <3>2, <3>3
  <2> HIDE DEF r, dr
  <2> QED
    BY <2>3, <2>4, <2>5
<1>8. CASE CycleHeard \/ CycleUnheard \/ CycleAborted \/ TxTimeout
  BY <1>0, <1>8 DEF CycleHeard, CycleUnheard, CycleAborted, TxTimeout, CycleEnd
<1>9. CASE GivenUp
  BY <1>0, <1>9, EU868Assumption DEF GivenUp, CycleEnd, Restored
<1>10. CASE UNCHANGED vars
  BY <1>0, <1>10 DEF vars, euVars, channelVars
<1>11. CASE OnTxDelayedTimerEvent
  BY <1>2, <1>11 DEF OnTxDelayedTimerEvent
<1>12. CASE Repeat
  BY <1>2, <1>12 DEF Repeat
<1> QED
  BY <1>1, <1>3, <1>4, <1>5, <1>6, <1>7, <1>8, <1>9, <1>10, <1>11, <1>12
  DEF Next

-----------------------------------------------------------------------------
(* The rate is left before its slack is passed. *)
LEMMA SendCounts ==
  ASSUME IInv, cycle = "rest", NEW dr \in {AdrNext.dr, 0}, dr > 0
  PROVE  /\ unheard = AdrCounted
         /\ AdrCounted <= Slack(dr)
<1> DEFINE d == ChannelsDatarate
<1>1. /\ d \in Rates /\ AdrAckCounter \in Nat /\ ADR_ACK_DELAY \in Nat
      /\ ADR_ACK_DELAY >= 2
  BY EU868Assumption DEF IInv, Counting, AtRest, Lonely
<1>2. dr = IF BacksOff THEN Lower(d) ELSE d
  BY AdrNextIs
<1>3. d > 0
  BY <1>1, <1>2 DEF Lower, Rates
<1>4. unheard = AdrAckCounter /\ AdrAckCounter <= Slack(d) + 1
  BY <1>3 DEF IInv, Counting, AtRest
<1>5. AdrCounted = AdrAckCounter
  BY <1>3 DEF AdrCounted
<1>6. Slack(d) \in Nat /\ Slack(d) >= ADR_ACK_LIMIT + ADR_ACK_DELAY
  BY <1>1, SlackIs
<1>7. CASE BacksOff
  <2>1. dr = d - 1
    BY <1>2, <1>3, <1>7 DEF Lower
  <2>2. Slack(dr) = Slack(d) + ADR_ACK_DELAY
    BY <1>1, <1>3, <2>1, SlackIs
  <2> QED
    BY <1>1, <1>4, <1>5, <1>6, <2>2
<1>8. CASE ~BacksOff
  <2>1. AdrAckCounter # Slack(d) + 1
    BY <1>1, <1>6, <1>8, SlackEnds, EU868Assumption DEF BacksOff
  <2> QED
    BY <1>1, <1>2, <1>4, <1>5, <1>6, <1>8, <2>1
<1> QED
  BY <1>7, <1>8

(* At a lower rate the bound is wider. *)
LEMMA SlackWider ==
  ASSUME NEW a \in Rates, NEW b \in {a, 0, a - 1}, b > 0
  PROVE  Slack(a) <= Slack(b)
BY SlackIs, EU868Assumption DEF Rates

LEMMA MinIs ==
  ASSUME NEW a \in Nat, NEW b \in Nat
  PROVE  Min({a, b}) = IF a <= b THEN a ELSE b
<1> DEFINE m == IF a <= b THEN a ELSE b
<1>1. m \in {a, b} /\ \A y \in {a, b} : m <= y
  OBVIOUS
<1>2. \A x \in {a, b} : (\A y \in {a, b} : x <= y) => x = m
  OBVIOUS
<1> HIDE DEF m
<1>3. Min({a, b}) = m
  BY <1>1, <1>2 DEF Min
<1> QED
  BY <1>3 DEF m

LEMMA LonelyType == Lonely \in Nat /\ AtRest \in {0, 1} /\ AtRest' \in {0, 1}
<1>1. ADR_ACK_DELAY * MAX_DATARATE \in Nat
  BY EU868Assumption
<1> QED
  BY <1>1, EU868Assumption DEF Lonely, AtRest

(* A frame sent again, at the same rate or a lower one. *)
LEMMA AgainCounts ==
  ASSUME IInv, cycle # "rest",
         AdrAckCounter' = AdrAckCounter, unheard' = unheard,
         NEW dr \in Rates, dr \in {ChannelsDatarate, Lower(ChannelsDatarate)},
         ChannelsDatarate' \in {dr, 0}
  PROVE  Counting'
<1> DEFINE d == ChannelsDatarate
<1>1. d \in Rates /\ d' \in Rates
  BY EU868Assumption DEF IInv, Counting, Rates
<1>2. /\ AdrAckCounter \in 0 .. Lonely + 1
      /\ unheard \in 0 .. Lonely + 1
  BY LonelyType DEF IInv, Counting, AtRest
<1>3. /\ AdrAckCounter' \in 0 .. Lonely + 1 + AtRest'
      /\ unheard' \in 0 .. Lonely + 1
  <2>1. AdrAckCounter \in 0 .. Lonely + 1 + AtRest'
    BY <1>2, LonelyType DEF AtRest
  <2> QED
    BY <1>2, <2>1
<1>4. ASSUME d' > 0
      PROVE  unheard' = AdrAckCounter' /\ AdrAckCounter' <= Slack(d') + AtRest'
  <2>1. d > 0 /\ d' \in {d, d - 1}
    BY <1>1, <1>4 DEF Lower, Rates
  <2>2. unheard = AdrAckCounter /\ AdrAckCounter <= Slack(d)
    BY <1>1, <2>1, SlackIs DEF IInv, Counting, AtRest
  <2>3. Slack(d) <= Slack(d')
    BY <1>1, <1>4, <2>1, SlackWider
  <2>4. Slack(d) \in Nat /\ Slack(d') \in Nat
    BY <1>1, SlackIs
  <2> QED
    BY <1>2, <2>2, <2>3, <2>4, LonelyType
<1>5. Slack(d)' = Slack(d')
  BY DEF Slack
<1> QED
  BY <1>1, <1>3, <1>4, <1>5, LonelyType DEF Counting, Lonely

(* The end of a transmission; one that was not heard counts. *)
LEMMA EndCounts ==
  ASSUME IInv, cycle = "air", cycle' = "rest", UNCHANGED ChannelsDatarate,
         \/ UNCHANGED <<AdrAckCounter, unheard>>
         \/ /\ AdrAckCounter' = AdrAckCounter + 1
            /\ unheard' = Min({unheard + 1, Lonely + 1})
  PROVE  Counting'
<1> DEFINE d == ChannelsDatarate
<1>1. /\ d \in Rates /\ AdrAckCounter \in 0 .. Lonely + 1
      /\ unheard \in 0 .. Lonely + 1 /\ AtRest' = 1
  BY LonelyType DEF IInv, Counting, AtRest
<1>2. d > 0 => unheard = AdrAckCounter /\ AdrAckCounter <= Slack(d)
  BY <1>1, SlackIs DEF IInv, Counting, AtRest
<1>3. Slack(d) \in Nat /\ (d > 0 => Slack(d) <= Lonely)
  BY <1>1, SlackIs
<1>4. Min({unheard + 1, Lonely + 1}) = IF unheard <= Lonely THEN unheard + 1
                                                           ELSE Lonely + 1
  BY <1>1, LonelyType, MinIs
<1>5. /\ AdrAckCounter' \in 0 .. Lonely + 2
      /\ unheard' \in 0 .. Lonely + 1
      /\ d > 0 => unheard' = AdrAckCounter' /\ AdrAckCounter' <= Slack(d) + 1
  BY <1>1, <1>2, <1>3, <1>4, LonelyType
<1> QED
  BY <1>1, <1>5, LonelyType DEF Counting, Lonely, Slack

(* A downlink, or a join, starts the silence anew. *)
LEMMA HeardCounts ==
  ASSUME ChannelsDatarate' \in Rates, AdrAckCounter' = 0, unheard' = 0
  PROVE  Counting'
<1>1. Slack(ChannelsDatarate') \in Nat
  BY SlackIs
<1> QED
  BY <1>1, LonelyType DEF Counting, Lonely, Slack

LEMMA NextCounting == IInv /\ [Next]_vars => Counting'
<1> SUFFICES ASSUME IInv, [Next]_vars PROVE Counting'
  OBVIOUS
<1>0. ChannelsDatarate \in Rates /\ 0 \in Rates
  BY EU868Assumption DEF IInv, Counting, Rates
<1>1. ASSUME NEW size \in Sizes, NEW confirmed \in BOOLEAN,
             SendFrame(size, confirmed)
      PROVE  Counting'
  <2>1. /\ ScheduleTx(AdrNext, frame', MacCommandsBuffer', "delayed", "rest")
        /\ cycle = "rest" /\ AdrAckCounter' = AdrCounted
        /\ unheard' = unheard
    BY <1>1 DEF SendFrame
  <2>2. ChannelsDatarate' \in {AdrNext.dr, 0} /\ ChannelsDatarate' \in Rates
    BY <1>0, <2>1, AdrNextIs, Scheduled
  <2>3. ChannelsDatarate' > 0 => /\ unheard' = AdrAckCounter'
                                 /\ AdrAckCounter' <= Slack(ChannelsDatarate')
    BY <2>1, <2>2, SendCounts
  <2>4. AdrAckCounter' \in 0 .. Lonely + 1 /\ unheard' \in 0 .. Lonely + 1
    <3>1. ChannelsDatarate # 0 => AdrAckCounter \in 0 .. Lonely + 1
      BY <1>0 DEF IInv, Counting, Rates
    <3> QED
      BY <2>1, <3>1, LonelyType DEF AdrCounted, IInv, Counting
  <2>5. Slack(ChannelsDatarate') \in Nat
    BY <2>2, SlackIs
  <2> QED
    BY <2>2, <2>3, <2>4, <2>5, LonelyType DEF Counting, Lonely, Slack
<1>2. ASSUME NEW later, NEW long, cycle # "rest",
             UNCHANGED <<AdrAckCounter, unheard>>,
             ScheduleTx(Current, frame, MacCommandsBuffer, later, long)
      PROVE  Counting'
  <2>1. ChannelsDatarate' \in {ChannelsDatarate, 0}
    BY <1>2, CurrentIs, Scheduled
  <2> QED
    BY <1>0, <1>2, <2>1, AgainCounts
<1>3. CASE OnTxDelayedTimerEvent
  BY <1>2, <1>3 DEF OnTxDelayedTimerEvent
<1>4. CASE Repeat
  BY <1>2, <1>4 DEF Repeat
<1>5. ASSUME NEW slower \in BOOLEAN, Retry(slower) PROVE Counting'
  <2> DEFINE dr == IF slower THEN Lower(ChannelsDatarate) ELSE ChannelsDatarate
             r == [Current EXCEPT !.dr = dr]
  <2>1. /\ ScheduleTx(r, frame, MacCommandsBuffer, "again", "rest")
        /\ cycle # "rest" /\ UNCHANGED <<AdrAckCounter, unheard>>
    BY <1>5 DEF Retry
  <2>2. /\ r.mask \subseteq Ids /\ r.dr = dr /\ dr \in Rates
    BY <1>0, EU868Assumption DEF IInv, MaskKept, Current, Lower, Rates
  <2>3. ChannelsDatarate' \in {dr, 0}
    BY <2>1, <2>2, Scheduled
  <2>4. dr \in {ChannelsDatarate, Lower(ChannelsDatarate)}
    OBVIOUS
  <2> HIDE DEF r, dr
  <2> QED
    BY <2>1, <2>2, <2>3, <2>4, AgainCounts
<1>6. CASE CycleHeard \/ CycleUnheard \/ CycleAborted \/ GivenUp \/ TxTimeout
  BY <1>6, EndCounts
  DEF CycleHeard, CycleUnheard, CycleAborted, GivenUp, TxTimeout, CycleEnd
<1>7. ASSUME NEW ack \in BOOLEAN, NEW skip \in BOOLEAN, NEW cs \in Requests,
             OnRadioRxDone(ack, skip, cs)
      PROVE  Counting'
  BY <1>7, Asked, HeardCounts DEF OnRadioRxDone
<1>8. CASE OnRadioRxRepeated
  BY <1>0, <1>8, HeardCounts DEF OnRadioRxRepeated, channelVars
<1>9. CASE Join
  BY <1>0, <1>9, HeardCounts DEF Join, Joined, DefaultDatarate
<1>10. CASE LinkCheck \/ UNCHANGED vars
  <2>1. UNCHANGED <<cycle, ChannelsDatarate, AdrAckCounter, unheard>>
    BY <1>10 DEF LinkCheck, vars, euVars, channelVars
  <2> QED
    BY <2>1 DEF IInv, Counting, Slack, Lonely, AtRest
<1> QED
  BY <1>1, <1>3, <1>4, <1>5, <1>6, <1>7, <1>8, <1>9, <1>10 DEF Next

-----------------------------------------------------------------------------
LEMMA Invariant == Spec => []IInv
<1>1. IInv /\ [Next]_vars => IInv'
  BY NextChannels, NextMask, NextCounting DEF IInv
<1> QED
  BY InitIInv, <1>1, PTL DEF Spec

(* Types of the channels, rates and counters: the counter of the ADR ends. *)
THEOREM EUTypeCorrect == Spec => []EUTypeOK
<1>1. IInv => EUTypeOK
  <2> SUFFICES ASSUME IInv PROVE EUTypeOK
    OBVIOUS
  <2>1. \A c \in Ids : /\ Channels[c].defined \in BOOLEAN
                       /\ Channels[c].min \in 0 .. Channels[c].max
                       /\ Channels[c].max \in Rates
    BY EU868Assumption DEF IInv, ChannelsKept, Rates
  <2>2. AdrAckCounter \in 0 .. Lonely + 2
    BY LonelyType DEF IInv, Counting
  <2> QED
    BY <2>1, <2>2 DEF EUTypeOK, IInv, MaskKept, Counting
<1> QED
  BY Invariant, <1>1, PTL

(* ScheduleTx never loops for ever: a default channel takes the default    *)
(* rate, whatever the network adds, removes and masks.                     *)
THEOREM LoopsEnd == Spec => []LoopEnds
<1>1. IInv => LoopEnds
  BY DefaultUsable DEF IInv
<1> QED
  BY Invariant, <1>1, PTL

(* A node that hears nothing comes back to the lowest rate and, if the ADR *)
(* brought it there, to the default channels.                              *)
THEOREM ComesBack == Spec => []HeardAgain
<1>1. IInv => HeardAgain
  <2> SUFFICES ASSUME IInv, cycle \in Open, unheard > Lonely
               PROVE  /\ ChannelsDatarate = 0
                      /\ Defaults \subseteq ChannelsMask \/ settled
    BY DEF HeardAgain
  <2>1. ChannelsDatarate \in Rates /\ AtRest = 0
    BY DEF IInv, Counting, AtRest, Open
  <2>2. ~(ChannelsDatarate > 0)
    BY <2>1, SlackIs, LonelyType DEF IInv, Counting
  <2>3. ChannelsDatarate = 0
    BY <2>1, <2>2, EU868Assumption DEF Rates
  <2> QED
    BY <2>3 DEF IInv, MaskKept
<1> QED
  BY Invariant, <1>1, PTL

-----------------------------------------------------------------------------
(* Lengths of buffers.  The lengths are sums along a sequence, and what is *)
(* true of sums is shown along it.                                         *)
LEMMA LengthIs == \A c \in Kinds : Length[c] \in 1 .. 3
BY MacCommandsAssumption DEF Length, Kinds, ChannelAnswers

(* f adds up the lengths of the commands of s. *)
Adds(f, s) ==
  /\ f \in [0 .. Len(s) -> Nat] /\ f[0] = 0
  /\ \A i \in 1 .. Len(s) : f[i] = f[i - 1] + Length[s[i]]

LEMMA BytesAdd ==
  ASSUME NEW s \in Seq(Kinds)
  PROVE  \E f : Adds(f, s) /\ Bytes(s) = f[Len(s)]
<1> DEFINE n == Len(s)
           g == [i \in 1 .. n |-> [x \in Nat |-> x + Length[s[i]]]]
           upTo == CHOOSE h : h = [i \in 0 .. n |->
                     IF i = 0 THEN 0 ELSE h[i - 1] + Length[s[i]]]
<1>1. n \in Nat /\ \A i \in 1 .. n : Length[s[i]] \in Nat
  BY LengthIs
<1>2. g \in [1 .. n -> [Nat -> Nat]]
  BY <1>1
<1>3. PICK f : Follows(f, n, Nat, 0, g)
  <2>1. 0 \in Nat
    OBVIOUS
  <2> HIDE DEF n, g
  <2> QED
    BY <1>1, <1>2, <2>1, FollowsExists, Zenon
<1> USE DEF Follows
<1>4. \A i \in 1 .. n : f[i] = f[i - 1] + Length[s[i]]
  <2> SUFFICES ASSUME NEW i \in 1 .. n PROVE f[i] = f[i - 1] + Length[s[i]]
    OBVIOUS
  <2>1. f[i - 1] \in Nat
    <3> HIDE DEF n, g
    <3>1. i - 1 \in 0 .. n /\ f \in [0 .. n -> Nat]
      BY <1>1, <1>3
    <3> QED
      BY <3>1
  <2>2. g[i] = [x \in Nat |-> x + Length[s[i]]]
    OBVIOUS
  <2> HIDE DEF g
  <2> QED
    BY <1>3, <2>1, <2>2
<1> HIDE DEF g
<1>5. f = [i \in 0 .. n |-> IF i = 0 THEN 0 ELSE f[i - 1] + Length[s[i]]]
  BY <1>1, <1>3, <1>4
<1>6. upTo = [i \in 0 .. n |-> IF i = 0 THEN 0 ELSE upTo[i - 1] + Length[s[i]]]
  <2> HIDE DEF n
  <2> QED
    BY <1>5
<1>7. Bytes(s) = upTo[n]
  BY Zenon DEF Bytes
<1> HIDE DEF upTo
<1>8. \A i \in 0 .. n : upTo[i] = f[i]
  <2> DEFINE T == {i \in 0 .. n : upTo[i] = f[i]}
  <2>1. 0 \in T
    BY <1>1, <1>3, <1>6
  <2>2. ASSUME NEW i \in 1 .. n, i - 1 \in T PROVE i \in T
    BY <1>1, <1>4, <1>6, <2>2
  <2> HIDE DEF T, n
  <2>3. \A i \in 0 .. n : i \in T
    BY <1>1, <2>1, <2>2, UpTo
  <2> QED
    BY <2>3 DEF T
<1> QED
  BY <1>1, <1>3, <1>4, <1>7, <1>8 DEF Adds

(* Sums of sequences that begin alike begin alike. *)
LEMMA AddsAgree ==
  ASSUME NEW s \in Seq(Kinds), NEW t \in Seq(Kinds), NEW f, NEW h,
         Adds(f, s), Adds(h, t), NEW n \in 0 .. Len(s), n <= Len(t),
         \A i \in 1 .. n : s[i] = t[i]
  PROVE  \A i \in 0 .. n : f[i] = h[i]
<1> DEFINE T == {i \in 0 .. n : f[i] = h[i]}
<1>1. 0 \in T
  BY DEF Adds
<1>2. ASSUME NEW i \in 1 .. n, i - 1 \in T PROVE i \in T
  <2>1. f[i - 1] = h[i - 1] /\ s[i] = t[i] /\ i \in 0 .. n
    BY <1>2
  <2>2. f[i] = f[i - 1] + Length[s[i]] /\ h[i] = h[i - 1] + Length[t[i]]
    BY DEF Adds
  <2> QED
    BY <2>1, <2>2
<1> HIDE DEF T
<1>3. n \in Nat
  OBVIOUS
<1>4. \A i \in 0 .. n : i \in T
  BY <1>1, <1>2, <1>3, UpTo
<1> QED
  BY <1>4 DEF T

LEMMA BytesIs ==
  ASSUME NEW s \in Seq(Kinds), NEW f, Adds(f, s)
  PROVE  Bytes(s) = f[Len(s)] /\ Bytes(s) \in Nat
<1>1. PICK h : Adds(h, s) /\ Bytes(s) = h[Len(s)]
  BY BytesAdd
<1>2. Len(s) \in 0 .. Len(s)
  OBVIOUS
<1>3. h[Len(s)] = f[Len(s)]
  BY <1>1, <1>2, AddsAgree
<1> QED
  BY <1>1, <1>2, <1>3 DEF Adds

LEMMA BytesType == \A s \in Seq(Kinds) : Bytes(s) \in Nat
BY BytesAdd, BytesIs

LEMMA BytesEmpty == Bytes(<<>>) = 0
<1>1. <<>> \in Seq(Kinds) /\ Len(<<>>) = 0
  OBVIOUS
<1> QED
  BY <1>1, BytesAdd DEF Adds

LEMMA BytesConcat ==
  ASSUME NEW s \in Seq(Kinds), NEW t \in Seq(Kinds)
  PROVE  Bytes(s \o t) = Bytes(s) + Bytes(t)
<1> DEFINE u == s \o t
           m == Len(s)
           n == Len(t)
<1>1. /\ u \in Seq(Kinds) /\ m \in Nat /\ n \in Nat /\ Len(u) = m + n
      /\ \A i \in 1 .. m : u[i] = s[i]
      /\ \A i \in 1 .. n : u[m + i] = t[i]
  OBVIOUS
<1>2. PICK f : Adds(f, s)
  BY BytesAdd
<1>3. PICK g : Adds(g, t)
  BY BytesAdd
<1> HIDE DEF u
<1>4. PICK h : Adds(h, u)
  BY <1>1, BytesAdd
<1>5. h[m] = f[m]
  <2>1. m \in 0 .. Len(s) /\ m <= Len(u)
    BY <1>1
  <2>2. \A i \in 0 .. m : f[i] = h[i]
    <3> HIDE DEF m
    <3>1. \A i \in 1 .. m : s[i] = u[i]
      BY <1>1
    <3> QED
      BY <1>1, <1>2, <1>4, <2>1, <3>1, AddsAgree
  <2> QED
    BY <2>1, <2>2
<1> DEFINE T == {i \in 0 .. n : h[m + i] = f[m] + g[i]}
<1>6. 0 \in T
  BY <1>1, <1>2, <1>3, <1>5 DEF Adds
<1>7. ASSUME NEW i \in 1 .. n, i - 1 \in T PROVE i \in T
  <2>1. h[m + (i - 1)] = f[m] + g[i - 1]
    BY <1>7
  <2>2. m + i \in 1 .. Len(u) /\ (m + i) - 1 = m + (i - 1)
    BY <1>1
  <2>3. h[m + i] = h[m + (i - 1)] + Length[t[i]]
    BY <1>1, <1>4, <2>2 DEF Adds
  <2>4. g[i] = g[i - 1] + Length[t[i]]
    BY <1>3 DEF Adds
  <2>5. f[m] \in Nat /\ g[i - 1] \in Nat /\ Length[t[i]] \in Nat
    <3>1. m \in 0 .. m /\ i - 1 \in 0 .. n /\ t[i] \in Kinds
      BY <1>1
    <3>2. f \in [0 .. m -> Nat] /\ g \in [0 .. n -> Nat]
      BY <1>2, <1>3 DEF Adds
    <3>3. Length[t[i]] \in Nat
      BY <3>1, LengthIs
    <3> HIDE DEF m, n
    <3> QED
      BY <3>1, <3>2, <3>3
  <2> QED
    BY <2>1, <2>3, <2>4, <2>5
<1> HIDE DEF T
<1>8. \A i \in 0 .. n : i \in T
  BY <1>1, <1>6, <1>7, UpTo
<1>9. n \in 0 .. n /\ h[m + n] = f[m] + g[n]
  BY <1>1, <1>8 DEF T
<1>10. Bytes(u) = h[m + n] /\ Bytes(s) = f[m] /\ Bytes(t) = g[n]
  BY <1>1, <1>2, <1>3, <1>4, BytesIs
<1> QED
  BY <1>9, <1>10 DEF u

LEMMA BytesOne ==
  ASSUME NEW c \in Kinds
  PROVE  Bytes(<<c>>) = Length[c]
<1>1. <<c>> \in Seq(Kinds) /\ Len(<<c>>) = 1 /\ <<c>>[1] = c
  OBVIOUS
<1>2. PICK f : Adds(f, <<c>>)
  BY <1>1, BytesAdd
<1>3. f[1] = Length[c]
  BY <1>1, <1>2, LengthIs DEF Adds
<1> QED
  BY <1>1, <1>2, <1>3, BytesIs

LEMMA BytesAppend ==
  ASSUME NEW s \in Seq(Kinds), NEW c \in Kinds
  PROVE  Bytes(Append(s, c)) = Bytes(s) + Length[c]
<1>1. <<c>> \in Seq(Kinds) /\ Append(s, c) = s \o <<c>>
  BY AppendIsConcat
<1> QED
  BY <1>1, BytesConcat, BytesOne
-----------------------------------------------------------------------------
(* Commands added one by one keep to the room. *)
LEMMA AddedKeeps ==
  ASSUME NEW S, NEW cs \in Seq(Kinds), NEW buf \in S, NEW rep,
         \A b \in S, c \in Kinds :
           c \in ToSet(cs) => Added(c, b, Room(rep)) \in S
  PROVE  Answered(buf, rep, cs) \in S
<1> DEFINE m == Len(cs)
           g == [i \in 1 .. m |-> [b \in S |-> Added(cs[i], b, Room(rep))]]
           upTo == CHOOSE h : h = [i \in 0 .. m |->
                     IF i = 0 THEN buf ELSE Added(cs[i], h[i - 1], Room(rep))]
<1>1. m \in Nat /\ \A i \in 1 .. m : cs[i] \in Kinds /\ cs[i] \in ToSet(cs)
  BY DEF ToSet
<1>2. g \in [1 .. m -> [S -> S]]
  BY <1>1
<1>3. PICK f : Follows(f, m, S, buf, g)
  <2> HIDE DEF m, g
  <2> QED
    BY <1>1, <1>2, FollowsExists, Zenon
<1>4. /\ f \in [0 .. m -> S] /\ f[0] = buf
      /\ \A i \in 1 .. m : f[i] = g[i][f[i - 1]]
  <2> HIDE DEF m, g
  <2> QED
    BY <1>3 DEF Follows
<1>5. \A i \in 1 .. m : f[i] = Added(cs[i], f[i - 1], Room(rep))
  <2> SUFFICES ASSUME NEW i \in 1 .. m
               PROVE  f[i] = Added(cs[i], f[i - 1], Room(rep))
    OBVIOUS
  <2>1. f[i - 1] \in S
    <3> HIDE DEF m, g
    <3>1. i - 1 \in 0 .. m
      BY <1>1
    <3> QED
      BY <1>4, <3>1
  <2>2. g[i] = [b \in S |-> Added(cs[i], b, Room(rep))]
    OBVIOUS
  <2> HIDE DEF m, g
  <2> QED
    BY <1>4, <2>1, <2>2
<1> HIDE DEF g
<1>6. f = [i \in 0 .. m |->
             IF i = 0 THEN buf ELSE Added(cs[i], f[i - 1], Room(rep))]
  BY <1>1, <1>4, <1>5
<1>7. upTo = [i \in 0 .. m |->
                IF i = 0 THEN buf ELSE Added(cs[i], upTo[i - 1], Room(rep))]
  <2> HIDE DEF m
  <2> QED
    BY <1>6
<1>8. Answered(buf, rep, cs) = upTo[m]
  BY Zenon DEF Answered
<1> HIDE DEF upTo
<1> DEFINE T == {i \in 0 .. m : upTo[i] = f[i]}
<1>9. 0 \in T
  BY <1>1, <1>4, <1>7
<1>10. ASSUME NEW i \in 1 .. m, i - 1 \in T PROVE i \in T
  BY <1>1, <1>5, <1>7, <1>10
<1> HIDE DEF T, m
<1>11. \A i \in 0 .. m : i \in T
  BY <1>1, <1>9, <1>10, UpTo
<1>12. m \in 0 .. m
  BY <1>1
<1>13. upTo[m] = f[m]
  BY <1>11, <1>12 DEF T
<1> QED
  BY <1>4, <1>8, <1>12, <1>13

(* The commands to repeat are the sticky ones, and not longer. *)
Repeats(r, s) ==
  /\ r \in Seq(Kinds \cap Sticky)
  /\ Bytes(r) <= Bytes(s)
  /\ \A i \in 1 .. Len(s) : s[i] \in Sticky => s[i] \in ToSet(r)

LEMMA AppendSet ==
  ASSUME NEW S, NEW s \in Seq(S), NEW c \in S
  PROVE  ToSet(Append(s, c)) = ToSet(s) \cup {c}
<1> DEFINE t == Append(s, c)
<1>1. /\ DOMAIN s = 1 .. Len(s) /\ DOMAIN t = 1 .. Len(s) + 1
      /\ Len(s) \in Nat /\ t[Len(s) + 1] = c
      /\ \A i \in 1 .. Len(s) : t[i] = s[i]
  OBVIOUS
<1> HIDE DEF t
<1>2. ASSUME NEW x \in ToSet(t) PROVE x \in ToSet(s) \cup {c}
  <2>1. PICK i \in 1 .. Len(s) + 1 : x = t[i]
    BY <1>1 DEF ToSet
  <2>2. i \in 1 .. Len(s) \/ i = Len(s) + 1
    BY <1>1
  <2> QED
    BY <1>1, <2>1, <2>2 DEF ToSet
<1>3. ASSUME NEW x \in ToSet(s) PROVE x \in ToSet(t)
  <2>1. PICK i \in 1 .. Len(s) : x = s[i]
    BY <1>1 DEF ToSet
  <2>2. i \in 1 .. Len(s) + 1
    BY <1>1
  <2> QED
    BY <1>1, <2>1, <2>2 DEF ToSet
<1>4. c \in ToSet(t)
  <2>1. Len(s) + 1 \in 1 .. Len(s) + 1
    BY <1>1
  <2> QED
    BY <1>1, <2>1 DEF ToSet
<1> QED
  BY <1>2, <1>3, <1>4 DEF t

LEMMA ConcatSet ==
  ASSUME NEW S, NEW s \in Seq(S), NEW t \in Seq(S)
  PROVE  ToSet(s) \subseteq ToSet(s \o t) /\ ToSet(t) \subseteq ToSet(s \o t)
<1> DEFINE u == s \o t
<1>1. /\ DOMAIN s = 1 .. Len(s) /\ DOMAIN t = 1 .. Len(t)
      /\ DOMAIN u = 1 .. Len(s) + Len(t)
      /\ Len(s) \in Nat /\ Len(t) \in Nat
      /\ \A i \in 1 .. Len(s) : u[i] = s[i]
      /\ \A i \in 1 .. Len(t) : u[Len(s) + i] = t[i]
  OBVIOUS
<1> HIDE DEF u
<1>2. ASSUME NEW i \in 1 .. Len(s) PROVE s[i] \in ToSet(u)
  <2>1. i \in 1 .. Len(s) + Len(t)
    BY <1>1
  <2> QED
    BY <1>1, <2>1 DEF ToSet
<1>3. ASSUME NEW i \in 1 .. Len(t) PROVE t[i] \in ToSet(u)
  <2>1. Len(s) + i \in 1 .. Len(s) + Len(t)
    BY <1>1
  <2> QED
    BY <1>1, <2>1 DEF ToSet
<1> QED
  BY <1>1, <1>2, <1>3 DEF ToSet, u

LEMMA RepeatsNone == Repeats(<<>>, <<>>)
BY BytesEmpty DEF Repeats

LEMMA RepeatsAppend ==
  ASSUME NEW s \in Seq(Kinds), NEW c \in Kinds, NEW r, Repeats(r, s)
  PROVE  Repeats(IF c \in Sticky THEN Append(r, c) ELSE r, Append(s, c))
<1> DEFINE t == Append(s, c)
           q == IF c \in Sticky THEN Append(r, c) ELSE r
<1>1. /\ r \in Seq(Kinds \cap Sticky) /\ r \in Seq(Kinds)
      /\ q \in Seq(Kinds \cap Sticky)
  BY DEF Repeats
<1>2. /\ Bytes(t) = Bytes(s) + Length[c]
      /\ c \in Sticky => Bytes(q) = Bytes(r) + Length[c]
  BY <1>1, BytesAppend
<1>3. Bytes(r) \in Nat /\ Bytes(s) \in Nat /\ Length[c] \in Nat
  BY <1>1, BytesType, LengthIs
<1>4. Bytes(q) <= Bytes(t)
  BY <1>2, <1>3 DEF Repeats
<1>5. ToSet(r) \subseteq ToSet(q) /\ (c \in Sticky => c \in ToSet(q))
  BY <1>1, AppendSet
<1>6. \A i \in 1 .. Len(t) : t[i] \in Sticky => t[i] \in ToSet(q)
  <2> SUFFICES ASSUME NEW i \in 1 .. Len(t), t[i] \in Sticky
               PROVE  t[i] \in ToSet(q)
    OBVIOUS
  <2>1. CASE i \in 1 .. Len(s)
    <3>1. t[i] = s[i]
      BY <2>1
    <3> QED
      BY <1>5, <2>1, <3>1 DEF Repeats
  <2>2. CASE i = Len(s) + 1
    BY <1>5, <2>2
  <2> QED
    BY <2>1, <2>2
<1> QED
  BY <1>1, <1>4, <1>6 DEF Repeats

LEMMA RepeatsAll ==
  ASSUME NEW s \in Seq(Kinds)
  PROVE  Repeats(ToRepeat(s), s)
<1> DEFINE m == Len(s)
           S == Seq(Kinds \cap Sticky)
           Step(i, r) == IF s[i] \in Sticky THEN Append(r, s[i]) ELSE r
           g == [i \in 1 .. m |-> [r \in S |-> Step(i, r)]]
           upTo == CHOOSE h : h = [i \in 0 .. m |->
                     IF i = 0 THEN <<>>
                     ELSE IF s[i] \in Sticky THEN Append(h[i - 1], s[i])
                     ELSE h[i - 1]]
<1>1. m \in Nat /\ (\A i \in 1 .. m : s[i] \in Kinds) /\ <<>> \in S
  OBVIOUS
<1>2. \A i \in 1 .. m, r \in S : Step(i, r) \in S
  <2> SUFFICES ASSUME NEW i \in 1 .. m, NEW r \in S PROVE Step(i, r) \in S
    OBVIOUS
  <2>1. s[i] \in Kinds
    BY <1>1
  <2> QED
    BY <2>1
<1> HIDE DEF Step
<1>3. g \in [1 .. m -> [S -> S]]
  BY <1>2
<1>4. PICK f : Follows(f, m, S, <<>>, g)
  <2> HIDE DEF m, g, S
  <2> QED
    BY <1>1, <1>3, FollowsExists, Zenon
<1>5. /\ f \in [0 .. m -> S] /\ f[0] = <<>>
      /\ \A i \in 1 .. m : f[i] = g[i][f[i - 1]]
  <2> HIDE DEF m, g, S
  <2> QED
    BY <1>4 DEF Follows
<1>6. \A i \in 1 .. m : f[i] = Step(i, f[i - 1])
  <2> SUFFICES ASSUME NEW i \in 1 .. m PROVE f[i] = Step(i, f[i - 1])
    OBVIOUS
  <2>1. f[i - 1] \in S
    <3> HIDE DEF m, g, S
    <3>1. i - 1 \in 0 .. m
      BY <1>1
    <3> QED
      BY <1>5, <3>1
  <2>2. g[i] = [r \in S |-> Step(i, r)]
    OBVIOUS
  <2> HIDE DEF m, g, S
  <2> QED
    BY <1>5, <2>1, <2>2
<1> HIDE DEF g, S
<1>7. f = [i \in 0 .. m |-> IF i = 0 THEN <<>>
                            ELSE IF s[i] \in Sticky THEN Append(f[i - 1], s[i])
                            ELSE f[i - 1]]
  <2> HIDE DEF m
  <2>1. f = [i \in 0 .. m |-> f[i]]
    BY <1>5
  <2>2. \A i \in 0 .. m : i # 0 => i \in 1 .. m
    BY <1>1
  <2>3. \A i \in 0 .. m :
          f[i] = IF i = 0 THEN <<>>
                 ELSE IF s[i] \in Sticky THEN Append(f[i - 1], s[i])
                 ELSE f[i - 1]
    BY <1>5, <1>6, <2>2 DEF Step
  <2> QED
    BY <2>1, <2>3
<1>8. upTo = [i \in 0 .. m |-> IF i = 0 THEN <<>>
                ELSE IF s[i] \in Sticky THEN Append(upTo[i - 1], s[i])
                ELSE upTo[i - 1]]
  <2> HIDE DEF m
  <2> QED
    BY <1>7
<1>9. ToRepeat(s) = upTo[m]
  BY Zenon DEF ToRepeat
<1> HIDE DEF upTo
<1> DEFINE T == {i \in 0 .. m : Repeats(upTo[i], SubSeq(s, 1, i))}
<1>10. 0 \in T
  <2>1. upTo[0] = <<>> /\ 0 \in 0 .. m
    BY <1>1, <1>8
  <2>2. SubSeq(s, 1, 0) = <<>>
    BY SubSeqEmpty
  <2> QED
    BY <2>1, <2>2, RepeatsNone
<1>11. ASSUME NEW i \in 1 .. m, i - 1 \in T PROVE i \in T
  <2>1. Repeats(upTo[i - 1], SubSeq(s, 1, i - 1)) /\ i \in 0 .. m /\ i # 0
    BY <1>1, <1>11
  <2>2. upTo[i] = IF s[i] \in Sticky THEN Append(upTo[i - 1], s[i])
                                      ELSE upTo[i - 1]
    BY <1>8, <2>1
  <2>3. /\ SubSeq(s, 1, i - 1) \in Seq(Kinds) /\ s[i] \in Kinds
        /\ SubSeq(s, 1, i) = Append(SubSeq(s, 1, i - 1), s[i])
    OBVIOUS
  <2>4. Repeats(upTo[i], SubSeq(s, 1, i))
    BY <2>1, <2>2, <2>3, RepeatsAppend
  <2> QED
    BY <2>1, <2>4
<1> HIDE DEF T
<1>12. \A i \in 0 .. m : i \in T
  BY <1>1, <1>10, <1>11, UpTo
<1>13. m \in 0 .. m /\ SubSeq(s, 1, m) = s
  OBVIOUS
<1> QED
  BY <1>9, <1>12, <1>13 DEF T

-----------------------------------------------------------------------------
(* Types of the buffers, of the frame and of a transmission. *)
BufferTypes ==
  /\ MacCommandsBuffer \in Seq(Kinds)
  /\ MacCommandsBufferToRepeat \in Seq(Kinds \cap Sticky)
  /\ MacCommandsInNextTx \in BOOLEAN
  /\ cycle \in Cycles
  /\ NodeAckRequested \in BOOLEAN
  /\ heard \in BOOLEAN /\ AckReceived \in BOOLEAN
  /\ frame \in [cmds : Seq(Kinds), len : Nat, port0 : BOOLEAN]
  /\ frame.port0 \/ Bytes(frame.cmds) <= MaxFOpts
  /\ pending \subseteq Kinds \cap Sticky /\ told \subseteq pending

(* The commands and those to repeat fit into the buffer together, but for  *)
(* a byte of MOTE_MAC_DL_CHANNEL_ANS, for which AddMacCommand does not ask.*)
(* What is there though no frame takes it was in the options of one.       *)
Excess == IF "DL_CHANNEL_ANS" \in Answers THEN 1 ELSE 0

BufferSum ==
  /\ Bytes(MacCommandsBuffer) + Bytes(MacCommandsBufferToRepeat)
       <= MaxLength + Excess
  /\ ~MacCommandsInNextTx => /\ MacCommandsBufferToRepeat = <<>>
                             /\ Bytes(MacCommandsBuffer) <= MaxFOpts

(* Where the pending answers are.  A downlink that is dropped as repeated  *)
(* leaves none.                                                            *)
Pendings ==
  /\ pending \subseteq
       ToSet(MacCommandsBuffer) \cup ToSet(MacCommandsBufferToRepeat)
  /\ pending # {} => MacCommandsInNextTx
  /\ cycle \in Open /\ ~heard =>
       /\ pending \subseteq ToSet(MacCommandsBufferToRepeat)
       /\ pending \subseteq ToSet(frame.cmds)
       /\ told = pending
  /\ heard /\ NodeAckRequested /\ ~AckReceived => pending = {}

LEMMA RequestsAre ==
  ASSUME NEW cs \in Requests
  PROVE  cs \in Seq(Kinds) /\ ToSet(cs) \subseteq Answers \cup ChannelAnswers
<1>1. ASSUME NEW s \in BoundedSeq(Answers, MaxAnswers) PROVE s \in Seq(Answers)
  BY <1>1, MacCommandsAssumption DEF BoundedSeq, SeqOf
<1> DEFINE A == Answers \cup ChannelAnswers
<1>2. cs \in Seq(A)
  <2>1. CASE cs \in BoundedSeq(Answers, MaxAnswers)
    BY <1>1, <2>1
  <2>2. CASE \E s \in BoundedSeq(Answers, MaxAnswers), a \in ChannelAnswers :
               cs = Append(s, a)
    <3>1. PICK s \in Seq(Answers), a \in ChannelAnswers : cs = Append(s, a)
      BY <1>1, <2>2
    <3>2. s \in Seq(A) /\ a \in A
      BY <3>1
    <3> QED
      BY <3>1, <3>2
  <2> QED
    BY <2>1, <2>2 DEF Requests
<1>3. A \subseteq Kinds
  BY DEF Kinds
<1> HIDE DEF A
<1>4. cs \in Seq(Kinds)
  BY <1>2, <1>3
<1>5. ToSet(cs) \subseteq A
  BY <1>2 DEF ToSet
<1> QED
  BY <1>4, <1>5 DEF A

LEMMA RepeatSeq == BufferTypes => MacCommandsBufferToRepeat \in Seq(Kinds)
BY DEF BufferTypes

LEMMA InitBuffers == Init => BufferTypes /\ BufferSum /\ Pendings
<1> SUFFICES ASSUME Init PROVE BufferTypes /\ BufferSum /\ Pendings
  OBVIOUS
<1> USE DEF Init
<1>1. Bytes(<<>>) = 0 /\ MaxFOpts \in Nat /\ MaxLength \in Nat
  BY BytesEmpty, MacCommandsAssumption
<1>2. BufferTypes
  <2>1. /\ frame \in [cmds : Seq(Kinds), len : Nat, port0 : BOOLEAN]
        /\ frame.cmds = <<>>
    BY DEF NoFrame
  <2>2. Bytes(frame.cmds) <= MaxFOpts
    BY <1>1, <2>1
  <2>3. /\ MacCommandsBuffer \in Seq(Kinds)
        /\ MacCommandsBufferToRepeat \in Seq(Kinds \cap Sticky)
    OBVIOUS
  <2> QED
    BY <2>1, <2>2, <2>3 DEF BufferTypes, Cycles
<1>3. BufferSum
  BY <1>1 DEF BufferSum, Excess
<1>4. Pendings
  BY DEF Pendings
<1> QED
  BY <1>2, <1>3, <1>4

-----------------------------------------------------------------------------
(* What PrepareFrame makes of the commands buf. *)
LEMMA Prepared ==
  ASSUME BufferTypes, NEW buf \in Seq(Kinds), NEW n \in Nat,
         PrepareFrame(buf, n)
  PROVE  /\ MacCommandsBuffer' \in Seq(Kinds)
         /\ MacCommandsBufferToRepeat' \in Seq(Kinds \cap Sticky)
         /\ MacCommandsBufferToRepeat' \in Seq(Kinds)
         /\ MacCommandsInNextTx' = (MacCommandsBufferToRepeat' # <<>>)
         /\ frame' \in [cmds : Seq(Kinds), len : Nat, port0 : BOOLEAN]
         /\ frame'.port0 \/ Bytes(frame'.cmds) <= MaxFOpts
         /\ MacCommandsInNextTx => frame'.cmds = buf
         /\ \/ MacCommandsBuffer' = <<>>
            \/ /\ MacCommandsBuffer' = buf
               /\ MacCommandsInNextTx => Bytes(buf) <= MaxFOpts
         /\ Bytes(MacCommandsBufferToRepeat') <= Bytes(buf)
         /\ ToSet(buf) \cap Sticky \subseteq ToSet(MacCommandsBufferToRepeat')
<1>1. /\ frame' = Frame(buf, n)
      /\ MacCommandsBufferToRepeat' = ToRepeat(buf)
      /\ MacCommandsInNextTx' = (MacCommandsBufferToRepeat' # <<>>)
      /\ MacCommandsBuffer' = IF frame'.port0 THEN <<>> ELSE buf
  BY DEF PrepareFrame, NextTx
<1>2. Repeats(ToRepeat(buf), buf)
  BY RepeatsAll
<1>3. Bytes(buf) \in Nat /\ Bytes(<<>>) = 0 /\ MaxFOpts \in Nat
  BY BytesType, BytesEmpty, MacCommandsAssumption
<1>4. /\ frame' \in [cmds : Seq(Kinds), len : Nat, port0 : BOOLEAN]
      /\ frame'.port0 \/ Bytes(frame'.cmds) <= MaxFOpts
      /\ MacCommandsInNextTx => frame'.cmds = buf
      /\ MacCommandsInNextTx /\ ~frame'.port0 => Bytes(buf) <= MaxFOpts
  <2>1. CASE ~MacCommandsInNextTx \/ buf = <<>>
    BY <1>1, <1>3, <2>1 DEF Frame
  <2>2. CASE ~(~MacCommandsInNextTx \/ buf = <<>>) /\ InOptions(buf, n)
    BY <1>1, <1>3, <2>2 DEF Frame, InOptions
  <2>3. CASE ~(~MacCommandsInNextTx \/ buf = <<>>) /\ ~InOptions(buf, n)
    BY <1>1, <1>3, <2>3 DEF Frame
  <2> QED
    BY <2>1, <2>2, <2>3
<1>5. ToSet(buf) \cap Sticky \subseteq ToSet(MacCommandsBufferToRepeat')
  <2> SUFFICES ASSUME NEW c \in ToSet(buf), c \in Sticky
               PROVE  c \in ToSet(ToRepeat(buf))
    BY <1>1
  <2>1. PICK i \in 1 .. Len(buf) : c = buf[i]
    BY DEF ToSet
  <2> QED
    BY <1>2, <2>1 DEF Repeats
<1>6. /\ MacCommandsBufferToRepeat' \in Seq(Kinds \cap Sticky)
      /\ MacCommandsBufferToRepeat' \in Seq(Kinds)
      /\ Bytes(MacCommandsBufferToRepeat') <= Bytes(buf)
  BY <1>1, <1>2 DEF Repeats
<1> QED
  BY <1>1, <1>4, <1>5, <1>6

(* What the application's frame takes from the buffers: all, or nothing if *)
(* the query of the payload size flushed them.                             *)
Taken(buf, n) ==
  /\ buf \in Seq(Kinds) /\ n \in Nat
  /\ PrepareFrame(buf, n)
  /\ \/ buf = <<>> /\ pending' = {}
     \/ buf = Options /\ pending' = pending

LEMMA SendTakes ==
  ASSUME BufferTypes, NEW size \in Sizes, NEW confirmed \in BOOLEAN,
         SendFrame(size, confirmed)
  PROVE  /\ \E buf, n : Taken(buf, n)
         /\ cycle = "rest" /\ cycle' \in {"rest", "delayed", "air"}
         /\ NodeAckRequested' = confirmed
         /\ heard' = FALSE /\ AckReceived' = FALSE
         /\ told' = pending' \cap (IF cycle' = "rest" THEN told
                                   ELSE ToSet(frame'.cmds))
<1> DEFINE limit == MaxPayload[AdrNext.dr]
           ok == QueryTxPossible(size, limit)
           buf == IF Flushed(limit) THEN <<>> ELSE Options
           n == IF ok THEN size ELSE 0
<1>1. Options \in Seq(Kinds)
  BY RepeatSeq DEF BufferTypes, Options
<1>2. buf \in Seq(Kinds) /\ n \in Nat
  BY <1>1, MacCommandsAssumption
<1>3. /\ PrepareFrame(buf, n)
      /\ pending' = IF Flushed(limit) THEN {} ELSE pending
  BY DEF SendFrame
<1>4. Taken(buf, n)
  <2> HIDE DEF n, limit
  <2> QED
    BY <1>2, <1>3 DEF Taken
<1>5. cycle' \in {"rest", "delayed", "air"}
  BY DEF SendFrame, ScheduleTx
<1>6. /\ cycle = "rest" /\ NodeAckRequested' = confirmed
      /\ heard' = FALSE /\ AckReceived' = FALSE
      /\ told' = pending' \cap (IF cycle' = "rest" THEN told
                                ELSE ToSet(frame'.cmds))
  BY DEF SendFrame
<1> HIDE DEF buf, n
<1> QED
  BY <1>4, <1>5, <1>6

LEMMA OptionsAre ==
  ASSUME BufferTypes
  PROVE  /\ Options \in Seq(Kinds)
         /\ Bytes(Options) = Bytes(MacCommandsBuffer)
                               + Bytes(MacCommandsBufferToRepeat)
         /\ ToSet(MacCommandsBuffer) \cup ToSet(MacCommandsBufferToRepeat)
              \subseteq ToSet(Options)
         /\ MacCommandsBufferToRepeat = <<>> =>
              Bytes(Options) = Bytes(MacCommandsBuffer)
<1>1. /\ MacCommandsBuffer \in Seq(Kinds)
      /\ MacCommandsBufferToRepeat \in Seq(Kinds)
  BY RepeatSeq DEF BufferTypes
<1>2. Bytes(Options) = Bytes(MacCommandsBuffer)
                         + Bytes(MacCommandsBufferToRepeat)
  BY <1>1, BytesConcat DEF Options
<1>3. ToSet(MacCommandsBuffer) \cup ToSet(MacCommandsBufferToRepeat)
              \subseteq ToSet(Options)
  BY <1>1, ConcatSet DEF Options
<1>4. Options \in Seq(Kinds)
  BY <1>1 DEF Options
<1> QED
  BY <1>1, <1>2, <1>3, <1>4, BytesType, BytesEmpty

LEMMA SendBuffers ==
  ASSUME BufferTypes, NEW size \in Sizes, NEW confirmed \in BOOLEAN,
         SendFrame(size, confirmed)
  PROVE  BufferTypes' /\ (BufferSum => BufferSum') /\ (Pendings => Pendings')
<1>1. PICK buf, n : Taken(buf, n)
  BY SendTakes
<1>2. /\ cycle = "rest" /\ cycle' \in {"rest", "delayed", "air"}
      /\ NodeAckRequested' = confirmed
      /\ heard' = FALSE /\ AckReceived' = FALSE
      /\ told' = pending' \cap (IF cycle' = "rest" THEN told
                                ELSE ToSet(frame'.cmds))
  BY SendTakes
<1>3. /\ buf \in Seq(Kinds) /\ n \in Nat /\ PrepareFrame(buf, n)
      /\ \/ buf = <<>> /\ pending' = {}
         \/ buf = Options /\ pending' = pending
  BY <1>1 DEF Taken
<1>4. /\ MacCommandsBuffer' \in Seq(Kinds)
      /\ MacCommandsBufferToRepeat' \in Seq(Kinds \cap Sticky)
      /\ MacCommandsBufferToRepeat' \in Seq(Kinds)
      /\ MacCommandsInNextTx' = (MacCommandsBufferToRepeat' # <<>>)
      /\ frame' \in [cmds : Seq(Kinds), len : Nat, port0 : BOOLEAN]
      /\ frame'.port0 \/ Bytes(frame'.cmds) <= MaxFOpts
      /\ MacCommandsInNextTx => frame'.cmds = buf
      /\ \/ MacCommandsBuffer' = <<>>
         \/ /\ MacCommandsBuffer' = buf
            /\ MacCommandsInNextTx => Bytes(buf) <= MaxFOpts
      /\ Bytes(MacCommandsBufferToRepeat') <= Bytes(buf)
      /\ ToSet(buf) \cap Sticky \subseteq ToSet(MacCommandsBufferToRepeat')
  BY <1>3, Prepared
<1>5. /\ Bytes(buf) \in Nat /\ Bytes(<<>>) = 0
      /\ Bytes(MacCommandsBufferToRepeat') \in Nat
      /\ MaxFOpts \in Nat /\ MaxLength \in Nat /\ 2 * MaxFOpts <= MaxLength
  BY <1>3, <1>4, BytesType, BytesEmpty, MacCommandsAssumption
<1>7. BufferTypes'
  <2>1. pending' \subseteq Kinds \cap Sticky /\ told' \subseteq pending'
    BY <1>2, <1>3 DEF BufferTypes
  <2> QED
    BY <1>2, <1>4, <2>1 DEF BufferTypes, Cycles
<1>6. ASSUME BufferSum PROVE BufferSum'
  <2>1. /\ Bytes(buf) <= MaxLength + Excess
        /\ ~MacCommandsInNextTx => Bytes(buf) <= MaxFOpts
    BY <1>3, <1>5, <1>6, OptionsAre DEF BufferSum, Excess
  <2>2. /\ Bytes(MacCommandsBuffer') + Bytes(MacCommandsBufferToRepeat')
             <= MaxLength + Excess
        /\ Bytes(MacCommandsBuffer') <= MaxFOpts
    BY <1>4, <1>5, <2>1 DEF Excess
  <2>3. ~MacCommandsInNextTx' => MacCommandsBufferToRepeat' = <<>>
    BY <1>4, Zenon
  <2> QED
    BY <2>2, <2>3 DEF BufferSum
<1>8. ASSUME Pendings PROVE Pendings'
  <2>1. pending' \subseteq ToSet(buf) \cap Sticky
    BY <1>3, <1>8, OptionsAre DEF Pendings, BufferTypes
  <2>2. pending' \subseteq ToSet(MacCommandsBufferToRepeat')
    BY <1>4, <2>1
  <2>3. pending' # {} => MacCommandsInNextTx'
    <3>1. ToSet(<<>>) = {}
      BY DEF ToSet
    <3> QED
      BY <1>4, <2>2, <3>1
  <2>4. pending' \subseteq ToSet(frame'.cmds)
    BY <1>3, <1>4, <1>8, <2>1 DEF Pendings
  <2>5. cycle' \in Open => told' = pending'
    BY <1>2, <2>4 DEF Open
  <2> QED
    BY <1>2, <2>2, <2>3, <2>4, <2>5 DEF Pendings
<1> QED
  BY <1>6, <1>7, <1>8
-----------------------------------------------------------------------------
(* A frame put off, repeated or sent again leaves the buffers alone; given *)
(* up as too long its commands are cleared.                                *)
LEMMA AgainBuffers ==
  ASSUME BufferTypes, cycle \in Open,
         MacCommandsBuffer' \in {MacCommandsBuffer, <<>>},
         MacCommandsBuffer' # MacCommandsBuffer => cycle' = "rest",
         cycle' \in Cycles, heard' \in BOOLEAN, heard' => heard,
         NodeAckRequested' \in BOOLEAN, NodeAckRequested' => NodeAckRequested,
         \/ MacCommandsBuffer' = MacCommandsBuffer /\ (heard => heard')
         \/ NodeAckRequested /\ ~AckReceived
         \/ ~heard,
         UNCHANGED <<MacCommandsBufferToRepeat, MacCommandsInNextTx,
                     AckReceived, frame, pending, told>>
  PROVE  BufferTypes' /\ (BufferSum => BufferSum') /\ (Pendings => Pendings')
<1>1. /\ Bytes(MacCommandsBuffer) \in Nat /\ Bytes(<<>>) = 0
      /\ Bytes(MacCommandsBufferToRepeat) \in Nat
      /\ MaxFOpts \in Nat /\ MaxLength \in Nat
  BY RepeatSeq, BytesType, BytesEmpty, MacCommandsAssumption DEF BufferTypes
<1>2. BufferTypes'
  <2>1. <<>> \in Seq(Kinds)
    OBVIOUS
  <2>2. MacCommandsBuffer' \in Seq(Kinds)
    BY <2>1, Zenon DEF BufferTypes
  <2> QED
    BY <2>2 DEF BufferTypes
<1>3. ASSUME BufferSum PROVE BufferSum'
  BY <1>1, <1>3 DEF BufferSum, Excess
<1>4. ASSUME Pendings PROVE Pendings'
  <2>1. CASE MacCommandsBuffer' = MacCommandsBuffer /\ (heard => heard')
    <3>1. /\ pending' \subseteq
               ToSet(MacCommandsBuffer') \cup ToSet(MacCommandsBufferToRepeat')
          /\ pending' # {} => MacCommandsInNextTx'
      BY <1>4, <2>1 DEF Pendings
    <3>2. heard' /\ NodeAckRequested' /\ ~AckReceived' => pending' = {}
      BY <1>4 DEF Pendings
    <3>3. cycle' \in Open /\ ~heard' =>
            /\ pending' \subseteq ToSet(MacCommandsBufferToRepeat')
            /\ pending' \subseteq ToSet(frame'.cmds)
            /\ told' = pending'
      BY <1>4, <2>1 DEF Pendings
    <3> QED
      BY <3>1, <3>2, <3>3 DEF Pendings
  <2>2. CASE (NodeAckRequested /\ ~AckReceived) \/ ~heard
    <3>1. /\ pending \subseteq ToSet(MacCommandsBufferToRepeat)
          /\ pending \subseteq ToSet(frame.cmds)
          /\ told = pending
      BY <1>4, <2>2 DEF Pendings, BufferTypes
    <3>2. heard' /\ NodeAckRequested' /\ ~AckReceived' => pending' = {}
      BY <1>4, <2>2 DEF Pendings, BufferTypes
    <3> QED
      BY <1>4, <3>1, <3>2 DEF Pendings
  <2> QED
    BY <2>1, <2>2
<1> QED
  BY <1>2, <1>3, <1>4

LEMMA KeptIs ==
  ASSUME BufferTypes, NEW ack \in BOOLEAN
  PROVE  /\ KeptOnRx(ack) \in Seq(Kinds)
         /\ KeptOnRx(ack) \in {MacCommandsBuffer, <<>>}
BY DEF BufferTypes, KeptOnRx

(* The answers of a downlink. *)
LEMMA AnsweredType ==
  ASSUME BufferTypes, NEW ack \in BOOLEAN, NEW cs \in Requests
  PROVE  Answered(KeptOnRx(ack), <<>>, cs) \in Seq(Kinds)
<1> DEFINE S == Seq(Kinds)
<1>1. \A b \in S, c \in Kinds :
        c \in ToSet(cs) => Added(c, b, Room(<<>>)) \in S
  BY DEF Added
<1>2. KeptOnRx(ack) \in S /\ cs \in Seq(Kinds)
  BY KeptIs, RequestsAre
<1> HIDE DEF S
<1>3. Answered(KeptOnRx(ack), <<>>, cs) \in S
  BY <1>1, <1>2, AddedKeeps
<1> QED
  BY <1>3 DEF S

LEMMA AnsweredBytes ==
  ASSUME BufferTypes, BufferSum, NEW ack \in BOOLEAN, NEW cs \in Requests
  PROVE  Bytes(Answered(KeptOnRx(ack), <<>>, cs)) <= MaxLength + Excess
<1> DEFINE S == {b \in Seq(Kinds) : Bytes(b) <= MaxLength + Excess}
<1>1. /\ MaxLength \in Nat /\ Excess \in Nat /\ Bytes(<<>>) = 0
      /\ Room(<<>>) = MaxLength
  BY BytesEmpty, MacCommandsAssumption DEF Room, Excess
<1>2. ASSUME NEW b \in S, NEW c \in Kinds, c \in ToSet(cs)
      PROVE  Added(c, b, Room(<<>>)) \in S
  <2>1. Length[c] \in Nat /\ Bytes(b) \in Nat
    BY LengthIs, BytesType
  <2>2. CASE MayAdd(c, b, Room(<<>>))
    <3>1. Bytes(b) + Length[c] <= MaxLength + Excess
      <4>1. CASE c = "DL_CHANNEL_ANS"
        <5>1. Length[c] = 2 /\ Excess = 1
          BY <1>2, <4>1, RequestsAre DEF ChannelAnswers, Length, Excess
        <5>2. Bytes(b) < MaxLength
          BY <1>1, <2>1, <2>2, <4>1 DEF MayAdd, Besides
        <5> QED
          BY <1>1, <2>1, <5>1, <5>2
      <4>2. CASE c # "DL_CHANNEL_ANS"
        <5>1. Bytes(b) < MaxLength - (Length[c] - 1)
          BY <1>1, <2>2, <4>2 DEF MayAdd, Besides
        <5> QED
          BY <1>1, <2>1, <5>1
      <4> QED
        BY <4>1, <4>2
    <3>2. /\ Bytes(Append(b, c)) = Bytes(b) + Length[c]
          /\ Append(b, c) \in Seq(Kinds)
      BY BytesAppend
    <3> QED
      BY <2>2, <3>1, <3>2 DEF Added
  <2>3. CASE ~MayAdd(c, b, Room(<<>>))
    BY <2>3 DEF Added
  <2> QED
    BY <2>2, <2>3
<1>3. KeptOnRx(ack) \in S
  <2>1. /\ Bytes(MacCommandsBuffer) \in Nat
        /\ Bytes(MacCommandsBufferToRepeat) \in Nat
    BY RepeatSeq, BytesType DEF BufferTypes
  <2> QED
    BY <1>1, <2>1, KeptIs DEF BufferSum
<1>4. cs \in Seq(Kinds)
  BY RequestsAre
<1> HIDE DEF S
<1>5. Answered(KeptOnRx(ack), <<>>, cs) \in S
  BY <1>2, <1>3, <1>4, AddedKeeps
<1> QED
  BY <1>5 DEF S

LEMMA HeardBuffers ==
  ASSUME BufferTypes, NEW ack \in BOOLEAN, NEW skip \in BOOLEAN,
         NEW cs \in Requests, OnRadioRxDone(ack, skip, cs)
  PROVE  /\ BufferTypes'
         /\ BufferSum => BufferSum'
         /\ ~Unacked => (Pendings => Pendings')
<1> DEFINE kept == KeptOnRx(ack)
           buf == MacCommandsBuffer'
           new == {buf[i] : i \in Len(kept) + 1 .. Len(buf)}
<1>1. /\ buf = Answered(kept, <<>>, cs)
      /\ MacCommandsBufferToRepeat' = <<>>
      /\ heard' = TRUE /\ told' = {}
      /\ cycle = "air" /\ ~heard
      /\ UNCHANGED <<cycle, NodeAckRequested, frame>>
      /\ pending' = (pending \ told) \cup (Sticky \cap new)
  BY DEF OnRadioRxDone
<1>2. /\ AckReceived' = (ack /\ ~skip)
      /\ MacCommandsInNextTx' = (MacCommandsInNextTx \/ buf # kept)
      /\ NodeAckRequested /\ (skip \/ ~ack) => Unacked
  BY DEF OnRadioRxDone
<1>3. buf \in Seq(Kinds) /\ <<>> \in Seq(Kinds \cap Sticky)
  BY <1>1, AnsweredType
<1>4. kept \in Seq(Kinds) /\ kept \in {MacCommandsBuffer, <<>>}
  BY KeptIs
<1> HIDE DEF kept
<1>5. new \subseteq ToSet(buf) /\ (buf = kept => new = {})
  BY <1>3, <1>4 DEF ToSet
<1>6. new \subseteq Kinds
  BY <1>3
<1> HIDE DEF new
<1>7. BufferTypes'
  <2>1. AckReceived' \in BOOLEAN /\ MacCommandsInNextTx' \in BOOLEAN
    BY <1>2, Zenon
  <2>2. pending' \subseteq Kinds \cap Sticky /\ told' \subseteq pending'
    BY <1>1, <1>6 DEF BufferTypes
  <2> QED
    BY <1>1, <1>3, <2>1, <2>2 DEF BufferTypes
<1>8. ASSUME BufferSum PROVE BufferSum'
  <2>1. Bytes(buf) <= MaxLength + Excess
    BY <1>1, <1>8, AnsweredBytes DEF kept
  <2>2. /\ Bytes(buf) \in Nat /\ Bytes(<<>>) = 0
        /\ MaxLength + Excess \in Nat /\ MaxFOpts \in Nat
    BY <1>3, BytesType, BytesEmpty, MacCommandsAssumption DEF Excess
  <2>3. ASSUME ~MacCommandsInNextTx' PROVE Bytes(buf) <= MaxFOpts
    <3>1. ~MacCommandsInNextTx /\ buf = kept
      BY <1>2, <2>3
    <3> QED
      BY <1>4, <1>8, <2>2, <3>1 DEF BufferSum
  <2> QED
    BY <1>1, <2>1, <2>2, <2>3 DEF BufferSum
<1>9. ASSUME ~Unacked, Pendings PROVE Pendings'
  <2>1. told = pending
    BY <1>1, <1>9 DEF Pendings, Open
  <2>2. pending' = Sticky \cap new
    BY <1>1, <2>1
  <2>3. pending' # {} => MacCommandsInNextTx'
    BY <1>2, <1>5, <2>2
  <2>4. ~(NodeAckRequested' /\ ~AckReceived')
    BY <1>1, <1>2, <1>9
  <2>5. pending' \subseteq ToSet(buf)
    BY <1>5, <2>2
  <2> QED
    BY <1>1, <2>3, <2>4, <2>5 DEF Pendings
<1> QED
  BY <1>7, <1>8, <1>9

LEMMA AskBuffers ==
  ASSUME BufferTypes, LinkCheck
  PROVE  BufferTypes' /\ (BufferSum => BufferSum') /\ (Pendings => Pendings')
<1> DEFINE buf == MacCommandsBuffer
<1>1. /\ MayAdd("LINK_CHECK_REQ", buf, Room(MacCommandsBufferToRepeat))
      /\ buf' = Append(buf, "LINK_CHECK_REQ")
      /\ MacCommandsInNextTx' = TRUE
      /\ UNCHANGED <<MacCommandsBufferToRepeat, cycle, NodeAckRequested, heard,
                     AckReceived, frame, pending, told>>
  BY DEF LinkCheck
<1>2. "LINK_CHECK_REQ" \in Kinds /\ Length["LINK_CHECK_REQ"] = 1
  BY DEF Kinds, Length
<1>3. /\ buf \in Seq(Kinds) /\ buf' \in Seq(Kinds)
      /\ ToSet(buf) \subseteq ToSet(buf')
      /\ Bytes(buf') = Bytes(buf) + 1
  BY <1>1, <1>2, BytesAppend, AppendSet DEF BufferTypes
<1>4. BufferTypes'
  BY <1>1, <1>3 DEF BufferTypes
<1>5. BufferSum'
  <2>1. /\ Bytes(buf) \in Nat /\ Bytes(MacCommandsBufferToRepeat) \in Nat
        /\ MaxLength \in Nat
    BY <1>3, RepeatSeq, BytesType, MacCommandsAssumption
  <2>2. Bytes(buf) < MaxLength - Bytes(MacCommandsBufferToRepeat)
    BY <1>1, <1>2, <2>1 DEF MayAdd, Besides, Room
  <2> QED
    BY <1>1, <1>3, <2>1, <2>2 DEF BufferSum, Excess
<1>6. ASSUME Pendings PROVE Pendings'
  BY <1>1, <1>3, <1>6 DEF Pendings
<1> QED
  BY <1>4, <1>5, <1>6

LEMMA JoinBuffers ==
  ASSUME BufferTypes, Join PROVE BufferTypes' /\ BufferSum' /\ Pendings'
<1>1. /\ MacCommandsBuffer' = <<>> /\ MacCommandsBufferToRepeat' = <<>>
      /\ MacCommandsInNextTx' = FALSE /\ NodeAckRequested' = FALSE
      /\ pending' = {} /\ told' = {} /\ cycle = "rest"
      /\ UNCHANGED <<cycle, heard, AckReceived, frame>>
  BY DEF Join
<1>2. <<>> \in Seq(Kinds) /\ <<>> \in Seq(Kinds \cap Sticky)
  OBVIOUS
<1>3. Bytes(<<>>) = 0 /\ MaxLength \in Nat /\ MaxFOpts \in Nat
  BY BytesEmpty, MacCommandsAssumption
<1>4. BufferTypes'
  BY <1>1, <1>2 DEF BufferTypes
<1>5. BufferSum'
  BY <1>1, <1>3 DEF BufferSum, Excess
<1>6. Pendings'
  BY <1>1 DEF Pendings, Open
<1> QED
  BY <1>4, <1>5, <1>6

LEMMA DroppedBuffers ==
  ASSUME BufferTypes, OnRadioRxRepeated
  PROVE  BufferTypes' /\ (BufferSum => BufferSum') /\ (Pendings => Pendings')
<1>1. /\ MacCommandsBufferToRepeat' = <<>> /\ heard' = TRUE
      /\ cycle = "air" /\ ~heard
      /\ pending' = pending \ told /\ told' = {}
      /\ UNCHANGED <<MacCommandsBuffer, MacCommandsInNextTx, cycle,
                     NodeAckRequested, AckReceived, frame>>
  BY DEF OnRadioRxRepeated
<1>2. <<>> \in Seq(Kinds \cap Sticky) /\ Bytes(<<>>) = 0
  BY BytesEmpty
<1>3. BufferTypes'
  BY <1>1, <1>2 DEF BufferTypes
<1>4. ASSUME BufferSum PROVE BufferSum'
  <2>1. /\ Bytes(MacCommandsBuffer) \in Nat
        /\ Bytes(MacCommandsBufferToRepeat) \in Nat /\ MaxLength \in Nat
    BY RepeatSeq, BytesType, MacCommandsAssumption DEF BufferTypes
  <2> QED
    BY <1>1, <1>2, <1>4, <2>1 DEF BufferSum, Excess
<1>5. ASSUME Pendings PROVE Pendings'
  <2>1. pending' = {}
    BY <1>1, <1>5 DEF Pendings, Open
  <2> QED
    BY <1>1, <2>1 DEF Pendings
<1> QED
  BY <1>3, <1>4, <1>5

LEMMA NextBuffers ==
  ASSUME BufferTypes, [Next]_vars
  PROVE  /\ BufferTypes'
         /\ BufferSum => BufferSum'
         /\ ~Unacked => (Pendings => Pendings')
<1> DEFINE Kept ==
             /\ BufferTypes'
             /\ BufferSum => BufferSum'
             /\ ~Unacked => (Pendings => Pendings')
<1> SUFFICES Kept
  OBVIOUS
<1>0. /\ heard \in BOOLEAN /\ NodeAckRequested \in BOOLEAN /\ cycle \in Cycles
      /\ Open \subseteq Cycles
  BY DEF BufferTypes, Open, Cycles
<1>1. ASSUME NEW size \in Sizes, NEW confirmed \in BOOLEAN,
             SendFrame(size, confirmed)
      PROVE  Kept
  BY <1>1, SendBuffers
<1>2. CASE OnTxDelayedTimerEvent
  <2>1. /\ cycle \in Open /\ cycle' \in Cycles
        /\ UNCHANGED <<MacCommandsBuffer, MacCommandsBufferToRepeat,
             MacCommandsInNextTx, NodeAckRequested, heard, AckReceived, frame,
             pending, told>>
    BY <1>0, <1>2 DEF OnTxDelayedTimerEvent, ScheduleTx, Open, Cycles
  <2> QED
    BY <1>0, <2>1, AgainBuffers
<1>3. CASE Repeat
  <2>1. /\ cycle \in Open /\ cycle' \in Cycles
        /\ UNCHANGED <<MacCommandsBuffer, MacCommandsBufferToRepeat,
             MacCommandsInNextTx, NodeAckRequested, heard, AckReceived, frame,
             pending, told>>
    BY <1>0, <1>3 DEF Repeat, ScheduleTx, Open, Cycles
  <2> QED
    BY <1>0, <2>1, AgainBuffers
<1>4. ASSUME NEW slower \in BOOLEAN, Retry(slower) PROVE Kept
  <2>1. /\ cycle \in Open /\ cycle' \in Cycles
        /\ NodeAckRequested /\ ~AckReceived
        /\ MacCommandsBuffer' =
             IF cycle' = "rest" THEN <<>> ELSE MacCommandsBuffer
        /\ heard' = FALSE
        /\ UNCHANGED <<MacCommandsBufferToRepeat, MacCommandsInNextTx,
                       AckReceived, frame, pending, told>>
    BY <1>4 DEF Retry, ScheduleTx, Open, Cycles
  <2>2. NodeAckRequested' \in BOOLEAN
    BY <1>4, Zenon DEF Retry
  <2> QED
    BY <1>0, <2>1, <2>2, AgainBuffers
<1>5. CASE CycleHeard \/ CycleUnheard \/ CycleAborted \/ GivenUp \/ TxTimeout
  <2>1. /\ cycle \in Open /\ cycle' = "rest"
        /\ NodeAckRequested' = FALSE
        /\ MacCommandsBuffer' \in {MacCommandsBuffer, <<>>}
        /\ \/ MacCommandsBuffer' = MacCommandsBuffer
           \/ NodeAckRequested /\ ~AckReceived
           \/ ~heard
        /\ UNCHANGED <<MacCommandsBufferToRepeat, MacCommandsInNextTx, heard,
                       AckReceived, frame, pending, told>>
    BY <1>5
    DEF CycleHeard, CycleUnheard, CycleAborted, GivenUp, TxTimeout, CycleEnd,
        Open
  <2> QED
    BY <1>0, <2>1, AgainBuffers DEF Cycles
<1>6. CASE LinkCheck
  BY <1>6, AskBuffers
<1>7. CASE Join
  BY <1>7, JoinBuffers
<1>8. CASE OnRadioRxRepeated
  BY <1>8, DroppedBuffers
<1>9. CASE UNCHANGED vars
  BY <1>9 DEF vars, BufferTypes, BufferSum, Pendings
<1>10. ASSUME NEW ack \in BOOLEAN, NEW skip \in BOOLEAN, NEW cs \in Requests,
              OnRadioRxDone(ack, skip, cs)
       PROVE  Kept
  BY <1>10, HeardBuffers
<1> HIDE DEF Kept
<1> QED
  BY <1>1, <1>2, <1>3, <1>4, <1>5, <1>6, <1>7, <1>8, <1>9, <1>10 DEF Next

-----------------------------------------------------------------------------
LEMMA BufferInvariant == Spec => []BufferTypes /\ []BufferSum
<1>1. Init => BufferTypes /\ BufferSum
  BY InitBuffers
<1>2. BufferTypes /\ BufferSum /\ [Next]_vars => BufferTypes' /\ BufferSum'
  BY NextBuffers
<1> QED
  BY <1>1, <1>2, PTL DEF Spec

(* Types of every variable; the options of a frame fit into four bits. *)
THEOREM TypeCorrect == Spec => []TypeOK
<1>1. EUTypeOK /\ BufferTypes => TypeOK
  BY DEF BufferTypes, TypeOK
<1> QED
  BY EUTypeCorrect, BufferInvariant, <1>1, PTL

(* What PrepareFrame copies fits into MacCommandsBuffer, for every choice  *)
(* of answers but that of MOTE_MAC_DL_CHANNEL_ANS, ...                     *)
THEOREM BufferIsKept ==
  ASSUME "DL_CHANNEL_ANS" \notin Answers
  PROVE  Spec => []BufferKept
<1>1. BufferTypes /\ BufferSum => BufferKept
  <2> SUFFICES ASSUME BufferTypes, BufferSum PROVE BufferKept
    OBVIOUS
  <2>1. /\ Bytes(MacCommandsBuffer) \in Nat
        /\ Bytes(MacCommandsBufferToRepeat) \in Nat
        /\ MaxLength \in Nat /\ Excess = 0
    BY RepeatSeq, BytesType, MacCommandsAssumption DEF BufferTypes, Excess
  <2> QED
    BY <2>1 DEF BufferSum, BufferKept
<1> QED
  BY BufferInvariant, <1>1, PTL

(* ... and that one is stored at most one byte behind the end.             *)
THEOREM OneByteBehind ==
  Spec => [](Bytes(MacCommandsBuffer) + Bytes(MacCommandsBufferToRepeat)
               <= MaxLength + 1)
<1>1. BufferTypes /\ BufferSum =>
        Bytes(MacCommandsBuffer) + Bytes(MacCommandsBufferToRepeat)
          <= MaxLength + 1
  <2> SUFFICES ASSUME BufferTypes, BufferSum
               PROVE  Bytes(MacCommandsBuffer)
                        + Bytes(MacCommandsBufferToRepeat) <= MaxLength + 1
    OBVIOUS
  <2>1. /\ Bytes(MacCommandsBuffer) \in Nat
        /\ Bytes(MacCommandsBufferToRepeat) \in Nat
        /\ MaxLength \in Nat /\ Excess \in {0, 1}
    BY RepeatSeq, BytesType, MacCommandsAssumption DEF BufferTypes, Excess
  <2> QED
    BY <2>1 DEF BufferSum
<1> QED
  BY BufferInvariant, <1>1, PTL

(* Every frame repeats the sticky answers that are pending, if a downlink  *)
(* acknowledges the confirmed frame it answers (~Unacked).                 *)
THEOREM AnswersAreSent ==
  ASSUME ~Unacked
  PROVE  Spec => []AnswersSent
<1>1. Init => BufferTypes /\ Pendings
  BY InitBuffers
<1>2. BufferTypes /\ Pendings /\ [Next]_vars => BufferTypes' /\ Pendings'
  BY NextBuffers
<1>3. Pendings => AnswersSent
  BY DEF Pendings, AnswersSent
<1> QED
  BY <1>1, <1>2, <1>3, PTL DEF Spec
=============================================================================
