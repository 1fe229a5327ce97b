------------------------------- MODULE EU868 -------------------------------
(***************************************************************************)
(* The channels and data rates of the node: src/mac/region/RegionEU868.c   *)
(* with RegionCommon.c, as the MAC uses them.  The network adds, removes   *)
(* and masks channels and sets the data rate (ADR); the node lowers it     *)
(* when it hears nothing.  Frequencies and transmission powers only make   *)
(* a request fail; ADR is on (LORAWAN_ADR_ON of main.c).                   *)
(***************************************************************************)
EXTENDS Integers, FiniteSetsExt

CONSTANTS
  Ids,              \* channels: 0 .. EU868_MAX_NB_CHANNELS - 1
  Defaults,         \* the default channels, LC(1) + LC(2) + LC(3)
  MAX_DATARATE,     \* EU868_TX_MAX_DATARATE; the lowest is 0
  DR_5,             \* the rate default channels must allow
  ADR_ACK_LIMIT,
  ADR_ACK_DELAY

ASSUME EU868Assumption ==
  /\ Defaults \subseteq Ids /\ Defaults # {}
  /\ MAX_DATARATE \in Nat /\ DR_5 \in 0 .. MAX_DATARATE
  /\ ADR_ACK_DELAY \in Nat \ {0, 1}
  /\ ADR_ACK_LIMIT \in Nat /\ ADR_ACK_LIMIT % ADR_ACK_DELAY = 0

VARIABLES
  Channels,          \* defined or not, and the data rates they take
  ChannelsMask,
  ChannelsDatarate,
  AdrAckCounter,
  unheard,           \* history: frames nothing was heard after, since a downlink
                     \* came, up to Lonely + 1
  settled            \* history: the lowest rate was not reached by AdrNext

channelVars == <<Channels, ChannelsMask, ChannelsDatarate>>
euVars == <<channelVars, AdrAckCounter, unheard, settled>>

Rates == 0 .. MAX_DATARATE
DefaultDatarate == 0      \* EU868_DEFAULT_DATARATE

Undefined == [defined |-> FALSE, min |-> 0, max |-> 0]
Channel(min, max) == [defined |-> TRUE, min |-> min, max |-> max]

(* Frames without an answer after which the rate must be the lowest one.   *)
Lonely == ADR_ACK_LIMIT + ADR_ACK_DELAY * MAX_DATARATE

(* RegionEU868InitDefaults *)
EUInit ==
  /\ Channels = [c \in Ids |->
                   IF c \in Defaults THEN Channel(0, DR_5) ELSE Undefined]
  /\ ChannelsMask = Defaults
  /\ ChannelsDatarate = DefaultDatarate
  /\ AdrAckCounter = 0
  /\ unheard = 0 /\ settled = TRUE

Restored(mask) == mask \cup Defaults

-----------------------------------------------------------------------------
Takes(c, dr) == dr \in Channels[c].min .. Channels[c].max

(* CountNbOfEnabledChannels, whether their bands are open or not. *)
Usable(mask, dr) == {c \in mask : Channels[c].defined /\ Takes(c, dr)}

(* RegionEU868NextChannel within the loop of ScheduleTx, for the mask and  *)
(* rate of r: without a channel for the rate the default channels and rate *)
(* come back, unless the limit of the network (AggrTimeOff) comes first.   *)
NextChannel(r, limited) ==
  LET mask == IF r.mask = {} THEN Defaults ELSE r.mask
  IN  IF limited \/ Usable(mask, r.dr) # {}
      THEN [mask |-> mask, dr |-> r.dr]
      ELSE [mask |-> Restored(mask), dr |-> DefaultDatarate]

(* GetNextLowerTxDr *)
Lower(dr) == IF dr = 0 THEN 0 ELSE dr - 1

BacksOff ==
  /\ AdrAckCounter >= ADR_ACK_LIMIT + ADR_ACK_DELAY
  /\ AdrAckCounter % ADR_ACK_DELAY = 1

(* Seeded fault: UpdateChanMask is off, as in the query. *)
BugAdrNext ==
  [dr |-> IF BacksOff THEN Lower(ChannelsDatarate) ELSE ChannelsDatarate,
   mask |-> ChannelsMask]

(* RegionEU868AdrNext: the rate of the next frame and its channels, ...    *)
AdrNext ==
  LET dr == IF BacksOff THEN Lower(ChannelsDatarate) ELSE ChannelsDatarate
  IN  [dr |-> dr,
       mask |-> IF dr = 0 /\ ChannelsDatarate # 0 THEN Restored(ChannelsMask)
                                                  ELSE ChannelsMask]

(* ... and what becomes of the counter.                                    *)
AdrCounted == IF ChannelsDatarate = 0 THEN 0 ELSE AdrAckCounter

-----------------------------------------------------------------------------
(* RegionEU868LinkAdrReq: a mask, or all channels and more (ChMaskCtrl 6). *)
(* A channel that is not defined has the rates 0 to 0.                     *)
MaskOk(mask, all) ==
  all \/ (mask # {} /\ \A c \in mask : Channels[c].defined)

LinkAdrReq(dr, mask, all) ==
  LET new == IF all THEN mask \cup {c \in Ids : Channels[c].defined} ELSE mask
      ok == MaskOk(mask, all) /\ \E c \in new : Takes(c, dr)
  IN  /\ ChannelsMask' = IF ok THEN new ELSE ChannelsMask
      /\ ChannelsDatarate' = IF ok THEN dr ELSE ChannelsDatarate
      /\ UNCHANGED Channels

(* RegionEU868ChannelAdd: default channels keep the rates from 0 to DR_5.  *)
(* Seeded fault: they are treated as the others. *)
BugAddOk(c, min, max) == min <= max

AddOk(c, min, max) ==
  min <= max /\ (c \in Defaults => min = 0 /\ max >= DR_5)

ChannelAdd(c, min, max) ==
  /\ AddOk(c, min, max)
  /\ Channels' = [Channels EXCEPT ![c] = Channel(min, max)]
  /\ ChannelsMask' = ChannelsMask \cup {c}
  /\ UNCHANGED ChannelsDatarate

(* RegionEU868ChannelsRemove *)
ChannelsRemove(c) ==
  /\ c \notin Defaults
  /\ Channels' = [Channels EXCEPT ![c] = Undefined]
  /\ ChannelsMask' = ChannelsMask \ {c}
  /\ UNCHANGED ChannelsDatarate

(* RegionEU868NewChannelReq *)
NewChannelReq ==
  \E c \in Ids :
    ChannelsRemove(c) \/ \E min, max \in Rates : ChannelAdd(c, min, max)

(* RegionEU868ApplyCFList: with the list the other channels are those of   *)
(* it and no more, but that a channel whose frequency ChannelAdd refuses   *)
(* stays what it was.                                                      *)
ApplyCFList(listed, refused) ==
  LET kept == Defaults \cup refused
  IN  /\ Channels' = [c \in Ids |-> IF c \in kept THEN Channels[c]
                                    ELSE IF c \in listed THEN Channel(0, DR_5)
                                    ELSE Undefined]
      /\ ChannelsMask' = (ChannelsMask \cap kept) \cup (listed \ kept)

(* A join: ResetMacParameters leaves channels and mask; the accept may     *)
(* bring a list of channels and sets the default rate.                     *)
Joined ==
  /\ \/ \E listed, refused \in SUBSET (Ids \ Defaults) :
          ApplyCFList(listed, refused)
     \/ UNCHANGED <<Channels, ChannelsMask>>
  /\ ChannelsDatarate' = DefaultDatarate
  /\ AdrAckCounter' = 0
  /\ unheard' = 0 /\ settled' = TRUE

-----------------------------------------------------------------------------
EUTypeOK ==
  /\ \A c \in Ids : /\ Channels[c].defined \in BOOLEAN
                    /\ Channels[c].min \in 0 .. Channels[c].max
                    /\ Channels[c].max \in Rates
  /\ ChannelsMask \subseteq Ids
  /\ ChannelsDatarate \in Rates
  /\ AdrAckCounter \in 0 .. Lonely + 2
  /\ unheard \in 0 .. Lonely + 1 /\ settled \in BOOLEAN

(* The loop of ScheduleTx (LoRaMac.c:1933) ends: whatever channels the     *)
(* network adds, removes and masks, a default channel takes the default    *)
(* rate.  It runs in interrupts, so a loop without end would stop the node.*)
LoopEnds == Usable(Defaults, DefaultDatarate) # {}
=============================================================================
