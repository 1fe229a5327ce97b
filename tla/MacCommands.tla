---------------------------- MODULE MacCommands ----------------------------
(***************************************************************************)
(* The MAC commands a node sends (src/mac/LoRaMac.c): answers to requests  *)
(* of the network gather in MacCommandsBuffer, go into the options or, too *)
(* long for them, into a frame of port 0, and the sticky ones are repeated *)
(* from MacCommandsBufferToRepeat until a downlink comes.                  *)
(*                                                                         *)
(* Of a transmission only what happens to the commands, to the data rate   *)
(* and to the channels (EU868) is kept: it starts, may be put off, is      *)
(* heard or not, and ends; LoRaMac has the rest.  The contents of commands *)
(* are left out, but for those about channels and rates.                   *)
(***************************************************************************)
EXTENDS EU868, SequencesExt

CONSTANTS
  Answers,          \* answers the network asks for, channels and rates apart
  MaxAnswers,       \* bound: requests in one downlink
  MaxLength,        \* LORA_MAC_COMMAND_MAX_LENGTH (128)
  MaxFOpts,         \* LORA_MAC_COMMAND_MAX_FOPTS_LENGTH (15)
  Sizes,            \* sizes of the data of the application
  MaxPayload,       \* of each data rate (MaxPayloadOfDatarateEU868)
  Unacked           \* a downlink may leave a confirmed frame unacknowledged

Length == [ RX_PARAM_SETUP_ANS |-> 2, DL_CHANNEL_ANS |-> 2,
            RX_TIMING_SETUP_ANS |-> 1, LINK_ADR_ANS |-> 2,
            NEW_CHANNEL_ANS |-> 2, DEV_STATUS_ANS |-> 3, DUTY_CYCLE_ANS |-> 1,
            TX_PARAM_SETUP_ANS |-> 1, LINK_CHECK_REQ |-> 1 ]

ASSUME MacCommandsAssumption ==
  /\ Answers \subseteq DOMAIN Length \ {"LINK_CHECK_REQ"}
  /\ MaxAnswers \in Nat /\ MaxLength \in Nat
  /\ MaxFOpts \in Nat /\ 2 * MaxFOpts <= MaxLength
  /\ Sizes \subseteq Nat \ {0} /\ MaxPayload \in [Rates -> Nat]
  /\ Unacked \in BOOLEAN

VARIABLES
  MacCommandsBuffer,          \* up to MacCommandsBufferIndex
  MacCommandsBufferToRepeat,  \* up to MacCommandsBufferToRepeatIndex
  MacCommandsInNextTx,
  cycle,            \* of a transmission, see Cycles
  NodeAckRequested,
  heard,            \* McpsInd: a downlink came in it
  AckReceived,
  frame,            \* in LoRaMacBuffer: its commands and payload length
  pending,          \* history: sticky answers no downlink came for yet
  told              \* history: those of them that were sent

vars == <<MacCommandsBuffer, MacCommandsBufferToRepeat, MacCommandsInNextTx,
          cycle, NodeAckRequested, heard, AckReceived, frame, pending, told,
          euVars>>

(* At rest; put off before its first frame; put off again, TX_RUNNING; on  *)
(* the air; or lost: put off and then too long, never confirmed, and the   *)
(* application waits for the confirmation.                                 *)
Cycles == {"rest", "delayed", "again", "air", "lost"}
Open == {"delayed", "again", "air"}

ChannelAnswers == {"LINK_ADR_ANS", "NEW_CHANNEL_ANS"}
Kinds == Answers \cup ChannelAnswers \cup {"LINK_CHECK_REQ"}
Sticky == {"RX_PARAM_SETUP_ANS", "DL_CHANNEL_ANS", "RX_TIMING_SETUP_ANS"}

(* Bytes of a sequence of commands. *)
Bytes(s) ==
  LET upTo[i \in 0 .. Len(s)] == IF i = 0 THEN 0 ELSE upTo[i - 1] + Length[s[i]]
  IN  upTo[Len(s)]

(* Types of every variable.  FOptsLen has four bits. *)
TypeOK ==
  /\ EUTypeOK
  /\ MacCommandsBuffer \in Seq(Kinds)
  /\ MacCommandsBufferToRepeat \in Seq(Kinds \cap Sticky)
  /\ MacCommandsInNextTx \in BOOLEAN
  /\ cycle \in Cycles
  /\ NodeAckRequested \in BOOLEAN
  /\ heard \in BOOLEAN /\ AckReceived \in BOOLEAN
  /\ frame.cmds \in Seq(Kinds) /\ frame.len \in Nat
  /\ frame.port0 \/ Bytes(frame.cmds) <= MaxFOpts
  /\ pending \subseteq Kinds \cap Sticky /\ told \subseteq pending

NoFrame == [cmds |-> <<>>, len |-> 0, port0 |-> FALSE]

(* LoRaMacInitialization, and ResetMacParameters of a join request. *)
Init ==
  /\ EUInit
  /\ MacCommandsBuffer = <<>> /\ MacCommandsBufferToRepeat = <<>>
  /\ MacCommandsInNextTx = FALSE
  /\ cycle = "rest" /\ NodeAckRequested = FALSE
  /\ heard = FALSE /\ AckReceived = FALSE
  /\ frame = NoFrame
  /\ pending = {} /\ told = {}

-----------------------------------------------------------------------------
(* AddMacCommand: the bytes that must be left for a command besides its    *)
(* first, and the buffer of room n with it.                                *)
Besides(c) == IF c = "DL_CHANNEL_ANS" THEN 0 ELSE Length[c] - 1

MayAdd(c, buf, n) == Bytes(buf) < n - Besides(c)

Added(c, buf, n) == IF MayAdd(c, buf, n) THEN Append(buf, c) ELSE buf

(* Seeded fault: the commands to repeat are not taken into account. *)
BugRoom(rep) == MaxLength

Room(rep) == MaxLength - Bytes(rep)

(* ProcessMacCommands: the buffer with the answers, one by one. *)
Answered(buf, rep, cs) ==
  LET upTo[i \in 0 .. Len(cs)] ==
        IF i = 0 THEN buf ELSE Added(cs[i], upTo[i - 1], Room(rep))
  IN  upTo[Len(cs)]

(* ParseMacCommandsToRepeat *)
ToRepeat(buf) ==
  LET upTo[i \in 0 .. Len(buf)] ==
        IF i = 0 THEN <<>>
        ELSE IF buf[i] \in Sticky THEN Append(upTo[i - 1], buf[i])
        ELSE upTo[i - 1]
  IN  upTo[Len(buf)]

-----------------------------------------------------------------------------
(* PrepareFrame with the commands buf and size bytes of data (0: none).    *)
(* Commands too long for the options take the place of the data.           *)
(* Seeded fault: one byte too many in the options. *)
BugInOptions(buf, size) == size > 0 /\ Bytes(buf) <= MaxFOpts + 1

InOptions(buf, size) == size > 0 /\ Bytes(buf) <= MaxFOpts

Frame(buf, size) ==
  IF ~MacCommandsInNextTx \/ buf = <<>>
  THEN [cmds |-> <<>>, len |-> size, port0 |-> FALSE]
  ELSE IF InOptions(buf, size)
       THEN [cmds |-> buf, len |-> size, port0 |-> FALSE]
       ELSE [cmds |-> buf, len |-> Bytes(buf), port0 |-> TRUE]

(* Seeded fault: the commands to repeat wait for another command. *)
BugNextTx(rep) == FALSE

NextTx(rep) == rep # <<>>

PrepareFrame(buf, size) ==
  /\ frame' = Frame(buf, size)
  /\ MacCommandsBufferToRepeat' = ToRepeat(buf)
  /\ MacCommandsInNextTx' = NextTx(ToRepeat(buf))
  /\ MacCommandsBuffer' = IF frame'.port0 THEN <<>> ELSE buf

(* ScheduleTx for the mask and rate of r: the frame goes now, or is put    *)
(* off for its bands or for the limit of the network; or it is too long.   *)
ScheduleTx(r, f, buf, later, long) ==
  \E wait \in {"no", "bands", "network"} :
    LET next == NextChannel(r, wait = "network")
    IN  /\ ChannelsMask' = next.mask
        /\ ChannelsDatarate' = next.dr
        /\ cycle' = IF f.len + Bytes(buf) > MaxPayload[next.dr] THEN long
                    ELSE IF wait = "no" THEN "air" ELSE later

Current == [mask |-> ChannelsMask, dr |-> ChannelsDatarate]

(* LoRaMacQueryTxPossible *)
Options == MacCommandsBuffer \o MacCommandsBufferToRepeat
Flushed(limit) == Bytes(Options) > limit
QueryTxPossible(size, limit) ==
  size + (IF Flushed(limit) THEN 0 ELSE Bytes(Options)) <= limit

(* SendFrame of main.c: the data, or an empty frame if they do not fit.    *)
(* The query computes the rate of the frame but does set AdrAckCounter,    *)
(* which its comment (line 2484) says it does not.                         *)
SendFrame(size, confirmed) ==
  LET limit == MaxPayload[AdrNext.dr]
      ok == QueryTxPossible(size, limit)
      buf == IF Flushed(limit) THEN <<>> ELSE Options
      due == IF Flushed(limit) THEN {} ELSE pending
  IN  /\ cycle = "rest"
      /\ confirmed => ok
      /\ PrepareFrame(buf, IF ok THEN size ELSE 0)
      /\ AdrAckCounter' = AdrCounted
      /\ ScheduleTx(AdrNext, frame', MacCommandsBuffer', "delayed", "rest")
      /\ NodeAckRequested' = confirmed
      /\ heard' = FALSE /\ AckReceived' = FALSE
      /\ pending' = due
      /\ told' = due \cap (IF cycle' = "rest" THEN told ELSE ToSet(frame'.cmds))
      /\ UNCHANGED <<Channels, unheard, settled>>

(* OnTxDelayedTimerEvent: the result of ScheduleTx is not looked at. *)
OnTxDelayedTimerEvent ==
  /\ cycle \in {"delayed", "again"}
  /\ ScheduleTx(Current, frame, MacCommandsBuffer, cycle, "lost")
  /\ UNCHANGED <<MacCommandsBuffer, MacCommandsBufferToRepeat,
                 MacCommandsInNextTx, NodeAckRequested, heard, AckReceived,
                 frame, pending, told, Channels, AdrAckCounter, unheard, settled>>

(* MLME_LINK_CHECK, which TX_RUNNING refuses. *)
LinkCheck ==
  /\ cycle \in {"rest", "delayed"}
  /\ MayAdd("LINK_CHECK_REQ", MacCommandsBuffer, Room(MacCommandsBufferToRepeat))
  /\ MacCommandsBuffer' = Append(MacCommandsBuffer, "LINK_CHECK_REQ")
  /\ MacCommandsInNextTx' = TRUE
  /\ UNCHANGED <<MacCommandsBufferToRepeat, cycle, NodeAckRequested, heard,
                 AckReceived, frame, pending, told, euVars>>

Join ==
  /\ cycle = "rest"
  /\ MacCommandsBuffer' = <<>> /\ MacCommandsBufferToRepeat' = <<>>
  /\ MacCommandsInNextTx' = FALSE
  /\ NodeAckRequested' = FALSE
  /\ pending' = {} /\ told' = {}
  /\ Joined
  /\ UNCHANGED <<cycle, heard, AckReceived, frame>>

-----------------------------------------------------------------------------
(* OnRadioRxDone for a valid frame of the session with the requests cs.    *)
(* skip: the frame was received before and is confirmed; its commands are  *)
(* taken, its acknowledgement is not.                                      *)
KeptOnRx(ack) ==
  IF NodeAckRequested /\ ~ack THEN MacCommandsBuffer ELSE <<>>

(* ProcessMacCommands of LINK_ADR_REQ and NEW_CHANNEL_REQ, which may be    *)
(* refused (a power or a frequency the node does not have).                *)
ChannelsAsked(answer) ==
  \/ UNCHANGED channelVars
  \/ /\ answer = "LINK_ADR_ANS"
     /\ \E dr \in Rates, mask \in SUBSET Ids, all \in BOOLEAN :
          LinkAdrReq(dr, mask, all)
  \/ answer = "NEW_CHANNEL_ANS" /\ NewChannelReq

OnRadioRxDone(ack, skip, cs) ==
  /\ cycle = "air" /\ ~heard
  /\ NodeAckRequested /\ (skip \/ ~ack) => Unacked
  /\ MacCommandsBufferToRepeat' = <<>>
  /\ MacCommandsBuffer' = Answered(KeptOnRx(ack), <<>>, cs)
  /\ MacCommandsInNextTx' =
       (MacCommandsInNextTx \/ MacCommandsBuffer' # KeptOnRx(ack))
  /\ heard' = TRUE
  /\ AckReceived' = (ack /\ ~skip)
  /\ AdrAckCounter' = 0 /\ unheard' = 0
  /\ ChannelsAsked(IF cs = <<>> THEN "none" ELSE Last(cs))
  /\ settled' = (ChannelsDatarate' = 0)
  /\ pending' = (pending \ told)
                  \cup (Sticky \cap
                        {MacCommandsBuffer'[i] :
                           i \in Len(KeptOnRx(ack)) + 1 .. Len(MacCommandsBuffer')})
  /\ told' = {}
  /\ UNCHANGED <<cycle, NodeAckRequested, frame>>

(* The same for an unconfirmed downlink received before: it is dropped     *)
(* after the counter and the commands to repeat were.                      *)
OnRadioRxRepeated ==
  /\ cycle = "air" /\ ~heard
  /\ MacCommandsBufferToRepeat' = <<>>
  /\ heard' = TRUE
  /\ AdrAckCounter' = 0 /\ unheard' = 0 /\ settled' = (ChannelsDatarate = 0)
  /\ pending' = pending \ told /\ told' = {}
  /\ UNCHANGED <<MacCommandsBuffer, MacCommandsInNextTx, cycle,
                 NodeAckRequested, AckReceived, frame, channelVars>>

-----------------------------------------------------------------------------
(* OnMacStateCheckTimerEvent: an unconfirmed frame is repeated, ...        *)
Repeat ==
  /\ cycle = "air" /\ ~NodeAckRequested /\ ~heard
  /\ ScheduleTx(Current, frame, MacCommandsBuffer, "again", "lost")
  /\ UNCHANGED <<MacCommandsBuffer, MacCommandsBufferToRepeat,
                 MacCommandsInNextTx, NodeAckRequested, heard, AckReceived,
                 frame, pending, told, Channels, AdrAckCounter, unheard,
                 settled>>

(* ... a confirmed one is sent again, every other time at a lower rate; if *)
(* it has become too long it is given up.                                  *)
Retry(slower) ==
  LET dr == IF slower THEN Lower(ChannelsDatarate) ELSE ChannelsDatarate
  IN  /\ cycle = "air" /\ NodeAckRequested /\ ~AckReceived
      /\ ScheduleTx([Current EXCEPT !.dr = dr], frame, MacCommandsBuffer,
                    "again", "rest")
      /\ MacCommandsBuffer' = IF cycle' = "rest" THEN <<>> ELSE MacCommandsBuffer
      /\ NodeAckRequested' = (cycle' # "rest")
      /\ heard' = FALSE
      /\ settled' = (settled \/ (dr = 0 /\ slower))
      /\ UNCHANGED <<MacCommandsBufferToRepeat, MacCommandsInNextTx,
                     AckReceived, frame, pending, told, Channels,
                     AdrAckCounter, unheard>>

(* ... or the transmission ends; without a downlink the commands sent are  *)
(* cleared.                                                                *)
CycleEnd(buf) ==
  /\ cycle = "air" /\ cycle' = "rest"
  /\ NodeAckRequested' = FALSE
  /\ MacCommandsBuffer' = buf
  /\ UNCHANGED <<MacCommandsBufferToRepeat, MacCommandsInNextTx, heard,
                 AckReceived, frame, pending, told, Channels, ChannelsDatarate,
                 settled>>

CycleHeard ==
  /\ heard /\ (NodeAckRequested => AckReceived)
  /\ CycleEnd(MacCommandsBuffer)
  /\ UNCHANGED <<ChannelsMask, AdrAckCounter, unheard>>

(* An unconfirmed frame counts for the ADR, ...                            *)
CycleUnheard ==
  /\ ~NodeAckRequested /\ ~heard
  /\ CycleEnd(<<>>)
  /\ AdrAckCounter' = AdrAckCounter + 1
  /\ unheard' = Min({unheard + 1, Lonely + 1})
  /\ UNCHANGED ChannelsMask

(* ... unless a frame was heard that is none of this session's             *)
(* (PrepareRxDoneAbort): it passes for a downlink that was received.       *)
CycleAborted ==
  /\ ~NodeAckRequested /\ ~heard
  /\ CycleEnd(MacCommandsBuffer)
  /\ UNCHANGED <<ChannelsMask, AdrAckCounter, unheard>>

(* ... a confirmed one brings the default channels back.                   *)
GivenUp ==
  /\ NodeAckRequested /\ ~AckReceived
  /\ CycleEnd(<<>>)
  /\ ChannelsMask' = Restored(ChannelsMask)
  /\ UNCHANGED <<AdrAckCounter, unheard>>

(* The radio never reported the end of the transmission. *)
TxTimeout ==
  /\ ~heard
  /\ CycleEnd(<<>>)
  /\ UNCHANGED <<ChannelsMask, AdrAckCounter, unheard>>

-----------------------------------------------------------------------------
Requests ==
  LET cs == BoundedSeq(Answers, MaxAnswers)
  IN  cs \cup {Append(c, a) : c \in cs, a \in ChannelAnswers}

Next ==
  \/ \E size \in Sizes, confirmed \in BOOLEAN : SendFrame(size, confirmed)
  \/ OnTxDelayedTimerEvent
  \/ LinkCheck \/ Join
  \/ \E ack, skip \in BOOLEAN, cs \in Requests : OnRadioRxDone(ack, skip, cs)
  \/ OnRadioRxRepeated
  \/ Repeat \/ \E slower \in BOOLEAN : Retry(slower)
  \/ CycleHeard \/ CycleUnheard \/ CycleAborted \/ GivenUp \/ TxTimeout

Spec == Init /\ [][Next]_vars

-----------------------------------------------------------------------------
(* What PrepareFrame copies fits into MacCommandsBuffer: it copies the     *)
(* commands to repeat behind the others without a look at its end.         *)
BufferKept ==
  /\ Bytes(MacCommandsBuffer) <= MaxLength
  /\ cycle = "rest" =>
       Bytes(MacCommandsBuffer) + Bytes(MacCommandsBufferToRepeat) <= MaxLength

(* A sticky answer is kept until a downlink comes after it was sent        *)
(* (LoRaMac.c:2171): every frame repeats all those that are pending,       *)
(* whatever became of the frames before; nothing but the query of the      *)
(* application, which drops commands that fit no frame, loses one.         *)
AnswersSent ==
  cycle \in Open /\ ~heard => pending \subseteq ToSet(frame.cmds)

(* A node that hears nothing more comes back to what any gateway hears:    *)
(* after ADR_ACK_LIMIT frames and ADR_ACK_DELAY for each step its rate is  *)
(* the lowest and, if AdrNext brought it there, its default channels are   *)
(* on, whatever confirmed frames, refused ones and queries come between.   *)
HeardAgain ==
  cycle \in Open /\ unheard > Lonely =>
    ChannelsDatarate = 0 /\ (Defaults \subseteq ChannelsMask \/ settled)
=============================================================================
