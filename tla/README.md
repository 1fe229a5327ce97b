# A TLA+ model of the RAK811 BreakBoard firmware

This directory models the LoRaWAN node of this repository: the firmware for a
RAK811 breakout board (STM32L151 with an SX1276 radio) that joins a network
and sends the readings of its sensors. What is modelled is what decides
whether the node keeps working: the list of software timers and the clock under
it, the radio driver, the class A state machine of the MAC with the commands it
answers, the channels and data rates it uses, its duty cycle and the counter of
downlinks, and the main loop of the application on top. The models are checked
by TLC on small instances. Their safety properties, but for one of the duty
cycle (`SentInTime`), are also proved by TLAPS, for every value of the constants.

The build considered is that of `platformio.ini`: `REGION_EU868`, no USB
serial port; `main.c` is compiled with over-the-air activation, and is a class
A device.

1. [The system](#1-the-system)
2. [The modules](#2-the-modules)
3. [What the runs show](#3-what-the-runs-show)
4. [What is proved](#4-what-is-proved)
5. [Assumptions, fairness, bounds](#5-assumptions-fairness-bounds)
6. [What goes wrong outside the assumptions](#6-what-goes-wrong-outside-the-assumptions)
7. [Not modelled](#7-not-modelled)
8. [Plan](#8-plan)

## 1. The system

### Who runs when

There is no operating system. Four kinds of code interleave:

| context | priority | runs |
|---|---|---|
| main loop | none | `main()`: the switch over `DeviceState` |
| UART interrupt | 8 | bytes of the GPS, parsed in the interrupt |
| RTC alarm interrupt | 4 | `TimerIrqHandler` and every timer callback: the MAC's timers, the radio's timeouts, the application's |
| DIO interrupts | 1 | the radio's handlers and, through them, the MAC's `OnRadio...` functions |

A lower number preempts a higher one. `BoardDisableIrq` protects the bodies of
`TimerStart` and `TimerStop`, but not the body of `TimerIrqHandler`; the MAC and
the application protect nothing.

```
          main.c  (DeviceState, NextTx, ComplianceTest)
             |  McpsRequest MlmeRequest QueryTxPossible     ^ McpsConfirm MlmeConfirm
             v                                              | McpsIndication
          LoRaMac.c  (LoRaMacState, LoRaMacFlags, buffers of MAC commands)
             |  Radio.Send Rx Sleep                         ^ OnRadioTxDone RxDone
             v                                              | TxTimeout RxTimeout RxError
          sx1276.c   (Settings.State, packet handlers)
             |  SPI                                         ^ DIO0 DIO1 DIO2 DIO4
             v                                              |
          SX1276 chip
      all three:  TimerStart TimerStop TimerSetValue  -> timer.c -> rtc-board.c
                  callbacks                           <- TimerIrqHandler
```

### Components

**Software timers** (`lib/system_utils/src/timer.c`, `rtc-board.c`).
*State:* the linked list `TimerListHead`; of each timer `Timestamp` (a delta to
the timer before it), `ReloadValue`, `IsRunning`; the RTC alarm and the moment
it was set. *Operations:* start, stop, set, the alarm handler.
*Interaction:* called from all contexts; calls back everyone's callbacks.
*Hard:* the handler is preempted by radio interrupts that start and stop timers;
callbacks restart timers in the loop that serves them; a time is the sum of the
deltas ahead. *Right means:* a timer that was started, and not stopped, is
called back, once, and not early; the list is never a cycle; the alarm is always
set for the head.

**Radio driver** (`lib/radio/sx1276/sx1276.c`).
*State:* `Settings.State`, the modem, the packet handler of FSK
(`Size`, `NbBytes`, `ChunkSize`, preamble and sync flags), three timeout timers
that share one callback; in the chip, its FIFO and interrupt lines.
*Operations:* send, receive, continuous wave, sleep, the handlers of the lines,
the timeout. *Hard:* the timeout is preempted by the interrupt it stands in
for; frames longer than the FIFO are moved in pieces by four different
interrupts; a timer left running acts on the next operation. *Right means:*
every operation is reported, frames are moved whole, timers belong to
operations.

**MAC, class A** (`src/mac/LoRaMac.c`).
*State:* `LoRaMacState` (running, delayed, abort), `LoRaMacFlags` (requests and
indications to be reported, `MacDone`), five timers, the confirm structures
shared by all requests of a kind, counters of trials, the session.
*Operations:* the requests of the application, five events of the radio, five
timer callbacks. `OnMacStateCheckTimerEvent`, run every second or at once when
the radio is done, alone ends a transmission, repeats it, and gives
confirmations and indications. *Hard:* it looks at flags set by interrupts that
may preempt it, and clears them at its end; statuses are left over from earlier
requests; the acknowledgement races its timeout; failures of `ScheduleTx` come
when the request was accepted long ago; requests come from inside its
callbacks. *Right means:* it never gets stuck busy, every accepted request is
confirmed once and truthfully, trials are bounded, counters are not reused.

**MAC commands** (`src/mac/LoRaMac.c`).
*State:* `MacCommandsBuffer`, `MacCommandsBufferToRepeat`,
`MacCommandsInNextTx`. *Operations:* answers to a downlink, the options of the
next frame, the query of the application, the resets at seven places. *Hard:*
two buffers, one of which feeds the other, bounded by tests in one place and not
in the others; a frame refused after its commands were moved. *Right means:*
sticky answers are repeated until the network is heard, and the buffers keep to
their size.

**Channels and data rates** (`src/mac/region/RegionEU868.c`, `RegionCommon.c`).
*State:* `Channels`, `ChannelsMask`, `ChannelsDatarate`, `AdrAckCounter`.
*Operations:* what the network asks for (channels added and removed, a mask, a
rate, the list of a join accept), the back-off of ADR at each new frame, the
slower retries, the search for a channel in `ScheduleTx`. *Hard:* the search
loops without a bound, in interrupts; the back-off compares a counter modulo
the delay, which is not counted once for each frame. *Right means:* the loop
ends, and a node that is not heard comes back to what any gateway hears.

**Duty cycle** (`ScheduleTx`, `CalculateBackOff`, the bands of the region).
*State:* of each band the time of its last frame and its time off, the same for
the limit of the network, the channel used last, `TxDelayedTimer`. *Operations:*
a frame asked for, sent, put off, and sent at last. *Hard:* the time off is
worked out at the frame that follows, from what is remembered of the one before;
times are unsigned differences of a clock read at different moments. *Right
means:* no band is used before its time off is over, and a frame put off goes as
soon as it may.

**Clock** (`rtc-board.c`). *State:* the calendar of the chip, which runs 2048
times too fast so that a day of it lasts 42 seconds, the century it stands in,
the alarm. *Operations:* the time in milliseconds, elapsed times, the alarm
set by day and time of day. *Hard:* months, leap years and centuries pass in
minutes, hours and days; ticks pass between reading the clock and setting the
alarm. *Right means:* the time never jumps, and no alarm is missed.

**Counter of downlinks** (`OnRadioRxDone`, `PrepareFrame`). *State:*
`DownLinkCounter`, `SrvAckRequested`. *Operations:* the reception of a data
frame, the acknowledgement in the next uplink, a join. *Hard:* 16 of the 32 bits
of the counter are on the air; frames are repeated, late and lost, and so are
acknowledgements. *Right means:* each frame is given to the application once
and in order, and the network learns which confirmed frames arrived.

**Application** (`src/main.c`).
*State:* `DeviceState`, `NextTx`, the timer of the next frame, the state of the
compliance test. *Operations:* the main loop, the three callbacks, the timer.
*Hard:* `DeviceState` and `NextTx` are written by the loop and by interrupts,
without protection. *Right means:* the node always has something that wakes it,
never waits for a confirmation that will not come, and does not give up its
session.

**Cryptography**, **serial port and GPS** (bytes from an interrupt into a FIFO
and a sentence buffer, parsed in the interrupt, read by the main loop), **other
regions**, **board and buses**, **sensors**, **USB**, and third-party code are
listed in section 7 with what was decided about each.

The hazards the properties are for, each at its line, are in `PROJECT.json`;
those no property covers yet say why.

## 2. The modules

| module | models | composes |
|---|---|---|
| `TimerService` | abstract: one-shot timers, each fires once its interval is over | |
| `TimerList` | the delta list, alarm and handler; callbacks as steps within the handler | refines `TimerService` |
| `TimerListProofs` | theorems about `TimerList`, which implements `TimerService` | uses `Induction` |
| `TimerListRace` | the handler load by load against preempting `TimerStart` and `TimerStop` | |
| `TimerListRaceProofs` | theorem about `TimerListRace` | uses `Induction` |
| `Rtc` | the calendar, the time in milliseconds, the alarm | |
| `DutyCycle` | back-off, bands, frames put off | extends `Rtc` |
| `DutyCycleProofs` | theorems about `Rtc` and `DutyCycle` | uses `Induction` |
| `Radio` | the driver, its interrupts and timeouts, and the chip | |
| `RadioProofs` | theorems about `Radio` | |
| `LoRaMac` | requests, radio events, MAC timers, the check handler | |
| `LoRaMacProofs` | theorems about `LoRaMac` and the application on it | extends `App` |
| `App` | the main loop and callbacks | extends `LoRaMac` |
| `EU868` | channels, mask, data rate, ADR | |
| `MacCommands` | buffers of MAC commands over transmissions | extends `EU868` |
| `MacCommandsProofs` | theorems about `MacCommands` and `EU868` under it | uses `Induction` |
| `DownlinkService` | abstract: frames come once and in order | |
| `Downlink` | the counter of downlinks and their acknowledgement, against the network | refines `DownlinkService` |
| `DownlinkProofs` | theorems about `Downlink` | |
| `Induction` | lemmas: least elements, induction up to a number, recursive functions | |
| `MCTimerList`, `MCTimerListRace`, `MCDutyCycle`, `MCMacCommands` | values of the constants for TLC | |

### TimerList

`list` is the chain from `TimerListHead`; `timestamp`, `reload` and `running`
are the fields of the timer objects; `elapsed` is what `RtcGetElapsedAlarmTime`
returns, `alarmIn` the time to the alarm, `pending` its interrupt,
`wakeUpTime` and `nonScheduled` the wake-up compensation of `rtc-board.c`.
One action per operation (`TimerStart`, `TimerStop`, `TimerSetValue`), and the
handler in three: `IrqEnter` (up to the loop), `IrqPop` (one round), `IrqLeave`
(restart of the head). Operations are enabled in between, for callbacks and
radio interrupts. `Tick` is one millisecond. `due` is a history variable: what
is left of each timer's interval after the compensation; `NeverEarly` and the
refinement are about it.

`TimerService` states what `timer.h` promises: an armed timer whose interval is
over fires, once; stopping it disarms it. `TimerList` implements it with
`armed <- ToSet(list)`.

### TimerListRace

`TimerIrqHandler` is not a critical section. Here its loop is split at every
load and store of `TimerListHead` and `Next`, and `TimerStart` and `TimerStop`
come in between; times are reduced to expired or not.

### Radio

Every operation sets the state and its timer; the chip is part of the module:
it sends or receives FSK bytes one by one through a FIFO of `FifoSize`, raises
lines, or stays silent. The handlers of the lines are one action for each line,
modem and direction. `SX1276OnTimeoutIrq` is split between its test of the
state (`TimeoutEnter`) and what it does (`RxTimeout`, `TxTimeout`), because the
DIO interrupts preempt it there. `broken` is a history variable, set when a
frame is reported that was not moved whole; `due` is the operation that was
not reported yet.

### LoRaMac

Flags and timers are sets of the bits that are set and of the timers that are
armed. The order of time is kept: the first window opens before the second and
the acknowledge timeout is over after both. `check` says where
`OnMacStateCheckTimerEvent` is: it is split where it takes decisions on shared
flags and around its callbacks, so that radio events may come in between
(`RadioPreempts`) and the application may make requests in the indication
(`"callback"`). `ScheduleTx` takes its outcome as a parameter: sent now, put
off by the duty cycle, or refused since the frame is too long for the data
rate. A frame that was accepted is refused later only if a link check made the
options longer meanwhile (`frame.grown`). History variables: `frame` (kind,
counter, transmissions of the frame in the buffer), `unused` (the counters that
were never on the air), `owed` (requests accepted and not confirmed).

### App

Extends the MAC: the action of `LoRaMac` that gives confirmations is conjoined
with what the application's callbacks do, the indication with the commands of
the compliance test. `at` is where the main loop is; it is interrupted between
any two of its reads and writes of shared variables. `rejoined` remembers that
the network ordered a new join.

### EU868 and MacCommands

A channel is defined or not and takes rates from `min` to `max`; the operations
of the region are operators on `Channels`, `ChannelsMask` and
`ChannelsDatarate`. `NextChannel` is the loop of `ScheduleTx` around
`RegionNextChannel`: without a channel for the rate, the default rate and the
default channels. `AdrNext` is the back-off, `unheard` counts the frames since a
downlink came (what `AdrAckCounter` would be if nothing else touched it), and
`settled` remembers that the lowest rate was not reached by `AdrNext`, which
alone brings the default channels back.

Commands are members of a set with the lengths of the code; the buffers are
sequences. A transmission is reduced to its `cycle`: at rest, put off before
its first frame (`"delayed"`), put off as a retry or repetition (`"again"`), on
the air, or `"lost"`: put off and then found too long, which is never reported.
`SendFrame` is the query of the application, the request, `PrepareFrame` and
`ScheduleTx` in one call, as the application makes them, each at the rate of
its moment: the query at the rate ADR will choose, `ScheduleTx` at the rate of
the channel it found. `pending` holds the sticky answers no downlink came for,
`told` those of them that were sent.

### Rtc and DutyCycle

`tick` is the true time; the chip's calendar goes from one day to the next
(`NextDay`, and `CalendarDays`, the days of a century), and the code's conversion
adds up years and months as `rtc-board.c` does (`Days`). `RtcGetCalendar` with the roll-over of the century is
`ReadsClock`; it gives the reading before the roll-over to the first caller and
the one after it to the next. `RtcSetTimeout` sets the alarm by day and time of
day; up to `Late` ticks pass while it does. `Rings` is the match of the alarm in
the chip, `Tick` the passing of time.

In `DutyCycle` a request is `ScheduleTx`: the back-off of the frame before, the
limit of the network, the time off of every band, and a frame on one of the open
bands or a delay. The delay is a timer of `TimerList` that is alone in its list;
when the alarm comes early it is set again for the rest (`Rearm`). `rest` is
the tick until which a band must rest after the frame sent on it, `latest` the
tick by which a frame put off should have gone: both are worked out from true
time and are what the properties compare with.

### Downlink

One module for both ends: the node and a network that sends frames numbered
from 0 after uplinks it heard, repeats a confirmed frame until it is
acknowledged, and may repeat unconfirmed ones late. Loss is a step that does not
happen. `Reconstructed` is the arithmetic on the low bits of `OnRadioRxDone`;
the MIC is right exactly if the reconstruction is. `DownlinkService` states what
the application is promised, with the one exception of the code: counter 0.

## 3. What the runs show

| run | instance | shows |
|---|---|---|
| `timer_list` | three timers, intervals 1 and 3 | the list is well formed, served by its alarm, no timer fires early, and the list implements `TimerService`, liveness included |
| `race_ends` | three timers | stale stores of the preempted handler never make a cycle |
| `race_linked` | three timers | **violation**: a timer started at the wrong instruction is dropped |
| `radio_driver` | frames shorter than, at and beyond the thresholds of a FIFO of 4 | timers belong to operations, frames are whole, the FIFO is kept, every operation is reported |
| `mac_safety` | every request, trials 1 and 3, two repetitions, frames put off and frames too long | the MAC is never stuck, ends and confirms every request, at rest, bounds its trials, reuses no counter, keeps the session |
| `mac_preempted` | radio events within the check handler | **violation**: an acknowledgement is lost and the MAC stays busy |
| `app_node` | every command of the test, requests that overlap, a radio that loses the end of a frame | the node always wakes up until it is told to rejoin, waits only for confirmations that come, holds its session, never leaves the MAC stuck |
| `app_silent` | the rejoin | **violation**: the node may sleep for good |
| `commands_sticky` | two channels, two rates, a buffer for two or three answers | sticky answers are sent until a downlink comes, buffers and options keep to their size, the loop of `ScheduleTx` ends, a node that hears nothing comes back to the lowest rate |
| `downlink_counter` | two bits of the counter on the air, six frames | frames come once and in order (`DownlinkService`), no acknowledgement for another frame, and each confirmed frame is acknowledged at last |
| `duty_bands` | two bands, short months, the end of January, of February and of a century | the clock is right, no alarm is missed, no band is used too early, a frame put off goes when it may |
| `duty_limited` | the same with a limit of the network | **violation**: a frame put off is put off again for ever |

Every property of a passing run has a mutant in `PROJECT.json`: a definition
(marked *Seeded fault* in the module) that changes the code the way a slip
would, and under which TLC finds the property violated.

The four violations are disagreements between what the code does and what its
comments say:

* **A timer is lost** (`race_linked`, timer.c:225-226). `TimerIrqHandler` loads
  `Next` of the head and stores it to `TimerListHead` with interrupts enabled. A
  radio interrupt in between, whose handler starts a timer, links it behind the
  timer being taken out. It is never called back.
* **The MAC stays busy** (`mac_preempted`, LoRaMac.c:1213 and 1404). The check
  handler tests `MacDone`, and at its end clears `McpsInd`. An acknowledgement
  received in between sets both; its `McpsInd` is cleared, `MacDone` is seen
  the next time, but a confirmed frame is ended only by `McpsInd` or by the
  timeout, which the acknowledgement stopped.
* **The node falls silent** (`app_silent`, main.c:848 and 658). A join that
  fails while the loop is in `DEVICE_STATE_JOIN` has its new `DeviceState`
  overwritten by `DEVICE_STATE_SLEEP`.
* **A frame waits for ever** (`duty_limited`, LoRaMac.c:2001). Once the network
  has set a limit (`DUTY_CYCLE_REQ`), `CalculateBackOff` adds another time off
  whenever `ScheduleTx` runs, also when it runs for the very frame that waited
  for the last one. The delay grows as fast as time passes, and meanwhile
  `TX_DELAYED` refuses every other request.

## 4. What is proved

Proofs hold for every value of the constants that satisfies the assumptions
named in the modules: any set of timers, any intervals, any wake-up time; any
FIFO, threshold, chunk and frame lengths; any number of trials, repetitions,
channels and rates. Where a theorem needs one of the switches of a module to be
off (`~TxTimeouts` and the like) it says so as an assumption, and section 6 says
what happens without it.

### Induction

The installed provers cannot use an induction theorem that takes an operator.
The lemmas of this module do without: a set of numbers has a least element
(`LeastElement`, from the library's well-founded `<`), so a set that holds 0 and
with `i - 1` also `i` holds every number up to `n` (`UpTo`), and the function that
follows given steps from a given value exists (`FollowsExists`). Recursion in the
models proved about is by recursive functions; a proof about one shows first that
a function satisfying its equation exists, and then works with the equation.

### TimerListProofs

| theorem | says |
|---|---|
| `TypeCorrect` | no unsigned subtraction of `timer.c` wraps: every timestamp stays within the longest interval |
| `WellFormed` | no timer is linked twice, and only the head runs (`NoDoubleLink`, `OnlyHeadRuns`) |
| `SumsBounded` | the sums `TimerInsertTimer` walks over stay within the longest interval (`NoOverflow`) |
| `HeadServed` | outside the handler a non-empty list has a running head and an alarm armed for it, or pending (`AlarmServesHead`) |
| `FiresOnTime` | no timer fires before its compensated interval is over (`NeverEarly`) |
| `ImplementsService` | every step is a step of `TimerService` or a stutter: the safety part of `Implements` |

The deltas are what makes these hard: what each operation does to a timer is
spread over the deltas ahead of it. The inductive invariant therefore carries a
witness: a function that gives the absolute expiry time of every position of
the list, starts at the first delta and grows by each of them (`SumsUp`). It
is bounded by the longest interval, and each of its values covers what is left
of the interval of its timer. Insertion and removal are lemmas about this
function: how inserting a timer splits one delta in two, and removing one joins
two. With it, the invariant says the head alone may run, that the alarm set for
it goes off after exactly what is left of its timestamp, and that in the handler
no timer runs but one a callback started. No summation operator and no
recursion is needed, which is why the list is proved about and not only checked.

`AlarmServesHead` needs more than itself to be inductive: that `TimerStop` of
the head restarts its successor, which needs the head to be the only running
timer, and that in the handler a head found running was started by a callback
and has its alarm.

`ImplementsService` is shown operation by operation: the start and the stop in
each of its three places change `ToSet(list)` by exactly the timer, which for a
stop needs that it is linked once; a round of the handler is `Fire`, since the
deltas cover what is left; and arming the alarm takes the wake-up time off at
most twice, which is what `TimerService` allows.

### TimerListRaceProofs

| theorem | says |
|---|---|
| `ListNeverCloses` | following `Next` from any timer ends, however the handler is preempted (`WalksEnd`) |

For any set of timers. The walk of `WalksEnd` counts steps; what is inductive is
that the timers can be ranked so that following `Next` goes down (`Falls`). The
handler writes no `Next`, and `TimerStop` only shortens the way, so the ranks stay.
`TimerStart` links a timer that is not on the list in front of others: what the
head leads to is closed under `Next` (`ChainClosed`), so its ranks can be spread,
the timer put between two of them and all the others raised above it (`Linked`).
That is why a stale `TimerListHead` does no worse than losing timers. A walk along
falling ranks visits no timer twice and has ended after `Count` steps (`WalkEnds`,
by the pigeonhole theorem of the library).

### RadioProofs

| theorem | says |
|---|---|
| `TypeCorrect` | types; `NbBytes` never passes `Size` |
| `TimersBelong` | each operation has its timer, none outlives its operation (`TimersOfState`), at any preemption of the timeout |
| `FramesWhole` | frames are moved whole (`WholeFrames`) |
| `FifoIsKept` | the FIFO neither overflows nor is read when empty (`FifoKept`) |

The inductive invariant accounts for every byte: while sending, the bytes
written (`NbBytes`) and not yet sent are those in the FIFO, and what the chip has
still to send is what is in the FIFO and what was not written; while receiving,
the bytes read, those in the FIFO and those to come make up the frame. It
includes what each raised line says of the FIFO. `FramesWhole`
and `FifoIsKept` assume that no frame is exactly as long as the FIFO: section 6.

### DownlinkProofs

| theorem | says |
|---|---|
| `TypeCorrect` | the counter of the node is that of the last valid frame, never ahead of the network |
| `AcksTruthful` | an uplink never acknowledges a frame the node does not have (`AckTruthful`) |
| `Implements` | the node implements `DownlinkService`: each frame once, in order, frame 0 apart (`ServiceSpec`) |

For any width of the counter on the air, any gap, any number of frames. All rests
on `NeverBack`: whatever the low bits are, a counter whose MIC is right is never
reconstructed below the last one. `AckTruthful` speaks of a frame on the air;
what makes it inductive is `AckOpen`: the flag waits only between a frame and the
next uplink, and stands for the frame the network waits for.

### MacCommandsProofs

| theorem | says |
|---|---|
| `EUTypeCorrect` | channels, mask and rate keep their types, the counter of ADR is bounded |
| `LoopsEnd` | a default channel always takes the default rate, so the loop of `ScheduleTx` ends (`LoopEnds`) |
| `ComesBack` | after `ADR_ACK_LIMIT` frames unheard and a delay for each rate the node sends at the lowest rate, and on its default channels if ADR brought it there (`HeardAgain`) |
| `TypeCorrect` | types; the options of a frame fit into the four bits of `FOptsLen` (`TypeOK`) |
| `BufferIsKept` | what `PrepareFrame` copies without a test fits into the buffer (`BufferKept`), if the network asks for no `DlChannelAns` |
| `OneByteBehind` | without that assumption: at most one byte is stored behind its end |
| `AnswersAreSent` | a sticky answer is repeated in every frame until a downlink comes (`AnswersSent`), if a downlink acknowledges the confirmed frame it answers (`~Unacked`) |

For any channels, any number of rates, any limit and delay of ADR of which the
limit is a multiple of the delay and the delay is at least 2 (`EU868Assumption`;
the code has 64 and 32), any sizes and any commands. `HeardAgain` is about the
end of a long silence. What is inductive is a bound on the silence at every rate
(`Slack`): the counter passes it by one at most, at the end of a frame, and at
that value, which is 1 modulo the delay (`SlackEnds`), the next frame goes one
rate lower, which moves the bound by a delay. `MaskKept` says what is known of
the mask once the rate is the lowest.

For the buffers, what is inductive is that the two of them fit together
(`BufferSum`) and that every pending answer is in one of them (`Pendings`), at
each of the seven places that empty one. `BufferSum` needs that
`ParseMacCommandsToRepeat` selects commands that were in the buffer; what was sent
in the options stays in the buffer while its sticky commands are copied to the
other, so twice the options must fit: `2 * MaxFOpts <= MaxLength`, which the
module assumes (the code has 15 and 128).
`Excess` is the byte of `DlChannelAns`. The lemmas on `Bytes`, `Answered` and
`ToRepeat` (lengths of concatenations, what is kept, what is added) are inductions
along a sequence by `UpTo`.

### LoRaMacProofs

| theorem | says | assumes |
|---|---|---|
| `TypeCorrect` | types; the counter of retries never passes `MAX_ACK_RETRIES + 1` | |
| `ConfirmsOwed` | the flags that make the check handler confirm stand for requests that are owed | `~Overlap` |
| `SessionIsKept` | the session ends only while a join request that was accepted is owed (`SessionKept`) | `~Overlap` |
| `TrialsAreBounded` | no frame is sent more often than asked for and allowed (`TrialsBounded`) | A |
| `CountersAreFresh` | no two frames of a session are on the air with one counter (`CounterFresh`) | A |
| `ConfirmedAtRest` | confirmations are given for owed requests, with nothing more to come (`ConfirmsAtRest`) | A |
| `ConfirmedHasJoined` | a join confirmed with success has joined (`JoinedIfConfirmed`) | A |
| `NothingIsForgotten` | at rest every request but a link check was confirmed (`NothingForgotten`) | A |
| `AlwaysAttended` | a busy MAC has something to come that ends it (`Attended`) | A, `~RadioPreempts` |

A stands for `~TxTimeouts`, `~LateWindow` and `~Overlap`: the radio reports the end
of a frame, the first window ends before the second is due, and the application
asks for no service of the MLME while another is owed. Each is needed by some of
the theorems: section 6 has a behaviour against each. All but the last theorem hold with radio
events at any moment, the check handler included (`RadioPreempts`), and that one
fails there: it is the violation of `mac_preempted`.

`SessionKept` is about steps that reset the session, most of them in timers that
decide by flags set long before; `FlagsOwed` is what they need: a flag that says a
join is under way stands for a join that was accepted.

The theorems that assume A share one inductive invariant, `Life`, which says what
flags, timers, radio and counters have to do with each other at every moment of a
transmission. Its parts: the flags say what is owed (`OwedIsFlagged`); the MAC is
busy for what was asked, with its frame (`BusyFor`); a continuous wave has no
window and no retry (`Wave`); nothing is done until its windows are over
(`Flight`); a frame put off is not waited for (`PutOff`); an acknowledgement is
waited for until the check handler has seen it, retries or gives up (`Waiting`);
what is done stays busy until the check handler comes (`Done`); and what each of
joins, trials and counters is at (`Joins`, `Tries`, `Counted`). None of the
properties is inductive without most of the others: that a counter is fresh at
the fourth place that steps it depends on what was acknowledged, which depends on
which window was open. `Attending` is the rest of what `Attended` needs.

The application's part of the module (`AppSpec`) comes last:

| theorem | says | assumes |
|---|---|---|
| `AppTypeCorrect` | types (`AppTypeOK`); each step of the application is a step of the MAC or leaves it alone | |
| `ConfirmIsComing` | the main loop holds back a frame only while a confirmation is owed (`WaitsForConfirm`) | `~LateWindow` |
| `AwakeUntilRejoined` | until a rejoin is ordered a sleeping node has something to wake it (`AwakeUntilRejoin`) | `~LateWindow` |
| `SessionIsHeld` | only the network ends the session (`SessionHeld`) | `~LateWindow` |
| `AppIsConfirmed` | `ConfirmsAtRest`, `JoinedIfConfirmed` and `NothingForgotten` for this application | `~LateWindow` |
| `AppIsAttended` | `Attended` for this application | `~LateWindow`, `~RadioPreempts` |

What the theorems about `LoRaMac` have to assume of a caller (`~Overlap`) is proved
here of this one, and frames may time out. `AppLife` replaces `Waiting`, `Done` and `Joins` by
what still holds then (`Awaited`, `Ending`, `Answered`), and adds what the parts of
`main.c` know of each other: what is under way while a pass of the main loop is
(`InPass`), when a command of the compliance test finds the MAC free (`Command`),
that a node about to join has nothing else under way (`OnlyJoins`), and where the
loop, its timer and the join are until the network orders a rejoin
(`FirstSession`). How often a frame is sent and with which counter (`Tries`,
`Counted`) is left out: a repetition that timed out breaks it (section 6).
`MacStep`
shows that a step of `App` is one of `LoRaMac`, so the invariant of its types is
taken over.

### DutyCycleProofs

| theorem | says |
|---|---|
| `ClockIsRight` | the time read is the true time (`ClockRight`) |
| `AlarmComesInTime` | an alarm rings by the tick it was set for, or is one of `NeverComes` (`AlarmInTime`) |
| `DutyIsKept` | no data frame goes on a band whose time off is not over in true time (`DutyKept`) |
| `DutyCycleTypes` | no delay, time off or rest of a delay is negative; a delayed frame has its alarm (`TypeOK`) |

For any months and leap years, any century whose years are a multiple of four,
any day of whole ticks, any tick of a millisecond or less, any bands, duty
cycles, frames and limits of the network.

*The clock.* The model's chip counts days one by one, the code multiplies and
adds up. `NextDayCounts` shows that they agree over the end of a month, a year and a
century (`CenturyCounts` then goes through the century by `UpTo`): the sums are
recursive functions, and the century of the code is a multiple of four, so its
leap years are the chip's. What is inductive is `ClockAt`: the century of the code
is the chip's, or one behind with the roll-over still to be noticed
(`CalendarRollOverReady`).

*The alarm.* An alarm is a day of the month and a time. `AlarmAhead` says that it
matches a tick between now and the one it was meant for; `AlarmFinds` proves it
when the alarm is set, by how far it goes: within the month (`SameMonth`), into
the next one (`MonthAfter`), and the corner where the code takes a day modulo a
month that is exactly as long as the longest alarm. What is left over is
`NeverComes`.

*The duty cycle.* `Resting` is the invariant: for each band but the one in use the
true rest is over, or it is bounded by what the code still remembers of it, the
time of the last frame in rounded milliseconds and a time off, which for the band
used last is only worked out by the next call of `ScheduleTx`. `Rested` is the
lemma that closes the gap between the two clocks: a time off of `n` ms that has
passed between two rounded times has passed, to `n - 1` ms of ticks, between the
true ones. `ScheduleRests` follows a band through `ScheduleTx`; the only band that
may be forgotten while it rests is that of join requests, for one.

Two of these theorems corrected the model. The guard of `Tick` let a first year
pass unread, which is harmless in a short run but leaves `ClockRight` without an
invariant. And `AlarmFinds` could not be proved for an alarm of 28 days and a tick
from the end of January: the second case of `NeverComes`, which the run did not
reach with the months it had then.

### Only model-checked

* Liveness (`Implements` of `TimerList` as a whole, `Reported`, `Confirmed`,
  `Acknowledged`): fairness and `ENABLED` are out of the provers' reach.
* `SentInTime`: with a limit of the network it is false (`duty_limited`), and
  `Slack`, the ticks that a delay gains by rounding, is right for the ticks of this
  chip and of the run, not for every `MsNum` and `MsDen`.
* The four violations, which are counterexamples.

## 5. Assumptions, fairness, bounds

**Fairness.** `TimerList`: the clock runs and the CPU enters, goes on with and
leaves the interrupt handler. `Radio`: the driver's interrupts and timeouts are
served; of the chip nothing is assumed, it may never raise a line. `LoRaMac`: the
check handler goes on (weak). The radio and the timers are strongly fair: the
check handler restarts itself and runs again and again before a window opens,
and `check = "rest"` is only true in between; a timer whose time has come is
called back all the same, since `timer_list` shows that timers fire, and the
radio reports since `radio_driver` shows that it does. `OnTxDelayedTimerEvent("now")`
is strongly fair: a duty cycle band opens in finite time, so a frame put off is
not put off for ever (`duty_bands` shows it, but for `duty_limited`).
`Downlink`: the application goes on sending (weak, `TxNextPacketTimer`), and the
radio does not lose every frame of a kind that is sent over and over (strong):
an uplink with an acknowledgement, one without, a frame the network repeats.
`App`, `MacCommands`, `DutyCycle` and `TimerListRace` state safety only; that a
frame goes in time is the invariant `SentInTime`.

**What the passing runs assume.**

* `RadioPreempts = FALSE`: no radio event within the check handler, but see
  `mac_preempted`.
* `LateWindow = FALSE`: the first window ends well before or after the moment the
  second opens, but see section 6.
* `TxTimeouts = FALSE` in `mac_safety`: the radio reports the end of a frame.
  `app_node` has the timeouts.
* `Overlap = FALSE` in `mac_safety`: no MLME request while another service is
  owed. The application of this repository does not keep to it, so `app_node`
  has `Overlap = TRUE`, with the properties that hold all the same.
* `Unacked = FALSE`: the network acknowledges a confirmed frame in the first
  downlink that follows it.
* In `App`, a pass of the main loop is shorter than a frame: a frame does not
  end within the pass that requested it.
* In `Radio`, no frame of exactly `FifoSize` bytes; and a line raised by the chip
  is served before the next byte is moved: a byte takes 160 us at 50 kbit/s.
* In `Downlink`, the network sends nothing new while it waits for an
  acknowledgement, and frames come after an uplink it had (class A).
* In `Rtc`, the clock is read at least once in the first and the last year of a
  century (a year of the calendar is four hours), and setting an alarm takes a
  tick at most (`Late`). A behaviour starts in the first century and ends before
  the time takes more than 32 bits (`StartsAssumption`, section 6); a tick takes a
  millisecond at most and a day at least one, and every month has the days of the
  longest alarm.
* In `DutyCycle`, the duty cycle is on, a band stands for all its channels, and a
  call of `ScheduleTx` reads one time. Join requests go on the band of channel 0, as
  `EU868_JOIN_CHANNELS` does, and the network asks for limits of 2^0 to 2^15, which
  is what `AggregatedDCycle` has bits for.

**Exceptions named by properties.** Each is a state the run reaches, and each has
a hazard of its own in `PROJECT.json`.

* `ServiceSpec`: the first frame of a session may be given again, since counter 0
  also means that there was none (`GiveFirstAgain`).
* `Acknowledged`: not for a frame `MAX_FCNT_GAP` or more ahead, which the node
  refuses until it joins again.
* `AlarmInTime`, `SentInTime`: not for an alarm set for day 0, nor for one set for a
  day that the next month has not (`NeverComes`).
* `ClockRight`, `DutyKept`: not for the first reading after the century rolled
  over, which is a century early.
* `DutyKept`: not for join requests, nor for a band whose time off a join forgot.
* `HeardAgain`: the default channels come back only if ADR lowered the rate; a
  network that asked for the lowest rate itself keeps its mask (`settled`). Frames
  count if nothing was heard after them: a frame of another node in a window
  (`CycleAborted`) ends the cycle and leaves the counter of ADR as it is.
* `AwakeUntilRejoin`: not after the command that orders a rejoin (`app_silent`).

**Where the system may stop** (`CHECK_DEADLOCK FALSE`): in `App` a node that sends
no further frame once the bound on counters is reached and no timer runs; in
`MacCommands` the cycle `"lost"`, where the application waits for a confirmation
that never comes. Elsewhere deadlock is checked.

**Bounds.**

* Timers and intervals (`timer_list`): three timers are the fewest with a head,
  one in the middle and one behind; intervals 1 and 3 with a wake-up time of 1
  give equal, shorter and longer deltas, and the compensation at its threshold.
* `MaxUpLinkCounter`, 3 frames of a session: interference between requests
  reaches to the next one (a left-over status, a timer, a flag), not farther;
  counters are compared, never computed with. A frame refused or timed out does
  not count, so their number is not bounded.
* Trials 1 and 3, `MAX_ACK_RETRIES` 1, repetitions 2: below, at and above each
  other, so that each of the two limits on retries is the one reached.
* Channels and ADR: one default and one other channel; rates 0 and 1 with payloads
  of 3 and 8 bytes, so that a frame that fits one may not fit the other; limit 2
  and delay 2, so that the rate goes down after 5 frames unheard. More rates are
  in the proofs.
* Commands: a sticky answer of two bytes, one of three bytes, the answers about
  channels; `MaxAnswers` 2 and one about channels, `MaxLength` 6, `MaxFOpts` 2:
  three answers fill the buffer, two overflow the options to port 0.
* FIFO 4, threshold 2, chunk 2, frames of 1 to 9 bytes: shorter than the chunk,
  equal to it, filling the FIFO in one, two and three pieces.
* Downlinks: two bits of the counter on the air, gap 2, six frames: the counter
  rolls over, and a frame may be late by a turn or lost beyond the gap.
* Clock: days of 9 ticks of 4/9 ms, so that rounding matters in both directions;
  years of two months, of three days and of one, or two in a leap year; a
  century of 4 years; alarms of at most one day, so that they are set again and
  again. A behaviour starts before the end of a month in a year of either length,
  or before the end of the century, and lasts 30 ticks, more than three days and
  any time off.
  One tick may pass while an alarm is set.
* Duty cycle: two bands, one for joins, of different duty cycles, and a stricter
  one for joins; a frame of 1 ms gives times off of 5 to 7 ms, longer than the
  longest alarm, which is set again for the rest.

## 6. What goes wrong outside the assumptions

Found while the models were written; each can be seen by setting the constant
or changing the choice named in it. None is a passing or a violation run of its
own: no text of the repository promises otherwise, or the cause needs an event
at a precise moment that the models let happen but the code makes unlikely.

*Requests that overlap.*

* **A refused join ends the session** (`Overlap` with `SessionKept`).
  `LoRaMacMlmeRequest` clears `MlmeConfirm` before it refuses a join as busy, and
  a cleared `MlmeRequest` is `MLME_JOIN` (LoRaMac.c:3140): with a link check owed,
  `OnTxDelayedTimerEvent` takes the frame put off for a join request and resets
  the session.
* **A link check that is refused** (`LinkCheck`). If the commands to send fill their
  buffer the request is refused and `MlmeReq` is cleared (LoRaMac.c:3226), also
  that of a link check before, which is then never confirmed; with `Overlap`
  `NodeAckRequested` of a frame put off is cleared as well. It harms nothing in the
  application, which asks in the indication callback, when nothing is owed
  (`Command`).
* **A carrier while a frame waits** (`Overlap` with `Attended`,
  `NothingForgotten`). `MLME_TXCW` is accepted while a frame is put off; the frame
  and the carrier then end each other's cycles.
* **A late pass after a rejoin** (`App`). A pass of the main loop that decided to
  join before the ordered rejoin succeeded wipes the new session.

*Frames that become too long.*

* **Never confirmed** (cycle `"lost"` of `MacCommands`, LoRaMac.c:1436). A frame
  put off no longer fits when it is sent, after a link check lengthened the
  options or the default rate came back: `OnTxDelayedTimerEvent` ignores
  `LORAMAC_STATUS_LENGTH_ERROR`. Put off before its first transmission it is
  never confirmed; put off again as a retry it leaves `TX_RUNNING` set as well.

*Time.*

* **Late first window** (`LateWindow`). If the first window ends at the moment the
  second one opens, the end of the first is taken for the end of both, and
  confirmations are given with a window still to come.
* **Counter after a timeout** (`TxTimeouts` with `ChannelsNbRep` 2 and
  `CounterFresh`). A repetition whose end was not reported ends the frame without
  its counter being counted, although its first transmission was on the air.
* **Preempted timeout** (`Radio`). A DIO interrupt between the test of the state in
  `SX1276OnTimeoutIrq` and what follows reports the operation, and the timeout
  reports it again: two events for one operation. The driver is left
  consistent; the MAC sees an event it did not expect.
* **A join and the duty cycle** (`DutyCycle`). A join right after a data frame goes
  at once, since the longer of two elapsed times is taken
  (RegionCommon.c:173); and `ResetMacParameters` sets `LastTxChannel` to 0
  (LoRaMac.c:2050), so that the band of the last frame is never charged. The same
  happens if `NEW_CHANNEL_REQ` moves the last channel to another band.
* **An alarm that never comes** (`NeverComes`, rtc-board.c:512). 28 days from
  February 28 of a year of 365 days is worked out as day 0. 28 days and the tick
  of compensation from the last second of January 31 is worked out as day 29 of a
  February that has 28: the alarm comes in March.
* **The clock stops** (rtc-board.c:681). After 2^32 ms the conversion of the time
  to 32 bits saturates: elapsed times are 0 from then on, after 49.7 days.

*The network.*

* **A downlink without the acknowledgement** (`Unacked = TRUE`). Answers to it
  gather while the unanswered ones are still in the buffer, and the sticky
  ones are lost with the buffer when the frame is given up: `AnswersSent` fails.
* **One byte too many** (`DL_CHANNEL_ANS` in `Answers`, LoRaMac.c:1626).
  `AddMacCommand` takes a `DlChannelAns` of two bytes if one byte is left; every
  other answer of two bytes asks for two. `BufferKept` fails.
* **The rate goes down too fast** (`MacCommands`). A frame that is refused, or
  confirmed, does not count for ADR: each frame prepared with the same counter
  lowers the rate again, not one in `ADR_ACK_DELAY` of them.
* **A busy neighbourhood** (`CycleAborted`, LoRaMac.c:1266). A frame of another node,
  or one with a wrong MIC, that is heard in a window sets `McpsInd` as a downlink
  does: the frame sent counts as heard, is not repeated, and does not count for
  ADR. A node that has lost its network but hears such frames keeps its rate.
* **A query that writes** (LoRaMac.c:2484). `LoRaMacQueryTxPossible` sets
  `AdrAckCounter`, although its comment says that it does not; no property suffers,
  since it is set to 0 and only at the lowest rate.

*The radio.*

* **A frame as long as the FIFO** (`Radio`, 4 in `Sizes`). An FSK frame of 64 bytes
  is written at once behind its length byte: 65 bytes to a FIFO of 64.

## 7. Not modelled

| part | why |
|---|---|
| MIB services, class C, multicast | copies of parameters; the application stays in class A and sets no multicast keys |
| EU868: `DlChannelReq`, `RxParamSetupReq`, `TxParamSetupReq`, receive windows, powers, rates of joins | frequencies and timing, one assignment each |
| other regions | not compiled |
| cryptography | arithmetic on bytes; a MIC is right or wrong |
| a millisecond between two readings of the clock in `ScheduleTx` (RegionCommon.c:182) | the readings are microseconds apart; a delay wrapped to 49 days would follow |
| the clock beyond 49.7 days | 32 bits of milliseconds are beyond TLC; section 6 says what happens |
| serial port, FIFO, UART, printf, GPS | planned; the application only prints, and a GPS position is there or not |
| low power mode | never entered: `GetBoardPowerSource` returns `USB_POWER` |
| `StartCad`, `IsChannelFree`, `Random`, continuous reception | not called by the EU868 class A MAC, or class C |
| board, buses, pins, ADC, EEPROM, delay | register accesses, no protocol between contexts |
| sensors | values are payload |
| USB CDC and DFU | not compiled |
| `lib/wakeup`, `stm32flash_src`, HAL, CMSIS, USB library | for another framework, or third party: most of the lines of this repository |

Payloads, ports, keys and wording are left out of the modelled parts: no property
tells them apart.

## 8. Plan

In order of what matters most to the node. Items 1 to 9 are done.

1. **Timers**: `TimerService`, `TimerList`, proofs, `TimerListRace`.
2. **MAC**: `LoRaMac`; safety, liveness of confirmations.
3. **Application**: `App` over `LoRaMac`.
4. **Radio driver** with proofs; **MAC commands**.
5. **Downlinks**: `DownlinkService`, `Downlink`, proofs.
6. **Clock and duty cycle**: `Rtc`, `DutyCycle`.
7. **Channels and ADR**: `EU868` under `MacCommands`, proofs.
8. **Proofs of the MAC, the application, the commands, the race of the timers**,
   and of the steps of `TimerList` against `TimerService`.
9. **Proofs of the clock and the duty cycle**: `ClockRight` for any calendar, with
   the sums of days as recursive functions; `AlarmInTime` for any months;
   `DutyKept` for any number of bands, from what `ClockRight` says of the clock.
10. **Serial port and GPS**: FIFO as an abstract bounded queue and its ring buffer
    as refinement; sentence buffer; position read by the main loop.
11. **MIB and class C**, if an application comes to use them.
