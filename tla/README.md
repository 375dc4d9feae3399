# Formal models of DeckBtUsb

TLA+ specifications of the DeckBtUsb driver (`src/src`): a Windows KMDF driver
that emulates a USB Bluetooth radio with UdeCx and carries its HCI traffic to a
Qualcomm QCA2066 on a UART. The specifications are translated from the C code,
checked with TLC on small instances, and, where marked, proved with TLAPS for
every value of their constants.

Source paths below are relative to the repository: the driver is
`src/src/driver`, its OS-independent parts `src/src/common` and
`src/src/include`, the lower filter `src/src/filter`, the host-side self tests
`src/tools`.

## 1. Inventory

| Component | Code | State | Operations | Interacts with |
|---|---|---|---|---|
| HCI bridge | `common/hci_bridge.c` | readiness, hold slot, ACL credits and handle table, event/ACL/SCO FIFOs | SubmitCommand/Acl/Sco, OnEvent/OnAcl/OnSco, PopStream, SetReady, Reset, Init | endpoints above, UART below; every call under the controller lock |
| Endpoint streams | `driver/endpoints.c` | parked IN transfers | park, drain, complete | backend FIFOs; the read completion, the parking callbacks and EP0 all run drains |
| SCO pacing | `driver/endpoints.c`, `common/sco_usb.c` | OUT ring, two clocks, two parking queues, the timer flag | accept, kick, tick, flush | host transfers, timer, bridge |
| Synchronous framers | `common/sco_usb.c` | packet under reassembly, IN byte FIFO | OutPush/OutRelease, InAccept/InFill, resets | SCO pacing, bridge |
| UART session | `driver/qca_uart.c` | flags, events, final record, worker, monitor, thread list | arm, run, cancel, stop, publish, retire, join | PnP callbacks, child creation |
| PnP and power callbacks | `driver/driver.c` | BackendPrepared, UsbDevice, RearmOnD0Entry, PlugGate | prepare, D0 entry/exit, release, removal, cleanup, plug, unload | session, bridge |
| UART read pump, write slots | `driver/qca_uart.c` | one read request, eight write slots, ActiveIoCount, CancelTarget | start, complete and re-post, quiesce, purge, asynchronous write, release | session, decoder |
| QCA2066 bring-up | `common/qca_init_fsm.c`, `qca_tlv.c`, `driver/qca_uart.c` | state machine, selected NVM, segment indices | Next, OnPacket, timeouts, fallback, switch of rate, handback | worker loop, read completion |
| Identification | `common/qca_identify.c`, `driver/qca_uart.c` | rung of the ladder | next rate, answer, verdict | bring-up, handback |
| In-band sleep | `driver/qca_uart.c` | pending acknowledgement, CTS/RTS | on byte, service, wake | decoder, worker |
| H4 codec | `common/h4_codec.c` | decoder state | feed, reset, encode | read completion |
| Voice route | `common/sco_route.c` | counters of pending rewritten commands | rewrite, restore | bridge submit, event delivery |
| USB device | `driver/device.c`, `common/usb_descriptors.c` | endpoints, alternate setting | create, configure, reset | endpoints, bridge |
| HCI stub | `driver/hci_stub.c` | one FIFO | command, pop | endpoints (development device) |
| Backend arming | `driver/driver.c`, `include/arming.h` | registry values, the stub claim, the record | choose, consume, release, publish | start of a devnode, session |
| Bus-time filter | `filter/deckbtflt.c` | table of devices, saved and made-up interfaces | add, clean up, query, hooked calls | USB stack below, client above |
| isotest, tools | `isotest/`, `src/tools` | - | - | outside the radio's data path |

What is hard in this code is not its algorithms but who runs when: callbacks of
the framework run in parallel and at two interrupt levels; the controller lock
is released around every framework call; a session outlives the callback that
starts it and may be stuck in a lower driver for ever; the device sleeps with a
radio the host still sees; and the controller on the other end of the line has
a rate, a firmware and a sleep of its own that the driver must track from what
it hears. The `hazards` in `PROJECT.json` list each place.

What makes the components correct:

- **bridge**: what it lets out never exceeds what the controller has room for,
  and every credit is accounted for; a command held back is sent once, in order;
- **streams**: one queue whose oldest packet goes to one transfer, and no reader
  sleeps beside a packet;
- **SCO**: completions follow the air rate, nothing parked is forgotten, the
  unserialised timer callback never overlaps itself; packets go out whole
  whatever is dropped;
- **session and power**: one worker at a time, one final record per session, no
  callback waits for the lower driver, a child only where a session is, no
  thread behind the unload;
- **read pump**: one reader, nobody at the target after its release, a line that
  stays read;
- **bring-up**: every wait is bounded, the images arrive whole, and the
  controller is never talked to at a rate it does not listen at;
- **line**: packets come out whole and in order, answers under the opcode the
  host sent;
- **arming**: one stub radio at a time, one life of the machine per arm;
- **filter**: a call is answered for the device it was made on, where the bus
  context of the interface can tell it.

## 2. Modules

| Module | Models | Extends |
|---|---|---|
| `HciBridge` | `hci_bridge.c` alone, under any input | |
| `BridgeLink` | the bridge between host and controller, with sessions | `HciBridge` |
| `UartSession` | worker, monitor, PnP and power callbacks, unload | |
| `ReadPump` | the read request, the write slots and the release of the target | |
| `QcaInitFsm` | images and the bring-up state machine, as operators | |
| `QcaBringUp` | the worker's line: ladder, reset, bring-up, steady session, handback, in-band sleep | `QcaInitFsm` |
| `UartLine` | the line in steady state, byte by byte: decoder and voice route | |
| `ScoPacing` | the isochronous pacing | |
| `ScoFraming` | the two synchronous framers | |
| `PacketPipe` | what a host may rely on of an inbound stream | |
| `EndpointDrain` | one inbound stream, its readers and their drains | instantiates `PacketPipe` |
| `BackendArming` | arm, claim, record and crash | |
| `BusTimeFilter` | the lower filter | |
| `LinkProofs` | theorems about `HciBridge` and `BridgeLink` | `BridgeLink`, `TLAPS` |
| `SessionProofs`, `BringUpProofs`, `EndpointDrainProofs`, `ArmingProofs`, `BusTimeProofs` | theorems | their component, `TLAPS` |
| `ReadPathProofs` | theorems about the read path | `ReadPump`, `UartLine`, `TLAPS` |
| `VoiceProofs` | theorems about voice | `ScoPacing`, `ScoFraming`, `TLAPS` |
| `MCxxx` | the small instances TLC checks | each its component |
| `MCBridgeArming`, `MCLineFilter` | small instances of two components that share no state: a behaviour is of one of them (`part`) | the two |

A definition named `BugXxx` is a variant of the definition after it with a
plausible programming mistake. It is used in no specification; replacing the
definition by it must make TLC find a violation, which shows that the property
can fail.

### HciBridge and BridgeLink

`ready`, `held`, `totalAcl`, `availAcl`, `outstanding` (the handle table: its
domain is the set of slots in use) and the four FIFOs are the fields of
`HCI_BRIDGE`. Each action is one exported function with everything it changes:
`OnEvent` first snoops (buffer size, completions, disconnection), then decides
whether the event is queued, as the code does, so that a full FIFO still
credits. The 16-bit arithmetic is `% (U16Max + 1)`, in the order of the C
expressions. Packet contents, framing checks (a malformed packet changes
nothing) and the diagnostic counters are left out.

`BridgeLink` puts that bridge between a host that follows the Bluetooth
initialisation and flow control rules and a controller with `AclBuffers`
buffers, over two bounded UART queues. `SessionReady`, `SessionStop`,
`SessionRearm` and `ReplaceDevice` are the session's part. `world` is what the
surroundings are like in a behaviour: does the host count credits itself, may
the UART refuse a write, how many sessions are there. The host knows of a
disconnection when it has read the event, not when the bridge snoops it, so it
may send on a connection that the bridge has already forgotten. `strays` is a
history variable that counts the packets the bridge charged to such a handle;
`EndIsSnooped` says, for the history alone, that the disconnection is over and
past the bridge.

### UartSession

One variable per flag, event and gate of `QCA_UART` that two threads share; the
program counters `wrk`, `mon` and `pnp` are the places between two waits or two
reads of shared state. Threads are indexed by session number, which the code
does not have: it lets the model see a thread that outlives its session. A
thread is created, then put on the list the unload joins, in two steps
(`MonitorCreates`, `MonitorInserts`). The I/O of the bring-up and of the steady
loop is reduced to "succeeds, fails, or never returns"; `QcaBringUp` and
`ReadPump` look inside.

### ReadPump

`worker` is where the worker is inside `QcaUartStartReadPump`,
`QcaUartQuiesceRead` and the release, `dpc` where the read completion is,
`slot` and `sending` the write slots, `io` is `ActiveIoCount`. `stage` is what
the worker is about; it decides whether a failed read is a fault of the line.
`lineFault` is a history variable that says that the line really failed.
Timeouts may expire at any moment, except that the 60 s of the bring-up do not
expire on the read of the handoff (`DeadlineNear = FALSE`, section 6).

### QcaInitFsm and QcaBringUp

`QcaInitFsm` is the state machine of `qca_init_fsm.c` as operators on records
(`FsmNext`, `OnPacket`, the timeouts), with images reduced to type, sizes,
download mode and tags: whatever decides on segments, acknowledgements and the
place of the baud byte. `QcaBringUp` is the worker around it: `QcaUartEnsureRom`
and its ladder, `QcaUartRunProbe`, the switch of the baud rate, the handoff,
`QcaUartServeSteady` with the in-band sleep handshake, and `QcaUartHandback`.
Every request of the worker may fail. The controller (external) has a rate, a
firmware and a sleep state; what is said at another rate is lost in either
direction. Three history variables are for `HandedBack`: `touched`, a controller
that the session moved; `unnoted`, a request that failed between the command to
move and the note of it (`SwitchFails`); `excused`, a handback that met a fault
itself. `ImagesWhole`
compares everything the controller received (`ctl.got`) with what it should
have: the whole patch, then the whole selected image, the baud byte set in the
one segment that carries it, and nothing else but, before a fallback, the
beginning of the board's own image.

### UartLine

`feed` by feed of one byte, under the controller lock: `type`, `buffer` are the
decoder's, `pending` the two counters of `SCO_ROUTE`. `sent` is what the
controller put on the line, `heard` what the callback got. A command's or
connection's two-byte name is one byte here, and so a header is one byte
shorter; the oversize check and the resynchronisation are the code's.

### ScoPacing and ScoFraming

Each accepting callback (`acc`), the timer callback (`tick`) and the flush
(`flush`) has a program counter that stops wherever the code releases the lock
or leaves a queue operation. `ScoTimerArmed` is `armed`; `timerQueued` is the
framework's own state of the timer, which the flag stands for. Time is counted
in frames: a packet with voice takes `VoiceSpan`, any other one frame.

`ScoFraming` follows the bytes instead of the time: an OUT byte is its position
in what the host sent, an IN byte the packet that brought it and its place in
it. When a chunk leaves the ring is left open. The two halves share only the
flush, so a behaviour looks at one of them.

### PacketPipe and EndpointDrain

`PacketPipe` is the promise: a bounded queue whose oldest packet is given to one
transfer, or lost by an overflow or a reset. `EndpointDrain` keeps it with
drains that hold no lock: the places between their lock and queue operations,
for every thread that runs one (the read completion `"wire"`, the control
requests, the callback that parked each transfer), behind the bridge or behind
the stub, whose answers are queued by the control request itself. A pop fails
for an empty FIFO and for a packet that does not fit. `Pipe` maps the one to the
other: a packet is given when it is popped, not when its transfer completes.

### BackendArming

`reg` is the registry in memory, `disk` what survives a crash; `ZwFlushKey` and
the system bring the disk up to date. `claim` and `holds` are the process-wide
claim and the flag of the devnode that has it. A session's record is reduced to
two values and the commit value, each naming who wrote it. A crash may fall
between any two steps and takes memory and what was not flushed.

### BusTimeFilter

`table` is `g_FilterDevices`; `saved` and `iface` are what the filter kept from
the stack below and what the client holds. The modes of `IsochClockMode` decide
at the query and at every call. The lookup of a call (`walk`) takes no lock and
is modelled place by place: the three loops of `FindContext` (`LookForSelf`,
`LookForSaved` and `CompareSaved`, `LookForAny`) interleave with devices that
come, go, are queried and dropped. The pointer read from the table and the
context behind it are read in two steps; what is read in a context that has gone
meanwhile may be anything, and the history variable `freed` notes it. The bus
context of a stack is NULL or any of `BusContexts`, also one that another stack
gave; `Told` is the condition that it names one attached device only. Calls of
several clients only read and count, so one at a time stands for all.

## 3. Runs

| Run | Instance | Distinct states | Shows |
|---|---|---|---|
| `bridge_and_arming` | bridge: 3 handles, 2 slots, counters end at 3; arming: 2 devnodes, 2 values set, 1 failure, 1 crash, 2 records | 1 902 324 | credit ceiling, no wrap; the claim has one owner, one life per arm, whole records |
| `link` | 2 handles, 2 buffers, 4 commands, 1 USB reset, two worlds | 1 485 495 | credits accounted for, no overcommit, commands in order, a held command is answered |
| `session` | 2 sessions | 203 944 | ownership, reporting, no child behind a release, no thread behind the unload, one final record, callbacks return, cancelled sessions retire |
| `read_pump` | 2 slots, 3 starts, 3 reads | 202 062 | one reader, the release owns everything, a drain is no fault, the line is read, a stop releases |
| `bring_up` | 4 sets of files, 3 states of the controller, 1 trouble, a stop | 564 335 | the ladder is right, nothing is said into the void, whole images, handback, the bring-up ends, a wake is answered |
| `line_and_filter` | line: 2 commands, 2 packets unasked, 1 reset; filter: 3 devices for 2 places, modes 1 and 2 | 4 515 532 | packets arrive, answers name the command; a call is answered by its own stack, in its mode |
| `sco_pacing` | 2 transfers, 1 flush, a ring of one chunk | 1 260 058 | one owner, nothing stranded, air rate, every transfer ends |
| `voice_framing` | 4 packets out, 6 in, a ring of 3, 1 flush | 2 044 889 | packets whole after a loss, voice heard again, voice in under its header |
| `event_path` | 4 packets, 2 readers, 2 commands, 1 reset, FIFO of 2 | 515 427 | no lost wakeup, the promise of `PacketPipe`, readers are served |
| `session_forgotten` | 2 sessions | violation | the first finding of section 5 |
| `link_late_data` | 1 session, a UART that takes every write | violation | the second |
| `bring_up_unnoted` | as `bring_up` | violation | the third |

### Why the bounds are enough

- *bridge_and_arming*, the bridge: two slots for three handles fill the table, totals from {0, 1, 3}
  include a buffer size below what is in flight, completions report more than
  was sent, and counters that end at 3 wrap as soon as a check is missing. The
  theorems remove these bounds.
- *link*: two buffers are the smallest number for which one packet can be at
  the controller and one on the UART; two handles let one connection end while
  the other holds credits; four commands are a whole initialisation, a USB reset
  and a second one. An event FIFO of one place is full whenever the host has not
  read; the safety properties were also checked with two (8.9 million states). The world that refuses writes has one session, the one with
  a sleep and a replacement accepts them: the product of the two is out of reach.
- *session*: one session and its successor, by a resume or a restart. The safety
  properties were also checked with three (913 000 states), and are proved for
  any number.
- *read_pump*: three starts are the ladder, the bring-up and the handoff or the
  handback; a second slot is sent while the first is cancelled; two callbacks on
  their way out overlap a third.
- *bring_up*: images of one to three segments, with the baud byte in the first
  or a later one, or with the NVM tag too short for it; the board's file missing,
  the generic one missing, or both there; the controller in ROM at either rate,
  or patched and asleep. One trouble anywhere (a request that fails, an answer
  that does not come, a death) and a stop anywhere; the safety properties were
  also checked with two troubles (1.7 million states).
- *line_and_filter*, the line: three packets that look like starts of others, an oversize ACL
  length, and a reset between any two bytes. Two commands let the answers of one
  kind meet the counter of the other.
- *pacing*: two transfers race in both directions or in one; one of them carries
  two packets; a ring of one chunk overflows; one flush cuts a stream in two.
- *voice_framing*: chunks of one to five bytes cut a header anywhere, hold two
  packets, or fall exactly on them; a ring of three loses the middle of a packet
  of five; controller packets are smaller, equal and larger than a USB packet,
  change the link in mid-packet, and one is broken.
- *event path*: two readers and five draining threads are the smallest instance
  with a packet raced for, a transfer raced for and a command whose drain is
  beside the next one's; a FIFO of two with four packets overflows; one packet
  does not fit one of the readers.
- *bridge_and_arming*, arming: two devnodes for one claim; two values set, so
  that both tokens are armed, an arm is taken back, or a second arm is set while
  the first is being consumed; a failure, so that a claim is given back, and a
  crash.
- *line_and_filter*, the filter: three devices for two places, so that one stays
  outside, a place is used again, and devices change under each of the three
  loops; one bus context for all, so that it is shared, comes back after a
  removal, or is NULL. Two bus contexts were checked besides (2.8 million
  states).
- *link_late_data*, *bring_up_unnoted*: the smallest world in which the case
  happens, and the instance of `bring_up`.

`CHECK_DEADLOCK FALSE` stands where a system may stop: the removed or unloaded
device (`session`), the closed target (`read_pump`), the ended bring-up
(`bring_up`), and where the bounded environment has nothing more to say
(`line_and_filter`, `voice_framing`, `event_path`, `sco_pacing`).

### Fairness

- `LinkFairness`: the bring-up ends, the controller consumes its queue, the read
  completion delivers, the host keeps an event reader posted. The host is never
  forced to send. The controller's part is strong fairness because a full UART
  queue disables it again and again.
- `CallbackFairness`: a framework callback goes on and creating the child is
  bounded (20 attempts). Nothing is assumed of the worker or the monitor, because
  the code's comments allow a lower driver that never completes a request.
- `ThreadFairness` is a premise of `CancelledSessionRetires` alone: with a lower
  driver that does complete what is cancelled, both threads move.
- `ReadPump!Fairness`: threads run and in the end get the spin lock they wait
  for (strong fairness, also for a stop that waits for the lock); what is
  cancelled and what is written completes. The line owes no data.
- `QcaBringUp!Fairness`: the worker runs, but nobody owes it an end of the
  steady session; what the controller sent arrives and is read. Strong fairness
  for the acknowledgement alone: CTS comes and goes, and is not low for ever. A
  controller that asked to talk asks again.
- `ScoPacing!Fairness`: threads run, a timer that is set fires, time passes.
- `EndpointDrain!FairSpec`: a drain that began goes on. No packet and no reader
  is obliged to arrive.

## 4. Proofs

TLAPS proves, for every value of the constants (handles, transfers, readers,
slots, sessions, devices, images, depths, bounds, and the number of faults,
failures and crashes):

| Theorem | Module | States |
|---|---|---|
| `TypeCorrect` | `LinkProofs` | `Spec => []TypeOK` of the bridge |
| `CreditsRespectCeiling` | `LinkProofs` | `Spec => []CreditCeiling` |
| `CreditsNeverWrap` | `LinkProofs` | `Spec => []NoWrap` |
| `HoldSlotEmptyWhenReady` | `LinkProofs` | `Spec => []HeldOnlyUnready` |
| `CommandsKeepTheirOrder` | `LinkProofs` | `LinkSpec => []CommandsInOrder` |
| `ControllerIsNeverFlooded` | `LinkProofs` | `LinkSpec => []NoOvercommit` |
| `CreditsAreAccounted` | `LinkProofs` | `LinkSpec => []CreditsAccounted` |
| `TimerHasOneOwner` | `VoiceProofs` | `Spec => []OneOwner` |
| `NothingIsStranded` | `VoiceProofs` | `Spec => []NothingStranded` |
| `TransfersFollowTheAir` | `VoiceProofs` | `Spec => []AirRate` |
| `HostPacketsStayWhole` | `VoiceProofs` | `FramingSpec => []OutWhole`; the property leaves out what follows a loss before the first packet |
| `VoiceIsHeardAgain` | `VoiceProofs` | `FramingSpec => []AfterDropHeard`, likewise |
| `VoiceInIsFaithful` | `VoiceProofs` | `FramingSpec => []InFaithful` |
| `FramingTypes` | `VoiceProofs` | `FramingSpec => []FramingTypeOK` |
| `NoWakeupIsLost` | `EndpointDrainProofs` | `Spec => []NoLostWakeup` |
| `StreamTypes` | `EndpointDrainProofs` | `Spec => []TypeOK` of the drains |
| `DrainImplementsPipe` | `EndpointDrainProofs` | `Spec => ImplementsPipe`, the refinement |
| `ClaimIsOwned` | `SessionProofs` | `Spec => []ThreadsOwnTheSession` |
| `SessionsAreReported` | `SessionProofs` | `Spec => []EverySessionReported` |
| `ReleaseLeavesNoChild` | `SessionProofs` | `Spec => []NoChildBehindRelease` |
| `UnloadIsLast` | `SessionProofs` | `Spec => []NoThreadBehindUnload` |
| `FinalIsFinal` | `SessionProofs` | `Spec => FinalRecordStands`, an action property |
| `RequestHasOneUser` | `ReadPathProofs` | `Spec => []OneReader` |
| `ReleaseIsAlone` | `ReadPathProofs` | `Spec => []ReleaseOwnsAll` |
| `FaultIsReal` | `ReadPathProofs` | `Spec => []DrainIsNoFault` |
| `LineStaysRead` | `ReadPathProofs` | `Spec => []LineIsRead`, if `DeadlineNear` is FALSE |
| `PacketsArrive` | `ReadPathProofs` | `LineSpec => []FramesArrive` |
| `AnswersAreNamed` | `ReadPathProofs` | `LineSpec => []AnswerNamesCommand`, if there is no reset or no packet holds what looks like an Enhanced command |
| `LineTypes` | `ReadPathProofs` | `LineSpec => []LineTypeOK` |
| `LadderTellsTheTruth` | `BringUpProofs` | `Spec => []LadderIsRight` |
| `NothingSaidIntoTheVoid` | `BringUpProofs` | `Spec => []SpeaksAtItsRate` |
| `ImagesArriveWhole` | `BringUpProofs` | `Spec => []ImagesWhole`, if `LateAnswers` is FALSE |
| `MovedIsHandedBack` | `BringUpProofs` | `Spec => []HandedBack`; the property leaves out a move that failed before it was noted |
| `ClaimIsHeld` | `ArmingProofs` | `ArmingSpec => []ClaimHasOwner` |
| `ArmsWorkOnce` | `ArmingProofs` | `ArmingSpec => []OneLifePerArm` |
| `CommittedIsWhole` | `ArmingProofs` | `ArmingSpec => []RecordIsWhole` |
| `CallsFindTheirDevice` | `BusTimeProofs` | `Spec => []AnsweredByItsStack`; of devices with a place and a context of their own, and of those without a place |

The assumptions are those of the modules' `ASSUME`: finite sets of handles and
slots, positive depths, values that stand for "none" outside the sets they
complete, sizes and tags of images that are numbers, and two about the world:
what enters the bridge of `BridgeLink` is what its host and controller say
(`LinkInputs`), and a controller found at 115200 baud is in ROM, as the comments
at `qca_uart.c:2251` and `:2295` have it (`Entries`). The three theorems with
a condition of their own (`LineStaysRead`, `AnswersAreNamed`, `ImagesArriveWhole`)
exclude the hazards that section 6 describes.

**Bridge.** One inductive invariant, `IInv`, in three parts: the types of the
queues, the types of the credit state, and the credit ceiling *available credits
+ packets in flight <= controller buffers, or no credits at all*.
`CreditCeiling` alone is not inductive: charging a packet keeps it only if the
slot found for the handle is in the table and the sum over the table does not
wrap, which in turn needs the ceiling. The lemmas about the sum of the handle
table (removing or changing one slot) are stated once over any table, because
the proof of every action that touches the table cites them.

**Link.** Three arguments over one invariant, `LInv`. *Credits* (`Balanced`,
`TrueAccount`): available credits and the bridge's table add up to the
controller's buffers, and the entry of a live connection is what the controller
holds, will take and has reported of it; of a connection that is gone, whose end
the bridge has seen, the entry is the packets that strayed to it since, and no
more. So in silence what is missing from the credits is exactly the strays. This account is not true from the start of
a device: the bridge of a replaced radio is new, but the line may still carry
what concerns the old one. `Life` says how the first `HCI_Reset` makes it true:
the reset is the last packet on the line while it is awaited, and its completion
is the last event, so that whoever reads it finds nothing left over. *Load*
(`LoadCharged`): the packets of live connections at or on the way to the
controller are mapped one to one to charged credits, by handle and by place in
the line, so that their number cannot exceed the buffers, whether or not the
host counts too. *Order* (`InOrder`): issue numbers rise through the event FIFO,
the line from and the line to the controller, and a held command is younger than
all of them, which is why replaying it last is in order.

**Pacing.** `ScoTimerArmed` is set exactly while a starting kick, the timer or a
running tick owns it, and these exclude each other (`Exclusive`). `OneOwner`
follows. `NothingStranded` needs it: the last check of a tick clears the flag,
which is harmless only since the tick was the flag's one owner; were a second
timer possible, its flag would be cleared with transfers parked. Flush, host and
clock touch no owner and only empty queues.

`AirRate` has an invariant of its own (`AirInv`). The slots given to the
transfers of one direction and stream begin after the arrival of their transfer
and do not overlap, and a completed transfer's slot is over; so the frames of
the slots of any set of completed transfers are distinct frames between the
first arrival and now, and counting them gives the bound. That no completed OUT
transfer has voice left needs the ring to be in the order of its due frames
(`RingInv`): the tick hands over a prefix, and what it leaves is not yet due.

**Framing out.** A byte is its place in the host's stream, so what the framer
holds is stated as places too. The chunks in the ring lie one behind the other
and end where the host is (`PiecesInv`), and a packet that began an isochronous
packet begins its chunk (`Placed`). In step (`Assembling`), what is put together
is the beginning of one packet, and the oldest chunk continues it; every packet
emitted came before. Behind a loss (`Waiting`), nothing is put together, the link
waited for is a real one, and no packet at which the stream may start again has
gone by: only such a packet can begin the chunk that ends the wait, because a
voice byte never looks like half a handle. `OutWhole` and `AfterDropHeard` are
read off the two cases. Inside a release the packet grows byte by byte;
`Reassembled`, like `Start`, is a recursive function, shown to follow its equation
up to its bound (`Unfolds`), over which the induction runs (`UpTo`).

**Framing in.** What the host has and what is framed for it form whole frames
(`Frames`); what waits in the framer may follow them (`Queued`): it is voice of
one link in its order, its first byte goes on where the last frame ended, its
last byte ends a packet or the link has changed since, and wherever a
frame could end inside it the byte is of the packet whose header will be used.
That last part is why a fill pulls packets only until one payload waits: were one
more pulled, the frame would go out under a later packet's header. `Rising` adds
that the bridge's packets are younger than all of it. The split of a frame
between transfers disturbs nothing, because the invariant speaks of the host's
bytes and the rest of the frame together.

**Streams.** `NoLostWakeup` is inductive together with the points a drain may be
at: a drain goes idle only beside an empty queue, and whoever fills a queue is
not idle afterwards. The one step that fills without draining is a read whose
packets all met a full FIFO, and then the FIFO was not empty. The refinement
needs more: who has popped which packet is given it in `PacketPipe` while the
transfer is still in the drain's hands, so the mapping is a function only if a
taken transfer has one owner and no completed one is taken again; the invariant
says that, and that the queue holds no packet twice.

**Sessions.** The claim `ProbeActive` is the root: while it is up, the live
threads are those of the last session armed, so that flags and events, which all
sessions share, speak of that session. When it goes down, no thread is left and
the session has its final record. The conjuncts of `IInv` say who may hold each
gate (`GateHeld`, `PlugSafe`), how far the worker is when an event is set
(`EventsTell`), why a stop was cut short (`StopTells`), and which threads are on
the list that unload joins (`Listed`). None is inductive alone.

**Read pump.** `ActiveIoCount` is the root: as long as it is the number of those
who may touch the target (`CountedOwners`), a worker that finds it zero knows
that nobody is there, both when it starts the reader again and when it closes
the target. That nobody comes back takes two more facts (`Retired`): the last
phase keeps senders away, the purged target the callers of the purge. That the
request has one user (`OneUser`) is inductive only with the count, because a
quiesce waits for the count and not for the completion. `DrainIsNoFault` needs
to know that whatever cancels a read has ended the pump before (`FaultTells`).
`LineStaysRead` adds the same for the steady session (`LineInv`); it assumes that
the bring-up's 60 seconds do not expire between the start of the reader for the
handoff and the lifting of the budget, a few milliseconds later.

**Line: the decoder.** What the decoder holds is related to what the line
carried by places, not by cutting the line up: in step, its buffer is the
beginning of the packet that starts where the last one ended, and what follows
is where the controller is (`DecoderInv`). Out of step, after a reset in the
middle of a packet, the buffer never begins where the packet of the line does,
so that what it emits is not counted as that packet.

**Line: the voice route.** `RouteInv` counts: for each opcode, the answers the
controller still owes in Legacy form are no more than the route's `pending`
counter, so that an answer that is owed finds its counter above zero and is
rewritten. A reset clears the counters, and a counter is above zero only when
nothing asked before the reset is still on the way. But what the decoder takes
for an event in the middle of a packet might name an Enhanced command and use up
a counter; the theorem therefore assumes that there is no reset, or that the
controller's data hold no such opcode (`Undeceived`).

**Bring-up: rates.** The worker's place and the machine's state fix both rates:
until the machine has sent 0xFC48 it is *early*, and port, note and controller
are at 115200 (`AtInit`); from the switch on they are at the operating rate
(`AtOper`); between the two the worker is in one of three places (`Moving`).
`RateInv` says this, `MachineInv` ties the state to the place. None of it starts
unless the ladder is right: `LadderInv` says that an answer read on a rung was
sent at the rate of that rung by a controller that is awake there, because each
rung purges what an earlier one left. The handback (`HandbackInv`) rests on
`MoveNoted`: a controller that was moved is noted as moved, as soon as the worker
is past the three places, unless a request failed there (`unnoted`).

**Bring-up: images.** `DownInv` adds to that what has arrived. Its parts: the
worker waits exactly while the machine has asked and was not answered
(`TurnInv`); at most one acknowledgement is on its way, and only while the last
segment is unanswered (`AckInv`, where late answers would enter); and what the
controller has is the segments up to the machine's index, one more once that
segment is acknowledged (`GotInv`: `SendingNext`, `GotSent`, `GotAll`). A segment
that is sent without waiting is counted when it is written. `TagStart` is a
recursive function: the proof shows that some function obeys its equation (by a
least counterexample, `FirstOf`) and that any two agree, so that the place of the
baud byte lies inside the image and `CarriesBaud` names one segment of it.

**Arming.** `OwnedClaim` ties the claim to the one devnode that holds it through
each step of a start and a release. `SpentArms`: an arm is found in one value at
most, in memory or on disk (`ValuesApart`); a devnode that is past the flush has
made it vanish from both (`Spent`); so what a crash brings back is no arm that
was started with (`StartedGone`). `OnePublisher`: unless two published at the
same time, a publisher that is under way is alone, and the fields before its
commit word are its own.

**Bus time.** Two invariants, one of the table and one of the lookup under way.
*Table* (`Inv`): a hook is only ever handed out after the bus context was saved,
or with the filter's own context (`HookKnows`); what is saved of a device is its
own stack's context (`OwnContext`); a device has one place while it is attached,
so that cleaning up one place forgets it (`OnePlace`), and a context that comes
back finds nothing of the earlier device (`NothingLeft`). *Lookup* (`WalkInv`):
a device with a place and a context is still ahead of the loop that can tell it
(`OnTheWay`: `LookForSelf` if the context is the filter's own, `CompareSaved`
otherwise), because the client keeps its device, and so its place, during the
call; so the last loop, which guesses the first device, is never reached for it,
and what is found has saved its context. That this is the device itself and not
another is where `Told` is needed, and that the context found is still there
(`InHand`) is where `freed` is.

Model-checked only: the eight liveness properties, since the prover has no rules
for fairness. Every other property of a passing run is proved, the action
property and the refinement among them, some under the conditions of the table.
Recursive functions stood in the way of some: what one computes for every
input is an induction over data, which the prover cannot do in general. Where the
domain is bounded (`Start`, `Reassembled`, `Pulled`, `TagStart`), a least
counterexample serves instead: it shows that some function obeys the equation, so
that the chosen one does.

## 5. Findings

*A sleep during the first plug-in is forgotten* (`session_forgotten`). D0 exit
reads `UsbDevice` without the gate under which the worker sets it. A sleep that
begins while the worker, already past `SteadyReady`, is creating the child finds
no device and does not mark the controller for re-arm; the child created during
the stop stays, after the resume, without a session.

*A late ACL packet leaks its credit* (`link_late_data`). The bridge frees the
slot of a handle when it snoops the disconnection, and reserves one for any
handle it does not know (`hci_bridge.c:321`). A packet that the host submits
before it has read the disconnection is charged to a connection that is gone; no
completion will ever name it. The credit stays missing until that handle is
disconnected again or the bridge is reset, where `hci_bridge.h:65` speaks of
"preventing credit leaks on disconnect". `CreditsAccounted` and its theorem say
that nothing else is ever missing.

*A move that is not noted is not undone* (`bring_up_unnoted`). When a request of
`QcaUartSwitchBaud` fails after the baud command has reached the controller, the
loop ends before `BaudFinal` is noted (`qca_uart.c:2991`), and the exit, which
looks at `BaudFinal`, skips the handback that the comment above it promises for a
controller "moved to the operating rate". `HandedBack` and its theorem say that
this is the only such case but for death, a stop and faults of the handback
itself.

## 6. Assumptions, and what they exclude

Each of these is a place where the code is known to behave otherwise outside the
assumption; the `hazards` in `PROJECT.json` name the lines.

- *The replacement after a sleep* may see the answer to a command of its
  predecessor that was held over the sleep and replayed before the flush
  (`driver.c:197-209`). The host of `BridgeLink` ignores such an answer.
- *A failed re-arm* leaves the old radio plugged in without a session, where the
  documentation says it is left absent (`driver.c:174`). The release still takes
  it (`NoChildBehindRelease`).
- *Answers later than 2 s* (`LateAnswers = FALSE` in `bring_up`, and in
  `ImagesArriveWhole`). An acknowledgement that arrives after the fallback to
  another NVM image counts for a segment of it. Answers later than their rung
  of the ladder are in the model.
- *The end of the 60 s on the read of the handoff* (`DeadlineNear = FALSE` in
  `read_pump`): the cancelled read ends the pump and nobody reads the steady
  line.
- A controller that answers or listens at 115200 baud before the session is in
  ROM (`Entries`), which is what the ladder takes such an answer for.
- The controller obeys a change of rate and a segment without an acknowledgement,
  and has nothing in flight 200 ms after a reset (`QcaBringUp`).
- The host asks for voice links only in the legacy form, and after a reset only
  when all earlier answers have come, and what the controller sends unasked are whole
  packets, none of them an answer to an Enhanced command (`UartLine`,
  `DataAssumption`); it begins a voice stream with
  a whole packet, and voice does not look like a connection handle
  (`ScoFraming`). A chunk lost before the first packet of a stream is through
  leaves no link to wait for, and a packet may then be spliced (`drop.early`).
- *A device that goes during another's call* (`BusTimeFilter`): the lookup may
  then read a freed context (`deckbtflt.c:127`), and such a call is excepted from
  `AnsweredByItsStack` (`freed`). A bus context that two attached stacks share
  does not tell them apart, and the call may be answered for either (`Told`). The
  reference counts of a made-up interface are on a device object and matter to
  the framework alone; they are not modelled. A client drops its interface only
  when none of its calls is under way.
- *Two publishers of one record* at the same time (`RecordIsWhole`, `mixed`):
  nothing in the code keeps them apart.
- *Waits of the worker* in `CancelledSessionRetires`: that the waits inside the
  bring-up, the idle UART and the delays end with a cancellation is part of
  `ThreadFairness`; only the steady loop, the monitor and the unload are
  modelled wait by wait in `UartSession`.
- Both arming tokens are read at once, and a worker that publishes is the one
  that holds `ProbeActive` (`BackendArming`).

## 7. Not modelled

USB descriptors and the standard requests (constants and straight-line code),
file names and version fields of the bring-up, the table of answers of the stub,
the self-test modes of the probe (scripts that run after a bring-up), the
diagnostic log of the filter, statistics, the isochronous test driver and the
tools. The reasons are in `PROJECT.json` under each component.

Liveness of the composition of all components is not stated: each module takes
what its neighbours do from their module's actions, as said above.

## 8. What could follow

- `BridgeLink` with refused writes and two sessions in one world, once the state
  space allows it.
- A packet lost before the first of its stream is through (`drop.early`): what
  the framer does then could be stated and checked apart.
