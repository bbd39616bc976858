# uNode 2: a TLA+ model of the DMX node

uNode 2 is an ESP8266 node between a network (Art-Net or sACN) and one DMX
line. This directory models its firmware: what decides what is on that line,
who the node talks to, who may change it, and what survives a power loss; and
the tool that tests it. It checks the models with TLC on small instances, and
proves the invariants with TLAPS for every value of the constants. Paths below are
relative to `src/firmware/uNode_2/` unless they start with `src/`.

Run inside this directory:

    tlc -workers 2 -config MCArtDmx.cfg ArtDmxHistory
    tlapm ArtDmxOutput_proofs.tla

`PROJECT.json` lists every run with its module, the mutants that show each
property can fail, the source lines of each definition, the findings, the
hazards and the theorems.

## The system

### How it is scheduled

There is one thread: `loop()` (`uNode_2.ino`) calls `updateNetwork()`, then,
only if that saw a change, `handleArtNetNetworkChange()` and
`handleSacnNetworkChange()`; then `updateArtNet()`, `updateSacn()`, the button,
the LEDs, the WebSocket, the web server and `updateDMX()`. Each runs to its end.
The only preemption is the UART interrupt of the DMX library. What makes the
code hard is therefore not threads but *order*: shared state (the DMX frame, the
configuration, the source tables) is written from packet handlers, from
timeouts, from the web server, from ArtAddress and from Wi-Fi changes, each
clearing a different part of it; time is a wrapping 32-bit counter read at
different points of a pass; the power may go at any point of a save.

### Inventory

| Component | State | Operations | What makes it correct |
|---|---|---|---|
| sACN receiver, `sacn.cpp` | two source slots (CID, sequence, priority, time), `sacnActive`, failsafe flag, time of the last applied frame | packet handler, expiry, failover, failsafe, reset, status reads that expire | live data beats failsafe and the reverse; priority decides; a dead source leaves the output; silence reaches the failsafe |
| sACN socket, `sacn.cpp` | socket, one recorded multicast membership | bind, close, retry | never more memberships than recorded; the group is that of the universe |
| sACN transmitter, `sacn.cpp` | sequence number | send | a newer sequence per packet |
| ArtDmx output, `artnet.cpp` | two merge buffers, LTP index, cancel and lock, ArtSync window and held frame, active and failsafe flags | ArtDmx, ArtSync, AcCancelMerge, merge mode, expiry, output timeout, resets | flags, buffers and the frame agree; one buffer per sender; a lock has one sender; a held frame is released |
| ArtDmx sequences, `artnet.cpp` | four slots by sender | accept, drop, free | no replay of a tracked sender |
| Subscribers, `artnet.cpp` | sixteen entries, version, discovery window | ArtPollReply, timeout, clear | no duplicate, no expired entry, version changes with the list |
| ArtAddress / ArtIpProg, `artnet.cpp` | configuration, pending restart | remote programming | the same effect as the web page |
| Art-Net library, `src/libraries/uNodeArtNet` | poll-reply queue | parse, reply later | every poller is answered |
| Configuration, `config.cpp` | `/config.json`, `.tmp`, `.bak`, `config` | save, load, repair, migrate | a save is atomic; what runs is what is stored |
| Shared frame, `dmx_frame.cpp` | frame, version, test override | set, override, release, expire | each change is seen once; the override ends |
| DMX UART, `dmx.cpp` | interrupt counter, last sent version, transmit times | input, output, keep-alive, bus guard | no change is lost; an occupied bus is not driven |
| Wi-Fi, `network.cpp` | last seen address, back-off | poll, reconnect | a lost connection is retried with a bounded delay |
| UART driver, `src/libraries/LXESP8266DMX` | send and receive state, slot counters, baud rate | transmit and receive interrupts, start, stop | packets are whole and never mixed; the baud rate is steady while a byte is sent |
| Boot and RS-485 hardware, `uNode_2.ino`, `hardware.cpp` | pins, UART, bus guard | setup, recovery, direction changes | the transceiver follows the configuration; a bus in use is not driven |
| Web, `web.cpp` | session, lockout, upload, restart timer | HTTP handlers | no restart into a partial image; a lockout ends |
| Button and LEDs, `uNode_2.ino`, `leds.cpp` | debounced level, press time, layers, patterns | press, locate, mute, update patterns | a press acts once |
| Fixture tool, `src/firmware/rp2040_dmx_tool` | mode, pins, frame being analysed | mode commands, noise, wait | it drives the line only when asked; a frame it reports is one packet |
| Event log, WebSocket, fragment guard | ring, none, none | output | without influence on the above |

They meet in three places. Both receivers and the DMX input write the **shared
frame**; `liveProtocol` and `direction` decide who may. The **configuration** is
changed by the web page (which then calls `applyArtNetRuntimeConfig()`), by
ArtAddress (which resets the Art-Net side by itself) and by the boot bus guard. A
save that needs a restart (`web.cpp:1701`) and an uploaded configuration
(`web.cpp:2713`) change it in RAM and apply nothing: from then on the handlers go by
settings that the receivers, the sockets and the port have not been told of. Six
modules have that as an action, `StoreWithoutRestart` (`StoreUnapplied` and
`ImportConfig` in `NodeBoot`, `DirStoreWithoutRestart` in `ArtNetDirectory`,
`StoreUniverseOnly` in `SacnSocket`), and
where a property does not survive it the history variable `unapplied` says so.
A **network change** resets both receivers, each in its own way.

## Modules

| Module | Models | Composition |
|---|---|---|
| `SacnReceiver` | the receiver in `sacn.cpp` | |
| `SacnHistory` | the same, observed from the senders' side | extends `SacnReceiver` |
| `MCSacnHistory` | symmetry set and view for TLC | extends `SacnHistory` |
| `SacnSocket` | bind, close and multicast membership | |
| `ArtDmxOutput` | ArtDmx on its way to the frame | |
| `ArtDmxHistory` | the same with one history variable | extends `ArtDmxOutput` |
| `MCArtDmx` | view for TLC | extends `ArtDmxHistory` |
| `ArtDmxSequences` | the sequence table before it | |
| `ArtNetDirectory` | subscribers, discovery, delayed poll replies | |
| `DmxPort` | shared frame, test override, `updateDMX()`, both transmitters | |
| `DmxDriver` | the UART driver and its interrupts | |
| `NodeBoot` | setup, bus guard, pins, direction changes, recovery | |
| `NodePanel` | button and LEDs | |
| `WifiLink` | modes, reconnect schedule, temporary client, mDNS | |
| `WebAdmin` | logins, uploads, restarts | |
| `DmxTool` | the RP2040 tool of the fixture | |
| `NodeParts`, `MCNodeParts` | one run over ten modules, `SacnSocket` and those from `ArtDmxSequences` to `DmxTool` | extend them |
| `AtomicConfig` | what the store promises | |
| `OutputArbiter` | what either receiver promises of the shared frame | instantiated by `SacnReceiver` and `ArtDmxOutput` |
| `ConfigStore` | the store, one file operation per step | instantiates `AtomicConfig` |
| `SacnReceiver_proofs` | theorems about the sACN receiver and its history | extends `SacnHistory` |
| `ArtDmxOutput_proofs` | about the ArtDmx output and its history | extends `ArtDmxHistory` |
| `SacnSocket_proofs`, `ConfigStore_proofs` | about these modules | extend them |
| `ArtNetTables_proofs` | about the tables Art-Net keeps of others | extends `ArtDmxSequences`, `ArtNetDirectory` |
| `DmxLine_proofs` | about the shared frame, the UART driver and the tool at the other end of the line | extends `DmxPort`, `DmxDriver`, `DmxTool` |
| `NodeAdmin_proofs` | about boot, web interface, panel and Wi-Fi link | extends `NodeBoot`, `WebAdmin`, `NodePanel`, `WifiLink` |
| `NodeParts_proofs` | about the run over the ten modules | extends `NodeParts` and four of the modules above |

### SacnReceiver

`sources`, `sacnActive`, `failsafe`, `lastPacket`, `socketReady` are the statics
of `sacn.cpp`; `protocol` and `direction` the two fields of `config` it reads;
`output` the shared frame, named by the packet that carried it (CID and sequence
number), or `failsafe`, or `foreign` for whatever somebody else wrote. An
inactive slot is normalised to one value: the code leaves old contents in it and
never reads them. Each iteration of the read loop of `updateSacn()` is an action
(`IgnorePacket`, `ReplayedPacket`, `DataPacket`, `TerminationPacket`), the end of
the call is one of `LoopFailover`, `LoopFailsafe`, `LoopIdle`. Between two calls
(`processed = 0`) come the Wi-Fi change, the three ways to reconfigure the node
(applied, stored only, ArtAddress), the status page, which expires sources, and
other writers of the frame. `Tick` may come anywhere, within calls too, and `millis()` wraps (`ClockMod`).

`SacnHistory` adds what each sender last did, counted in true ticks, so that
properties compare the output with the senders and not with the receiver's own
table. It constrains nothing. `heard`, the ticks since a sender's last data packet,
counts up to `LossBound`, two timeouts and a late pass, and a termination packet
leaves it as it is: the output may show the sender's last frame until then.

### SacnSocket

`bindSacnSocket()` and `closeSacnSocket()` against `memberships`, the group
table of the network stack (external, modelled from the calls in `sacn.cpp`).
The join, the open and the second open may each fail. A configuration that is
stored and not applied changes the universe and leaves the socket alone, as
ArtAddress does. Interfaces change their address or go away at any time; the
firmware notices at a later poll.

### ArtDmxOutput

`updateArtNet()` reads one packet and then runs its timeouts: `phase` is between
the two. `merge`, `lastMerge`, `cancelPending`, `lock`, `syncActive`,
`syncPending` are the statics of `artnet.cpp`. Time stamps are kept as saturating
ages, so the wrap of `millis()` does not occur here; it does not matter as long as
`loop()` runs once in 2^32 ms, because all comparisons are unsigned differences.
A frame is one level, which is enough to tell the sources, HTP and LTP apart.
`LoopTimeouts` is the code after the packet in its order: close the window, show
the held frame, expire, show again. `StoreWithoutRestart` changes merge mode,
protocol and direction under live sources. Then the timeouts still run, but the
failsafe may be refused for the direction, which drops `artnetActive` and leaves the
buffers to their own expiry; and sACN may write the frame (`ForeignFrame`) while
Art-Net still merges. `unapplied` remembers it until a configuration is applied and
everything is cleared. `ActiveIffSource` and `OutputShowsMerge` say which part holds
regardless and which only without it; the failsafe, the lock, the slots and the LTP
index are right in either case. Universe and sequence checks come before the
model: packets they drop are `ReadNothing`.

### ConfigStore and AtomicConfig

Each remove, write, exists and rename of `persistConfig()` and `loadConfig()` is
a step; `PowerLoss` may come between any two and during the write. Every
operation may fail (`faults` counts the failures by kind and `MaxFaults` bounds
them). A file is absent, torn or whole with a value and whether its schema is the
current one. A remove that fails leaves the file. `AtomicConfig` is the promise:
a save takes effect in one step; what is stored is what the next boot runs with;
once an operation has failed, nothing is promised any more. The refinement maps
`stored` to the file the boot would pick up (`Found`), `pending` to the candidate
and `trouble` to whether an operation has failed.

### OutputArbiter

What the frame may do under a receiver, whichever protocol it speaks: `live`, it
follows a sender; `failsafe`, it shows the failsafe; `mayDrive`, protocol and
direction give the frame to it; `unapplied`, those two changed in a configuration
that nothing has applied. Only a receiver that follows somebody can fall
silent, and only then is the failsafe entered; only data or a reset ends it; the
frame is written for a sender, for the failsafe, or by others while the receiver
may not drive or while a configuration is unapplied. In that last case the promise
is weaker by as much: sources may end without a failsafe (`FallSilentUnnoticed`),
and the other receiver may cover the frame, since both may follow senders then. The module is written from what the two receivers have in
common in `sacn.cpp` and `artnet.cpp`, not from a document. `Redirect` is a change behind the
receiver's back: a direction set by ArtAddress, of which sACN is not told, or a
stored configuration, of which neither is. A receiver that still follows senders
may go on writing after it, until it is reset or they fall silent.

### DmxPort

`updateDMX()` is cut where it reads the clock, the frame or the interrupt counter
(`portPc`), since the receive interrupt and the time come in between. Between two
calls the other tasks of `loop()` write the frame, start, extend, change or release
the test override, or merely read: each getter consumes the expiry of the override
(`Expire`), which is the hazard. Versions are only compared for equality, so the
model keeps who holds an old copy (`outdated`). The network writes the frame in
either direction (`NetworkFrame`): sACN fails over to another source after
ArtAddress made the node an input. `taken` therefore says when the frame is one the
node took from the line. The direction in RAM and the one the UART was started in
(`portUart`) are two variables: `Reconfigure` and `AddressDirection` restart the
port, `StoreWithoutRestart` does not. Sending copies the frame a channel
at a time through a getter that may end the override half-way (`CopyFrame`), for
ArtDmx and sACN alike. `handleDmxValue()` and the release of an override send
ArtDmx directly, in the sACN mode too, as the code does.

### DmxDriver

Three parts interleave: the main program (`start`, `stop`, `copyFrame`,
`setSlot`...), the receive interrupt, which drains the FIFO byte by byte and then
handles the break or idle flag it read at its beginning, and the line. The
transmitter is a holding byte and a shifter (`uart`); the interrupt walks `break`,
`breakSent`, `start`, `data`, `idle` and counts empty interrupts instead of asking
the shifter, which is why `DriverTiming` is an assumption. `delivered` and `packet`
are histories of what the callback got and of what was on the line. RDM
transactions are left out: the firmware starts none.

### ArtDmxSequences and ArtNetDirectory

`SlotOf` is the scan of `getArtDmxSequenceSlot()`, which stops at a free slot;
`lastAccepted` remembers what the sender would know. `ReplayIsDropped` is claimed
while no slot was given up or taken from a live sender (`forgotten`), because then
the code does lose track; `FreshIsAccepted` is claimed always. In
`ArtNetDirectory` one pass of `updateArtNet()` is `DirBegin`, `DirRead`, `DirRest`,
with time in between; `heardAge` and `askedAge` are what the other devices did.

### WebAdmin

Requests are served one at a time; an upload is a start, chunks, and an end or an
abort, then an answer. The updater and the file system are the platform's and any
call may fail. `update` is what the firmware believes, `updater` what the platform
was told; the property compares them. An imported configuration may set or clear the
password; the answer is then withheld from a browser without a session
(`AnswerConfig`), so `ConfigUploadIsReported` is about the answer that was prepared.
`WebTick` does not run during a request:
`loop()` is inside the server then.

### WifiLink

One tick is a poll interval. The access point and DHCP are outside. Every attempt
aborts the association that the previous one started, so that a station returns
only if the delay outgrows the association (`QuietAssumption`; 60 s in the code).
`quiet` counts ticks in which nothing but time disturbed the link: within
`QuietLimit` of them the station must be back. `ReturnBound` says how large that
has to be: what is left to wait at first, the attempts that come too soon, which
double their delay and so sum up to the last of them, a late poll for each, and
one association.

### NodeBoot and NodePanel

`NodeBoot` keeps the configuration in RAM and in flash apart, with the five ways
to change the direction: a save and an upload in the web interface, ArtAddress, the
temporary configuration, a restart. `bus` remembers what the guard found and what
became of it: `kept` when its decision was stored, `lost` when it was not (the store
failed at `dmx.cpp:125`, or a later load failed and defaults took its place, at boot
or in recovery, `web.cpp:2261`). In both cases a console is on the bus, and in the
second the node drives it. `GuardDecisionLasts` is what does hold, of a decision that
was stored and can be loaded; `GuardedBusIsNotDriven` is what the manual says, of
both, and the run `boot_guard_store` refutes it. `unapplied` marks a save that waits
for its restart, or an upload. A
direction stored that way is in RAM while the port is not, and a later save that is
applied at once compares with RAM and does not apply it. A temporary direction of
the fixture is stored by the next other setting that is stored. In `NodePanel` a
contact bounces; `led` holds the layers of `updateLEDs()`. `Stuck` is an activity
flash left over from before `millis()` wrapped.

### DmxTool

The tool is a second program (an RP2040). `edgeBreak` is set by its edge interrupt,
the UART buffers bytes in `uartFifo`, and a poll takes the flag before the bytes.
`WaitSeesOnePacket` is about frames that begin and end within one wait, with the
break taken after its first poll: the first may mix what the buffer still held, and
entering the receive mode does not clear an old flag. It rests on `ToolPace`: the
wait polls at least once in each break and before the buffer is full. After `noise` in the receive mode the pins are
released and a wait sees nothing until the mode is entered anew.

## Runs

| Run | Instance | Shows |
|---|---|---|
| `sacn_receiver` | 2 senders, 2 priorities, 3 sequence numbers, clock of 5, timeout 3, loop at most 1 tick late, 1 packet per pass | `LossReachesFailsafe`, `FailsafeNeverCoversLive`, `DeadSourceIsReplaced`, `HigherPriorityShields`, `TrackedSourceDrivesOutput`, `FailsafeExcludesLive` |
| `sacn_two_slots` | as above, one priority | **violated**: one sender holds both slots |
| `sacn_three_sources` | 3 senders | **violated**: a third sender evicts a higher priority |
| `sacn_network_loss` | 1 sender, fair loop, fixed configuration | **violated**: data lost with the Wi-Fi connection never reaches the failsafe |
| `sacn_stale_group` | the socket instance of `node_parts` | **violated**: ArtAddress leaves the socket in the old group |
| `artdmx_output` | 3 senders, 2 levels, timeouts 1, 2, 4 | five invariants of flags, buffers and lock, and `OutputShowsMerge` |
| `artdmx_cancel_merge` | the same | **violated**: a second AcCancelMerge is refused by the first one's lock |
| `artdmx_held_frame` | the same | **violated**: a network change drops the held frame |
| `boot_guard_store` | the boot instance of `node_parts` | **violated**: the guard's decision cannot be stored, and the node drives the bus |
| `node_parts` | the ten modules of `NodeParts`, see below | 23 properties, see below |
| `config_store` | 3 configurations, 2 failing operations | refinement of `AtomicConfig`, `RunningIsStored` |
| `config_short_write` | 1 failing operation | **violated**: a short write replaces the configuration |

`node_parts` checks modules that share no variable. `part` selects one, which then
runs alone against its own environment while the others rest where they start, so
that the state space is the sum of theirs and not the product; the view of
`MCNodeParts` drops the variables at rest. Nothing is lost: no action of one reads
a variable of another. The instances, and what they show:

| Part | Instance | Properties |
|---|---|---|
| driver | 2 slots, a FIFO of 2, start codes 0, RDM and another | `DeliveredIsOnePacket`, `BaudIsStableWhileSending`, `PacketsAreWhole` |
| port | 2 frames, override 1, keep-alive 2, throttle 1, input timeout 3, 1 tick late | `OutputShowsFrame`, `LastInputIsKept`, `NetworkIsKeptAlive`, `OverrideEnds` |
| directory | 3 devices, 2 subscribers, 2 pending replies, 1 tick late | `SubscribersAreLive`, `ChangeIsAnnounced`, `PollsAreAnswered` |
| sequences | 3 senders, 2 slots, numbers modulo 6 | `FreshIsAccepted`, `ReplayIsDropped` |
| web | sizes up to 2 chunks, 2 failures, windows of 2 | `UpdateIsWhole`, `ConfigUploadIsReported`, `LockoutEnds` |
| wifi | 2 addresses, delays 1 to 4, association 3, outages 2 and 3, 17 quiet ticks | `StationReturnsInTime` |
| boot | every direction, termination and guard, 2 other settings | `GuardDecisionLasts`, `PortFollowsConfig` |
| panel | debounce 2, short 3, long 4 | `PressActsOnce` |
| tool | packets of 2 bytes, a buffer of 2 | `WaitSeesOnePacket`, `SenderOwnsThePins` |
| socket | universes 0, 1, 2, two station addresses, the access point | `NoMembershipLeak` |

Each table has one more user than places, each time-out can be passed by a tick,
and each size by one. `PartsTypeOK` is the type invariant of the part that runs.

Each violated run checks one sentence of the manual, the to-do list or a comment
of the code against what the code does; the sentences are quoted under
`findings`.

**Views.** TLC tells states apart only by what can still make a difference. Senders
and frames are only compared with each other, and so are the sequence numbers of
one sender; the views keep which of them are equal, or how far apart. A time that
nothing reads before it is set again (that of an output that is not active, of a
sender that has no slot) and a setting that nothing reads before it is replaced (the
direction under another protocol) are left out. Two states with the same view take
the same steps to states with the same view, and no property tells them apart,
except that the types of what is left out are seen for one of them only; those are
proved.

**Bounds.** Two senders fill the source table; the third, which evicts, has a
run of its own because there the priority property is false. Three sequence
numbers are the fewest that have newer, equal and older. The clock has two more
readings than the timeout and wraps several times within any interesting run.
`MaxGap = 1` lets a time-out be noticed late, which is what the failsafe bound
has to absorb. The ArtDmx timeouts keep the order of 4, 5 and 10 seconds; a third
sender is the smallest number that finds both buffers taken. Two failing
operations are the bound of a promise and not of the search: with three, a failed
install, a failed rollback and another failed install lose the last copy,
because the save in between removes the backup.

**History and bounds in the properties.** `LossReachesFailsafe` promises the
failsafe after two timeouts and a late pass: the output timeout counts from the
last *application* of a frame, and each failover to a remaining source applies one
again. `DeadSourceIsReplaced` promises that the frame of a source that fell silent
has left the output within the same bound while others are received. The manual's
"approximately five seconds" is the worst case of that bound for the timeout of
2.5 s in the code.

**Fairness.** Only `ConfiguredOnceSpec` has any: weak fairness of the steps that
change `lag`, that is, time advances and `updateSacn()` ends. The loop of the
firmware never blocks for good and `millis()` counts by itself. Nothing is assumed
of senders, of the network or of users. The other properties are bounded
safety instead of liveness: a deadline in ticks says more than "eventually".

**Deadlock** is checked in every run.

## Proofs

Every invariant and action property that a passing run checks is also a theorem.
The theorems hold for all values of the constants that
satisfy the named assumptions of the modules: the sentinels are not members of the
sets they stand beside, sizes and timeouts are positive, and

- `ArtDmxOutput`: the output timeout is shorter than the merge timeout (5 s and
  10 s in the code), and the sync timeout no longer than it (4 s);
- `WrapAssumption`: the clock does not wrap within a timeout and a late pass;
- `DriverTiming`: the interrupts the transmitter counts cover a break and a byte;
- `ToolPace`: the wait of the tool polls once in a break and before its buffer is
  full;
- `QuietAssumption`: an association is shorter than the longest reconnect delay,
  and the history looks as far as `ReturnBound`.

*SacnReceiver.* `TypeCorrect` is inductive by itself. `SourceInv`, the
strengthening of the next two, joins `TrackedSourceDrivesOutput` with
`FailsafeExcludesLive`: neither is inductive alone, since a frame may be applied,
and the failsafe ended, only because a tracked source implies `sacnActive`, and
the failsafe is entered only with an empty table because a pass that times out
with a source left has failed over instead.

*SacnHistory.* The properties compare true ticks with ages read from a wrapping
clock, so each invariant first says that an age is exact as long as the pass that
has to notice it is not overdue (`MillisDistance`). `InTime` bounds the silence by
the age of the slots, then of the last applied frame, and by the lag of the pass:
it gives `LossReachesFailsafe` and, with what the output shows, `DeadSourceIsReplaced`.
`Covered` says of each sender heard within the timeout that no failsafe is shown,
and that it has a slot at least as fresh, or both slots are taken by packets at
least as fresh, or a frame was applied since it was last heard; the second and
third are what is left of an evicted sender. `HigherPriorityShields` is proved for
two senders (`AtMostTwoSenders`), which have a slot each while they live
(`Seated`); with three it is false, as `sacn_three_sources` shows.

*ArtDmxOutput.* The six invariants of the run `artdmx_output` that do not
speak of the shared frame, and `HeldFrameHasWindow`, that a held frame has
an open window and a source, need each other. That the failsafe
leaves no source rests on `ActiveIffSource`, which holds across the output
timeout and the expiry of buffers only because the youngest buffer and the output
timeout count from the same packet (`LatestIsYoungest`) and
`OutputTimeout < MergeTimeout`: the failsafe always empties the buffers first, so
the last buffer never expires under a running output. After a configuration that
was stored and not applied this order is gone: a refused failsafe leaves buffers
without `artnetActive`, and they expire one by one. `IdleSourcesAreOld` then says
that what is left is older than the output timeout, so that the last buffer goes
before a failsafe could be entered again, and `HeldFrameIsYounger` that a frame has
been held for at least as long as its source has been silent, so that the hold ends
no later than that source does. A corollary is that the code
which moves the LTP index away from an expired buffer (`artnet.cpp:1117`) never
runs. `OutputShowsMerge` adds that the frame is rewritten whenever the buffers
change, unless it is held for a sync (`MergeIsShown`).

*OutputArbiter.* Both receivers implement it (`ReceiverFollowsArbiter`, in each of
the two proof modules, stating `ImplementsArbiter`), step by step under the
invariants above: that the sACN receiver falls back only while it is live is
`TrackedSourceDrivesOutput`; that ArtSync, a merge mode and an expiry write nothing
but a level of a sender, and not under a failsafe, is `ActiveIffSource` with
`FailsafeIsClean` and what a merge returns (`MergedLevel`). That a new failsafe mode
is shown only where Art-Net may drive needs one more fact, that whatever takes the
output away ends the failsafe first (`FailsafeDrives`).

*ConfigStore.* `SavesAreAtomic` proves the refinement: initial states map to
initial states and each step to a step of `AtomicConfig` or a stutter.
`FilesInv` states, for each point of a save and of the repair at boot, where
the old and the new configuration are as long as no operation failed; `StepInv`
ties `running` and `candidate` to the step. `TwoFailuresAreSafe` goes on after
failures: `CopiesInv` states where a copy of the running configuration is at each
operation while at most two failed. It may be missing only once both failures are
used up, in a save that removed the last backup and whose own file can then no
longer fail to be installed. The bound of two is part of the theorem, because a
third failure does lose the configuration.

*SacnSocket.* `NoMembershipLeak` is inductive once it is known that the two
interfaces never share an address (`OwnAddresses`): leaving a group at the address
of the moment then frees the membership of one interface only.

*The Art-Net tables.* For the sequence table, `TableInv` says which senders have a
slot with their current number, and that one without is remembered, unless a slot
was given up or taken from a live sender. `Compacted` is what the expiry leaves of
the subscriber list; `SubInv` says that a device is listed once, with the age of its
last reply, and that it is listed if and only if it was live at the last pass or
answered since. `ChangeIsAnnounced` follows. For `PollsAreAnswered`, `ReplyInv` says
that nobody waits twice, that who waits for a reply is in the queue, and that the
time passed and the time left make up no more than the delay and the overrun of the
pass.

*DmxPort.* `OutputShowsFrame` and the types are inductive. The rest needs to know
what each point of `updateDMX()` has established: `InputIsTaken` (a frame that is
not announced has been copied), `OverrideIsRead` (the overdue override ended when
the call began), `SentWasTried` and `TransmitIsFresh` (an attempt dates from this
call, a success implies an attempt) and `TriedInTime`, the bound of
`NetworkIsKeptAlive` with the time the call has taken so far in place of its
maximum.

*DmxDriver.* While a packet is received, the bytes read and those in the FIFO are
what the line has carried of it, and bytes behind a break that is not served yet
spoil their packet (`ReceiverInv`); so what is delivered is a beginning of one
packet. On the way out, `WireInv` says that the slots on the line are in order from
the start code on and which one the interrupt sends next, and `BaudInv` relates the
counted interrupts to what is left in the shifter, which the driver never asks.

*DmxTool.* `ModeInv` ties direction pin, UART and sender to the mode, for each way
into and out of a mode. For `WaitSeesOnePacket`, from the first poll of a wait on
the UART buffer holds the last bytes of the packet on the line and is empty again
before a break ends (`HoldsLatest`), and the frame is the front of that packet,
which the buffer continues (`FrameIsFront`).

*NodeBoot.* `PortFollowsConfig` is nearly inductive: it needs that the probe of
the guard runs only for a stored configuration that would drive (`GuardProbes`).
`GuardDecisionLasts` needs what the next restart would load: while the bus
belongs to a console, the stored direction is input, and in a running node the one
in RAM too (`ConsoleKeepsBus`).

*WebAdmin.* Logins, updates and configuration uploads touch different variables,
with an invariant each. A lockout is not longer than the age of its window
(`LockoutInv`), which is more than that it ends. For updates: success is set only
at the end of one, and the updater runs only during one (`UpdateInv`). For the
configuration: the file exists only while the upload runs (`UploadInv`). The types
need how they bound each other: what is written of an update is no more than was
declared and no less than the updater got, what is written of a configuration is
no more than was sent (`SizesInv`), and a failed login is counted only below the
limit.

*NodePanel.* `PressInv`: a press that is still down has acted once if it was taken
as a long one, and not yet otherwise.

*WifiLink.* `LinkInv` follows the schedule. As long as nothing disturbs the link,
either the loss is not noticed yet, or the attempts so far were in time
(`InTime`: their delays double, so together they took no more than the next one,
and each was late by one poll at most), or the association in progress ends before
the next attempt would abort it (`Assured`). An outage is not cut short because its
end is never later than the next attempt (`OutageHeld`). The types are kept field by
field (`NodeTyped`), through each stage of a poll.

*NodeParts.* The component that runs never changes, and each step is a step of its
module or leaves its variables alone (`PartSteps`); it starts as its module does
(`PartStarts`). So each of the ten is a behaviour of its own specification
(`PartsAreTheirModules`), and whatever the sections above prove of that holds in the
run. `PartsTypeOK` joins the ten type theorems. A component that rests need not
start as it would run: where a component has no initial state, for example without
an address to lease, the others run as they do with one.

**Checked only, not proved.** Liveness under fairness and `ENABLED` are out of the
reach of the prover; the properties stated here are bounds on time instead, which
are invariants and are proved. The eight runs that expect a violation have nothing to
prove: TLC's trace is the argument. The other way round, `ImplementsArbiter`,
`HeldFrameHasWindow`, `TableInv` and the other strengthenings are proved only; TLC has no run for them.

## What is not modelled, and why

Frame contents and lengths, counters and statistics; logging, the event log and
JSON output, which nothing reads back; packet parsing, which is pure and happens
before any state changes; field-by-field validation of a configuration; colours and
blink phases; boards whose transceiver has fewer control pins; RDM, which the
firmware never starts; network scans. ArtIpProg stores settings that wait for a
restart and is covered only by that. The failsafe scene file is rewritten in place
and has a documented fallback. Browser code and host scripts are not part of the
node; of the fixture, the tool's modes and analyzer are modelled, its statistics,
display and auxiliary pins are not.

Idealisations to know about: `WiFi.disconnect()` shows in the status at once;
deadlines of the Wi-Fi link and of logins are times left, so that the wrap of
`millis()` is left out there (their comparisons are signed or unsigned
differences); ages in the sequence table stop above the timeout. A frame that the
driver ignores for its start code is dropped at its third byte; the code goes on
receiving one with start code 0xFE and drops it at its end. The end of a receive
interrupt that saw a break clears an idle flag raised meanwhile, which the code
would leave for the next one. The tool takes its break flag and the bytes of its
UART in one step; what comes in between is left to `ToolPace`. Its `noise` command
drives the line while it runs and is one step, so `SenderOwnsThePins` speaks of the
times between commands. A Wi-Fi mode that is stored without a restart takes effect
at that restart; until then `network.cpp` reads the new mode over the old radio
state, which `WifiLink` leaves out. A `config.json` that parses but does not
validate is a failed load; that it leaves a mix of values is listed as a hazard.

## Plan

1. One module with both receivers under one configuration, over `DmxPort`, as two
   instances of `OutputArbiter` of which at most one may drive.
2. The scene file with the file system steps of `ConfigStore`, and a load that
   leaves a mixed configuration.
3. A run that shows what the sequence table loses behind a freed slot.
4. Proofs: of item 1, that the two never write the frame in turn.
