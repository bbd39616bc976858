---------------------------- MODULE SacnReceiver ----------------------------
(***************************************************************************)
(* The sACN (E1.31) receiver of the node: firmware/uNode_2/sacn.cpp.       *)
(*                                                                         *)
(* Two source slots are filled by CID, ordered by packet priority and      *)
(* aged by millis().  A cooperative loop calls updateSacn(): it reads a    *)
(* bounded number of datagrams (each one handled to completion), then      *)
(* expires sources, falls back to the best remaining one and, when nothing *)
(* was applied for the output timeout, enters the failsafe.  Between two   *)
(* calls the same loop runs the web status page, which expires sources     *)
(* too, the Wi-Fi handler and the two ways to reconfigure the node.        *)
(*                                                                         *)
(* A frame is named by the packet that carried it (CID, sequence number);  *)
(* channel data, frame lengths, counters, LEDs and log lines are left out. *)
(***************************************************************************)
EXTENDS Integers, FiniteSets

CONSTANTS
    Cids,               \* senders, by component identifier
    Priorities,         \* values of the packet's priority byte
    SeqMod,             \* number of sequence numbers (256 in a packet)
    ClockMod,           \* number of clock readings (2^32 ms; coarser ticks here)
    Timeout,            \* SACN_OUTPUT_TIMEOUT_MS = SACN_SOURCE_TIMEOUT_MS, in ticks
    MaxGap,             \* bound: ticks between two ends of updateSacn()
    MaxPacketsPerLoop   \* SACN_MAX_PACKETS_PER_LOOP

CONSTANT NoCid          \* contents of a slot that holds no source

ASSUME CidAssumption == NoCid \notin Cids
ASSUME PriorityAssumption == Priorities \subseteq Nat
ASSUME SeqAssumption == SeqMod \in Nat /\ SeqMod >= 2
ASSUME ClockAssumption == ClockMod \in Nat /\ Timeout \in Nat \ {0} /\ ClockMod > 0
ASSUME GapAssumption == MaxGap \in Nat \ {0}
ASSUME BudgetAssumption == MaxPacketsPerLoop \in Nat \ {0}

VARIABLES
    sources,        \* the slots of the source table
    sacnActive,     \* live data drives the output
    failsafe,       \* sacnFailsafeActive
    lastPacket,     \* lastSacnPacketMillis: when a source was last applied
    output,         \* what the shared DMX frame holds
    socketReady,    \* sacnSocketReady
    protocol,       \* config.liveProtocol
    direction,      \* config.direction
    unapplied,      \* a configuration was stored and never applied, see below
    now,            \* millis()
    lag,            \* ticks since updateSacn() last ended
    processed       \* datagrams read in the running updateSacn(), 0 outside it

config == <<protocol, direction, unapplied>>
outputState == <<sacnActive, failsafe, lastPacket, output>>
clock == <<now, lag>>
vars == <<sources, sacnActive, failsafe, lastPacket, output, socketReady,
          protocol, direction, unapplied, now, lag, processed>>

-----------------------------------------------------------------------------
(* The source table *)

\* MAX_SACN_SOURCES
Slots == {0, 1}

SeqNums == 0 .. SeqMod - 1
Millis == 0 .. ClockMod - 1

\* A slot after "active = false".  The code leaves the other fields as they
\* were; nothing reads them while the slot is inactive.
FreeSlot == [active |-> FALSE, cid |-> NoCid, sequence |-> 0,
             priority |-> 0, lastMillis |-> 0]

SourceSlots == [active : {TRUE}, cid : Cids, sequence : SeqNums,
                priority : Priorities, lastMillis : Millis]

Tables == [Slots -> SourceSlots \cup {FreeSlot}]

\* A received data packet that passed the structure and universe checks.
Packets == [cid : Cids, sequence : SeqNums, priority : Priorities,
            terminated : BOOLEAN]

LiveFrame(cid, seq) == [kind |-> "live", cid |-> cid, sequence |-> seq]
OtherFrame(kind) == [kind |-> kind, cid |-> NoCid, sequence |-> 0]
FailsafeFrame == OtherFrame("failsafe")
Frames == {LiveFrame(c, s) : c \in Cids, s \in SeqNums}
            \cup {FailsafeFrame, OtherFrame("foreign")}

\* A variant on signed, unwrapped readings.
SignedAge(t) == now - t

\* now - t in the uint32_t arithmetic of the code.
Age(t) == (now - t) % ClockMod

ActiveSlots(table) == {i \in Slots : table[i].active}

\* A variant that empties the table when any source went silent.
ExpireAllSources(table) ==
    IF \E i \in Slots : table[i].active /\ Age(table[i].lastMillis) >= Timeout
      THEN [i \in Slots |-> FreeSlot]
      ELSE table

\* expireSources(): the table after dropping the sources that went silent.
ExpireSources(table) ==
    [i \in Slots |-> IF table[i].active /\ Age(table[i].lastMillis) >= Timeout
                       THEN FreeSlot ELSE table[i]]

\* A variant in which the most recent packet wins and priority breaks ties.
LatestBeats(table, i, j) ==
    \/ table[i].lastMillis > table[j].lastMillis
    \/ /\ table[i].lastMillis = table[j].lastMillis
       /\ \/ table[i].priority > table[j].priority
          \/ table[i].priority = table[j].priority /\ i <= j

\* Slot i is preferred to slot j: priority first, then the larger
\* (unwrapped) timestamp, then scan order.
Beats(table, i, j) ==
    \/ table[i].priority > table[j].priority
    \/ /\ table[i].priority = table[j].priority
       /\ \/ table[i].lastMillis > table[j].lastMillis
          \/ table[i].lastMillis = table[j].lastMillis /\ i <= j

\* getHighestActiveSourceIndex(), for a table with an active slot.
BestSlot(table) ==
    CHOOSE i \in ActiveSlots(table) :
        \A j \in ActiveSlots(table) : Beats(table, i, j)

\* getHighestActivePriority(), against which a packet is compared.
OutRanked(table, priority) ==
    \E i \in ActiveSlots(table) : table[i].priority > priority

\* getSourceIndex(): the first slot in scan order that is free or holds the
\* CID, otherwise the oldest one (the later slot on a tie).
SlotFor(table, cid) ==
    LET usable == {i \in Slots : ~table[i].active \/ table[i].cid = cid}
    IN  IF usable # {}
          THEN CHOOSE i \in usable : \A j \in usable : i <= j
          ELSE CHOOSE i \in Slots : \A j \in Slots :
                  LET ageI == Age(table[i].lastMillis)
                      ageJ == Age(table[j].lastMillis)
                  IN  ageI > ageJ \/ (ageI = ageJ /\ i >= j)

\* isSequenceNewer() on an unsigned byte.
IsSequenceNewer(previous, current) ==
    LET delta == (current - previous) % SeqMod
    IN  delta # 0 /\ 2 * delta < SeqMod

-----------------------------------------------------------------------------
(* Writing the output *)

\* config.liveProtocol and config.direction let sACN drive the output.
LiveGuard == protocol = "sacn" /\ direction = "output"

\* A variant that leaves a failsafe standing.
ApplyUnderFailsafe(table) ==
    IF ActiveSlots(table) = {}
      THEN UNCHANGED outputState
      ELSE LET best == table[BestSlot(table)]
           IN  /\ output' = LiveFrame(best.cid, best.sequence)
               /\ lastPacket' = now
               /\ sacnActive' = TRUE
               /\ UNCHANGED failsafe

\* applyHighestActiveSource(): show the best source of the table, if any.
ApplyHighestActiveSource(table) ==
    IF ActiveSlots(table) = {}
      THEN UNCHANGED outputState
      ELSE LET best == table[BestSlot(table)]
           IN  /\ output' = LiveFrame(best.cid, best.sequence)
               /\ lastPacket' = now
               /\ sacnActive' = TRUE
               /\ failsafe' = FALSE

\* applySacnFailsafe(): refused outside sACN output mode.  It shows zero, full
\* or the stored scene, or leaves the frame ("hold"): the mode is
\* configuration that may have been changed at any time.
ApplySacnFailsafe ==
    IF LiveGuard
      THEN failsafe' = TRUE /\ output' \in {FailsafeFrame, output}
      ELSE UNCHANGED <<failsafe, output>>

-----------------------------------------------------------------------------
(* updateSacn(): datagrams.  Each action is one iteration of its read loop. *)

MayRead == socketReady /\ processed < MaxPacketsPerLoop

\* Oversized, empty, malformed and wrong-universe datagrams, and data
\* received while another protocol or direction is configured.
IgnorePacket ==
    /\ MayRead
    /\ processed' = processed + 1
    /\ UNCHANGED <<sources, outputState, socketReady, config, clock>>

IsReplay(table, p) ==
    LET slot == table[SlotFor(table, p.cid)]
    IN  /\ slot.active /\ slot.cid = p.cid
        /\ ~IsSequenceNewer(slot.sequence, p.sequence)

\* A packet of a tracked source that is not newer: dropped, but after the
\* expiry at the head of the handler took its effect.
ReplayedPacket(p) ==
    /\ MayRead /\ LiveGuard
    /\ LET fresh == ExpireSources(sources)
       IN  IsReplay(fresh, p) /\ sources' = fresh
    /\ processed' = processed + 1
    /\ UNCHANGED <<outputState, socketReady, config, clock>>

\* A variant that stores the deadline instead of the time of arrival.
StoredWithDeadline(p) ==
    IF p.terminated
      THEN FreeSlot
      ELSE [active |-> TRUE, cid |-> p.cid, sequence |-> p.sequence,
            priority |-> p.priority, lastMillis |-> now + Timeout]

\* The slot a packet leaves behind.
Stored(p) ==
    IF p.terminated
      THEN FreeSlot
      ELSE [active |-> TRUE, cid |-> p.cid, sequence |-> p.sequence,
            priority |-> p.priority, lastMillis |-> now]

\* The table once the packet is stored over the slot chosen for it.
StorePacket(p) ==
    LET fresh == ExpireSources(sources)
    IN  [fresh EXCEPT ![SlotFor(fresh, p.cid)] = Stored(p)]

\* A data packet is stored even when its priority keeps it off the output.
DataPacket(p) ==
    /\ MayRead /\ LiveGuard
    /\ ~p.terminated /\ ~IsReplay(ExpireSources(sources), p)
    /\ sources' = StorePacket(p)
    /\ IF OutRanked(sources', p.priority)
         THEN UNCHANGED outputState
         ELSE ApplyHighestActiveSource(sources')
    /\ processed' = processed + 1
    /\ UNCHANGED <<socketReady, config, clock>>

\* Stream_Terminated frees the slot and hands over to the best source left.
TerminationPacket(p) ==
    /\ MayRead /\ LiveGuard
    /\ p.terminated /\ ~IsReplay(ExpireSources(sources), p)
    /\ sources' = StorePacket(p)
    /\ ApplyHighestActiveSource(sources')
    /\ processed' = processed + 1
    /\ UNCHANGED <<socketReady, config, clock>>

-----------------------------------------------------------------------------
(* updateSacn(): the timeouts after the read loop, at the current time *)

\* now - lastSacnPacketMillis > SACN_OUTPUT_TIMEOUT_MS
OutputTimedOut == sacnActive /\ Age(lastPacket) > Timeout

\* The call ends; the other tasks of loop() run next.
EndLoop ==
    /\ socketReady
    /\ sources' = ExpireSources(sources)
    /\ processed' = 0
    /\ lag' = 0
    /\ UNCHANGED <<socketReady, config, now>>

\* A variant that waits for a source to expire and forgets that the web
\* page may have expired it already.
FailoverDueOnExpiry == ExpireSources(sources) # sources

\* sourceExpired || outputTimedOut
FailoverDue == ExpireSources(sources) # sources \/ OutputTimedOut

CanFailOver == FailoverDue /\ ActiveSlots(ExpireSources(sources)) # {}

LoopFailover ==
    /\ CanFailOver
    /\ ApplyHighestActiveSource(ExpireSources(sources))
    /\ EndLoop

LoopFailsafe ==
    /\ ~CanFailOver /\ OutputTimedOut
    /\ sacnActive' = FALSE
    /\ ApplySacnFailsafe
    /\ UNCHANGED lastPacket
    /\ EndLoop

LoopIdle ==
    /\ ~CanFailOver /\ ~OutputTimedOut
    /\ UNCHANGED outputState
    /\ EndLoop

\* Without a socket updateSacn() only retries the bind, every
\* SACN_BIND_RETRY_MS, and returns before any timeout.
BindRetry ==
    /\ ~socketReady
    /\ socketReady' \in BOOLEAN
    /\ lag' = 0
    /\ UNCHANGED <<sources, outputState, config, now, processed>>

-----------------------------------------------------------------------------
(* The rest of loop(), between two calls of updateSacn() *)

\* A variant that keeps the source table over a rebind.
ResetOutputOnly ==
    /\ sacnActive' = FALSE
    /\ failsafe' = FALSE
    /\ lastPacket' = 0
    /\ socketReady' \in BOOLEAN
    /\ UNCHANGED sources

\* handleSacnNetworkChange(): forget everything and rebind, which may fail.
ResetReceiver ==
    /\ sources' = [i \in Slots |-> FreeSlot]
    /\ sacnActive' = FALSE
    /\ failsafe' = FALSE
    /\ lastPacket' = 0
    /\ socketReady' \in BOOLEAN

\* Wi-Fi (re)connected, dropped, or changed its address.
NetworkChange ==
    /\ processed = 0
    /\ ResetReceiver
    /\ UNCHANGED <<output, config, clock, processed>>

\* applyArtNetRuntimeConfig(): a new direction, protocol or Port-Address
\* from the web page resets the receiver.
ApplyRuntimeConfig ==
    /\ processed = 0
    /\ protocol' \in {"sacn", "artnet"}
    /\ direction' \in {"output", "input"}
    /\ unapplied' = FALSE
    /\ ResetReceiver
    /\ UNCHANGED <<output, clock, processed>>

\* A save that waits for a restart, or a configuration upload: the handlers
\* go by the new configuration at once, the receivers keep what they have.
StoreWithoutRestart ==
    /\ processed = 0
    /\ protocol' \in {"sacn", "artnet"}
    /\ direction' \in {"output", "input"}
    /\ unapplied' = TRUE
    /\ UNCHANGED <<sources, outputState, socketReady, clock, processed>>

\* setDirectionFromArtAddress(): the direction alone; sACN is not told.
ArtAddressDirection ==
    /\ processed = 0
    /\ direction' \in {"output", "input"}
    /\ UNCHANGED <<sources, outputState, socketReady, protocol, unapplied, clock,
                   processed>>

\* getSacnActiveSourceCount() and getSacnWinningPriority() for /api/status.
WebStatusPoll ==
    /\ processed = 0
    /\ sources' = ExpireSources(sources)
    /\ UNCHANGED <<outputState, socketReady, config, clock, processed>>

\* Art-Net data (its handler checks liveProtocol) or received DMX (only in
\* the input direction) written into the shared frame.  While a stored
\* configuration was not applied, Art-Net may still have sources of its own.
ForeignFrame ==
    /\ processed = 0
    /\ ~LiveGuard \/ unapplied
    /\ output' = OtherFrame("foreign")
    /\ UNCHANGED <<sources, sacnActive, failsafe, lastPacket, socketReady,
                   config, clock, processed>>

\* Time passes, also inside a call; the loop is at most MaxGap late.
Tick ==
    /\ lag < MaxGap
    /\ now' = (now + 1) % ClockMod
    /\ lag' = lag + 1
    /\ UNCHANGED <<sources, outputState, socketReady, config, processed>>

-----------------------------------------------------------------------------
Init ==
    /\ sources = [i \in Slots |-> FreeSlot]
    /\ sacnActive = FALSE
    /\ failsafe = FALSE
    /\ lastPacket = 0
    /\ output = OtherFrame("foreign")
    /\ socketReady \in BOOLEAN
    /\ protocol \in {"sacn", "artnet"}
    /\ direction \in {"output", "input"}
    /\ unapplied = FALSE
    /\ now = 0
    /\ lag = 0
    /\ processed = 0

Receive == \E p \in Packets :
    \/ ReplayedPacket(p)
    \/ DataPacket(p)
    \/ TerminationPacket(p)

Next ==
    \/ IgnorePacket
    \/ Receive
    \/ LoopFailover
    \/ LoopFailsafe
    \/ LoopIdle
    \/ BindRetry
    \/ NetworkChange
    \/ ApplyRuntimeConfig
    \/ StoreWithoutRestart
    \/ ArtAddressDirection
    \/ WebStatusPoll
    \/ ForeignFrame
    \/ Tick

Spec == Init /\ [][Next]_vars

-----------------------------------------------------------------------------
(* Properties *)

TypeOK ==
    /\ sources \in Tables
    /\ sacnActive \in BOOLEAN
    /\ failsafe \in BOOLEAN
    /\ lastPacket \in Millis
    /\ output \in Frames
    /\ socketReady \in BOOLEAN
    /\ protocol \in {"sacn", "artnet"}
    /\ direction \in {"output", "input"}
    /\ unapplied \in BOOLEAN
    /\ now \in Millis
    /\ lag \in 0 .. MaxGap
    /\ processed \in 0 .. MaxPacketsPerLoop

\* A tracked source always has a running output timeout behind it.  Nobody
\* writes this down: expiry also runs from the web page and at the head of
\* the packet handler, the output timeout only at the end of updateSacn(),
\* and updateSacn() skips both while there is no socket.
TrackedSourceDrivesOutput ==
    ActiveSlots(sources) # {} => sacnActive /\ socketReady

\* The failsafe flag and live data exclude each other: a source that comes
\* back at any priority, in any slot, ends the failsafe.
FailsafeExcludesLive ==
    failsafe => ~sacnActive /\ ActiveSlots(sources) = {}

\* getSourceIndex() "@return Existing, free, or oldest source state slot":
\* a sender that has a slot is found in it, so no sender has two.
OneSlotPerSource ==
    \A i, j \in ActiveSlots(sources) :
        sources[i].cid = sources[j].cid => i = j

\* The receiver keeps what is promised of either: packets that are kept off
\* the output change nothing of it, an expiry noticed elsewhere is made up
\* for, and only silence leads to the failsafe.
Arbiter == INSTANCE OutputArbiter WITH
    live <- sacnActive, frame <- output, mayDrive <- LiveGuard,
    SenderFrames <- {LiveFrame(c, s) : c \in Cids, s \in SeqNums},
    OtherFrames <- {OtherFrame("foreign")}

ImplementsArbiter == Arbiter!Spec
=============================================================================
