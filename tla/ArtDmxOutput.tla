---------------------------- MODULE ArtDmxOutput ----------------------------
(***************************************************************************)
(* Art-Net data on its way to the DMX output: firmware/uNode_2/artnet.cpp, *)
(* from an ArtDmx packet that passed the sequence check to the shared DMX  *)
(* frame.  Two merge buffers (HTP or LTP), the lock that AcCancelMerge     *)
(* leaves behind, the ArtSync window that holds output back, the output    *)
(* failsafe, and everything that clears them: configuration, ArtAddress,   *)
(* the network.                                                            *)
(*                                                                         *)
(* updateArtNet() reads one packet and then runs the timeouts; "phase" is  *)
(* between the two.  A frame is one level.  Timestamps are kept as ages,   *)
(* saturating where no timeout can tell more; the unsigned differences of  *)
(* the code are these ages as long as loop() runs every 2^32 ms.           *)
(***************************************************************************)
EXTENDS Naturals

CONSTANTS
    Senders,        \* sender address and Physical number of ArtDmx packets
    NoSender,       \* no lock
    Levels,         \* channel values
    FailsafeFrame,  \* the frame of the configured failsafe mode
    ForeignData,    \* a frame of sACN or of the DMX input
    SyncTimeout,    \* ARTSYNC_TIMEOUT_MS
    OutputTimeout,  \* ARTNET_OUTPUT_TIMEOUT_MS
    MergeTimeout,   \* ARTDMX_MERGE_SOURCE_TIMEOUT_MS
    MaxGap          \* bound: ticks between two runs of the timeouts

ASSUME SenderAssumption == NoSender \notin Senders
ASSUME LevelAssumption == Levels \subseteq Nat
ASSUME FrameAssumption == FailsafeFrame \notin Levels /\ ForeignData \notin Levels
ASSUME TimeoutAssumption ==
    /\ SyncTimeout \in Nat /\ OutputTimeout \in Nat /\ MergeTimeout \in Nat
    /\ MaxGap \in Nat \ {0}
    /\ SyncTimeout <= MergeTimeout /\ OutputTimeout < MergeTimeout

VARIABLES
    merge,          \* mergeSources: the two source buffers
    lastMerge,      \* lastMergeSourceIndex
    cancelPending,  \* cancelMergePending
    lock,           \* mergeLockIP and Physical, NoSender when not locked
    syncActive,     \* artSyncActive
    syncPending,    \* artSyncPendingOutput
    syncAge,        \* ticks since the last ArtSync
    artnetActive,
    failsafe,       \* outputFailsafeActive
    packetAge,      \* ticks since the last accepted ArtDmx
    output,         \* what the shared DMX frame holds
    mergeMode,      \* config.mergeMode
    protocol,       \* config.liveProtocol
    direction,      \* config.direction
    unapplied,      \* a configuration was stored and never applied, see below
    socketReady,    \* artnetSocketReady
    phase,          \* "idle", or "read" between the packet and the timeouts
    lag             \* ticks since the timeouts last ran, up to MaxGap

mergeState == <<merge, lastMerge, cancelPending, lock>>
syncState == <<syncActive, syncPending, syncAge>>
outputState == <<artnetActive, failsafe, packetAge, output>>
config == <<mergeMode, protocol, direction, unapplied>>
vars == <<mergeState, syncState, outputState, config, socketReady, phase, lag>>

-----------------------------------------------------------------------------
(* Merge buffers *)

Slots == {0, 1}

\* An inactive buffer; nothing reads the frame or address left in it.
NoSource == [sender |-> NoSender, level |-> 0, age |-> 0]
Sources == [sender : Senders, level : Levels, age : 0 .. MergeTimeout]
Buffers == [Slots -> Sources \cup {NoSource}]
EmptyBuffers == [i \in Slots |-> NoSource]

Live(m) == {i \in Slots : m[i].sender # NoSender}

Frames == Levels \cup {FailsafeFrame, ForeignData}

Higher(a, b) == IF a > b THEN a ELSE b

\* applyMergedOutputFrame(): what the output shows afterwards; with no
\* source left it keeps what is shown.
Merged(m, last, mode, shown) ==
    IF Live(m) = {}
      THEN shown
      ELSE IF Live(m) = Slots
             THEN IF mode = "ltp" THEN m[last].level
                                  ELSE Higher(m[0].level, m[1].level)
             ELSE m[CHOOSE i \in Slots : i \in Live(m)].level

\* expireStaleMergeSources(): sources kept, and the index that follows them.
Unexpired(m) ==
    [i \in Slots |-> IF m[i].age >= MergeTimeout THEN NoSource ELSE m[i]]

IndexAfter(m, last) ==
    IF Live(m) = {1 - last} THEN 1 - last ELSE last

\* A variant with an index past the buffers for "none".
ClearMergeIndexPastEnd ==
    /\ merge' = EmptyBuffers
    /\ lastMerge' = 2
    /\ cancelPending' = FALSE
    /\ lock' = NoSender

\* clearArtDmxMerge()
ClearMerge ==
    /\ merge' = EmptyBuffers
    /\ lastMerge' = 0
    /\ cancelPending' = FALSE
    /\ lock' = NoSender

\* clearArtSyncState()
ClearSync ==
    /\ syncActive' = FALSE
    /\ syncPending' = FALSE
    /\ syncAge' = 0

-----------------------------------------------------------------------------
(* Packets: read() calls one handler, the timeouts follow *)

Reading == socketReady /\ phase = "idle" /\ phase' = "read"

\* Nothing in the socket, or a packet without effect here (wrong universe,
\* stale sequence, another protocol or direction, other opcodes).
ReadNothing ==
    /\ Reading
    /\ UNCHANGED <<mergeState, syncState, outputState, config, socketReady, lag>>

MayDrive == protocol = "artnet" /\ direction = "output"

\* The lock test comes first in applyArtDmxToMerge().
IsLockedOut(s) == lock # NoSender /\ Live(merge) # {} /\ s # lock

\* getMergeSourceSlot(): the sender's own buffer, else the first free one.
UsableSlots(s) ==
    IF \E i \in Slots : merge[i].sender = s
      THEN {i \in Slots : merge[i].sender = s}
      ELSE {i \in Slots : merge[i].sender = NoSender}

\* A variant that takes the first buffer that is free or the sender's own.
FirstUsableSlot(s) ==
    IF merge[0].sender \in {s, NoSender} THEN 0 ELSE 1

SlotFor(s) == CHOOSE i \in UsableSlots(s) : \A j \in UsableSlots(s) : i <= j

ArtDmxLockedOut(s) ==
    /\ Reading /\ MayDrive
    /\ IsLockedOut(s)
    /\ UNCHANGED <<mergeState, syncState, outputState, config, socketReady, lag>>

ArtDmxThirdSource(s) ==
    /\ Reading /\ MayDrive
    /\ ~IsLockedOut(s) /\ ~cancelPending /\ UsableSlots(s) = {}
    /\ UNCHANGED <<mergeState, syncState, outputState, config, socketReady, lag>>

\* A variant in which a cancelled merge keeps the other source's buffer.
StoreBesideOthers(s, level) ==
    /\ UsableSlots(s) # {}
    /\ merge' = [merge EXCEPT ![SlotFor(s)] = [sender |-> s, level |-> level, age |-> 0]]
    /\ lastMerge' = SlotFor(s)
    /\ lock' = IF cancelPending THEN s
                 ELSE IF Live(merge) = {} THEN NoSender ELSE lock
    /\ cancelPending' = FALSE

\* A variant that moves the LTP index to new sources only.
StoreKeepingIndex(s, level) ==
    /\ UsableSlots(s) # {}
    /\ merge' = [merge EXCEPT ![SlotFor(s)] = [sender |-> s, level |-> level, age |-> 0]]
    /\ lastMerge' = IF merge[SlotFor(s)].sender = s THEN lastMerge ELSE SlotFor(s)
    /\ lock' = IF cancelPending THEN s ELSE lock
    /\ cancelPending' = FALSE

\* applyArtDmxToMerge(): a pending cancel empties both buffers and locks on
\* this sender; a lock without sources is void.
StoreArtDmx(s, level) ==
    LET source == [sender |-> s, level |-> level, age |-> 0]
    IN  /\ IF cancelPending
             THEN /\ merge' = [EmptyBuffers EXCEPT ![0] = source]
                  /\ lastMerge' = 0
                  /\ lock' = s
             ELSE /\ UsableSlots(s) # {}
                  /\ merge' = [merge EXCEPT ![SlotFor(s)] = source]
                  /\ lastMerge' = SlotFor(s)
                  /\ lock' = IF Live(merge) = {} THEN NoSender ELSE lock
        /\ cancelPending' = FALSE

\* A variant that leaves the failsafe flag to the next ArtSync.
DriveOutputWhenShown ==
    /\ output' = IF syncActive THEN output
                               ELSE Merged(merge', lastMerge', mergeMode, output)
    /\ syncPending' = syncActive
    /\ failsafe' = (syncActive /\ failsafe)
    /\ artnetActive' = TRUE /\ packetAge' = 0

\* The rest of onDmxFrame(): shown at once, or held for the next ArtSync.
DriveOutput ==
    /\ output' = IF syncActive THEN output
                               ELSE Merged(merge', lastMerge', mergeMode, output)
    /\ syncPending' = syncActive
    /\ failsafe' = FALSE
    /\ artnetActive' = TRUE /\ packetAge' = 0

ArtDmxAccepted(s, level) ==
    /\ Reading /\ MayDrive
    /\ ~IsLockedOut(s)
    /\ StoreArtDmx(s, level)
    /\ DriveOutput
    /\ UNCHANGED <<syncActive, syncAge, config, socketReady, lag>>

\* onArtSync(): whatever the live protocol is.
ArtSync ==
    /\ Reading
    /\ direction = "output"
    /\ syncActive' = TRUE
    /\ syncAge' = 0
    /\ output' = IF syncPending THEN Merged(merge, lastMerge, mergeMode, output)
                                ELSE output
    /\ syncPending' = FALSE
    /\ UNCHANGED <<mergeState, artnetActive, failsafe, packetAge,
                   config, socketReady, lag>>

AcCancelMerge ==
    /\ Reading
    /\ cancelPending' = TRUE
    /\ UNCHANGED <<merge, lastMerge, lock, syncState, outputState, config,
                   socketReady, lag>>

\* setMergeModeFromArtAddress(): re-merged at once, inside a sync window too.
ArtAddressMergeMode(mode) ==
    /\ Reading
    /\ mergeMode' = mode
    /\ output' = Merged(merge, lastMerge, mode, output)
    /\ UNCHANGED <<mergeState, syncState, artnetActive, failsafe, packetAge,
                   protocol, direction, unapplied, socketReady, lag>>

\* A variant that clears the buffers under a running output.
ClearBuffersOnly ==
    /\ ClearMerge
    /\ ClearSync
    /\ failsafe' = FALSE
    /\ UNCHANGED <<artnetActive, packetAge>>

\* Everything a new Port-Address or direction clears; no failsafe follows.
ClearRuntime ==
    /\ ClearMerge
    /\ ClearSync
    /\ artnetActive' = FALSE
    /\ failsafe' = FALSE
    /\ UNCHANGED packetAge

\* applyArtAddressPortAddress() and setDirectionFromArtAddress()
ArtAddressReset ==
    /\ Reading
    /\ ClearRuntime
    /\ direction' \in {"output", "input"}
    /\ UNCHANGED <<output, mergeMode, protocol, unapplied, socketReady, lag>>

-----------------------------------------------------------------------------
(* updateArtNet(): the timeouts after the packet, in their order *)

EndOfUpdate == phase = "read" /\ phase' = "idle" /\ lag' = 0

OutputTimedOut == artnetActive /\ packetAge > OutputTimeout

\* applyOutputFailsafe(), refused in the input direction only; "hold" leaves
\* the frame.  The failsafe mode is configuration that may change at any time.
ApplyOutputFailsafe ==
    /\ direction = "output"
    /\ failsafe' = TRUE
    /\ ClearMerge
    /\ ClearSync
    /\ output' \in {FailsafeFrame, output}

\* With the merge and the sync window cleared, the two timeouts after this
\* one find nothing to do.
LoopFailsafe ==
    /\ EndOfUpdate
    /\ OutputTimedOut
    /\ artnetActive' = FALSE
    /\ ApplyOutputFailsafe
    /\ UNCHANGED <<packetAge, config, socketReady>>

SyncTimedOut == syncActive /\ syncAge >= SyncTimeout

CloseSyncWindow ==
    /\ syncActive' = (syncActive /\ ~SyncTimedOut)
    /\ syncPending' = (syncPending /\ ~SyncTimedOut)
    /\ UNCHANGED syncAge

\* A variant that forgets the held frame.
ForgetHeldFrame == output

\* What the end of the sync window shows, before sources expire.
AfterSyncWindow ==
    IF SyncTimedOut /\ syncPending
      THEN Merged(merge, lastMerge, mergeMode, output)
      ELSE output

\* The sync window closes, a held frame is shown, stale sources go and what
\* is left of the merge is shown again, inside a sync window too.  The same
\* follows an output timeout whose failsafe was refused.
LoopTimeouts ==
    /\ EndOfUpdate
    /\ OutputTimedOut => direction = "input"
    /\ artnetActive' = (artnetActive /\ ~OutputTimedOut)
    /\ CloseSyncWindow
    /\ IF direction = "output" /\ Unexpired(merge) # merge
         THEN /\ merge' = Unexpired(merge)
              /\ lastMerge' = IndexAfter(merge', lastMerge)
              /\ lock' = IF Live(merge') = {} THEN NoSender ELSE lock
              /\ output' = Merged(merge', lastMerge', mergeMode, AfterSyncWindow)
         ELSE /\ UNCHANGED <<merge, lastMerge, lock>>
              /\ output' = AfterSyncWindow
    /\ UNCHANGED <<cancelPending, failsafe, packetAge, config, socketReady>>

\* Without a socket updateArtNet() only retries the bind, every
\* ARTNET_BIND_RETRY_MS, and returns before any timeout.
BindRetry ==
    /\ ~socketReady /\ phase = "idle"
    /\ socketReady' \in BOOLEAN
    /\ IF socketReady' THEN ClearSync ELSE UNCHANGED syncState
    /\ lag' = 0
    /\ UNCHANGED <<mergeState, outputState, config, phase>>

-----------------------------------------------------------------------------
(* The rest of loop(), between two calls of updateArtNet() *)

\* handleArtNetNetworkChange(): the sync window is dropped, the merge stays.
NetworkChange ==
    /\ phase = "idle"
    /\ ClearSync
    /\ socketReady' \in BOOLEAN
    /\ UNCHANGED <<mergeState, outputState, config, phase, lag>>

\* applyArtNetRuntimeConfig() for a new failsafe mode: enter it again.
WebFailsafeMode ==
    /\ phase = "idle" /\ failsafe
    /\ ApplyOutputFailsafe
    /\ UNCHANGED <<artnetActive, packetAge, config, socketReady, phase, lag>>

\* The same for a new merge mode alone ...
WebMergeMode(mode) ==
    /\ phase = "idle" /\ mode # mergeMode
    /\ mergeMode' = mode
    /\ output' = Merged(merge, lastMerge, mode, output)
    /\ UNCHANGED <<mergeState, syncState, artnetActive, failsafe, packetAge,
                   protocol, direction, unapplied, socketReady, phase, lag>>

\* ... and for a new direction, protocol or Port-Address, with or without a
\* new failsafe mode and a new merge mode, which are applied first.
ApplyRuntimeConfig ==
    /\ phase = "idle"
    /\ mergeMode' \in {"htp", "ltp"}
    /\ protocol' \in {"artnet", "sacn"}
    /\ direction' \in {"output", "input"}
    /\ \/ output' = IF mergeMode' # mergeMode
                      THEN Merged(merge, lastMerge, mergeMode', output)
                      ELSE output
       \/ failsafe /\ direction' = "output" /\ output' = FailsafeFrame
    /\ ClearRuntime
    /\ unapplied' = FALSE
    /\ UNCHANGED <<socketReady, phase, lag>>

\* A save that waits for a restart, or a configuration upload: the handlers
\* go by the new configuration at once, the receivers keep what they have.
StoreWithoutRestart ==
    /\ phase = "idle"
    /\ mergeMode' \in {"htp", "ltp"}
    /\ protocol' \in {"artnet", "sacn"}
    /\ direction' \in {"output", "input"}
    /\ unapplied' = TRUE
    /\ UNCHANGED <<mergeState, syncState, outputState, socketReady, phase, lag>>

\* sACN data or received DMX written into the shared frame.  While a stored
\* configuration was not applied, sACN may still follow sources of its own.
ForeignFrame ==
    /\ phase = "idle"
    /\ ~MayDrive \/ unapplied
    /\ output' = ForeignData
    /\ UNCHANGED <<mergeState, syncState, artnetActive, failsafe, packetAge,
                   config, socketReady, phase, lag>>

Older(age, cap) == IF age < cap THEN age + 1 ELSE age

\* Time passes, also inside a call; loop() is at most MaxGap late.
Tick ==
    /\ lag < MaxGap
    /\ lag' = lag + 1
    /\ merge' = [i \in Slots |->
                    IF i \in Live(merge)
                      THEN [merge[i] EXCEPT !.age = Older(@, MergeTimeout)]
                      ELSE merge[i]]
    /\ packetAge' = IF artnetActive THEN Older(packetAge, OutputTimeout + 1)
                                    ELSE packetAge
    /\ syncAge' = IF syncActive THEN Older(syncAge, SyncTimeout) ELSE syncAge
    /\ UNCHANGED <<lastMerge, cancelPending, lock, syncActive, syncPending,
                   artnetActive, failsafe, output, config, socketReady, phase>>

-----------------------------------------------------------------------------
Init ==
    /\ merge = EmptyBuffers
    /\ lastMerge = 0
    /\ cancelPending = FALSE
    /\ lock = NoSender
    /\ syncActive = FALSE
    /\ syncPending = FALSE
    /\ syncAge = 0
    /\ artnetActive = FALSE
    /\ failsafe = FALSE
    /\ packetAge = 0
    /\ output = ForeignData
    /\ mergeMode \in {"htp", "ltp"}
    /\ protocol \in {"artnet", "sacn"}
    /\ direction \in {"output", "input"}
    /\ unapplied = FALSE
    /\ socketReady \in BOOLEAN
    /\ phase = "idle"
    /\ lag = 0

ArtDmx == \E s \in Senders :
    \/ ArtDmxLockedOut(s)
    \/ ArtDmxThirdSource(s)
    \/ \E level \in Levels : ArtDmxAccepted(s, level)

MergeModeCommand == \E mode \in {"htp", "ltp"} :
    ArtAddressMergeMode(mode) \/ WebMergeMode(mode)

Next ==
    \/ ReadNothing
    \/ ArtDmx
    \/ ArtSync
    \/ AcCancelMerge
    \/ MergeModeCommand
    \/ ArtAddressReset
    \/ LoopFailsafe
    \/ LoopTimeouts
    \/ BindRetry
    \/ NetworkChange
    \/ WebFailsafeMode
    \/ ApplyRuntimeConfig
    \/ StoreWithoutRestart
    \/ ForeignFrame
    \/ Tick

Spec == Init /\ [][Next]_vars

-----------------------------------------------------------------------------
(* Properties *)

TypeOK ==
    /\ merge \in Buffers
    /\ lastMerge \in Slots
    /\ cancelPending \in BOOLEAN
    /\ lock \in Senders \cup {NoSender}
    /\ syncActive \in BOOLEAN
    /\ syncPending \in BOOLEAN
    /\ syncAge \in 0 .. SyncTimeout
    /\ artnetActive \in BOOLEAN
    /\ failsafe \in BOOLEAN
    /\ packetAge \in 0 .. OutputTimeout + 1
    /\ output \in Frames
    /\ mergeMode \in {"htp", "ltp"}
    /\ protocol \in {"artnet", "sacn"}
    /\ direction \in {"output", "input"}
    /\ unapplied \in BOOLEAN
    /\ socketReady \in BOOLEAN
    /\ phase \in {"idle", "read"}
    /\ lag \in 0 .. MaxGap

\* Art-Net never claims the output without a buffered source, and as long as
\* every configuration stored was also applied it claims it exactly while it
\* has one, and only in its own protocol and direction.  The two are written
\* by different handlers, and sources expire on a timeout of their own: a
\* buffer that outlived artnetActive would keep its frame on the output
\* without a failsafe, an artnetActive without a buffer would leave ArtSync
\* and the merge mode with nothing to show.
ActiveIffSource ==
    /\ artnetActive => Live(merge) # {}
    /\ ~unapplied => /\ Live(merge) # {} => artnetActive
                     /\ artnetActive => MayDrive

\* The failsafe never coexists with a source, a held frame or a lock that
\* could overwrite its frame or refuse the source that should end it, even
\* when the configuration changes behind the receiver's back.
FailsafeIsClean ==
    failsafe =>
        ~artnetActive /\ Live(merge) = {} /\ ~syncPending /\ lock = NoSender

\* The sender that took control after AcCancelMerge is the only source, in
\* buffer 0, until the lock is gone.
LockGivesControl ==
    lock # NoSender => merge[0].sender = lock /\ merge[1] = NoSource

\* getMergeSourceSlot() never gives one sender both buffers, whatever order
\* the buffers were freed and filled in.
OneSlotPerSender ==
    \A i, j \in Live(merge) : merge[i].sender = merge[j].sender => i = j

\* The buffer written last, which LTP shows, is a live one and the youngest,
\* also after another expired, and the output timeout counts from it: the
\* one cannot expire before the other has run out.
LatestIsYoungest ==
    Live(merge) # {} =>
        /\ lastMerge \in Live(merge)
        /\ \A i \in Live(merge) : merge[lastMerge].age <= merge[i].age
        /\ packetAge = IF merge[lastMerge].age > OutputTimeout
                         THEN OutputTimeout + 1 ELSE merge[lastMerge].age

\* A frame held back has a sync window that will release it and a source to
\* be released from.
HeldFrameHasWindow ==
    syncPending => syncActive /\ Live(merge) # {}

\* The output keeps what is promised of either receiver, through two buffers,
\* a lock, a sync window that holds frames back and a merge mode that changes
\* under a running output.  It follows a sender as long as one is buffered,
\* which can be longer than artnetActive says.
Arbiter == INSTANCE OutputArbiter WITH
    live <- Live(merge) # {}, frame <- output, mayDrive <- MayDrive,
    SenderFrames <- Levels, OtherFrames <- {ForeignData}

ImplementsArbiter == Arbiter!Spec
=============================================================================
