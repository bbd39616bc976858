------------------------ MODULE ArtDmxOutput_proofs -------------------------
(***************************************************************************)
(* TLAPS proofs about ArtDmxOutput and its history, for any set of senders *)
(* and levels and any timeouts ordered as TimeoutAssumption says.          *)
(***************************************************************************)
EXTENDS ArtDmxHistory, TLAPS

-----------------------------------------------------------------------------
(* The merge operators *)

LEMMA LevelIsNat == ASSUME NEW level \in Levels PROVE level \in Nat
  BY LevelAssumption, Zenon

\* What the buffers hold.
LEMMA BufferFields ==
    ASSUME NEW m \in Buffers, NEW i \in Slots
    PROVE  /\ m[i].age \in 0 .. MergeTimeout
           /\ i \in Live(m) => /\ m[i] \in Sources
                               /\ m[i].sender \in Senders
                               /\ m[i].level \in Levels
                               /\ m[i].level \in Nat
           /\ i \notin Live(m) => m[i] = NoSource
  <1>1. m[i] \in Sources \/ m[i] = NoSource
    BY DEF Buffers
  <1>2. CASE m[i] \in Sources
    <2>1. /\ m[i].sender \in Senders /\ m[i].level \in Levels
          /\ m[i].age \in 0 .. MergeTimeout
      BY <1>2 DEF Sources
    <2>2. m[i].level \in Nat
      BY <2>1, LevelIsNat
    <2>3. m[i].sender # NoSender
      BY <2>1, SenderAssumption
    <2>4. i \in Live(m)
      BY <2>3 DEF Live
    <2> QED
      BY <1>2, <2>1, <2>2, <2>4
  <1>3. CASE m[i] = NoSource
    <2>1. m[i].sender = NoSender /\ m[i].age = 0
      BY <1>3 DEF NoSource
    <2>2. i \notin Live(m)
      BY <2>1 DEF Live
    <2> QED
      BY <1>3, <2>1, <2>2, TimeoutAssumption
  <1> QED
    BY <1>1, <1>2, <1>3

\* The merge of sources that are there is a level that one of them sent.
LEMMA MergedLevel ==
    ASSUME NEW m \in Buffers, NEW last \in Slots, NEW mode, NEW shown, Live(m) # {}
    PROVE  Merged(m, last, mode, shown) \in Levels
  <1>1. CASE Live(m) = Slots
    <2>1. \A i \in Slots : m[i].level \in Levels
      BY <1>1, BufferFields
    <2>2. Slots # {} /\ last \in Slots /\ 0 \in Slots /\ 1 \in Slots
      BY DEF Slots
    <2>3. m[last].level \in Levels /\ Higher(m[0].level, m[1].level) \in Levels
      BY <2>1, <2>2 DEF Higher
    <2>4. Merged(m, last, mode, shown) \in {m[last].level, Higher(m[0].level, m[1].level)}
      BY <1>1, <2>2 DEF Merged
    <2> QED
      BY <2>3, <2>4
  <1>2. CASE Live(m) # Slots
    <2> DEFINE one == CHOOSE i \in Slots : i \in Live(m)
    <2>1. one \in Slots /\ one \in Live(m)
      BY DEF Live
    <2>2. m[one].level \in Levels
      BY <2>1, BufferFields
    <2>3. Merged(m, last, mode, shown) = m[one].level
      BY <1>2 DEF Merged
    <2> QED
      BY <2>2, <2>3
  <1> QED
    BY <1>1, <1>2

\* Without sources it is what was shown.
LEMMA MergedType ==
    ASSUME NEW m \in Buffers, NEW last \in Slots, NEW mode, NEW shown \in Frames
    PROVE  Merged(m, last, mode, shown) \in Frames
  <1>1. CASE Live(m) = {}
    BY <1>1 DEF Merged
  <1>2. CASE Live(m) # {}
    BY <1>2, MergedLevel DEF Frames
  <1> QED
    BY <1>1, <1>2

\* Expiry only empties buffers, those at the merge timeout.
LEMMA UnexpiredType ==
    ASSUME NEW m \in Buffers
    PROVE  /\ Unexpired(m) \in Buffers
           /\ Live(Unexpired(m)) = {i \in Live(m) : m[i].age < MergeTimeout}
           /\ \A i \in Live(Unexpired(m)) : Unexpired(m)[i] = m[i]
  <1>1. \A i \in Slots : m[i].age \in Nat
    BY BufferFields, TimeoutAssumption
  <1>2. MergeTimeout \in Nat
    BY TimeoutAssumption
  <1>3. \A i \in Slots : Unexpired(m)[i] = IF m[i].age >= MergeTimeout THEN NoSource ELSE m[i]
    BY DEF Unexpired
  <1>4. NoSource.sender = NoSender
    BY DEF NoSource
  <1>5. Unexpired(m) \in Buffers
    BY DEF Unexpired, Buffers
  <1> QED
    BY <1>1, <1>2, <1>3, <1>4, <1>5 DEF Live

\* Every sender gets a buffer of its own or a free one, its own first.
LEMMA SlotForType ==
    ASSUME NEW s \in Senders, UsableSlots(s) # {}
    PROVE  /\ SlotFor(s) \in UsableSlots(s)
           /\ SlotFor(s) \in Slots
           /\ \A j \in Slots : merge[j].sender = s => merge[SlotFor(s)].sender = s
  <1>1. UsableSlots(s) \subseteq {0, 1}
    BY DEF UsableSlots, Slots
  <1>2. \E i \in UsableSlots(s) : \A j \in UsableSlots(s) : i <= j
    BY <1>1
  <1>3. SlotFor(s) \in UsableSlots(s)
    BY <1>2 DEF SlotFor
  <1> QED
    BY <1>3 DEF UsableSlots

-----------------------------------------------------------------------------
(* Type correctness *)

LEMMA EmptyBuffersType == EmptyBuffers \in Buffers /\ Live(EmptyBuffers) = {}
  BY DEF EmptyBuffers, Buffers, Live, NoSource

\* The ages start at zero.
LEMMA ZeroAge ==
    /\ 0 \in 0 .. SyncTimeout
    /\ 0 \in 0 .. OutputTimeout + 1
    /\ 0 \in 0 .. MaxGap
  BY TimeoutAssumption

LEMMA InitTypeOK == Init => TypeOK
  <1> SUFFICES ASSUME Init PROVE TypeOK
    OBVIOUS
  <1>1. syncAge \in 0 .. SyncTimeout /\ packetAge \in 0 .. OutputTimeout + 1
        /\ lag \in 0 .. MaxGap /\ lastMerge \in Slots
    BY TimeoutAssumption DEF Init, Slots
  <1> QED
    BY <1>1, EmptyBuffersType DEF Init, TypeOK, Frames

\* What clearing keeps of the types.
LEMMA ClearType ==
    /\ ClearMerge => /\ merge' = EmptyBuffers /\ merge' \in Buffers
                     /\ lastMerge' \in Slots /\ cancelPending' \in BOOLEAN
                     /\ lock' \in Senders \cup {NoSender}
    /\ ClearSync => /\ syncActive' \in BOOLEAN /\ syncPending' \in BOOLEAN
                    /\ syncAge' \in 0 .. SyncTimeout
  <1>1. ASSUME ClearMerge
        PROVE  /\ merge' = EmptyBuffers /\ merge' \in Buffers
               /\ lastMerge' \in Slots /\ cancelPending' \in BOOLEAN
               /\ lock' \in Senders \cup {NoSender}
    BY <1>1, EmptyBuffersType DEF ClearMerge, Slots
  <1>2. ASSUME ClearSync
        PROVE  /\ syncActive' \in BOOLEAN /\ syncPending' \in BOOLEAN
               /\ syncAge' \in 0 .. SyncTimeout
    BY <1>2, ZeroAge DEF ClearSync
  <1> QED
    BY <1>1, <1>2

\* An accepted packet is stored in a buffer of the table.
LEMMA StoreType ==
    ASSUME TypeOK, NEW s \in Senders, NEW level \in Levels, StoreArtDmx(s, level)
    PROVE  /\ merge' \in Buffers
           /\ lastMerge' \in Slots
           /\ cancelPending' = FALSE
           /\ lock' \in Senders \cup {NoSender}
           /\ merge'[lastMerge'] = [sender |-> s, level |-> level, age |-> 0]
  <1> DEFINE source == [sender |-> s, level |-> level, age |-> 0]
  <1>1. source \in Sources
    BY TimeoutAssumption DEF Sources
  <1>2. CASE cancelPending
    <2>1. 0 \in Slots
      BY DEF Slots
    <2>2. merge' = [EmptyBuffers EXCEPT ![0] = source] /\ lastMerge' = 0 /\ lock' = s
      BY <1>2 DEF StoreArtDmx
    <2>3. cancelPending' = FALSE
      BY DEF StoreArtDmx
    <2> QED
      BY <1>1, <2>1, <2>2, <2>3, EmptyBuffersType DEF Buffers
  <1>3. CASE ~cancelPending
    <2>1. SlotFor(s) \in Slots
      BY <1>3, SlotForType DEF StoreArtDmx
    <2>2. merge' = [merge EXCEPT ![SlotFor(s)] = source] /\ lastMerge' = SlotFor(s)
          /\ lock' \in {lock, NoSender}
      BY <1>3 DEF StoreArtDmx
    <2>3. cancelPending' = FALSE
      BY DEF StoreArtDmx
    <2> QED
      BY <1>1, <2>1, <2>2, <2>3 DEF Buffers, TypeOK
  <1> QED
    BY <1>2, <1>3

LEMMA TickType ==
    ASSUME TypeOK, Tick
    PROVE  /\ merge' \in Buffers /\ Live(merge') = Live(merge)
           /\ \A i \in Live(merge) :
                 /\ merge'[i].sender = merge[i].sender
                 /\ merge'[i].level = merge[i].level
                 /\ merge'[i].age = Older(merge[i].age, MergeTimeout)
           /\ \A i \in Slots \ Live(merge) : merge'[i] = merge[i]
           /\ packetAge' \in 0 .. OutputTimeout + 1
           /\ syncAge' \in 0 .. SyncTimeout
           /\ lag' \in 0 .. MaxGap
  <1>1. \A i \in Live(merge) :
           /\ merge'[i] \in Sources
           /\ merge'[i].sender = merge[i].sender
           /\ merge'[i].level = merge[i].level
           /\ merge'[i].age = Older(merge[i].age, MergeTimeout)
    <2> TAKE i \in Live(merge)
    <2>1. i \in Slots /\ merge[i] \in Sources
      BY BufferFields DEF Live, TypeOK
    <2>2. merge'[i] = [merge[i] EXCEPT !.age = Older(merge[i].age, MergeTimeout)]
      BY <2>1 DEF Tick
    <2>3. Older(merge[i].age, MergeTimeout) \in 0 .. MergeTimeout
      BY <2>1, TimeoutAssumption DEF Older, Sources
    <2> QED
      BY <2>1, <2>2, <2>3 DEF Sources
  <1>2. \A i \in Slots \ Live(merge) : merge'[i] = merge[i] /\ merge[i] = NoSource
    BY BufferFields DEF Tick, TypeOK
  <1>3. \A i \in Slots : merge'[i] \in Sources \cup {NoSource}
    BY <1>1, <1>2
  <1>4. merge' \in Buffers
    <2>1. DOMAIN merge' = Slots /\ merge' = [i \in Slots |-> merge'[i]]
      BY DEF Tick
    <2> QED
      BY <1>3, <2>1 DEF Buffers
  <1>5. Live(merge') = Live(merge)
    <2>1. \A i \in Slots : merge'[i].sender = merge[i].sender
      BY <1>1, <1>2
    <2> QED
      BY <2>1 DEF Live
  <1>6. /\ packetAge' \in 0 .. OutputTimeout + 1
        /\ syncAge' \in 0 .. SyncTimeout
        /\ lag' \in 0 .. MaxGap
    BY TimeoutAssumption DEF Tick, Older, TypeOK
  <1> QED
    BY <1>1, <1>2, <1>4, <1>5, <1>6

\* The output of a step that shows the merge is a frame.
LEMMA ShownType ==
    ASSUME TypeOK, NEW mode,
           output' = Merged(merge, lastMerge, mode, output)
    PROVE  output' \in Frames
  BY MergedType DEF TypeOK

LEMMA AcceptedType ==
    ASSUME TypeOK, NEW s \in Senders, NEW level \in Levels, ArtDmxAccepted(s, level)
    PROVE  TypeOK'
  <1>1. /\ merge' \in Buffers /\ lastMerge' \in Slots /\ cancelPending' \in BOOLEAN
        /\ lock' \in Senders \cup {NoSender}
    BY StoreType DEF ArtDmxAccepted
  <1>2. output' \in Frames
    BY <1>1, MergedType DEF ArtDmxAccepted, DriveOutput, TypeOK
  <1>3. /\ syncPending' \in BOOLEAN /\ failsafe' \in BOOLEAN /\ artnetActive' \in BOOLEAN
        /\ packetAge' \in 0 .. OutputTimeout + 1
    BY ZeroAge DEF ArtDmxAccepted, DriveOutput, TypeOK
  <1> QED
    BY <1>1, <1>2, <1>3 DEF ArtDmxAccepted, Reading, TypeOK, config

LEMMA LoopTimeoutsType ==
    ASSUME TypeOK, LoopTimeouts
    PROVE  TypeOK'
  <1>1. AfterSyncWindow \in Frames
    BY MergedType DEF AfterSyncWindow, TypeOK
  <1>2. /\ merge' \in Buffers /\ lastMerge' \in Slots
        /\ lock' \in Senders \cup {NoSender} /\ output' \in Frames
    <2>1. CASE direction = "output" /\ Unexpired(merge) # merge
      <3>1. merge' \in Buffers
        BY <2>1, UnexpiredType DEF LoopTimeouts, TypeOK
      <3>2. lastMerge' \in Slots
        BY <2>1 DEF LoopTimeouts, IndexAfter, TypeOK, Slots
      <3>3. output' \in Frames
        BY <2>1, <1>1, <3>1, <3>2, MergedType DEF LoopTimeouts
      <3> QED
        BY <2>1, <3>1, <3>2, <3>3 DEF LoopTimeouts, TypeOK
    <2>2. CASE ~(direction = "output" /\ Unexpired(merge) # merge)
      BY <2>2, <1>1 DEF LoopTimeouts, TypeOK
    <2> QED
      BY <2>1, <2>2
  <1>3. syncActive' \in BOOLEAN /\ syncPending' \in BOOLEAN /\ syncAge' = syncAge
    BY DEF LoopTimeouts, CloseSyncWindow
  <1>4. lag' \in 0 .. MaxGap /\ artnetActive' \in BOOLEAN
    BY ZeroAge DEF LoopTimeouts, EndOfUpdate
  <1> QED
    BY <1>2, <1>3, <1>4 DEF LoopTimeouts, EndOfUpdate, TypeOK, config

LEMMA FailsafeType ==
    ASSUME TypeOK, ApplyOutputFailsafe
    PROVE  /\ merge' \in Buffers /\ lastMerge' \in Slots /\ cancelPending' \in BOOLEAN
           /\ lock' \in Senders \cup {NoSender}
           /\ syncActive' \in BOOLEAN /\ syncPending' \in BOOLEAN
           /\ syncAge' \in 0 .. SyncTimeout
           /\ failsafe' \in BOOLEAN /\ output' \in Frames
  BY ClearType DEF ApplyOutputFailsafe, TypeOK, Frames

LEMMA NextTypeOK == TypeOK /\ [Next]_vars => TypeOK'
  <1> SUFFICES ASSUME TypeOK, [Next]_vars PROVE TypeOK'
    OBVIOUS
  <1> USE ZeroAge
  <1>1. CASE ReadNothing
    BY <1>1 DEF ReadNothing, Reading, TypeOK, mergeState, syncState, outputState, config
  <1>2. ASSUME NEW s \in Senders, ArtDmxLockedOut(s) \/ ArtDmxThirdSource(s)
        PROVE  TypeOK'
    BY <1>2 DEF ArtDmxLockedOut, ArtDmxThirdSource, Reading, TypeOK, mergeState,
                syncState, outputState, config
  <1>3. ASSUME NEW s \in Senders, NEW level \in Levels, ArtDmxAccepted(s, level)
        PROVE  TypeOK'
    BY <1>3, AcceptedType
  <1>4. CASE ArtSync
    <2>1. output' \in Frames
      BY <1>4, ShownType DEF ArtSync, TypeOK
    <2> QED
      BY <1>4, <2>1 DEF ArtSync, Reading, TypeOK, mergeState, config
  <1>5. CASE AcCancelMerge
    BY <1>5 DEF AcCancelMerge, Reading, TypeOK, syncState, outputState, config
  <1>6. ASSUME NEW mode \in {"htp", "ltp"}, ArtAddressMergeMode(mode) \/ WebMergeMode(mode)
        PROVE  TypeOK'
    <2>1. output' \in Frames
      BY <1>6, ShownType DEF ArtAddressMergeMode, WebMergeMode
    <2> QED
      BY <1>6, <2>1 DEF ArtAddressMergeMode, WebMergeMode, Reading, TypeOK, mergeState, syncState
  <1>7. CASE ArtAddressReset
    BY <1>7, ClearType DEF ArtAddressReset, ClearRuntime, Reading, TypeOK
  <1>8. CASE LoopFailsafe
    BY <1>8, FailsafeType DEF LoopFailsafe, EndOfUpdate, TypeOK, config
  <1>9. CASE LoopTimeouts
    BY <1>9, LoopTimeoutsType
  <1>10. CASE BindRetry
    BY <1>10, ClearType DEF BindRetry, TypeOK, mergeState, syncState, outputState, config
  <1>11. CASE NetworkChange
    BY <1>11, ClearType DEF NetworkChange, TypeOK, mergeState, outputState, config
  <1>12. CASE WebFailsafeMode
    BY <1>12, FailsafeType DEF WebFailsafeMode, TypeOK, config
  <1>13. CASE ApplyRuntimeConfig
    <2>1. output' \in Frames
      BY <1>13, ShownType DEF ApplyRuntimeConfig, TypeOK, Frames
    <2> QED
      BY <1>13, <2>1, ClearType DEF ApplyRuntimeConfig, ClearRuntime, TypeOK
  <1>14. CASE ForeignFrame
    BY <1>14 DEF ForeignFrame, TypeOK, Frames, mergeState, syncState, config
  <1>15. CASE Tick
    BY <1>15, TickType DEF Tick, TypeOK, config
  <1>16. CASE UNCHANGED vars
    BY <1>16 DEF vars, TypeOK, mergeState, syncState, outputState, config
  <1>17. CASE StoreWithoutRestart
    BY <1>17 DEF StoreWithoutRestart, TypeOK, mergeState, syncState, outputState
  <1> QED
    BY <1>1, <1>2, <1>3, <1>4, <1>5, <1>6, <1>7, <1>8, <1>9, <1>10, <1>11, <1>12,
       <1>13, <1>14, <1>15, <1>16, <1>17 DEF Next, ArtDmx, MergeModeCommand

\* Every reachable state is well typed, for any senders, levels and timeouts.
THEOREM TypeCorrect == Spec => []TypeOK
  <1> QED
    BY InitTypeOK, NextTypeOK, PTL DEF Spec

-----------------------------------------------------------------------------
(* Who drives the output *)

\* Only a configuration change that was not applied leaves a source without
\* an active output, and then the output timeout of that source is over.
IdleSourcesAreOld ==
    Live(merge) # {} /\ ~artnetActive => packetAge = OutputTimeout + 1

\* A frame is held no longer than its source is old, so that its window ends
\* no later than that source does.
HeldFrameIsYounger ==
    syncPending => syncAge = SyncTimeout \/ syncAge >= merge[lastMerge].age

\* The invariants of the runs are inductive only together: that the youngest
\* buffer does not expire while the output is active needs the clock shared
\* by the two, that clearing a lock never strands a source needs where the
\* lock keeps it.
SourceInv ==
    /\ ActiveIffSource
    /\ FailsafeIsClean
    /\ LockGivesControl
    /\ OneSlotPerSender
    /\ LatestIsYoungest
    /\ HeldFrameHasWindow
    /\ IdleSourcesAreOld
    /\ HeldFrameIsYounger

\* With everything cleared there is nothing to relate.
LEMMA ClearedInv ==
    ASSUME merge' = EmptyBuffers, ~artnetActive', lock' = NoSender, ~syncPending'
    PROVE  SourceInv'
  <1>1. Live(merge') = {}
    BY EmptyBuffersType
  <1> QED
    BY <1>1 DEF SourceInv, ActiveIffSource, FailsafeIsClean, LockGivesControl,
                OneSlotPerSender, LatestIsYoungest, HeldFrameHasWindow,
                IdleSourcesAreOld, HeldFrameIsYounger

\* Steps that leave the buffers and their clock alone.
LEMMA KeptInv ==
    ASSUME SourceInv,
           UNCHANGED <<merge, lastMerge, lock, artnetActive, failsafe, packetAge>>,
           unapplied' \/ UNCHANGED <<protocol, direction, unapplied>>,
           syncPending' => syncPending /\ syncActive' /\ syncAge' = syncAge
    PROVE  SourceInv'
  <1>1. Live(merge') = Live(merge)
    BY DEF Live
  <1>2. ActiveIffSource'
    BY <1>1 DEF SourceInv, ActiveIffSource, MayDrive
  <1>3. /\ FailsafeIsClean' /\ LockGivesControl' /\ OneSlotPerSender'
        /\ LatestIsYoungest' /\ HeldFrameHasWindow' /\ IdleSourcesAreOld'
        /\ HeldFrameIsYounger'
    BY <1>1 DEF SourceInv, FailsafeIsClean, LockGivesControl, OneSlotPerSender,
                LatestIsYoungest, HeldFrameHasWindow, IdleSourcesAreOld, HeldFrameIsYounger
  <1> QED
    BY <1>2, <1>3 DEF SourceInv

\* An accepted packet: its buffer is the youngest, and its sender has one.
LEMMA AcceptedInv ==
    ASSUME TypeOK, SourceInv, NEW s \in Senders, NEW level \in Levels,
           ArtDmxAccepted(s, level)
    PROVE  SourceInv'
  <1> DEFINE source == [sender |-> s, level |-> level, age |-> 0]
  <1>1. /\ merge' \in Buffers /\ lastMerge' \in Slots /\ merge'[lastMerge'] = source
        /\ s # NoSender
    BY StoreType, SenderAssumption DEF ArtDmxAccepted
  <1>2. lastMerge' \in Live(merge')
    BY <1>1 DEF Live
  <1>3. /\ artnetActive' = TRUE /\ failsafe' = FALSE /\ packetAge' = 0
        /\ syncPending' = syncActive /\ syncActive' = syncActive /\ MayDrive'
        /\ syncAge' = syncAge
    BY DEF ArtDmxAccepted, DriveOutput, MayDrive, config
  <1>4. \A j \in Slots : merge'[j] # source => merge'[j] = NoSource \/ merge'[j] = merge[j]
    <2>1. CASE cancelPending
      BY <2>1 DEF ArtDmxAccepted, StoreArtDmx, EmptyBuffers
    <2>2. CASE ~cancelPending
      BY <2>2 DEF ArtDmxAccepted, StoreArtDmx, TypeOK, Buffers
    <2> QED
      BY <2>1, <2>2
  <1>5. LatestIsYoungest'
    <2>1. \A i \in Live(merge') : merge'[i].age \in Nat
      BY <1>1, BufferFields DEF Live
    <2>2. merge'[lastMerge'].age = 0
      BY <1>1
    <2> QED
      BY <1>2, <1>3, <2>1, <2>2, TimeoutAssumption DEF LatestIsYoungest
  <1>6. OneSlotPerSender'
    <2>1. CASE cancelPending
      <3>1. \A i \in Slots : i # 0 => merge'[i].sender = NoSender
        BY <2>1 DEF ArtDmxAccepted, StoreArtDmx, EmptyBuffers, NoSource
      <3> QED
        BY <3>1 DEF OneSlotPerSender, Live
    <2>2. CASE ~cancelPending
      <3>1. UsableSlots(s) # {} /\ merge' = [merge EXCEPT ![SlotFor(s)] = source]
        BY <2>2 DEF ArtDmxAccepted, StoreArtDmx
      <3>2. \A j \in Slots : j # SlotFor(s) => merge[j].sender # s
        <4> SUFFICES ASSUME NEW j \in Slots, j # SlotFor(s), merge[j].sender = s
                     PROVE  FALSE
          OBVIOUS
        <4>1. SlotFor(s) \in Slots /\ merge[SlotFor(s)].sender = s
          BY <3>1, SlotForType
        <4> QED
          BY <4>1, <1>1 DEF SourceInv, OneSlotPerSender, Live
      <3>3. \A j \in Slots : j # SlotFor(s) => merge'[j] = merge[j]
        BY <3>1 DEF TypeOK, Buffers
      <3>4. SlotFor(s) \in Slots /\ merge'[SlotFor(s)].sender = s
        BY <3>1, SlotForType DEF TypeOK, Buffers
      <3> QED
        BY <3>2, <3>3, <3>4 DEF SourceInv, OneSlotPerSender, Live
    <2> QED
      BY <2>1, <2>2
  <1>7. LockGivesControl'
    <2>1. CASE cancelPending
      BY <2>1 DEF ArtDmxAccepted, StoreArtDmx, EmptyBuffers, LockGivesControl, Slots
    <2>2. CASE ~cancelPending /\ lock' # NoSender
      <3>1. Live(merge) # {} /\ lock # NoSender /\ lock' = lock /\ lock = s
        BY <2>2 DEF ArtDmxAccepted, StoreArtDmx, IsLockedOut
      <3>2. merge[0].sender = s /\ merge[1] = NoSource
        BY <3>1 DEF SourceInv, LockGivesControl
      <3>3. UsableSlots(s) = {0}
        BY <3>2, <1>1 DEF UsableSlots, Slots, NoSource
      <3>4. SlotFor(s) = 0
        BY <3>3, SlotForType
      <3>5. merge' = [merge EXCEPT ![0] = source]
        BY <2>2, <3>4 DEF ArtDmxAccepted, StoreArtDmx
      <3> QED
        BY <3>1, <3>2, <3>5 DEF LockGivesControl, TypeOK, Buffers, Slots
    <2> QED
      BY <2>1, <2>2 DEF LockGivesControl
  <1>8. HeldFrameIsYounger'
    BY <1>1, <1>3, TimeoutAssumption DEF HeldFrameIsYounger, TypeOK
  <1> QED
    BY <1>2, <1>3, <1>5, <1>6, <1>7, <1>8 DEF SourceInv, ActiveIffSource, FailsafeIsClean,
       HeldFrameHasWindow, IdleSourcesAreOld

\* What expires is never the youngest source of an output that is still
\* active.
LEMMA ActiveKeepsLatest ==
    ASSUME TypeOK, SourceInv, artnetActive, ~OutputTimedOut
    PROVE  lastMerge \in Live(Unexpired(merge))
  <1>1. lastMerge \in Live(merge) /\ packetAge <= OutputTimeout
    BY TimeoutAssumption DEF SourceInv, ActiveIffSource, LatestIsYoungest, OutputTimedOut, TypeOK
  <1>2. merge[lastMerge].age \in Nat /\ merge \in Buffers
    BY <1>1, BufferFields, TimeoutAssumption DEF Live, TypeOK
  <1>3. merge[lastMerge].age <= OutputTimeout
    BY <1>1, <1>2, TimeoutAssumption DEF SourceInv, LatestIsYoungest
  <1>4. merge[lastMerge].age < MergeTimeout
    BY <1>2, <1>3, TimeoutAssumption
  <1> QED
    BY <1>1, <1>2, <1>4, UnexpiredType

\* The timeouts: as long as the youngest source stays, the lock, the held
\* frame and the LTP index keep the source they speak of; with it everything
\* goes, the frame held back among it.
LEMMA LoopTimeoutsInv ==
    ASSUME TypeOK, SourceInv, LoopTimeouts
    PROVE  SourceInv'
  <1>1. /\ UNCHANGED <<failsafe, packetAge, syncAge, config>>
        /\ artnetActive' => artnetActive
        /\ syncPending' => syncPending /\ syncActive' /\ ~SyncTimedOut
    <2>1. syncPending => syncActive
      BY DEF SourceInv, HeldFrameHasWindow
    <2> QED
      BY <2>1 DEF LoopTimeouts, CloseSyncWindow, SyncTimedOut
  <1>2. /\ MayDrive' <=> MayDrive
        /\ unapplied' = unapplied
    BY <1>1 DEF MayDrive, config
  <1>3. CASE ~(direction = "output" /\ Unexpired(merge) # merge)
    <2>1. UNCHANGED <<merge, lastMerge, lock>> /\ Live(merge') = Live(merge)
      BY <1>3 DEF LoopTimeouts
    <2>2. artnetActive /\ ~artnetActive' => unapplied /\ packetAge = OutputTimeout + 1
      <3>1. artnetActive /\ ~artnetActive' => OutputTimedOut /\ direction = "input"
        BY DEF LoopTimeouts
      <3>2. OutputTimedOut => packetAge = OutputTimeout + 1
        BY TimeoutAssumption DEF OutputTimedOut, TypeOK
      <3> QED
        BY <3>1, <3>2 DEF SourceInv, ActiveIffSource, MayDrive
    <2>3. ActiveIffSource' /\ IdleSourcesAreOld'
      BY <1>1, <1>2, <2>1, <2>2 DEF SourceInv, ActiveIffSource, IdleSourcesAreOld
    <2>4. /\ FailsafeIsClean' /\ LockGivesControl' /\ OneSlotPerSender'
          /\ LatestIsYoungest' /\ HeldFrameHasWindow' /\ HeldFrameIsYounger'
      BY <1>1, <2>1 DEF SourceInv, FailsafeIsClean, LockGivesControl, OneSlotPerSender,
         LatestIsYoungest, HeldFrameHasWindow, HeldFrameIsYounger
    <2> QED
      BY <2>3, <2>4 DEF SourceInv
  <1>4. CASE direction = "output" /\ Unexpired(merge) # merge
    <2>1. /\ merge' = Unexpired(merge) /\ lastMerge' = IndexAfter(merge', lastMerge)
          /\ lock' = IF Live(merge') = {} THEN NoSender ELSE lock
          /\ ~OutputTimedOut
      BY <1>4 DEF LoopTimeouts
    <2>2. merge \in Buffers /\ (artnetActive' <=> artnetActive)
      BY <2>1 DEF TypeOK, LoopTimeouts
    <2>3. /\ Live(merge') = {i \in Live(merge) : merge[i].age < MergeTimeout}
          /\ \A i \in Live(merge') : merge'[i] = merge[i]
      BY <2>1, <2>2, UnexpiredType
    <2>4. CASE Live(merge) = {}
      <3>1. Live(merge') = {}
        BY <2>3, <2>4
      <3> QED
        BY <1>1, <1>2, <2>1, <2>2, <2>4, <3>1 DEF SourceInv, ActiveIffSource, FailsafeIsClean,
           LockGivesControl, OneSlotPerSender, LatestIsYoungest, HeldFrameHasWindow,
           IdleSourcesAreOld, HeldFrameIsYounger
    <2>5. CASE lastMerge \in Live(merge')
      <3>1. Live(merge) # {} /\ lastMerge \in Live(merge)
        BY <2>3, <2>5
      <3>2. lastMerge' = lastMerge
        <4>1. 1 - lastMerge # lastMerge
          BY DEF TypeOK, Slots
        <4> QED
          BY <2>1, <2>5, <4>1 DEF IndexAfter
      <3>3. lock' = lock
        BY <2>1, <2>5
      <3>4. LatestIsYoungest'
        BY <1>1, <2>3, <2>5, <3>1, <3>2 DEF SourceInv, LatestIsYoungest
      <3>5. OneSlotPerSender'
        BY <2>3 DEF SourceInv, OneSlotPerSender
      <3>6. LockGivesControl'
        <4>1. ASSUME lock # NoSender
              PROVE  merge'[0].sender = lock /\ merge'[1] = NoSource
          <5>1. merge[0].sender = lock /\ merge[1] = NoSource
            BY <4>1 DEF SourceInv, LockGivesControl
          <5>2. lastMerge = 0
            BY <3>1, <5>1 DEF Live, Slots, NoSource
          <5>3. merge'[0] = merge[0]
            BY <2>3, <2>5, <5>2
          <5>4. 1 \in Slots /\ 1 \notin Live(merge')
            BY <2>3, <5>1 DEF Live, NoSource, Slots
          <5>5. merge' \in Buffers
            BY <2>1, <2>2, UnexpiredType
          <5> QED
            BY <5>1, <5>3, <5>4, <5>5, BufferFields
        <4> QED
          BY <4>1, <3>3 DEF LockGivesControl
      <3>7. merge'[lastMerge'] = merge[lastMerge]
        BY <2>3, <2>5, <3>2
      <3>8. ActiveIffSource' /\ IdleSourcesAreOld'
        BY <1>1, <1>2, <2>2, <2>5, <3>1 DEF SourceInv, ActiveIffSource, IdleSourcesAreOld
      <3>9. FailsafeIsClean' /\ HeldFrameHasWindow' /\ HeldFrameIsYounger'
        BY <1>1, <2>5, <3>1, <3>7 DEF SourceInv, FailsafeIsClean, HeldFrameHasWindow,
           HeldFrameIsYounger
      <3> QED
        BY <3>4, <3>5, <3>6, <3>8, <3>9 DEF SourceInv
    <2>6. CASE Live(merge) # {} /\ lastMerge \notin Live(merge')
      <3>1. ~artnetActive
        BY <2>1, <2>6, ActiveKeepsLatest
      <3>2. lastMerge \in Live(merge) /\ merge[lastMerge].age \in 0 .. MergeTimeout
        BY <2>2, <2>6, BufferFields DEF SourceInv, LatestIsYoungest, Live
      <3>3. merge[lastMerge].age = MergeTimeout
        BY <2>3, <2>6, <3>2, TimeoutAssumption
      <3>4. Live(merge') = {}
        <4> SUFFICES ASSUME NEW i \in Live(merge'), i \in Live(merge),
                            merge[i].age < MergeTimeout
                     PROVE  FALSE
          BY <2>3
        <4>1. merge[lastMerge].age <= merge[i].age
          BY <2>6 DEF SourceInv, LatestIsYoungest
        <4>2. merge[i].age \in Nat
          BY <2>2, BufferFields, TimeoutAssumption DEF Live
        <4> QED
          BY <3>3, <4>1, <4>2, TimeoutAssumption
      <3>5. ~syncPending'
        <4>1. ASSUME syncPending PROVE SyncTimedOut
          <5>1. syncActive /\ syncAge \in 0 .. SyncTimeout
            BY <4>1 DEF SourceInv, HeldFrameHasWindow, TypeOK
          <5>2. syncAge = SyncTimeout \/ syncAge >= MergeTimeout
            BY <3>3, <4>1 DEF SourceInv, HeldFrameIsYounger
          <5> QED
            BY <5>1, <5>2, TimeoutAssumption DEF SyncTimedOut
        <4> QED
          BY <1>1, <4>1
      <3>6. merge' = EmptyBuffers
        <4>1. merge' \in Buffers
          BY <2>1, <2>2, UnexpiredType
        <4>2. \A i \in Slots : merge'[i] = NoSource
          BY <3>4, <4>1, BufferFields
        <4> QED
          BY <4>1, <4>2 DEF EmptyBuffers, Buffers
      <3>7. lock' = NoSender /\ ~artnetActive'
        BY <2>1, <2>2, <3>1, <3>4
      <3> QED
        BY <3>5, <3>6, <3>7, ClearedInv
    <2> QED
      BY <2>3, <2>4, <2>5, <2>6
  <1> QED
    BY <1>3, <1>4

\* Time ages all sources and the output timeout together.
LEMMA TickInv ==
    ASSUME TypeOK, SourceInv, Tick
    PROVE  SourceInv'
  <1>1. /\ Live(merge') = Live(merge)
        /\ \A i \in Slots : merge'[i].sender = merge[i].sender
        /\ \A i \in Slots \ Live(merge) : merge'[i] = merge[i]
        /\ \A i \in Live(merge) : merge'[i].age = Older(merge[i].age, MergeTimeout)
    BY TickType
  <1>2. /\ UNCHANGED <<lastMerge, lock, syncActive, syncPending, artnetActive, failsafe, config>>
        /\ packetAge' = IF artnetActive THEN Older(packetAge, OutputTimeout + 1) ELSE packetAge
    BY DEF Tick
  <1>3. LatestIsYoungest'
    <2> SUFFICES ASSUME Live(merge) # {}
                 PROVE  LatestIsYoungest'
      BY <1>1 DEF LatestIsYoungest
    <2>1. lastMerge \in Live(merge) /\ (~artnetActive => packetAge = OutputTimeout + 1)
      BY DEF SourceInv, LatestIsYoungest, IdleSourcesAreOld
    <2>2. \A i \in Live(merge) : merge[i].age \in 0 .. MergeTimeout
      BY BufferFields DEF Live, TypeOK
    <2>3. \A i \in Live(merge) : merge'[lastMerge].age <= merge'[i].age
      BY <1>1, <2>1, <2>2, TimeoutAssumption DEF SourceInv, LatestIsYoungest, Older
    <2>4. packetAge' = IF merge'[lastMerge].age > OutputTimeout
                         THEN OutputTimeout + 1 ELSE merge'[lastMerge].age
      BY <1>1, <1>2, <2>1, <2>2, TimeoutAssumption DEF SourceInv, LatestIsYoungest, Older
    <2> QED
      BY <1>1, <1>2, <2>1, <2>3, <2>4 DEF LatestIsYoungest
  <1>4. LockGivesControl'
    <2>1. lock # NoSender => 1 \in Slots \ Live(merge) /\ 0 \in Slots
      BY DEF SourceInv, LockGivesControl, Live, NoSource, Slots
    <2> QED
      BY <1>1, <1>2, <2>1 DEF SourceInv, LockGivesControl
  <1>5. OneSlotPerSender'
    BY <1>1 DEF SourceInv, OneSlotPerSender, Live
  <1>6. HeldFrameIsYounger'
    <2> SUFFICES ASSUME syncPending
                 PROVE  \/ syncAge' = SyncTimeout
                        \/ syncAge' >= merge'[lastMerge].age
      BY <1>2 DEF HeldFrameIsYounger
    <2>1. syncActive /\ lastMerge \in Live(merge)
      BY DEF SourceInv, HeldFrameHasWindow, LatestIsYoungest
    <2>2. /\ merge[lastMerge].age \in 0 .. MergeTimeout
          /\ merge'[lastMerge].age = Older(merge[lastMerge].age, MergeTimeout)
      BY <1>1, <2>1, BufferFields DEF Live, TypeOK
    <2>3. syncAge' = Older(syncAge, SyncTimeout) /\ syncAge \in 0 .. SyncTimeout
      BY <2>1 DEF Tick, TypeOK
    <2>4. syncAge = SyncTimeout \/ syncAge >= merge[lastMerge].age
      BY DEF SourceInv, HeldFrameIsYounger
    <2> QED
      BY <2>2, <2>3, <2>4, TimeoutAssumption DEF Older
  <1>7. IdleSourcesAreOld'
    BY <1>1, <1>2 DEF SourceInv, IdleSourcesAreOld
  <1>8. ActiveIffSource'
    BY <1>1, <1>2 DEF SourceInv, ActiveIffSource, MayDrive, config
  <1> QED
    BY <1>1, <1>2, <1>3, <1>4, <1>5, <1>6, <1>7, <1>8 DEF SourceInv, FailsafeIsClean,
       HeldFrameHasWindow

LEMMA SourceInvStep == TypeOK /\ SourceInv /\ [Next]_vars => SourceInv'
  <1> SUFFICES ASSUME TypeOK, SourceInv, [Next]_vars PROVE SourceInv'
    OBVIOUS
  <1>1. CASE ReadNothing
    BY <1>1, KeptInv DEF ReadNothing, mergeState, syncState, outputState, config,
       SourceInv, HeldFrameHasWindow
  <1>2. ASSUME NEW s \in Senders, ArtDmxLockedOut(s) \/ ArtDmxThirdSource(s)
        PROVE  SourceInv'
    BY <1>2, KeptInv DEF ArtDmxLockedOut, ArtDmxThirdSource, mergeState, syncState,
       outputState, config, SourceInv, HeldFrameHasWindow
  <1>3. ASSUME NEW s \in Senders, NEW level \in Levels, ArtDmxAccepted(s, level)
        PROVE  SourceInv'
    BY <1>3, AcceptedInv
  <1>4. CASE ArtSync
    BY <1>4, KeptInv DEF ArtSync, mergeState, config
  <1>5. CASE AcCancelMerge
    BY <1>5, KeptInv DEF AcCancelMerge, syncState, outputState, config,
       SourceInv, HeldFrameHasWindow
  <1>6. ASSUME NEW mode \in {"htp", "ltp"}, ArtAddressMergeMode(mode) \/ WebMergeMode(mode)
        PROVE  SourceInv'
    BY <1>6, KeptInv DEF ArtAddressMergeMode, WebMergeMode, mergeState, syncState,
       SourceInv, HeldFrameHasWindow
  <1>7. CASE ArtAddressReset
    BY <1>7, ClearedInv DEF ArtAddressReset, ClearRuntime, ClearMerge, ClearSync
  <1>8. CASE LoopFailsafe
    BY <1>8, ClearedInv DEF LoopFailsafe, ApplyOutputFailsafe, ClearMerge, ClearSync
  <1>9. CASE LoopTimeouts
    BY <1>9, LoopTimeoutsInv
  <1>10. CASE BindRetry
    BY <1>10, KeptInv DEF BindRetry, ClearSync, mergeState, syncState, outputState,
       config, SourceInv, HeldFrameHasWindow
  <1>11. CASE NetworkChange
    BY <1>11, KeptInv DEF NetworkChange, ClearSync, mergeState, outputState, config
  <1>12. CASE WebFailsafeMode
    <2>1. ~artnetActive
      BY <1>12 DEF WebFailsafeMode, SourceInv, FailsafeIsClean
    <2> QED
      BY <1>12, <2>1, ClearedInv DEF WebFailsafeMode, ApplyOutputFailsafe, ClearMerge,
         ClearSync
  <1>13. CASE ApplyRuntimeConfig
    BY <1>13, ClearedInv DEF ApplyRuntimeConfig, ClearRuntime, ClearMerge, ClearSync
  <1>14. CASE ForeignFrame \/ StoreWithoutRestart
    BY <1>14, KeptInv DEF ForeignFrame, StoreWithoutRestart, mergeState, syncState,
       outputState, config, SourceInv, HeldFrameHasWindow
  <1>15. CASE Tick
    BY <1>15, TickInv
  <1>16. CASE UNCHANGED vars
    BY <1>16, KeptInv DEF vars, mergeState, syncState, outputState, config,
       SourceInv, HeldFrameHasWindow
  <1> QED
    BY <1>1, <1>2, <1>3, <1>4, <1>5, <1>6, <1>7, <1>8, <1>9, <1>10, <1>11, <1>12,
       <1>13, <1>14, <1>15, <1>16 DEF Next, ArtDmx, MergeModeCommand

LEMMA InitSourceInv == Init => SourceInv
  BY EmptyBuffersType DEF Init, SourceInv, ActiveIffSource, FailsafeIsClean,
     LockGivesControl, OneSlotPerSender, LatestIsYoungest, HeldFrameHasWindow,
     IdleSourcesAreOld, HeldFrameIsYounger

LEMMA SourceInvHolds == Spec => []SourceInv
  <1> QED
    BY InitSourceInv, SourceInvStep, TypeCorrect, PTL DEF Spec

\* Art-Net never claims the output without a source, whatever is stored and
\* never applied; and as long as everything stored is applied, it claims the
\* output exactly while it has a source, in its own protocol and direction:
\* the output timeout and the merge timeout can neither leave a frame behind
\* nor take the last source from an active output.
THEOREM ActiveOutputHasSource == Spec => []ActiveIffSource
  <1>1. SourceInv => ActiveIffSource
    BY DEF SourceInv
  <1> QED
    BY <1>1, SourceInvHolds, PTL

\* The failsafe leaves no source, held frame or lock behind.
THEOREM FailsafeClearsAll == Spec => []FailsafeIsClean
  <1>1. SourceInv => FailsafeIsClean
    BY DEF SourceInv
  <1> QED
    BY <1>1, SourceInvHolds, PTL

\* While the lock of AcCancelMerge holds, its sender is the only source.
THEOREM LockedSenderIsAlone == Spec => []LockGivesControl
  <1>1. SourceInv => LockGivesControl
    BY DEF SourceInv
  <1> QED
    BY <1>1, SourceInvHolds, PTL

\* No sender is merged with itself, so HTP cannot keep its own old levels up.
THEOREM SendersAreMergedOnce == Spec => []OneSlotPerSender
  <1>1. SourceInv => OneSlotPerSender
    BY DEF SourceInv
  <1> QED
    BY <1>1, SourceInvHolds, PTL

\* LTP shows the youngest source, and the output timeout is its age.
THEOREM LatestTakesPrecedence == Spec => []LatestIsYoungest
  <1>1. SourceInv => LatestIsYoungest
    BY DEF SourceInv
  <1> QED
    BY <1>1, SourceInvHolds, PTL

\* A frame held for ArtSync always has a window to end and a source to show.
THEOREM HeldFrameIsReleasable == Spec => []HeldFrameHasWindow
  <1>1. SourceInv => HeldFrameHasWindow
    BY DEF SourceInv
  <1> QED
    BY <1>1, SourceInvHolds, PTL
-----------------------------------------------------------------------------
(* The promise of a receiver *)

LEMMA InitArbiter == Init => Arbiter!Init
  BY EmptyBuffersType DEF Init, Arbiter!Init, MayDrive

\* Showing the merge again, in whatever mode, shows data of a sender as long
\* as there is one, and changes nothing otherwise.
LEMMA RemergeFollows ==
    ASSUME TypeOK, SourceInv, NEW mode,
           output' \in {output, Merged(merge, lastMerge, mode, output)},
           Live(merge') = Live(merge),
           UNCHANGED <<failsafe, protocol, direction, unapplied>>
    PROVE  [Arbiter!Follow]_(Arbiter!vars)
  <1>1. CASE Live(merge) # {}
    <2>1. failsafe = FALSE
      BY <1>1 DEF SourceInv, FailsafeIsClean, TypeOK
    <2>2. output' \in Levels \cup {output}
      BY <1>1, MergedLevel DEF TypeOK
    <2> QED
      BY <1>1, <2>1, <2>2 DEF Arbiter!Follow, MayDrive
  <1>2. CASE Live(merge) = {}
    <2>1. output' = output
      BY <1>2 DEF Merged
    <2> QED
      BY <2>1 DEF Arbiter!vars, MayDrive
  <1> QED
    BY <1>1, <1>2

LEMMA AcceptedFollows ==
    ASSUME TypeOK, NEW s \in Senders, NEW level \in Levels, ArtDmxAccepted(s, level)
    PROVE  Arbiter!Follow
  <1>1. /\ merge' \in Buffers /\ lastMerge' \in Slots
        /\ output' \in {output, Merged(merge', lastMerge', mergeMode, output)}
        /\ MayDrive /\ failsafe' = FALSE
        /\ UNCHANGED <<protocol, direction, unapplied>>
    BY StoreType DEF ArtDmxAccepted, DriveOutput, config
  <1>2. Live(merge') # {}
    <2>1. merge'[lastMerge'] = [sender |-> s, level |-> level, age |-> 0]
      BY StoreType DEF ArtDmxAccepted
    <2> QED
      BY <1>1, <2>1, SenderAssumption DEF Live
  <1>3. output' \in Levels \cup {output}
    BY <1>1, <1>2, MergedLevel
  <1> QED
    BY <1>1, <1>2, <1>3 DEF Arbiter!Follow, MayDrive

\* The last sources may go without a failsafe only where one that was never
\* applied took the output away: else the youngest source stays.
LEMMA LoopTimeoutsFollow ==
    ASSUME TypeOK, SourceInv, LoopTimeouts
    PROVE  [Arbiter!Follow \/ Arbiter!FallSilentUnnoticed]_(Arbiter!vars)
  <1>1. UNCHANGED <<failsafe, protocol, direction, unapplied>>
    BY DEF LoopTimeouts, config
  <1>2. AfterSyncWindow \in {output, Merged(merge, lastMerge, mergeMode, output)}
    BY DEF AfterSyncWindow
  <1>3. CASE direction = "output" /\ Unexpired(merge) # merge
    <2> DEFINE left == Unexpired(merge)
    <2>1. /\ left \in Buffers /\ lastMerge' \in Slots /\ merge' = left
          /\ output' = Merged(left, lastMerge', mergeMode, AfterSyncWindow)
      BY <1>3, UnexpiredType DEF LoopTimeouts, IndexAfter, TypeOK, Slots
    <2>2. CASE Live(left) = {}
      <3>1. output' = AfterSyncWindow
        BY <2>1, <2>2 DEF Merged
      <3>2. CASE Live(merge) = {}
        <4>1. Live(merge') = Live(merge)
          BY <2>1, <2>2, <3>2
        <4> QED
          BY <1>1, <1>2, <3>1, <4>1, RemergeFollows
      <3>3. CASE Live(merge) # {}
        <4>1. unapplied
          <5>1. ~OutputTimedOut
            BY <1>3 DEF LoopTimeouts
          <5>2. ~artnetActive
            BY <2>2, <5>1, ActiveKeepsLatest
          <5> QED
            BY <3>3, <5>2 DEF SourceInv, ActiveIffSource
        <4>2. output' = output \/ output' \in Levels
          BY <1>2, <3>1, <3>3, MergedLevel DEF TypeOK
        <4>3. Live(merge') = {}
          BY <2>1, <2>2
        <4> QED
          BY <1>1, <3>3, <4>1, <4>2, <4>3 DEF Arbiter!FallSilentUnnoticed, MayDrive
      <3> QED
        BY <3>2, <3>3
    <2>3. CASE Live(left) # {}
      <3>1. output' \in Levels
        BY <2>1, <2>3, MergedLevel
      <3>2. Live(merge) # {} /\ Live(merge') # {}
        BY <2>1, <2>3, UnexpiredType DEF TypeOK
      <3>3. failsafe = FALSE
        BY <3>2 DEF SourceInv, FailsafeIsClean, TypeOK
      <3> QED
        BY <1>1, <3>1, <3>2, <3>3 DEF Arbiter!Follow, MayDrive
    <2> QED
      BY <2>2, <2>3
  <1>4. CASE ~(direction = "output" /\ Unexpired(merge) # merge)
    <2>1. output' = AfterSyncWindow /\ merge' = merge
      BY <1>4 DEF LoopTimeouts
    <2>2. Live(merge') = Live(merge)
      BY <2>1
    <2> QED
      BY <1>1, <1>2, <2>1, <2>2, RemergeFollows
  <1> QED
    BY <1>3, <1>4

\* Whatever takes the output away from Art-Net ends the failsafe first, if it
\* is applied.
FailsafeDrives == failsafe => MayDrive \/ unapplied

LEMMA FailsafeDrivesStep ==
    TypeOK /\ SourceInv /\ FailsafeDrives /\ [Next]_vars => FailsafeDrives'
  <1> SUFFICES ASSUME TypeOK, SourceInv, FailsafeDrives, [Next]_vars
               PROVE  FailsafeDrives'
    OBVIOUS
  <1> USE DEF FailsafeDrives
  <1>1. ASSUME UNCHANGED <<failsafe, protocol, direction, unapplied>>
        PROVE  FailsafeDrives'
    BY <1>1 DEF MayDrive
  <1>2. ASSUME failsafe' = FALSE
        PROVE  FailsafeDrives'
    BY <1>2
  <1>3. \/ ReadNothing \/ ArtSync \/ AcCancelMerge \/ LoopTimeouts \/ BindRetry
        \/ NetworkChange \/ ForeignFrame \/ Tick \/ UNCHANGED vars
        => FailsafeDrives'
    BY <1>1 DEF ReadNothing, ArtSync, AcCancelMerge, LoopTimeouts, BindRetry,
       NetworkChange, ForeignFrame, Tick, vars, outputState, config
  <1>4. ASSUME NEW s \in Senders, ArtDmxLockedOut(s) \/ ArtDmxThirdSource(s)
        PROVE  FailsafeDrives'
    BY <1>1, <1>4 DEF ArtDmxLockedOut, ArtDmxThirdSource, outputState, config
  <1>5. ASSUME NEW s \in Senders, NEW level \in Levels, ArtDmxAccepted(s, level)
        PROVE  FailsafeDrives'
    BY <1>2, <1>5 DEF ArtDmxAccepted, DriveOutput
  <1>6. ASSUME NEW mode \in {"htp", "ltp"}, ArtAddressMergeMode(mode) \/ WebMergeMode(mode)
        PROVE  FailsafeDrives'
    BY <1>1, <1>6 DEF ArtAddressMergeMode, WebMergeMode
  <1>7. ArtAddressReset \/ ApplyRuntimeConfig => FailsafeDrives'
    BY <1>2 DEF ArtAddressReset, ApplyRuntimeConfig, ClearRuntime
  <1>8. CASE LoopFailsafe
    BY <1>8 DEF LoopFailsafe, OutputTimedOut, SourceInv, ActiveIffSource, MayDrive, config
  <1>9. CASE WebFailsafeMode
    BY <1>9 DEF WebFailsafeMode, MayDrive, config
  <1>10. CASE StoreWithoutRestart
    BY <1>10 DEF StoreWithoutRestart
  <1> QED
    BY <1>3, <1>4, <1>5, <1>6, <1>7, <1>8, <1>9, <1>10 DEF Next, ArtDmx, MergeModeCommand

LEMMA StepArbiter ==
    TypeOK /\ SourceInv /\ FailsafeDrives /\ [Next]_vars
        => [Arbiter!Next]_(Arbiter!vars)
  <1> SUFFICES ASSUME TypeOK, SourceInv, FailsafeDrives, [Next]_vars
               PROVE  [Arbiter!Next]_(Arbiter!vars)
    OBVIOUS
  <1> USE DEF Arbiter!Next
  <1>1. ASSUME UNCHANGED <<merge, outputState, config>>
        PROVE  UNCHANGED Arbiter!vars
    BY <1>1 DEF outputState, config, MayDrive, Arbiter!vars
  <1>2. CASE ReadNothing \/ AcCancelMerge \/ BindRetry \/ NetworkChange
    BY <1>1, <1>2 DEF ReadNothing, AcCancelMerge, BindRetry, NetworkChange,
       mergeState
  <1>3. ASSUME NEW s \in Senders, ArtDmxLockedOut(s) \/ ArtDmxThirdSource(s)
        PROVE  UNCHANGED Arbiter!vars
    BY <1>1, <1>3 DEF ArtDmxLockedOut, ArtDmxThirdSource, mergeState
  <1>4. ASSUME NEW s \in Senders, NEW level \in Levels, ArtDmxAccepted(s, level)
        PROVE  Arbiter!Next
    BY <1>4, AcceptedFollows
  <1>5. CASE ArtSync
    BY <1>5, RemergeFollows DEF ArtSync, config, mergeState
  <1>6. ASSUME NEW mode \in {"htp", "ltp"}, ArtAddressMergeMode(mode) \/ WebMergeMode(mode)
        PROVE  [Arbiter!Next]_(Arbiter!vars)
    BY <1>6, RemergeFollows DEF ArtAddressMergeMode, WebMergeMode, mergeState
  <1>7. CASE ArtAddressReset
    <2>1. Live(merge') = {}
      BY <1>7, ClearType, EmptyBuffersType DEF ArtAddressReset, ClearRuntime
    <2> QED
      BY <1>7, <2>1 DEF ArtAddressReset, ClearRuntime, MayDrive, Arbiter!Reset
  <1>8. CASE LoopFailsafe
    <2>1. Live(merge) # {} /\ (MayDrive \/ unapplied)
      BY <1>8 DEF LoopFailsafe, OutputTimedOut, SourceInv, ActiveIffSource
    <2>2. Live(merge') = {}
      BY <1>8, ClearType, EmptyBuffersType DEF LoopFailsafe, ApplyOutputFailsafe
    <2> QED
      BY <1>8, <2>1, <2>2 DEF LoopFailsafe, ApplyOutputFailsafe, config, MayDrive,
         Arbiter!FallSilent
  <1>9. CASE LoopTimeouts
    BY <1>9, LoopTimeoutsFollow
  <1>10. CASE WebFailsafeMode
    <2>1. /\ failsafe /\ (MayDrive \/ unapplied) /\ failsafe' = failsafe
          /\ output' \in {FailsafeFrame, output}
      BY <1>10 DEF WebFailsafeMode, ApplyOutputFailsafe, FailsafeDrives, TypeOK
    <2>2. Live(merge) = {} /\ Live(merge') = {}
      BY <1>10, ClearType, EmptyBuffersType DEF WebFailsafeMode, ApplyOutputFailsafe,
         SourceInv, FailsafeIsClean
    <2> QED
      BY <1>10, <2>1, <2>2 DEF WebFailsafeMode, config, MayDrive, Arbiter!ChangeFailsafe
  <1>11. CASE ApplyRuntimeConfig
    <2>1. \/ output' = output
          \/ Live(merge) # {} /\ output' \in Levels
          \/ failsafe /\ output' = FailsafeFrame
      <3>1. \/ output' \in {output, Merged(merge, lastMerge, mergeMode', output)}
            \/ failsafe /\ output' = FailsafeFrame
        BY <1>11 DEF ApplyRuntimeConfig
      <3>2. CASE Live(merge) = {}
        BY <3>1, <3>2 DEF Merged
      <3>3. CASE Live(merge) # {}
        BY <3>1, <3>3, MergedLevel DEF TypeOK
      <3> QED
        BY <3>2, <3>3
    <2>2. Live(merge') = {}
      BY <1>11, ClearType, EmptyBuffersType DEF ApplyRuntimeConfig, ClearRuntime
    <2> QED
      BY <1>11, <2>1, <2>2 DEF ApplyRuntimeConfig, ClearRuntime, MayDrive, Arbiter!Reset
  <1>12. CASE ForeignFrame
    BY <1>12 DEF ForeignFrame, mergeState, config, MayDrive, Arbiter!Yield
  <1>13. CASE Tick
    BY <1>13, TickType DEF Tick, config, MayDrive, Arbiter!vars
  <1>14. CASE UNCHANGED vars
    BY <1>1, <1>14 DEF vars, mergeState, outputState, config
  <1>15. CASE StoreWithoutRestart
    BY <1>15 DEF StoreWithoutRestart, mergeState, outputState, MayDrive, Arbiter!Redirect
  <1> QED
    BY <1>2, <1>3, <1>4, <1>5, <1>6, <1>7, <1>8, <1>9, <1>10, <1>11, <1>12, <1>13,
       <1>14, <1>15 DEF Next, ArtDmx, MergeModeCommand

\* Art-Net keeps the promise of OutputArbiter, for any senders, levels and
\* timeouts: what it writes while it follows senders is a level of one of
\* them, merged, held back or released late; the failsafe follows only on
\* their silence; and others write the frame only where Art-Net may not drive.
\* A configuration that is stored and not applied suspends the last, and lets
\* the sources go without a failsafe, until the next one is applied.
THEOREM ReceiverFollowsArbiter == Spec => ImplementsArbiter
  <1>1. Init => FailsafeDrives
    BY DEF Init, FailsafeDrives
  <1> QED
    BY <1>1, FailsafeDrivesStep, InitArbiter, StepArbiter, SourceInvHolds, TypeCorrect, PTL
       DEF Spec, ImplementsArbiter, Arbiter!Spec

-----------------------------------------------------------------------------
(* What the output shows *)

\* The merge of sources that are there does not depend on what was shown.
LEMMA MergedFromSources ==
    ASSUME NEW m, Live(m) # {}, NEW last, NEW mode, NEW one, NEW other
    PROVE  Merged(m, last, mode, one) = Merged(m, last, mode, other)
  BY DEF Merged

\* It depends on what the buffers contain and not on their age.
LEMMA MergedFromContent ==
    ASSUME NEW m, NEW n, NEW last \in Slots, NEW mode, NEW shown,
           \A i \in Slots : m[i].sender = n[i].sender /\ m[i].level = n[i].level
    PROVE  /\ Content(m) = Content(n)
           /\ Merged(m, last, mode, shown) = Merged(n, last, mode, shown)
  <1>1. Live(m) = Live(n)
    BY DEF Live
  <1>2. Content(m) = Content(n)
    BY DEF Content
  <1>3. CASE Live(m) = {}
    BY <1>1, <1>2, <1>3 DEF Merged
  <1>4. CASE Live(m) = Slots
    <2>1. /\ m[last].level = n[last].level
          /\ m[0].level = n[0].level
          /\ m[1].level = n[1].level
      BY DEF Slots
    <2>2. Live(m) # {}
      BY <1>4 DEF Slots
    <2>3. ASSUME NEW b, Live(b) = Slots
          PROVE  Merged(b, last, mode, shown) = IF mode = "ltp" THEN b[last].level
                                                ELSE Higher(b[0].level, b[1].level)
      BY <2>2, <2>3, <1>4 DEF Merged
    <2> QED
      BY <1>1, <1>2, <1>4, <2>1, <2>3
  <1>5. CASE Live(m) # {} /\ Live(m) # Slots
    <2> DEFINE only == CHOOSE i \in Slots : i \in Live(m)
    <2>1. only \in Slots
      BY <1>5 DEF Live
    <2>2. m[only].level = n[only].level
      BY <2>1
    <2>3. Merged(m, last, mode, shown) = m[only].level
      BY <1>5 DEF Merged
    <2>4. Merged(n, last, mode, shown) = n[only].level
      BY <1>1, <1>5 DEF Merged
    <2> QED
      BY <1>2, <2>2, <2>3, <2>4
  <1> QED
    BY <1>3, <1>2, <1>4, <1>5

\* Without a socket no packet is held: the retry of the bind, which clears the
\* sync window too, never drops one.
UnboundHoldsNothing == ~socketReady => ~syncPending

ShownInv == OutputShowsMerge /\ UnboundHoldsNothing

\* A step that leaves the sources as they are, and what is shown.
LEMMA StillShown ==
    ASSUME ShownInv, TypeOK, dropped' = Dropped,
           \A i \in Slots : merge'[i].sender = merge[i].sender /\ merge'[i].level = merge[i].level,
           UNCHANGED <<lastMerge, mergeMode, output, unapplied>>,
           syncPending => syncPending' \/ NetworkChange
    PROVE  OutputShowsMerge'
  <1> SUFFICES ASSUME Live(merge') # {}, ~syncPending', ~dropped', ~unapplied
               PROVE  output' = Merged(merge', lastMerge', mergeMode', output')
    BY DEF OutputShowsMerge
  <1>0. lastMerge \in Slots
    BY DEF TypeOK
  <1>1. /\ Content(merge') = Content(merge) /\ Live(merge') = Live(merge)
        /\ Merged(merge', lastMerge, mergeMode, output) = Merged(merge, lastMerge, mergeMode, output)
    <2>1. Live(merge') = Live(merge)
      BY DEF Live
    <2>2. /\ Content(merge') = Content(merge)
          /\ Merged(merge', lastMerge, mergeMode, output)
                 = Merged(merge, lastMerge, mergeMode, output)
      BY <1>0, MergedFromContent
    <2> QED
      BY <2>1, <2>2
  <1>2. ~dropped /\ ~(syncPending /\ NetworkChange)
    BY <1>1 DEF Dropped
  <1>3. ~syncPending
    BY <1>2
  <1>4. output = Merged(merge, lastMerge, mergeMode, output)
    BY <1>1, <1>2, <1>3 DEF ShownInv, OutputShowsMerge
  <1> QED
    BY <1>1, <1>4

\* A step that shows the merge.
LEMMA NowShown ==
    ASSUME NEW before, output' = Merged(merge', lastMerge', mergeMode', before)
    PROVE  OutputShowsMerge'
  BY MergedFromSources DEF OutputShowsMerge

LEMMA LoopTimeoutsShown ==
    ASSUME ShownInv, TypeOK, LoopTimeouts, dropped' = Dropped
    PROVE  OutputShowsMerge'
  <1>1. mergeMode' = mergeMode /\ unapplied' = unapplied
    BY DEF LoopTimeouts, config
  <1>2. CASE direction = "output" /\ Unexpired(merge) # merge
    <2>1. output' = Merged(merge', lastMerge', mergeMode', AfterSyncWindow)
      BY <1>1, <1>2 DEF LoopTimeouts
    <2> QED
      BY <2>1, NowShown
  <1>3. CASE ~(direction = "output" /\ Unexpired(merge) # merge)
    <2>1. UNCHANGED <<merge, lastMerge>> /\ output' = AfterSyncWindow
      BY <1>3 DEF LoopTimeouts
    <2>2. CASE SyncTimedOut /\ syncPending
      BY <1>1, <2>1, <2>2, NowShown DEF AfterSyncWindow
    <2>3. CASE ~(SyncTimedOut /\ syncPending)
      <3>1. output' = output
        BY <2>1, <2>3 DEF AfterSyncWindow
      <3>2. syncPending => syncPending'
        BY <2>3 DEF LoopTimeouts, CloseSyncWindow
      <3> QED
        BY <1>1, <2>1, <3>1, <3>2, StillShown
    <2> QED
      BY <2>2, <2>3
  <1> QED
    BY <1>2, <1>3

LEMMA ShownStep ==
    ASSUME TypeOK, SourceInv, ShownInv, Next, dropped' = Dropped
    PROVE  OutputShowsMerge'
  <1>1. ~artnetActive /\ ~unapplied => Live(merge) = {}
    BY DEF SourceInv, ActiveIffSource
  <1>2. ASSUME Live(merge') = {}
        PROVE  OutputShowsMerge'
    BY <1>2 DEF OutputShowsMerge
  <1>3. ClearMerge => Live(merge') = {}
    BY EmptyBuffersType DEF ClearMerge
  <1>4. CASE UNCHANGED <<merge, lastMerge, mergeMode, output, syncPending, unapplied>>
    BY <1>4, StillShown
  <1>5. CASE ReadNothing
    BY <1>5, <1>4 DEF ReadNothing, mergeState, syncState, outputState, config
  <1>6. ASSUME NEW s \in Senders, ArtDmxLockedOut(s) \/ ArtDmxThirdSource(s)
        PROVE  OutputShowsMerge'
    BY <1>6, <1>4 DEF ArtDmxLockedOut, ArtDmxThirdSource, mergeState, syncState, outputState, config
  <1>7. ASSUME NEW s \in Senders, NEW level \in Levels, ArtDmxAccepted(s, level)
        PROVE  OutputShowsMerge'
    <2>1. CASE syncActive
      BY <1>7, <2>1 DEF ArtDmxAccepted, DriveOutput, OutputShowsMerge
    <2>2. CASE ~syncActive
      <3>1. output' = Merged(merge', lastMerge', mergeMode', output)
        BY <1>7, <2>2 DEF ArtDmxAccepted, DriveOutput, config
      <3> QED
        BY <3>1, NowShown
    <2> QED
      BY <2>1, <2>2
  <1>8. CASE ArtSync
    <2>1. CASE syncPending
      BY <1>8, <2>1, NowShown DEF ArtSync, mergeState, config
    <2>2. CASE ~syncPending
      BY <1>8, <2>2, StillShown DEF ArtSync, mergeState, config
    <2> QED
      BY <2>1, <2>2
  <1>9. CASE AcCancelMerge
    BY <1>9, <1>4 DEF AcCancelMerge, syncState, outputState, config
  <1>10. ASSUME NEW mode \in {"htp", "ltp"}, ArtAddressMergeMode(mode) \/ WebMergeMode(mode)
         PROVE  OutputShowsMerge'
    BY <1>10, NowShown DEF ArtAddressMergeMode, WebMergeMode, mergeState
  <1>11. CASE ArtAddressReset \/ ApplyRuntimeConfig
    BY <1>11, <1>2, <1>3 DEF ArtAddressReset, ApplyRuntimeConfig, ClearRuntime
  <1>12. CASE LoopFailsafe
    BY <1>12, <1>2, <1>3 DEF LoopFailsafe, ApplyOutputFailsafe
  <1>13. CASE LoopTimeouts
    BY <1>13, LoopTimeoutsShown
  <1>14. CASE BindRetry
    <2>1. ~syncPending /\ ~syncPending'
      BY <1>14 DEF BindRetry, ClearSync, syncState, ShownInv, UnboundHoldsNothing
    <2> QED
      BY <1>14, <1>4, <2>1, StillShown DEF BindRetry, mergeState, outputState, config
  <1>15. CASE NetworkChange
    BY <1>15, StillShown DEF NetworkChange, mergeState, outputState, config
  <1>16. CASE WebFailsafeMode
    BY <1>16, <1>2, <1>3 DEF WebFailsafeMode, ApplyOutputFailsafe
  <1>17. CASE ForeignFrame
    <2>1. CASE unapplied
      BY <1>17, <2>1 DEF ForeignFrame, config, OutputShowsMerge
    <2>2. CASE ~unapplied
      <3>1. Live(merge') = {}
        BY <1>1, <1>17, <2>2 DEF ForeignFrame, SourceInv, ActiveIffSource, mergeState
      <3> QED
        BY <1>2, <3>1
    <2> QED
      BY <2>1, <2>2
  <1>18. CASE Tick
    <2>1. \A i \in Slots : merge'[i].sender = merge[i].sender /\ merge'[i].level = merge[i].level
      BY <1>18, TickType
    <2> QED
      BY <1>18, <2>1, StillShown DEF Tick, config
  <1>19. CASE StoreWithoutRestart
    BY <1>19 DEF StoreWithoutRestart, OutputShowsMerge
  <1> QED
    BY <1>5, <1>6, <1>7, <1>8, <1>9, <1>10, <1>11, <1>12, <1>13, <1>14, <1>15, <1>16,
       <1>17, <1>18, <1>19 DEF Next, ArtDmx, MergeModeCommand

\* A frame is held only by a packet, and packets come through the socket.
LEMMA UnboundStep ==
    ASSUME UnboundHoldsNothing, Next
    PROVE  UnboundHoldsNothing'
  <1>1. CASE UNCHANGED socketReady /\ (syncPending' => syncPending)
    BY <1>1 DEF UnboundHoldsNothing
  <1>2. CASE socketReady'
    BY <1>2 DEF UnboundHoldsNothing
  <1>3. CASE ~syncPending'
    BY <1>3 DEF UnboundHoldsNothing
  <1>4. CASE Reading /\ UNCHANGED socketReady
    BY <1>2, <1>4 DEF Reading
  <1>5. CASE ReadNothing \/ ArtDmx \/ ArtSync \/ AcCancelMerge \/ ArtAddressReset
    BY <1>4, <1>5 DEF ReadNothing, ArtDmx, ArtDmxLockedOut, ArtDmxThirdSource, ArtDmxAccepted,
       ArtSync, AcCancelMerge, ArtAddressReset
  <1>6. CASE MergeModeCommand
    BY <1>1, <1>4, <1>6 DEF MergeModeCommand, ArtAddressMergeMode, WebMergeMode, syncState
  <1>7. CASE LoopFailsafe \/ WebFailsafeMode
    BY <1>1, <1>7 DEF LoopFailsafe, WebFailsafeMode, ApplyOutputFailsafe, ClearSync, syncState
  <1>8. CASE LoopTimeouts
    <2>1. UNCHANGED socketReady /\ syncPending' = (syncPending /\ ~SyncTimedOut)
      BY <1>8 DEF LoopTimeouts, CloseSyncWindow
    <2> QED
      BY <1>1, <2>1, Zenon
  <1>9. CASE NetworkChange \/ ApplyRuntimeConfig
    BY <1>3, <1>9 DEF NetworkChange, ApplyRuntimeConfig, ClearRuntime, ClearSync
  <1>10. CASE BindRetry
    <2>1. CASE ~socketReady'
      BY <1>10, <2>1 DEF BindRetry, syncState, UnboundHoldsNothing
    <2> QED
      BY <1>2, <2>1
  <1>11. CASE ForeignFrame \/ StoreWithoutRestart \/ Tick
    BY <1>1, <1>11 DEF ForeignFrame, StoreWithoutRestart, Tick, syncState
  <1> QED
    BY <1>5, <1>6, <1>7, <1>8, <1>9, <1>10, <1>11 DEF Next

\* The history constrains nothing.
LEMMA HistoryRefines == HistorySpec => Spec
  <1>1. HistoryInit => Init
    BY DEF HistoryInit
  <1>2. [HistoryNext]_historyVars => [Next]_vars
    BY DEF HistoryNext, historyVars
  <1> QED
    BY <1>1, <1>2, PTL DEF HistorySpec, Spec

\* Whatever order packets, ArtSync, mode changes and timeouts come in, a frame
\* that is not held back, or lost with its window, is the merge of the live
\* sources in the mode of the moment, as long as every configuration that was
\* stored was applied.
THEOREM MergeIsShown == HistorySpec => []OutputShowsMerge
  <1>1. HistoryInit => ShownInv
    BY EmptyBuffersType DEF HistoryInit, Init, ShownInv, OutputShowsMerge, UnboundHoldsNothing
  <1>2. TypeOK /\ SourceInv /\ ShownInv /\ [HistoryNext]_historyVars => ShownInv'
    <2> SUFFICES ASSUME TypeOK, SourceInv, ShownInv, [HistoryNext]_historyVars
                 PROVE  ShownInv'
      OBVIOUS
    <2>1. CASE HistoryNext
      BY <2>1, ShownStep, UnboundStep DEF HistoryNext, ShownInv
    <2>2. CASE UNCHANGED historyVars
      BY <2>2 DEF historyVars, vars, mergeState, syncState, outputState, config, ShownInv,
         OutputShowsMerge, UnboundHoldsNothing
    <2> QED
      BY <2>1, <2>2
  <1>3. ShownInv => OutputShowsMerge
    BY DEF ShownInv
  <1> QED
    BY <1>1, <1>2, <1>3, HistoryRefines, TypeCorrect, SourceInvHolds, PTL DEF HistorySpec
=============================================================================
