------------------------ MODULE SacnReceiver_proofs -------------------------
(***************************************************************************)
(* TLAPS proofs about SacnReceiver, for any set of senders and priorities, *)
(* any modulus of sequence numbers and clock, and any timeout, and about   *)
(* what SacnHistory says of the senders.                                   *)
(***************************************************************************)
EXTENDS SacnHistory, TLAPS

-----------------------------------------------------------------------------
(* The table operators *)

\* Clock arithmetic stays in the range of millis().
LEMMA AgeType ==
    ASSUME NEW t \in Int, now \in Int
    PROVE  Age(t) \in Millis
  BY ClockAssumption DEF Age, Millis

\* Dropping silent sources leaves a table, with no new source in it.
LEMMA ExpireSourcesType ==
    ASSUME NEW table \in Tables
    PROVE  /\ ExpireSources(table) \in Tables
           /\ ActiveSlots(ExpireSources(table)) \subseteq ActiveSlots(table)
  BY DEF ExpireSources, Tables, ActiveSlots, FreeSlot

LEMMA PriorityIsInt == ASSUME NEW p \in Priorities PROVE p \in Int
  <1>1. p \in Nat
    BY PriorityAssumption, Zenon
  <1> QED
    BY <1>1

\* What the slots of a table hold.
LEMMA SlotFields ==
    ASSUME NEW table \in Tables, NEW i \in Slots
    PROVE  /\ table[i].lastMillis \in Millis
           /\ table[i].lastMillis \in Int
           /\ i \in ActiveSlots(table) =>
                 /\ table[i].cid \in Cids
                 /\ table[i].sequence \in SeqNums
                 /\ table[i].priority \in Priorities
                 /\ table[i].priority \in Int
  <1>1. table[i] \in SourceSlots \/ table[i] = FreeSlot
    BY DEF Tables
  <1>2. CASE table[i] \in SourceSlots
    <2>1. /\ table[i].lastMillis \in Millis /\ table[i].cid \in Cids
          /\ table[i].sequence \in SeqNums /\ table[i].priority \in Priorities
      BY <1>2 DEF SourceSlots
    <2>2. table[i].lastMillis \in Int
      BY <2>1, ClockAssumption DEF Millis
    <2>3. table[i].priority \in Int
      BY <2>1, PriorityIsInt
    <2> QED
      BY <2>1, <2>2, <2>3
  <1>3. CASE table[i] = FreeSlot
    BY <1>3, ClockAssumption DEF FreeSlot, Millis, ActiveSlots
  <1> QED
    BY <1>1, <1>2, <1>3

\* A table with a source has a best one.
LEMMA BestSlotExists ==
    ASSUME NEW table \in Tables, ActiveSlots(table) # {}
    PROVE  BestSlot(table) \in ActiveSlots(table)
  <1>1. \A i \in ActiveSlots(table) :
           table[i].priority \in Int /\ table[i].lastMillis \in Int
    BY SlotFields DEF ActiveSlots
  <1>2. ActiveSlots(table) \subseteq {0, 1}
    BY DEF ActiveSlots, Slots
  <1>3. \E i \in ActiveSlots(table) :
           \A j \in ActiveSlots(table) : Beats(table, i, j)
    BY <1>1, <1>2 DEF Beats
  <1> QED
    BY <1>3 DEF BestSlot

\* A slot is chosen for every packet.
LEMMA SlotForType ==
    ASSUME NEW table \in Tables, NEW cid, now \in Millis
    PROVE  SlotFor(table, cid) \in Slots
  <1> DEFINE usable == {i \in Slots : ~table[i].active \/ table[i].cid = cid}
  <1>1. CASE usable # {}
    <2>1. \E i \in usable : \A j \in usable : i <= j
      BY <1>1 DEF Slots
    <2> QED
      BY <1>1, <2>1 DEF SlotFor
  <1>2. CASE usable = {}
    <2>1. \A i \in Slots : Age(table[i].lastMillis) \in Int
      <3>1. \A i \in Slots : table[i].lastMillis \in Int
        BY SlotFields
      <3> QED
        BY <3>1, AgeType, ClockAssumption DEF Millis
    <2>2. \E i \in Slots : \A j \in Slots :
             LET ageI == Age(table[i].lastMillis)
                 ageJ == Age(table[j].lastMillis)
             IN  ageI > ageJ \/ (ageI = ageJ /\ i >= j)
      BY <2>1 DEF Slots
    <2> QED
      BY <1>2, <2>2 DEF SlotFor
  <1> QED
    BY <1>1, <1>2

\* Storing a packet leaves a table, and a terminated stream adds no source.
LEMMA StorePacketType ==
    ASSUME TypeOK, NEW p \in Packets
    PROVE  /\ StorePacket(p) \in Tables
           /\ p.terminated => ActiveSlots(StorePacket(p)) \subseteq ActiveSlots(sources)
           /\ ~p.terminated => \E i \in ActiveSlots(StorePacket(p)) :
                                   StorePacket(p)[i].priority = p.priority
  <1> DEFINE fresh == ExpireSources(sources)
             slot == SlotFor(fresh, p.cid)
  <1>1. fresh \in Tables /\ ActiveSlots(fresh) \subseteq ActiveSlots(sources)
    BY ExpireSourcesType DEF TypeOK
  <1>2. slot \in Slots
    BY <1>1, SlotForType DEF TypeOK
  <1>3. Stored(p) \in SourceSlots \cup {FreeSlot}
    BY DEF Stored, SourceSlots, TypeOK, Packets
  <1>4. StorePacket(p) = [fresh EXCEPT ![slot] = Stored(p)]
    BY DEF StorePacket
  <1>5. p.terminated => Stored(p).active = FALSE
    BY DEF Stored, FreeSlot
  <1>6. ~p.terminated => Stored(p).active /\ Stored(p).priority = p.priority
    BY DEF Stored
  <1> HIDE DEF fresh, slot
  <1> QED
    BY <1>1, <1>2, <1>3, <1>4, <1>5, <1>6 DEF Tables, ActiveSlots

\* Showing the best source: a live frame, a running timeout, no failsafe;
\* or nothing at all when the table is empty.
LEMMA ApplyType ==
    ASSUME TypeOK, NEW table \in Tables, ApplyHighestActiveSource(table)
    PROVE  /\ sacnActive' \in BOOLEAN /\ failsafe' \in BOOLEAN
           /\ lastPacket' \in Millis /\ output' \in Frames
           /\ ActiveSlots(table) # {} => sacnActive' = TRUE /\ failsafe' = FALSE
           /\ ActiveSlots(table) = {} => UNCHANGED outputState
  <1>1. CASE ActiveSlots(table) = {}
    BY <1>1 DEF ApplyHighestActiveSource, outputState, TypeOK
  <1>2. CASE ActiveSlots(table) # {}
    <2> DEFINE best == table[BestSlot(table)]
    <2>1. best.cid \in Cids /\ best.sequence \in SeqNums
      BY <1>2, BestSlotExists, SlotFields DEF ActiveSlots
    <2>2. /\ output' = LiveFrame(best.cid, best.sequence)
          /\ lastPacket' = now
          /\ sacnActive' = TRUE
          /\ failsafe' = FALSE
      BY <1>2 DEF ApplyHighestActiveSource
    <2>3. output' \in Frames
      BY <2>1, <2>2 DEF Frames
    <2> QED
      BY <1>2, <2>2, <2>3 DEF TypeOK
  <1> QED
    BY <1>1, <1>2

-----------------------------------------------------------------------------
(* Type correctness *)

THEOREM InitTypeOK == Init => TypeOK
  <1> SUFFICES ASSUME Init PROVE TypeOK
    OBVIOUS
  <1>1. sources \in Tables
    BY DEF Init, Tables
  <1>2. output \in Frames
    BY DEF Init, Frames
  <1>3. /\ lastPacket \in Millis /\ now \in Millis
        /\ lag \in 0 .. MaxGap /\ processed \in 0 .. MaxPacketsPerLoop
    BY ClockAssumption, GapAssumption, BudgetAssumption DEF Init, Millis
  <1> QED
    BY <1>1, <1>2, <1>3 DEF Init, TypeOK

LEMMA EndLoopType ==
    ASSUME TypeOK, EndLoop
    PROVE  /\ sources' \in Tables /\ socketReady' \in BOOLEAN
           /\ protocol' \in {"sacn", "artnet"} /\ direction' \in {"output", "input"}
           /\ unapplied' \in BOOLEAN
           /\ now' \in Millis /\ lag' \in 0 .. MaxGap
           /\ processed' \in 0 .. MaxPacketsPerLoop
  <1>1. sources' \in Tables
    BY ExpireSourcesType DEF TypeOK, EndLoop
  <1> QED
    BY <1>1, GapAssumption, BudgetAssumption DEF TypeOK, EndLoop, config

LEMMA ReadType ==
    ASSUME TypeOK, MayRead, processed' = processed + 1,
           UNCHANGED <<socketReady, config, clock>>
    PROVE  /\ socketReady' \in BOOLEAN
           /\ protocol' \in {"sacn", "artnet"} /\ direction' \in {"output", "input"}
           /\ unapplied' \in BOOLEAN
           /\ now' \in Millis /\ lag' \in 0 .. MaxGap
           /\ processed' \in 0 .. MaxPacketsPerLoop
  BY BudgetAssumption DEF TypeOK, MayRead, config, clock

LEMMA NextTypeOK ==
    ASSUME TypeOK, [Next]_vars
    PROVE  TypeOK'
  <1>1. CASE IgnorePacket
    BY <1>1, ReadType DEF IgnorePacket, TypeOK, outputState
  <1>2. ASSUME NEW p \in Packets, ReplayedPacket(p)
        PROVE  TypeOK'
    <2>1. sources' \in Tables
      BY <1>2, ExpireSourcesType DEF ReplayedPacket, TypeOK
    <2> QED
      BY <1>2, <2>1, ReadType DEF ReplayedPacket, TypeOK, outputState
  <1>3. ASSUME NEW p \in Packets, DataPacket(p)
        PROVE  TypeOK'
    <2>1. StorePacket(p) \in Tables
      BY StorePacketType
    <2>2. \/ UNCHANGED outputState
          \/ ApplyHighestActiveSource(StorePacket(p))
      BY <1>3 DEF DataPacket
    <2>3. /\ sacnActive' \in BOOLEAN /\ failsafe' \in BOOLEAN
          /\ lastPacket' \in Millis /\ output' \in Frames
      <3>1. CASE UNCHANGED outputState
        BY <3>1 DEF TypeOK, outputState
      <3> QED
        BY <2>1, <2>2, <3>1, ApplyType
    <2> QED
      BY <1>3, <2>1, <2>3, ReadType DEF DataPacket, TypeOK
  <1>4. ASSUME NEW p \in Packets, TerminationPacket(p)
        PROVE  TypeOK'
    <2>1. StorePacket(p) \in Tables
      BY StorePacketType
    <2> QED
      BY <1>4, <2>1, ReadType, ApplyType DEF TerminationPacket, TypeOK
  <1>5. CASE LoopFailover
    <2>1. ExpireSources(sources) \in Tables
      BY ExpireSourcesType DEF TypeOK
    <2> QED
      BY <1>5, <2>1, ApplyType, EndLoopType DEF LoopFailover, TypeOK
  <1>6. CASE LoopFailsafe
    <2>1. failsafe' \in BOOLEAN /\ output' \in Frames
      <3>1. FailsafeFrame \in Frames
        BY DEF Frames
      <3>2. CASE LiveGuard
        BY <1>6, <3>1, <3>2 DEF LoopFailsafe, ApplySacnFailsafe, TypeOK
      <3>3. CASE ~LiveGuard
        BY <1>6, <3>3 DEF LoopFailsafe, ApplySacnFailsafe, TypeOK
      <3> QED
        BY <3>2, <3>3
    <2> QED
      BY <1>6, <2>1, EndLoopType DEF LoopFailsafe, TypeOK
  <1>7. CASE LoopIdle
    BY <1>7, EndLoopType DEF LoopIdle, TypeOK, outputState
  <1>8. CASE BindRetry
    BY <1>8, GapAssumption DEF BindRetry, TypeOK, outputState, config
  <1>9. ASSUME ResetReceiver
        PROVE  /\ sources' \in Tables /\ sacnActive' \in BOOLEAN
               /\ failsafe' \in BOOLEAN /\ lastPacket' \in Millis
               /\ socketReady' \in BOOLEAN
    <2>1. sources' \in Tables
      BY <1>9 DEF ResetReceiver, Tables
    <2>2. 0 \in Millis
      BY ClockAssumption DEF Millis
    <2> QED
      BY <1>9, <2>1, <2>2 DEF ResetReceiver
  <1>10. CASE NetworkChange
    BY <1>9, <1>10 DEF NetworkChange, TypeOK, config, clock
  <1>11. CASE ApplyRuntimeConfig
    BY <1>9, <1>11 DEF ApplyRuntimeConfig, TypeOK, clock
  <1>12. CASE ArtAddressDirection \/ StoreWithoutRestart
    BY <1>12 DEF ArtAddressDirection, StoreWithoutRestart, TypeOK, outputState, clock
  <1>13. CASE WebStatusPoll
    <2>1. sources' \in Tables
      BY <1>13, ExpireSourcesType DEF WebStatusPoll, TypeOK
    <2> QED
      BY <1>13, <2>1 DEF WebStatusPoll, TypeOK, outputState, config, clock
  <1>14. CASE ForeignFrame
    BY <1>14 DEF ForeignFrame, TypeOK, Frames, config, clock
  <1>15. CASE Tick
    <2>1. now' \in Millis /\ lag' \in 0 .. MaxGap
      BY <1>15, ClockAssumption, GapAssumption DEF Tick, TypeOK, Millis
    <2> QED
      BY <1>15, <2>1 DEF Tick, TypeOK, outputState, config
  <1>16. CASE UNCHANGED vars
    BY <1>16 DEF vars, TypeOK
  <1> QED
    BY <1>1, <1>2, <1>3, <1>4, <1>5, <1>6, <1>7, <1>8, <1>10, <1>11, <1>12,
       <1>13, <1>14, <1>15, <1>16 DEF Next, Receive

\* Every variable keeps its type; in particular what is shown on the output
\* was sent by a sender or put there by the failsafe or another input.
THEOREM TypeCorrect == Spec => []TypeOK
  <1> QED
    BY InitTypeOK, NextTypeOK, PTL DEF Spec

-----------------------------------------------------------------------------
(* Sources, the output timeout and the failsafe *)

\* The inductive invariant: neither conjunct can be kept without the other,
\* because a data packet that is outranked does not touch the output and
\* relies on the source outranking it for sacnActive.
SourceInv == TrackedSourceDrivesOutput /\ FailsafeExcludesLive

LEMMA SourceInvStep ==
    ASSUME TypeOK, SourceInv, [Next]_vars
    PROVE  SourceInv'
  <1> USE DEF SourceInv, TrackedSourceDrivesOutput, FailsafeExcludesLive
  <1>1. CASE IgnorePacket
    BY <1>1 DEF IgnorePacket, outputState, ActiveSlots
  <1>2. ASSUME NEW p \in Packets, ReplayedPacket(p)
        PROVE  SourceInv'
    <2>1. ActiveSlots(sources)' \subseteq ActiveSlots(sources)
      BY <1>2, ExpireSourcesType DEF ReplayedPacket, TypeOK, ActiveSlots
    <2> QED
      BY <1>2, <2>1 DEF ReplayedPacket, outputState
  <1>3. ASSUME NEW p \in Packets, DataPacket(p)
        PROVE  SourceInv'
    <2> DEFINE table == StorePacket(p)
    <2>1. table \in Tables /\ ActiveSlots(table) # {} /\ ActiveSlots(sources)' = ActiveSlots(table)
      BY <1>3, StorePacketType DEF DataPacket, ActiveSlots
    <2>2. CASE OutRanked(table, p.priority)
      <3>1. PICK i \in ActiveSlots(table) : table[i].priority > p.priority
        BY <2>2 DEF OutRanked
      <3>2. sources[i].active
        \* the slot written now has the packet's own priority, so i is another
        <4>1. i \in Slots /\ table[i].active
          BY <3>1 DEF ActiveSlots
        <4>5. p.priority \in Int
          BY PriorityIsInt DEF Packets
        <4>2. i # SlotFor(ExpireSources(sources), p.cid)
          <5>1. ExpireSources(sources) \in Tables
            BY ExpireSourcesType DEF TypeOK
          <5>2. Stored(p).priority = p.priority
            BY <1>3 DEF DataPacket, Stored
          <5>3. i = SlotFor(ExpireSources(sources), p.cid) => table[i] = Stored(p)
            BY <4>1, <5>1 DEF StorePacket, Tables
          <5> QED
            BY <3>1, <4>5, <5>2, <5>3
        <4>3. table[i] = ExpireSources(sources)[i]
          BY <4>1, <4>2, ExpireSourcesType DEF StorePacket, TypeOK, Tables
        <4> QED
          BY <4>1, <4>3, ExpireSourcesType DEF TypeOK, ActiveSlots
      <3>3. sacnActive /\ socketReady /\ ~failsafe
        BY <3>1, <3>2 DEF ActiveSlots
      <3>4. UNCHANGED outputState
        BY <1>3, <2>2 DEF DataPacket
      <3> QED
        BY <1>3, <3>3, <3>4 DEF DataPacket, outputState
    <2>3. CASE ~OutRanked(table, p.priority)
      <3>1. sacnActive' = TRUE /\ failsafe' = FALSE
        BY <1>3, <2>1, <2>3, ApplyType DEF DataPacket
      <3> QED
        BY <1>3, <3>1 DEF DataPacket, MayRead
    <2> QED
      BY <2>2, <2>3
  <1>4. ASSUME NEW p \in Packets, TerminationPacket(p)
        PROVE  SourceInv'
    <2> DEFINE table == StorePacket(p)
    <2>1. table \in Tables /\ ActiveSlots(sources)' = ActiveSlots(table)
      BY <1>4, StorePacketType DEF TerminationPacket, ActiveSlots
    <2>2. CASE ActiveSlots(table) = {}
      BY <1>4, <2>1, <2>2, ApplyType DEF TerminationPacket, outputState
    <2>3. CASE ActiveSlots(table) # {}
      <3>1. sacnActive' = TRUE /\ failsafe' = FALSE
        BY <1>4, <2>1, <2>3, ApplyType DEF TerminationPacket
      <3> QED
        BY <1>4, <3>1 DEF TerminationPacket, MayRead
    <2> QED
      BY <2>2, <2>3
  <1>5. CASE LoopFailover
    <2>1. sacnActive' = TRUE /\ failsafe' = FALSE
      BY <1>5, ExpireSourcesType, ApplyType DEF LoopFailover, CanFailOver, TypeOK
    <2> QED
      BY <1>5, <2>1 DEF LoopFailover, EndLoop
  <1>6. CASE LoopFailsafe
    <2>1. ActiveSlots(sources)' = {}
      BY <1>6 DEF LoopFailsafe, CanFailOver, FailoverDue, EndLoop, ActiveSlots
    <2> QED
      BY <1>6, <2>1 DEF LoopFailsafe
  <1>7. CASE LoopIdle
    <2>1. ActiveSlots(sources)' \subseteq ActiveSlots(sources)
      BY <1>7, ExpireSourcesType DEF LoopIdle, EndLoop, TypeOK, ActiveSlots
    <2> QED
      BY <1>7, <2>1 DEF LoopIdle, EndLoop, outputState
  <1>8. CASE BindRetry
    BY <1>8 DEF BindRetry, outputState, ActiveSlots
  <1>9. CASE NetworkChange \/ ApplyRuntimeConfig
    <2>1. ActiveSlots(sources)' = {} /\ failsafe' = FALSE
      BY <1>9 DEF NetworkChange, ApplyRuntimeConfig, ResetReceiver, ActiveSlots, FreeSlot
    <2> QED
      BY <2>1
  <1>10. CASE ArtAddressDirection \/ StoreWithoutRestart
    BY <1>10 DEF ArtAddressDirection, StoreWithoutRestart, outputState, ActiveSlots
  <1>11. CASE WebStatusPoll
    <2>1. ActiveSlots(sources)' \subseteq ActiveSlots(sources)
      BY <1>11, ExpireSourcesType DEF WebStatusPoll, TypeOK, ActiveSlots
    <2> QED
      BY <1>11, <2>1 DEF WebStatusPoll, outputState
  <1>12. CASE ForeignFrame
    BY <1>12 DEF ForeignFrame, ActiveSlots
  <1>13. CASE Tick
    BY <1>13 DEF Tick, outputState, ActiveSlots
  <1>14. CASE UNCHANGED vars
    BY <1>14 DEF vars, ActiveSlots
  <1> QED
    BY <1>1, <1>2, <1>3, <1>4, <1>5, <1>6, <1>7, <1>8, <1>9, <1>10, <1>11,
       <1>12, <1>13, <1>14 DEF Next, Receive

\* Whoever expires sources and whenever, a tracked source has the output
\* timeout running and a socket to be heard on: none can be forgotten.
THEOREM TrackedSourcesAreTimed == Spec => []TrackedSourceDrivesOutput
  <1>1. Init => SourceInv
    BY DEF Init, SourceInv, TrackedSourceDrivesOutput, FailsafeExcludesLive,
           ActiveSlots, FreeSlot
  <1>2. TypeOK /\ SourceInv /\ [Next]_vars => SourceInv'
    BY SourceInvStep
  <1>3. SourceInv => TrackedSourceDrivesOutput
    BY DEF SourceInv
  <1> QED
    BY <1>1, <1>2, <1>3, TypeCorrect, PTL DEF Spec

\* The failsafe and live data exclude each other, for every priority order
\* and every interleaving of the two timeouts.
THEOREM FailsafeAndLiveExclude == Spec => []FailsafeExcludesLive
  <1>1. Init => SourceInv
    BY DEF Init, SourceInv, TrackedSourceDrivesOutput, FailsafeExcludesLive,
           ActiveSlots, FreeSlot
  <1>2. TypeOK /\ SourceInv /\ [Next]_vars => SourceInv'
    BY SourceInvStep
  <1>3. SourceInv => FailsafeExcludesLive
    BY DEF SourceInv
  <1> QED
    BY <1>1, <1>2, <1>3, TypeCorrect, PTL DEF Spec

-----------------------------------------------------------------------------
(* Ages, expiry and the slot of a packet, in detail *)

LEMMA ModSmall ==
    ASSUME NEW x \in Int, NEW m \in Nat, -m < x, x < m
    PROVE  x % m = IF x >= 0 THEN x ELSE x + m
  OBVIOUS

LEMMA ModSelf == ASSUME NEW m \in Nat, m > 0 PROVE m % m = 0
  OBVIOUS

\* Two clock readings are at most one wrap apart.
LEMMA MillisDistance ==
    ASSUME NEW a \in Millis, NEW b \in Millis
    PROVE  /\ (a - b) % ClockMod = IF a >= b THEN a - b ELSE (a - b) + ClockMod
           /\ (a - b) % ClockMod \in Nat /\ (a - b) % ClockMod < ClockMod
  <1>1. /\ a - b \in Int /\ ClockMod \in Nat
        /\ -ClockMod < a - b /\ a - b < ClockMod
    BY ClockAssumption DEF Millis
  <1>2. (a - b) % ClockMod = IF a - b >= 0 THEN a - b ELSE (a - b) + ClockMod
    BY <1>1, ModSmall
  <1> QED
    BY <1>1, <1>2, ClockAssumption DEF Millis

LEMMA AgeValue ==
    ASSUME TypeOK, NEW t \in Millis
    PROVE  /\ Age(t) \in Nat /\ Age(t) < ClockMod
           /\ Age(now) = 0
  <1>1. Age(t) \in Nat /\ Age(t) < ClockMod
    BY MillisDistance DEF Age, TypeOK
  <1>2. (now - now) % ClockMod = now - now
    BY MillisDistance DEF TypeOK, Millis
  <1> QED
    BY <1>1, <1>2 DEF Age, TypeOK, Millis

\* A tick adds one to an age, unless that wraps to zero.
LEMMA AgeTick ==
    ASSUME TypeOK, Tick, NEW t \in Millis
    PROVE  Age(t)' = IF Age(t) + 1 < ClockMod THEN Age(t) + 1 ELSE 0
  <1>1. now' = IF now + 1 < ClockMod THEN now + 1 ELSE 0
    <2>1. CASE now + 1 < ClockMod
      <3>1. now + 1 \in Int /\ now + 1 >= 0 /\ ClockMod \in Nat /\ -ClockMod < now + 1
        BY ClockAssumption DEF TypeOK, Millis
      <3>2. (now + 1) % ClockMod = now + 1
        BY <2>1, <3>1, ModSmall
      <3> QED
        BY <2>1, <3>2 DEF Tick
    <2>2. CASE now + 1 = ClockMod
      <3>1. (now + 1) % ClockMod = 0
        BY <2>2, ModSelf, ClockAssumption, Zenon
      <3> QED
        BY <2>2, <3>1, ClockAssumption DEF Tick
    <2> QED
      BY <2>1, <2>2, ClockAssumption DEF TypeOK, Millis
  <1>2. now' \in Millis /\ now \in Millis
    BY <1>1, ClockAssumption DEF TypeOK, Millis
  <1>3. Age(t)' = IF now' >= t THEN now' - t ELSE (now' - t) + ClockMod
    BY <1>2, MillisDistance DEF Age
  <1>4. Age(t) = IF now >= t THEN now - t ELSE (now - t) + ClockMod
    BY <1>2, MillisDistance DEF Age
  <1> QED
    BY <1>1, <1>2, <1>3, <1>4, ClockAssumption DEF Millis

\* What expiry keeps is as it was, and not silent for the timeout.
LEMMA ExpireKeeps ==
    ASSUME NEW table \in Tables, NEW i \in Slots
    PROVE  /\ i \in ActiveSlots(ExpireSources(table)) <=>
                  i \in ActiveSlots(table) /\ ~(Age(table[i].lastMillis) >= Timeout)
           /\ i \in ActiveSlots(ExpireSources(table)) =>
                  ExpireSources(table)[i] = table[i]
  BY DEF ExpireSources, ActiveSlots, FreeSlot

\* A packet goes to the first slot that is free or its sender's, and when
\* there is none to the oldest, the later one on a tie.
LEMMA SlotForChoice ==
    ASSUME TypeOK, NEW table \in Tables, NEW cid
    PROVE  LET slot == SlotFor(table, cid)
           IN  \/ /\ ~table[slot].active \/ table[slot].cid = cid
                  /\ slot = 1 => table[0].active /\ table[0].cid # cid
               \/ \A j \in Slots :
                     /\ table[j].active /\ table[j].cid # cid
                     /\ Age(table[j].lastMillis) <= Age(table[slot].lastMillis)
                     /\ Age(table[j].lastMillis) = Age(table[slot].lastMillis) => slot >= j
  <1> DEFINE usable == {i \in Slots : ~table[i].active \/ table[i].cid = cid}
  <1>1. CASE usable # {}
    <2>1. \E i \in usable : \A j \in usable : i <= j
      BY <1>1 DEF Slots
    <2>2. SlotFor(table, cid) = CHOOSE i \in usable : \A j \in usable : i <= j
      BY <1>1 DEF SlotFor
    <2>3. /\ SlotFor(table, cid) \in usable
          /\ \A j \in usable : SlotFor(table, cid) <= j
      BY <2>1, <2>2
    <2> QED
      BY <2>3 DEF Slots
  <1>2. CASE usable = {}
    <2>1. \A i \in Slots : Age(table[i].lastMillis) \in Nat
      BY SlotFields, AgeValue
    <2> DEFINE Oldest(i) == \A j \in Slots :
                  LET ageI == Age(table[i].lastMillis)
                      ageJ == Age(table[j].lastMillis)
                  IN  ageI > ageJ \/ (ageI = ageJ /\ i >= j)
    <2>2. \E i \in Slots : Oldest(i)
      BY <2>1 DEF Slots
    <2>3. SlotFor(table, cid) = CHOOSE i \in Slots : Oldest(i)
      BY <1>2 DEF SlotFor
    <2>4. SlotFor(table, cid) \in Slots /\ Oldest(SlotFor(table, cid))
      BY <2>2, <2>3
    <2> QED
      BY <1>2, <2>1, <2>4 DEF Slots
  <1> QED
    BY <1>1, <1>2

\* The table after a packet: one slot rewritten, the others only expired.
LEMMA StoredTable ==
    ASSUME TypeOK, NEW p \in Packets, NEW i \in Slots
    PROVE  LET fresh == ExpireSources(sources)
           IN  StorePacket(p)[i] = IF i = SlotFor(fresh, p.cid) THEN Stored(p)
                                                                ELSE fresh[i]
  BY ExpireSourcesType DEF StorePacket, TypeOK, Tables

\* What the application of a table with a source puts on the output.
LEMMA ApplyShows ==
    ASSUME TypeOK, NEW table \in Tables, ApplyHighestActiveSource(table),
           ActiveSlots(table) # {}
    PROVE  /\ lastPacket' = now /\ sacnActive' = TRUE /\ failsafe' = FALSE
           /\ \E i \in ActiveSlots(table) :
                 /\ output' = LiveFrame(table[i].cid, table[i].sequence)
                 /\ \A j \in ActiveSlots(table) : table[i].priority >= table[j].priority
  <1> DEFINE best == BestSlot(table)
  <1>1. best \in ActiveSlots(table)
    BY BestSlotExists
  <1>2. \A i \in ActiveSlots(table) :
           table[i].priority \in Int /\ table[i].lastMillis \in Int
    BY SlotFields DEF ActiveSlots
  <1>3. \A j \in ActiveSlots(table) : Beats(table, best, j)
    <2>1. \E i \in ActiveSlots(table) :
             \A j \in ActiveSlots(table) : Beats(table, i, j)
      BY <1>2 DEF Beats, ActiveSlots, Slots
    <2> QED
      BY <2>1 DEF BestSlot
  <1>4. \A j \in ActiveSlots(table) : table[best].priority >= table[j].priority
    BY <1>1, <1>2, <1>3 DEF Beats
  <1>5. /\ output' = LiveFrame(table[best].cid, table[best].sequence)
        /\ lastPacket' = now /\ sacnActive' = TRUE /\ failsafe' = FALSE
    BY DEF ApplyHighestActiveSource
  <1> QED
    BY <1>1, <1>4, <1>5
-----------------------------------------------------------------------------
(* The promise of a receiver *)

\* The best of a table is shown, which is data of a sender, or nothing
\* happens because the table is empty.
LEMMA ApplyFollows ==
    ASSUME TypeOK, NEW table \in Tables, ApplyHighestActiveSource(table),
           UNCHANGED config, LiveGuard \/ sacnActive
    PROVE  [Arbiter!Follow]_(Arbiter!vars)
  <1>1. CASE ActiveSlots(table) = {}
    BY <1>1 DEF ApplyHighestActiveSource, outputState, config, LiveGuard, Arbiter!vars
  <1>2. CASE ActiveSlots(table) # {}
    <2>1. PICK i \in ActiveSlots(table) :
             output' = LiveFrame(table[i].cid, table[i].sequence)
      BY <1>2, ApplyShows
    <2>2. table[i].cid \in Cids /\ table[i].sequence \in SeqNums
      BY <2>1, SlotFields DEF ActiveSlots
    <2>3. sacnActive' = TRUE /\ failsafe' = FALSE
      BY <1>2, ApplyShows
    <2> QED
      BY <2>1, <2>2, <2>3 DEF Arbiter!Follow, config, LiveGuard
  <1> QED
    BY <1>1, <1>2

LEMMA InitArbiter == Init => Arbiter!Init
  BY DEF Init, Arbiter!Init, LiveGuard

LEMMA StepArbiter ==
    TypeOK /\ SourceInv /\ [Next]_vars => [Arbiter!Next]_(Arbiter!vars)
  <1> SUFFICES ASSUME TypeOK, SourceInv, [Next]_vars
               PROVE  [Arbiter!Next]_(Arbiter!vars)
    OBVIOUS
  <1> USE DEF Arbiter!Next
  <1>1. ASSUME UNCHANGED <<outputState, config>>
        PROVE  UNCHANGED Arbiter!vars
    BY <1>1 DEF outputState, config, LiveGuard, Arbiter!vars
  <1>2. CASE IgnorePacket \/ LoopIdle \/ BindRetry \/ WebStatusPoll \/ Tick
    BY <1>1, <1>2 DEF IgnorePacket, LoopIdle, EndLoop, BindRetry, WebStatusPoll, Tick
  <1>3. ASSUME NEW p \in Packets, ReplayedPacket(p)
        PROVE  UNCHANGED Arbiter!vars
    BY <1>1, <1>3 DEF ReplayedPacket
  <1>4. ASSUME NEW p \in Packets, DataPacket(p) \/ TerminationPacket(p)
        PROVE  [Arbiter!Next]_(Arbiter!vars)
    <2>1. StorePacket(p) \in Tables
      BY StorePacketType
    <2>2. UNCHANGED outputState \/ ApplyHighestActiveSource(StorePacket(p))
      BY <1>4 DEF DataPacket, TerminationPacket
    <2>3. LiveGuard /\ UNCHANGED config
      BY <1>4 DEF DataPacket, TerminationPacket
    <2> QED
      BY <1>1, <2>1, <2>2, <2>3, ApplyFollows
  <1>5. CASE LoopFailover
    <2>1. ExpireSources(sources) \in Tables
      BY ExpireSourcesType DEF TypeOK
    <2>2. sacnActive
      BY <1>5, ExpireSourcesType DEF LoopFailover, CanFailOver, TypeOK, SourceInv,
         TrackedSourceDrivesOutput
    <2> QED
      BY <1>5, <2>1, <2>2, ApplyFollows DEF LoopFailover, EndLoop
  <1>6. CASE LoopFailsafe
    BY <1>6 DEF LoopFailsafe, OutputTimedOut, ApplySacnFailsafe, EndLoop, config,
       LiveGuard, Arbiter!FallSilent, Arbiter!FallSilentUnnoticed
  <1>7. CASE NetworkChange \/ ApplyRuntimeConfig
    <2>1. sacnActive' = FALSE /\ failsafe' = FALSE /\ output' = output
      BY <1>7 DEF NetworkChange, ApplyRuntimeConfig, ResetReceiver
    <2>2. unapplied' = unapplied \/ unapplied' = FALSE
      BY <1>7 DEF NetworkChange, ApplyRuntimeConfig, config
    <2>3. LiveGuard' \in BOOLEAN
      BY DEF LiveGuard
    <2> QED
      BY <2>1, <2>2, <2>3 DEF Arbiter!Reset
  <1>8. CASE ArtAddressDirection \/ StoreWithoutRestart
    BY <1>8 DEF ArtAddressDirection, StoreWithoutRestart, outputState, LiveGuard,
       Arbiter!Redirect
  <1>9. CASE ForeignFrame
    BY <1>9 DEF ForeignFrame, config, LiveGuard, Arbiter!Yield
  <1>10. CASE UNCHANGED vars
    BY <1>1, <1>10 DEF vars, config, outputState
  <1> QED
    BY <1>2, <1>3, <1>4, <1>5, <1>6, <1>7, <1>8, <1>9, <1>10 DEF Next, Receive

\* The receiver keeps the promise of OutputArbiter, for any senders,
\* priorities and timeouts: it shows data of its senders while it follows one,
\* the failsafe only after it stopped following them, and writes nothing
\* where protocol and direction give the frame to others, except to fall back
\* to a sender it already follows.  Nobody else writes where they give it to
\* this receiver, unless a configuration was stored and not applied.
THEOREM ReceiverFollowsArbiter == Spec => ImplementsArbiter
  <1>1. Init => SourceInv
    BY DEF Init, SourceInv, TrackedSourceDrivesOutput, FailsafeExcludesLive,
           ActiveSlots, FreeSlot
  <1>2. TypeOK /\ SourceInv /\ [Next]_vars => SourceInv'
    BY SourceInvStep
  <1> QED
    BY <1>1, <1>2, TypeCorrect, InitArbiter, StepArbiter, PTL
       DEF Spec, ImplementsArbiter, Arbiter!Spec

-----------------------------------------------------------------------------
(* The history *)

HistoryTypes ==
    /\ heard \in [Cids -> 0 .. LossBound]
    /\ silence \in 0 .. LossBound
    /\ ranked \in [Cids -> Priorities \cup {NotRanked}]
    /\ watching \in BOOLEAN

LEMMA LossBoundIsNat == LossBound \in Nat /\ LossBound > Timeout
  BY ClockAssumption, GapAssumption DEF LossBound

\* Observing constrains nothing: every observed step is one of the receiver.
LEMMA ObserveIsNext ==
    ASSUME [Observe]_hvars
    PROVE  [Next]_vars
  <1>1. CASE Observe
    BY <1>1, Zenon DEF Observe, Next, Receive
  <1>2. CASE UNCHANGED hvars
    BY <1>2 DEF hvars
  <1> QED
    BY <1>1, <1>2

LEMMA LaterType ==
    ASSUME NEW n \in 0 .. LossBound
    PROVE  Later(n) \in 0 .. LossBound
  BY LossBoundIsNat DEF Later

LEMMA HistoryTypesStep ==
    ASSUME TypeOK, HistoryTypes, [Observe]_hvars
    PROVE  HistoryTypes'
  <1> USE DEF HistoryTypes
  <1>1. ASSUME NEW p \in Packets, DataPacket(p), silence' = 0, watching' = TRUE,
               heard' = [heard EXCEPT ![p.cid] = 0],
               ranked' = [ranked EXCEPT ![p.cid] = p.priority]
        PROVE  HistoryTypes'
    <2>1. p.cid \in Cids /\ p.priority \in Priorities
      BY DEF Packets
    <2> QED
      BY <1>1, <2>1, LossBoundIsNat
  <1>2. ASSUME NEW p \in Packets,
               ranked' = [ranked EXCEPT ![p.cid] = NotRanked],
               UNCHANGED <<heard, silence, watching>>
        PROVE  HistoryTypes'
    BY <1>2
  <1>3. CASE /\ heard' = [c \in Cids |-> LossBound] /\ silence' = LossBound
             /\ ranked' = [c \in Cids |-> NotRanked] /\ watching' = FALSE
    <2>1. LossBound \in 0 .. LossBound
      BY LossBoundIsNat
    <2> QED
      BY <1>3, <2>1
  <1>4. CASE watching' = FALSE /\ UNCHANGED <<heard, silence, ranked>>
    BY <1>4
  <1>5. CASE /\ heard' = [c \in Cids |-> Later(heard[c])] /\ silence' = Later(silence)
             /\ ranked' = [c \in Cids |-> IF heard'[c] >= Timeout THEN NotRanked
                                                                  ELSE ranked[c]]
             /\ UNCHANGED watching
    BY <1>5, LaterType
  <1>6. CASE UNCHANGED <<heard, silence, ranked, watching>>
    BY <1>6
  <1>7. CASE UNCHANGED hvars
    BY <1>6, <1>7 DEF hvars
  <1> HIDE DEF HistoryTypes
  <1> QED
    BY <1>1, <1>2, <1>3, <1>4, <1>5, <1>6, <1>7, Zenon DEF Observe

\* What the receiver alone guarantees holds in an observed behaviour too.
LEMMA ObservedReceiver ==
    HistorySpec => [](TypeOK /\ SourceInv /\ HistoryTypes)
  <1>1. HistoryInit => TypeOK /\ SourceInv /\ HistoryTypes
    <2> SUFFICES ASSUME HistoryInit PROVE TypeOK /\ SourceInv /\ HistoryTypes
      OBVIOUS
    <2>1. TypeOK
      BY InitTypeOK DEF HistoryInit
    <2>2. SourceInv
      BY DEF HistoryInit, Init, SourceInv, TrackedSourceDrivesOutput,
             FailsafeExcludesLive, ActiveSlots, FreeSlot
    <2>3. HistoryTypes
      <3>1. LossBound \in 0 .. LossBound
        BY LossBoundIsNat
      <3> QED
        BY <3>1 DEF HistoryInit, HistoryTypes
    <2> QED
      BY <2>1, <2>2, <2>3
  <1>2. TypeOK /\ SourceInv /\ HistoryTypes /\ [Observe]_hvars
          => (TypeOK /\ SourceInv /\ HistoryTypes)'
    BY ObserveIsNext, NextTypeOK, SourceInvStep, HistoryTypesStep
  <1> QED
    BY <1>1, <1>2, PTL DEF HistorySpec
-----------------------------------------------------------------------------
(* Silence, the output timeout and the failsafe *)

\* A tracked packet is younger than the source timeout but for the loop's
\* lateness, and the sender and the network were heard since.
SlotsInTime ==
    \A i \in ActiveSlots(sources) :
        /\ Age(sources[i].lastMillis) < Timeout + lag
        /\ heard[sources[i].cid] <= Age(sources[i].lastMillis)
        /\ silence <= Age(sources[i].lastMillis)

\* What is shown was young when it was applied, and the output timeout, but
\* for the same lateness, bounds the time since.
OutputInTime ==
    sacnActive =>
        /\ Age(lastPacket) <= Timeout + lag
        /\ silence < Timeout + Age(lastPacket)
        /\ output.kind = "live" => heard[output.cid] < Timeout + Age(lastPacket)

\* A watched node can show data, and shows it or has failed safe; whoever
\* shows data has a socket, so that updateSacn() reaches its timeouts.
Supervised ==
    /\ watching => LiveGuard /\ (sacnActive \/ failsafe)
    /\ sacnActive => socketReady

InTime == SlotsInTime /\ OutputInTime /\ Supervised

LEMMA FreshInTime ==
    ASSUME TypeOK, SlotsInTime, NEW i \in ActiveSlots(ExpireSources(sources))
    PROVE  /\ i \in Slots /\ i \in ActiveSlots(sources)
           /\ ExpireSources(sources)[i] = sources[i]
           /\ sources[i].cid \in Cids /\ sources[i].lastMillis \in Millis
           /\ Age(sources[i].lastMillis) \in Nat
           /\ Age(sources[i].lastMillis) < Timeout
           /\ heard[sources[i].cid] <= Age(sources[i].lastMillis)
           /\ silence <= Age(sources[i].lastMillis)
  <1>1. i \in Slots /\ sources \in Tables
    BY DEF ActiveSlots, TypeOK
  <1>2. /\ i \in ActiveSlots(sources) /\ ~(Age(sources[i].lastMillis) >= Timeout)
        /\ ExpireSources(sources)[i] = sources[i]
    BY <1>1, ExpireKeeps
  <1>3. sources[i].lastMillis \in Millis /\ sources[i].cid \in Cids
    BY <1>1, <1>2, SlotFields
  <1>4. Age(sources[i].lastMillis) \in Nat
    BY <1>3, AgeValue
  <1> QED
    BY <1>1, <1>2, <1>3, <1>4, ClockAssumption DEF SlotsInTime

\* Expiry alone, from wherever it is called.
LEMMA ExpiredInTime ==
    ASSUME TypeOK, SlotsInTime, sources' = ExpireSources(sources),
           lag' \in Nat, UNCHANGED <<heard, silence, now>>
    PROVE  SlotsInTime'
  <1> SUFFICES ASSUME NEW i \in ActiveSlots(ExpireSources(sources))
               PROVE  /\ Age(sources[i].lastMillis)' < Timeout + lag'
                      /\ heard'[sources'[i].cid] <= Age(sources[i].lastMillis)'
                      /\ silence' <= Age(sources[i].lastMillis)'
    BY DEF SlotsInTime, ActiveSlots
  <1>1. sources'[i] = sources[i] /\ Age(sources[i].lastMillis)' = Age(sources[i].lastMillis)
    BY FreshInTime DEF Age
  <1>2. Age(sources[i].lastMillis) < Timeout + lag'
    BY FreshInTime, ClockAssumption
  <1> QED
    BY <1>1, <1>2, FreshInTime

\* Applying a table all of whose packets are young.
LEMMA AppliedInTime ==
    ASSUME TypeOK, NEW table \in Tables, ActiveSlots(table) # {},
           ApplyHighestActiveSource(table), now' = now, lag' \in Nat,
           silence' < Timeout, \A i \in ActiveSlots(table) : heard'[table[i].cid] < Timeout
    PROVE  OutputInTime'
  <1>1. PICK i \in ActiveSlots(table) : output' = LiveFrame(table[i].cid, table[i].sequence)
    BY ApplyShows
  <1>2. Age(lastPacket)' = 0
    <2>1. lastPacket' = now
      BY ApplyShows
    <2>2. Age(lastPacket)' = Age(now)
      BY <2>1 DEF Age
    <2> QED
      BY <2>2, AgeValue DEF TypeOK
  <1>3. output'.cid = table[i].cid
    BY <1>1 DEF LiveFrame
  <1> QED
    BY <1>2, <1>3, ClockAssumption DEF OutputInTime

\* A frame on the output that is live belongs to a sender.
LEMMA LiveFrameOfSender ==
    ASSUME TypeOK, output.kind = "live"
    PROVE  output.cid \in Cids
  BY DEF TypeOK, Frames, LiveFrame, FailsafeFrame, OtherFrame

\* The output is left alone while its sender, and some sender, may be heard.
LEMMA UntouchedInTime ==
    ASSUME TypeOK, HistoryTypes, HistoryTypes', OutputInTime,
           UNCHANGED outputState, now' = now, lag' = lag,
           silence' <= silence, \A c \in Cids : heard'[c] <= heard[c]
    PROVE  OutputInTime'
  <1> SUFFICES ASSUME sacnActive
               PROVE  /\ Age(lastPacket) <= Timeout + lag
                      /\ silence' < Timeout + Age(lastPacket)
                      /\ output.kind = "live" =>
                            heard'[output.cid] < Timeout + Age(lastPacket)
    BY DEF OutputInTime, outputState, Age
  <1>1. Age(lastPacket) \in Nat
    BY AgeValue DEF TypeOK
  <1>2. silence \in Nat /\ silence' \in Nat
    BY DEF HistoryTypes
  <1>3. ASSUME output.kind = "live"
        PROVE  /\ heard[output.cid] \in Nat /\ heard'[output.cid] \in Nat
               /\ heard'[output.cid] <= heard[output.cid]
    BY <1>3, LiveFrameOfSender DEF HistoryTypes
  <1> QED
    BY <1>1, <1>2, <1>3, ClockAssumption DEF OutputInTime
LEMMA DataInTime ==
    ASSUME TypeOK, TypeOK', HistoryTypes, HistoryTypes', SourceInv', InTime,
           NEW p \in Packets, DataPacket(p), silence' = 0,
           heard' = [heard EXCEPT ![p.cid] = 0]
    PROVE  InTime'
  <1> DEFINE table == StorePacket(p)
             fresh == ExpireSources(sources)
             slot == SlotFor(fresh, p.cid)
  <1>1. /\ table \in Tables /\ ActiveSlots(table) # {} /\ sources' = table
        /\ now' = now /\ lag' = lag /\ UNCHANGED <<socketReady, config>>
    BY StorePacketType DEF DataPacket, clock
  <1>2. lag \in Nat /\ p.cid \in Cids
    BY GapAssumption DEF TypeOK, Packets
  <1>3. \A c \in Cids : heard'[c] = IF c = p.cid THEN 0 ELSE heard[c]
    BY DEF HistoryTypes
  <1>4. ASSUME NEW i \in ActiveSlots(table)
        PROVE  /\ Age(table[i].lastMillis) \in Nat
               /\ Age(table[i].lastMillis) < Timeout
               /\ heard'[table[i].cid] <= Age(table[i].lastMillis)
    <2>1. i \in Slots
      BY DEF ActiveSlots
    <2>2. CASE i = slot
      <3>1. table[i].cid = p.cid /\ table[i].lastMillis = now
        <4>1. table[i] = Stored(p)
          BY <2>1, <2>2, StoredTable
        <4>2. ~p.terminated
          BY DEF DataPacket
        <4> QED
          BY <4>1, <4>2 DEF Stored
      <3>2. Age(table[i].lastMillis) = 0
        BY <3>1, AgeValue DEF TypeOK
      <3> QED
        BY <1>2, <1>3, <3>1, <3>2, ClockAssumption
    <2>3. CASE i # slot
      <3>1. table[i] = fresh[i] /\ i \in ActiveSlots(fresh)
        BY <1>4, <2>1, <2>3, StoredTable DEF ActiveSlots
      <3>2. /\ table[i] = sources[i] /\ sources[i].cid \in Cids
            /\ Age(sources[i].lastMillis) \in Nat
            /\ Age(sources[i].lastMillis) < Timeout
            /\ heard[sources[i].cid] <= Age(sources[i].lastMillis)
        BY <3>1, FreshInTime DEF InTime
      <3> QED
        BY <1>3, <3>2
    <2> QED
      BY <2>2, <2>3
  <1> HIDE DEF table, fresh, slot
  <1>5. SlotsInTime'
    <2>1. \A i \in Slots : Age(sources[i].lastMillis)' = Age(table[i].lastMillis)
      BY <1>1 DEF Age
    <2>2. \A i \in ActiveSlots(table) : i \in Slots
      BY DEF ActiveSlots
    <2>3. ActiveSlots(sources)' = ActiveSlots(table)
      BY <1>1 DEF ActiveSlots
    <2> QED
      BY <1>1, <1>2, <1>4, <2>1, <2>2, <2>3, ClockAssumption DEF SlotsInTime
  <1>6. OutputInTime'
    <2>1. CASE OutRanked(table, p.priority)
      <3>1. UNCHANGED outputState
        BY <2>1 DEF DataPacket, table
      <3>2. silence' <= silence /\ \A c \in Cids : heard'[c] <= heard[c]
        BY <1>3 DEF HistoryTypes
      <3> QED
        BY <1>1, <3>1, <3>2, UntouchedInTime DEF InTime
    <2>2. CASE ~OutRanked(table, p.priority)
      <3>1. ApplyHighestActiveSource(table)
        BY <2>2 DEF DataPacket, table
      <3>2. \A i \in ActiveSlots(table) : table[i].cid \in Cids
        BY <1>1, SlotFields DEF ActiveSlots
      <3>3. \A i \in ActiveSlots(table) : heard'[table[i].cid] < Timeout
        BY <1>4, <3>2, ClockAssumption DEF HistoryTypes
      <3> QED
        BY <1>1, <1>2, <3>1, <3>3, AppliedInTime, ClockAssumption
    <2> QED
      BY <2>1, <2>2
  <1>7. Supervised'
    <2>1. LiveGuard' /\ socketReady'
      BY <1>1 DEF DataPacket, LiveGuard, config, MayRead
    <2>2. sacnActive'
      BY <1>1 DEF SourceInv, TrackedSourceDrivesOutput, ActiveSlots
    <2> QED
      BY <2>1, <2>2 DEF Supervised
  <1> QED
    BY <1>5, <1>6, <1>7 DEF InTime

LEMMA TerminationInTime ==
    ASSUME TypeOK, TypeOK', HistoryTypes, HistoryTypes', InTime,
           NEW p \in Packets, TerminationPacket(p),
           UNCHANGED <<heard, silence, watching>>
    PROVE  InTime'
  <1> DEFINE table == StorePacket(p)
             fresh == ExpireSources(sources)
  <1>1. /\ table \in Tables /\ sources' = table /\ ApplyHighestActiveSource(table)
        /\ now' = now /\ lag' = lag /\ UNCHANGED <<socketReady, config>>
    BY StorePacketType DEF TerminationPacket, clock
  <1>2. lag \in Nat
    BY GapAssumption DEF TypeOK
  <1>3. ASSUME NEW i \in ActiveSlots(table)
        PROVE  table[i] = fresh[i] /\ i \in ActiveSlots(fresh)
    <2>1. i \in Slots
      BY DEF ActiveSlots
    <2>2. Stored(p).active = FALSE
      BY DEF TerminationPacket, Stored, FreeSlot
    <2> QED
      BY <1>3, <2>1, <2>2, StoredTable DEF ActiveSlots
  <1>4. ASSUME NEW i \in ActiveSlots(table)
        PROVE  /\ i \in Slots /\ table[i].cid \in Cids
               /\ Age(table[i].lastMillis) \in Nat
               /\ Age(table[i].lastMillis) < Timeout
               /\ heard[table[i].cid] <= Age(table[i].lastMillis)
               /\ silence <= Age(table[i].lastMillis)
    BY <1>3, FreshInTime DEF InTime
  <1> HIDE DEF table, fresh
  <1>5. SlotsInTime'
    <2>1. \A i \in Slots : Age(sources[i].lastMillis)' = Age(table[i].lastMillis)
      BY <1>1 DEF Age
    <2>3. ActiveSlots(sources)' = ActiveSlots(table)
      BY <1>1 DEF ActiveSlots
    <2> QED
      BY <1>1, <1>2, <1>4, <2>1, <2>3, ClockAssumption DEF SlotsInTime
  <1>6. CASE ActiveSlots(table) = {}
    <2>1. UNCHANGED outputState
      BY <1>1, <1>6 DEF ApplyHighestActiveSource
    <2>2. silence' <= silence /\ \A c \in Cids : heard'[c] <= heard[c]
      BY DEF HistoryTypes
    <2>3. OutputInTime'
      BY <1>1, <2>1, <2>2, UntouchedInTime DEF InTime
    <2>4. Supervised'
      BY <1>1, <2>1 DEF InTime, Supervised, LiveGuard, outputState, config
    <2> QED
      BY <1>5, <2>3, <2>4 DEF InTime
  <1>7. CASE ActiveSlots(table) # {}
    <2>1. \A i \in ActiveSlots(table) : heard'[table[i].cid] < Timeout /\ silence' < Timeout
      BY <1>4, ClockAssumption DEF HistoryTypes
    <2>2. OutputInTime'
      BY <1>1, <1>2, <1>7, <2>1, AppliedInTime
    <2>3. sacnActive' /\ LiveGuard' /\ socketReady'
      <3>1. LiveGuard' /\ socketReady'
        BY <1>1 DEF TerminationPacket, LiveGuard, config, MayRead
      <3> QED
        BY <1>1, <1>7, <3>1, ApplyShows
    <2> QED
      BY <1>5, <2>2, <2>3 DEF InTime, Supervised
  <1> QED
    BY <1>6, <1>7
LEMMA TickInTime ==
    ASSUME TypeOK, HistoryTypes, HistoryTypes', InTime, Tick,
           heard' = [c \in Cids |-> Later(heard[c])], silence' = Later(silence),
           UNCHANGED watching
    PROVE  InTime'
  <1>1. lag \in Nat /\ lag' = lag + 1 /\ lag < MaxGap /\ MaxGap \in Nat
    BY GapAssumption DEF Tick, TypeOK
  <1>2. /\ sources' = sources /\ lastPacket' = lastPacket /\ output' = output
        /\ sacnActive' = sacnActive /\ failsafe' = failsafe
        /\ socketReady' = socketReady /\ UNCHANGED config
    BY DEF Tick, outputState
  <1>3. /\ silence \in Nat /\ silence' \in Nat /\ silence' <= silence + 1
        /\ \A c \in Cids : /\ heard[c] \in Nat /\ heard'[c] \in Nat
                          /\ heard'[c] <= heard[c] + 1
    BY LossBoundIsNat DEF HistoryTypes, Later
  <1>4. ASSUME NEW t \in Millis, Age(t) <= Timeout + lag
        PROVE  Age(t)' = Age(t) + 1 /\ Age(t) \in Nat
    BY <1>1, <1>4, AgeTick, AgeValue, WrapAssumption, ClockAssumption
  <1>5. SlotsInTime'
    <2> SUFFICES ASSUME NEW i \in ActiveSlots(sources)
                 PROVE  /\ Age(sources[i].lastMillis)' < Timeout + lag'
                        /\ heard'[sources[i].cid] <= Age(sources[i].lastMillis)'
                        /\ silence' <= Age(sources[i].lastMillis)'
      BY <1>2 DEF SlotsInTime, ActiveSlots
    <2>1. sources[i].cid \in Cids /\ sources[i].lastMillis \in Millis
      BY SlotFields DEF TypeOK, ActiveSlots
    <2>2. /\ Age(sources[i].lastMillis) < Timeout + lag
          /\ heard[sources[i].cid] <= Age(sources[i].lastMillis)
          /\ silence <= Age(sources[i].lastMillis)
      BY DEF InTime, SlotsInTime
    <2> DEFINE age == Age(sources[i].lastMillis)
    <2>4. age \in Nat
      BY <2>1, AgeValue
    <2>5. Age(sources[i].lastMillis)' = age + 1
      <3>1. Age(sources[i].lastMillis)' = (now' - sources[i].lastMillis) % ClockMod
        BY <1>2 DEF Age
      <3>2. age <= Timeout + lag
        BY <1>1, <2>2, <2>4, ClockAssumption
      <3>3. \A t \in Millis : Age(t) <= Timeout + lag =>
                                (now' - t) % ClockMod = Age(t) + 1
        BY <1>4 DEF Age
      <3> QED
        BY <2>1, <3>1, <3>2, <3>3
    <2> HIDE DEF age
    <2>6. age < Timeout + lag /\ heard[sources[i].cid] <= age /\ silence <= age
      BY <2>2 DEF age
    <2>7. heard'[sources[i].cid] <= heard[sources[i].cid] + 1
      BY <1>3, <2>1
    <2>8. heard'[sources[i].cid] \in Nat /\ heard[sources[i].cid] \in Nat
      BY <1>3, <2>1
    <2> QED
      BY <1>1, <1>3, <2>4, <2>5, <2>6, <2>7, <2>8, ClockAssumption
  <1>6. OutputInTime'
    <2> SUFFICES ASSUME sacnActive
                 PROVE  /\ Age(lastPacket)' <= Timeout + lag'
                        /\ silence' < Timeout + Age(lastPacket)'
                        /\ output.kind = "live" =>
                              heard'[output.cid] < Timeout + Age(lastPacket)'
      BY <1>2 DEF OutputInTime
    <2>1. /\ Age(lastPacket) <= Timeout + lag
          /\ silence < Timeout + Age(lastPacket)
          /\ output.kind = "live" => heard[output.cid] < Timeout + Age(lastPacket)
      BY DEF InTime, OutputInTime
    <2>2. Age(lastPacket)' = Age(lastPacket) + 1 /\ Age(lastPacket) \in Nat
      <3>1. lastPacket \in Millis
        BY DEF TypeOK
      <3>2. Age(lastPacket)' = (now' - lastPacket) % ClockMod
        BY <1>2 DEF Age
      <3>3. \A t \in Millis : Age(t) <= Timeout + lag =>
                /\ (now' - t) % ClockMod = Age(t) + 1
                /\ Age(t) \in Nat
        BY <1>4 DEF Age
      <3> QED
        BY <2>1, <3>1, <3>2, <3>3
    <2>3. output.kind = "live" => output.cid \in Cids
      BY LiveFrameOfSender
    <2> QED
      BY <1>1, <1>3, <2>1, <2>2, <2>3, ClockAssumption
  <1>7. Supervised'
    BY <1>2 DEF InTime, Supervised, LiveGuard, config
  <1> QED
    BY <1>5, <1>6, <1>7 DEF InTime

LEMMA EndLoopInTime ==
    ASSUME TypeOK, TypeOK', HistoryTypes, HistoryTypes', InTime,
           LoopFailover \/ LoopFailsafe \/ LoopIdle,
           UNCHANGED <<heard, silence, watching>>
    PROVE  InTime'
  <1> DEFINE fresh == ExpireSources(sources)
  <1>1. /\ sources' = fresh /\ now' = now /\ lag' = 0
        /\ socketReady /\ socketReady' /\ UNCHANGED config
    BY DEF LoopFailover, LoopFailsafe, LoopIdle, EndLoop
  <1>2. SlotsInTime'
    BY <1>1, ExpiredInTime DEF InTime
  <1>3. CASE LoopFailover
    <2>1. fresh \in Tables /\ ActiveSlots(fresh) # {} /\ ApplyHighestActiveSource(fresh)
      BY <1>3, ExpireSourcesType DEF LoopFailover, CanFailOver, TypeOK
    <2>2. \A i \in ActiveSlots(fresh) : heard'[fresh[i].cid] < Timeout /\ silence' < Timeout
      <3> SUFFICES ASSUME NEW i \in ActiveSlots(fresh)
                   PROVE  heard[fresh[i].cid] < Timeout /\ silence < Timeout
        OBVIOUS
      <3>1. /\ fresh[i] = sources[i] /\ sources[i].cid \in Cids
            /\ Age(sources[i].lastMillis) \in Nat
            /\ Age(sources[i].lastMillis) < Timeout
            /\ heard[sources[i].cid] <= Age(sources[i].lastMillis)
            /\ silence <= Age(sources[i].lastMillis)
        BY FreshInTime DEF InTime
      <3>2. heard[sources[i].cid] \in Nat /\ silence \in Nat
        BY <3>1 DEF HistoryTypes
      <3> QED
        BY <3>1, <3>2, ClockAssumption
    <2> HIDE DEF fresh
    <2>3. OutputInTime'
      BY <1>1, <2>1, <2>2, AppliedInTime
    <2>4. sacnActive'
      BY <2>1, ApplyShows
    <2> QED
      BY <1>1, <1>2, <2>3, <2>4 DEF InTime, Supervised, LiveGuard, config
  <1>4. CASE LoopFailsafe
    <2>1. sacnActive' = FALSE /\ (LiveGuard => failsafe')
      BY <1>4 DEF LoopFailsafe, ApplySacnFailsafe
    <2> QED
      BY <1>1, <1>2, <2>1 DEF InTime, OutputInTime, Supervised, LiveGuard, config
  <1>5. CASE LoopIdle
    <2>1. UNCHANGED outputState /\ ~OutputTimedOut
      BY <1>5 DEF LoopIdle
    <2>2. Age(lastPacket)' = Age(lastPacket) /\ Age(lastPacket) \in Nat
      BY <1>1, <2>1, AgeValue DEF Age, outputState, TypeOK
    <2>3. sacnActive => Age(lastPacket) <= Timeout
      BY <2>1, <2>2, ClockAssumption DEF OutputTimedOut
    <2>4. OutputInTime'
      BY <1>1, <2>1, <2>2, <2>3, ClockAssumption DEF InTime, OutputInTime, outputState
    <2> QED
      BY <1>1, <1>2, <2>1, <2>4 DEF InTime, Supervised, LiveGuard, config, outputState
  <1> QED
    BY <1>3, <1>4, <1>5
\* Actions that leave the table and the output as they are.
LEMMA UndisturbedInTime ==
    ASSUME TypeOK, HistoryTypes, HistoryTypes', InTime,
           UNCHANGED <<sources, sacnActive, failsafe, lastPacket, heard, silence>>,
           output' = output \/ output'.kind # "live",
           now' = now, lag' = lag, socketReady' = socketReady,
           watching' => watching /\ UNCHANGED config
    PROVE  InTime'
  <1>1. \A t : Age(t)' = Age(t)
    BY DEF Age
  <1>2. SlotsInTime'
    BY DEF InTime, SlotsInTime, ActiveSlots, Age
  <1>3. OutputInTime'
    BY DEF InTime, OutputInTime, Age
  <1>4. Supervised'
    BY DEF InTime, Supervised, LiveGuard, config
  <1> QED
    BY <1>2, <1>3, <1>4 DEF InTime

LEMMA InTimeStep ==
    ASSUME TypeOK, TypeOK', SourceInv, SourceInv', HistoryTypes, HistoryTypes',
           InTime, [Observe]_hvars
    PROVE  InTime'
  <1>1. ASSUME NEW p \in Packets, DataPacket(p), silence' = 0,
               heard' = [heard EXCEPT ![p.cid] = 0]
        PROVE  InTime'
    BY <1>1, DataInTime
  <1>2. ASSUME NEW p \in Packets, TerminationPacket(p),
               UNCHANGED <<heard, silence, watching>>
        PROVE  InTime'
    BY <1>2, TerminationInTime
  <1>3. CASE /\ NetworkChange \/ ApplyRuntimeConfig
             /\ watching' = FALSE
    <2>1. /\ sources' = [i \in Slots |-> FreeSlot]
          /\ sacnActive' = FALSE
      BY <1>3 DEF NetworkChange, ApplyRuntimeConfig, ResetReceiver
    <2> QED
      BY <1>3, <2>1 DEF InTime, SlotsInTime, OutputInTime, Supervised, ActiveSlots, FreeSlot
  <1>4. CASE /\ ArtAddressDirection \/ StoreWithoutRestart
             /\ watching' = FALSE /\ UNCHANGED <<heard, silence, ranked>>
    BY <1>4, UndisturbedInTime DEF ArtAddressDirection, StoreWithoutRestart,
       outputState, clock
  <1>5. CASE /\ Tick /\ heard' = [c \in Cids |-> Later(heard[c])]
             /\ silence' = Later(silence) /\ UNCHANGED watching
    BY <1>5, TickInTime
  <1>6. ASSUME UNCHANGED <<heard, silence, ranked, watching>>
        PROVE  /\ IgnorePacket => InTime'
               /\ ForeignFrame => InTime'
               /\ WebStatusPoll => InTime'
               /\ BindRetry => InTime'
               /\ LoopFailover \/ LoopFailsafe \/ LoopIdle => InTime'
               /\ \A p \in Packets : ReplayedPacket(p) => InTime'
    <2>1. ASSUME IgnorePacket PROVE InTime'
      BY <1>6, <2>1, UndisturbedInTime DEF IgnorePacket, outputState, clock
    <2>2. ASSUME ForeignFrame PROVE InTime'
      BY <1>6, <2>2, UndisturbedInTime DEF ForeignFrame, clock, OtherFrame
    <2>3. ASSUME sources' = ExpireSources(sources), now' = now, lag' = lag,
                 UNCHANGED <<outputState, socketReady, config>>
          PROVE  InTime'
      <3>1. SlotsInTime'
        BY <1>6, <2>3, ExpiredInTime, GapAssumption DEF TypeOK, InTime
      <3>2. OutputInTime'
        BY <1>6, <2>3, UntouchedInTime DEF InTime, HistoryTypes
      <3>3. Supervised'
        BY <1>6, <2>3 DEF InTime, Supervised, LiveGuard, config, outputState
      <3> QED
        BY <3>1, <3>2, <3>3 DEF InTime
    <2>4. ASSUME WebStatusPoll PROVE InTime'
      BY <2>3, <2>4 DEF WebStatusPoll, clock
    <2>5. ASSUME NEW p \in Packets, ReplayedPacket(p) PROVE InTime'
      BY <2>3, <2>5 DEF ReplayedPacket, clock
    <2>6. ASSUME BindRetry PROVE InTime'
      <3>1. ~sacnActive /\ ActiveSlots(sources) = {}
        BY <2>6 DEF BindRetry, InTime, Supervised, SourceInv, TrackedSourceDrivesOutput
      <3>2. UNCHANGED <<sources, outputState, config>>
        BY <2>6 DEF BindRetry
      <3> QED
        BY <1>6, <3>1, <3>2 DEF InTime, SlotsInTime, OutputInTime, Supervised,
           ActiveSlots, LiveGuard, config, outputState
    <2>7. ASSUME LoopFailover \/ LoopFailsafe \/ LoopIdle PROVE InTime'
      BY <1>6, <2>7, EndLoopInTime
    <2> QED
      BY <2>1, <2>2, <2>4, <2>5, <2>6, <2>7
  <1>7. CASE UNCHANGED hvars
    <2>1. UNCHANGED <<sources, sacnActive, failsafe, lastPacket, output, socketReady,
                      now, lag, heard, silence, watching, config>>
      BY <1>7 DEF hvars, vars, config
    <2> QED
      BY <2>1, UndisturbedInTime
  <1> QED
    BY <1>1, <1>2, <1>3, <1>4, <1>5, <1>6, <1>7, Zenon DEF Observe

LEMMA ObservedInTime == HistorySpec => []InTime
  <1>1. HistoryInit => InTime
    BY DEF HistoryInit, Init, InTime, SlotsInTime, OutputInTime, Supervised,
           ActiveSlots, FreeSlot
  <1>2. (TypeOK /\ SourceInv /\ HistoryTypes) /\ (TypeOK /\ SourceInv /\ HistoryTypes)'
          /\ InTime /\ [Observe]_hvars => InTime'
    BY InTimeStep
  <1> QED
    BY <1>1, <1>2, ObservedReceiver, PTL DEF HistorySpec

\* A watched node on which no sender was heard for the two timeouts and the
\* loop's lateness has entered its failsafe, however the expiries fell on
\* updateSacn(), the packet handler and the web page, and across the wrap of
\* millis().
THEOREM SilenceFailsSafe == HistorySpec => []LossReachesFailsafe
  <1>1. TypeOK /\ HistoryTypes /\ InTime => LossReachesFailsafe
    <2> SUFFICES ASSUME TypeOK, HistoryTypes, InTime, watching, ~failsafe
                 PROVE  silence < LossBound
      BY LossBoundIsNat DEF LossReachesFailsafe, HistoryTypes
    <2>1. /\ Age(lastPacket) <= Timeout + lag
          /\ silence < Timeout + Age(lastPacket)
      BY DEF InTime, Supervised, OutputInTime
    <2>2. Age(lastPacket) \in Nat /\ lag \in Nat /\ lag <= MaxGap /\ silence \in Nat
      BY AgeValue, GapAssumption DEF TypeOK, HistoryTypes
    <2> QED
      BY <2>1, <2>2, ClockAssumption, GapAssumption DEF LossBound
  <1> QED
    BY <1>1, ObservedReceiver, ObservedInTime, PTL

\* As long as a source is tracked, the frame on the output is of a sender
\* heard within the same bound: a dead sender's last frame is replaced.
THEOREM DeadFramesAreReplaced == HistorySpec => []DeadSourceIsReplaced
  <1>1. TypeOK /\ SourceInv /\ HistoryTypes /\ InTime => DeadSourceIsReplaced
    <2> SUFFICES ASSUME TypeOK, SourceInv, HistoryTypes, InTime,
                        ActiveSlots(sources) # {}, output.kind = "live"
                 PROVE  heard[output.cid] < LossBound
      BY DEF DeadSourceIsReplaced
    <2>1. /\ Age(lastPacket) <= Timeout + lag
          /\ heard[output.cid] < Timeout + Age(lastPacket)
      BY DEF InTime, OutputInTime, SourceInv, TrackedSourceDrivesOutput
    <2>2. /\ Age(lastPacket) \in Nat /\ lag \in Nat /\ lag <= MaxGap
          /\ heard[output.cid] \in Nat
      BY AgeValue, GapAssumption, LiveFrameOfSender DEF TypeOK, HistoryTypes
    <2> QED
      BY <2>1, <2>2, ClockAssumption, GapAssumption DEF LossBound
  <1> QED
    BY <1>1, ObservedReceiver, ObservedInTime, PTL
-----------------------------------------------------------------------------
(* Live senders and the failsafe *)

\* Three ways in which a live sender keeps the failsafe away: it is tracked;
\* it was pushed out by fresher sources that fill the table; or, when such a
\* source went, another one was applied after the sender was last heard.
Tracked(c) ==
    \E i \in ActiveSlots(sources) :
        sources[i].cid = c /\ Age(sources[i].lastMillis) <= heard[c]

Crowded(c) ==
    \A i \in Slots : sources[i].active /\ Age(sources[i].lastMillis) <= heard[c]

Covered ==
    \A c \in Cids : Live(c) =>
        /\ heard[c] < Timeout /\ ~failsafe
        /\ Tracked(c) \/ Crowded(c) \/ Age(lastPacket) <= heard[c]

\* A slot that keeps a live sender covered is not dropped by expiry.
LEMMA CoverOutlivesExpiry ==
    ASSUME TypeOK, HistoryTypes, NEW c \in Cids, heard[c] < Timeout,
           NEW i \in ActiveSlots(sources), Age(sources[i].lastMillis) <= heard[c]
    PROVE  /\ i \in Slots /\ i \in ActiveSlots(ExpireSources(sources))
           /\ ExpireSources(sources)[i] = sources[i]
  <1>1. i \in Slots /\ sources \in Tables /\ sources[i].lastMillis \in Millis
    BY SlotFields DEF ActiveSlots, TypeOK
  <1>2. Age(sources[i].lastMillis) \in Nat /\ heard[c] \in Nat
    BY <1>1, AgeValue DEF HistoryTypes
  <1>3. ~(Age(sources[i].lastMillis) >= Timeout)
    BY <1>2, ClockAssumption
  <1> QED
    BY <1>1, <1>3, ExpireKeeps

\* Expiry leaves a live sender covered, even if the output is applied anew.
LEMMA ExpiredCovered ==
    ASSUME TypeOK, HistoryTypes, Covered, sources' = ExpireSources(sources),
           lastPacket' = lastPacket \/ lastPacket' = now, failsafe' => failsafe,
           now' = now, UNCHANGED <<heard, ranked>>
    PROVE  Covered'
  <1> SUFFICES ASSUME NEW c \in Cids, Live(c)
               PROVE  \/ Tracked(c)' \/ Crowded(c)'
                      \/ Age(lastPacket)' <= heard[c]
    BY DEF Covered, Live
  <1>1. heard[c] < Timeout /\ heard[c] \in Nat
    BY DEF Covered, HistoryTypes
  <1>2. CASE Tracked(c)
    <2>1. PICK i \in ActiveSlots(sources) :
             sources[i].cid = c /\ Age(sources[i].lastMillis) <= heard[c]
      BY <1>2 DEF Tracked
    <2>2. i \in ActiveSlots(sources)' /\ sources'[i] = sources[i]
      BY <1>1, <2>1, CoverOutlivesExpiry DEF ActiveSlots
    <2> QED
      BY <2>1, <2>2 DEF Tracked, Age
  <1>3. CASE Crowded(c)
    <2>1. ASSUME NEW i \in Slots
          PROVE  sources'[i].active /\ Age(sources[i].lastMillis)' <= heard[c]
      <3>1. i \in ActiveSlots(sources) /\ Age(sources[i].lastMillis) <= heard[c]
        BY <1>3 DEF Crowded, ActiveSlots
      <3>2. i \in ActiveSlots(sources)' /\ sources'[i] = sources[i]
        BY <1>1, <3>1, CoverOutlivesExpiry DEF ActiveSlots
      <3> QED
        BY <3>1, <3>2 DEF Age, ActiveSlots
    <2> QED
      BY <2>1 DEF Crowded
  <1>4. CASE Age(lastPacket) <= heard[c]
    <2>1. Age(lastPacket)' = Age(lastPacket) \/ Age(lastPacket)' = 0
      BY AgeValue DEF Age, TypeOK
    <2> QED
      BY <1>1, <1>4, <2>1
  <1> QED
    BY <1>2, <1>3, <1>4 DEF Covered

LEMMA DataCovered ==
    ASSUME TypeOK, HistoryTypes, SourceInv', Covered,
           NEW p \in Packets, DataPacket(p),
           heard' = [heard EXCEPT ![p.cid] = 0],
           ranked' = [ranked EXCEPT ![p.cid] = p.priority]
    PROVE  Covered'
  <1> DEFINE fresh == ExpireSources(sources)
  <1>1. /\ p.cid \in Cids /\ fresh \in Tables
        /\ sources' = StorePacket(p) /\ now' = now
    BY ExpireSourcesType DEF DataPacket, Packets, TypeOK, clock
  <1>0. PICK slot \in Slots : slot = SlotFor(fresh, p.cid)
    BY <1>1, SlotForType DEF TypeOK
  <1>2. /\ sources'[slot].active /\ sources'[slot].cid = p.cid
        /\ sources'[slot].lastMillis = now /\ Age(sources[slot].lastMillis)' = 0
    <2>1. sources'[slot] = Stored(p) /\ ~p.terminated
      BY <1>0, <1>1, StoredTable DEF DataPacket
    <2>2. /\ Stored(p).active /\ Stored(p).cid = p.cid /\ Stored(p).lastMillis = now
      BY <2>1 DEF Stored
    <2>3. Age(sources[slot].lastMillis)' = Age(now)
      BY <1>1, <2>1, <2>2 DEF Age
    <2> QED
      BY <2>1, <2>2, <2>3, AgeValue DEF TypeOK
  <1>3. \A i \in Slots : i # slot => sources'[i] = fresh[i]
    BY <1>0, <1>1, StoredTable
  <1>4. ~failsafe'
    BY <1>1, <1>2 DEF SourceInv, FailsafeExcludesLive, ActiveSlots
  <1>5. lastPacket' = lastPacket \/ lastPacket' = now
    BY DEF DataPacket, ApplyHighestActiveSource, outputState
  <1> SUFFICES ASSUME NEW c \in Cids, Live(c)'
               PROVE  /\ heard'[c] < Timeout
                      /\ \/ Tracked(c)' \/ Crowded(c)'
                         \/ Age(lastPacket)' <= heard'[c]
    BY <1>4 DEF Covered
  <1>6. CASE c = p.cid
    <2>1. heard'[c] = 0
      BY <1>1, <1>6 DEF HistoryTypes
    <2> QED
      BY <1>1, <1>2, <1>6, <2>1, ClockAssumption DEF Tracked, ActiveSlots
  <1>7. CASE c # p.cid
    <2>1. heard'[c] = heard[c] /\ Live(c)
      BY <1>1, <1>7 DEF HistoryTypes, Live
    <2>2. heard[c] < Timeout /\ heard[c] \in Nat
      BY <2>1 DEF Covered, HistoryTypes
    <2>3. CASE Age(lastPacket) <= heard[c]
      <3>1. Age(lastPacket)' = Age(lastPacket) \/ Age(lastPacket)' = 0
        BY <1>1, <1>5, AgeValue DEF Age, TypeOK
      <3> QED
        BY <2>1, <2>2, <2>3, <3>1
    <2>4. ASSUME \A i \in Slots : /\ fresh[i].active
                                   /\ Age(fresh[i].lastMillis) <= heard[c]
          PROVE  Crowded(c)'
      <3> SUFFICES ASSUME NEW i \in Slots
                   PROVE  sources'[i].active /\ Age(sources[i].lastMillis)' <= heard[c]
        BY <2>1 DEF Crowded
      <3>1. CASE i = slot
        BY <1>2, <2>2, <3>1
      <3>2. CASE i # slot
        BY <1>1, <1>3, <2>4, <3>2 DEF Age
      <3> QED
        BY <3>1, <3>2
    <2>5. CASE Crowded(c)
      <3>1. ASSUME NEW i \in Slots
            PROVE  fresh[i].active /\ Age(fresh[i].lastMillis) <= heard[c]
        <4>1. i \in ActiveSlots(sources) /\ Age(sources[i].lastMillis) <= heard[c]
          BY <2>5 DEF Crowded, ActiveSlots
        <4> QED
          BY <2>2, <4>1, CoverOutlivesExpiry DEF ActiveSlots
      <3> QED
        BY <2>1, <2>2, <2>4, <3>1
    <2>6. CASE Tracked(c)
      <3>1. PICK i \in ActiveSlots(sources) :
               sources[i].cid = c /\ Age(sources[i].lastMillis) <= heard[c]
        BY <2>6 DEF Tracked
      <3>2. /\ i \in Slots /\ fresh[i].active /\ fresh[i].cid = c
            /\ Age(fresh[i].lastMillis) <= heard[c]
            /\ Age(fresh[i].lastMillis) \in Nat
        <4>1. i \in Slots /\ fresh[i] = sources[i] /\ i \in ActiveSlots(fresh)
          BY <2>2, <3>1, CoverOutlivesExpiry
        <4> QED
          BY <1>1, <3>1, <4>1, SlotFields, AgeValue DEF ActiveSlots
      <3>3. CASE i # slot
        <4>1. sources'[i] = fresh[i] /\ i \in ActiveSlots(sources)'
          BY <1>3, <3>2, <3>3 DEF ActiveSlots
        <4> QED
          BY <1>1, <2>1, <2>2, <3>2, <4>1 DEF Tracked, Age
      <3>4. CASE i = slot
        <4>1. \A j \in Slots : /\ fresh[j].active
                                /\ Age(fresh[j].lastMillis) <= Age(fresh[i].lastMillis)
          BY <1>0, <1>1, <1>7, <3>2, <3>4, SlotForChoice
        <4>2. \A j \in Slots : Age(fresh[j].lastMillis) \in Nat
          BY <1>1, SlotFields, AgeValue
        <4>3. \A j \in Slots : Age(fresh[j].lastMillis) <= heard[c]
          BY <2>2, <3>2, <4>1, <4>2
        <4> QED
          BY <2>1, <2>2, <2>4, <4>1, <4>3
      <3> QED
        BY <3>3, <3>4
    <2> QED
      BY <2>1, <2>2, <2>3, <2>5, <2>6 DEF Covered
  <1> QED
    BY <1>6, <1>7
LEMMA TerminationCovered ==
    ASSUME TypeOK, HistoryTypes, Covered,
           NEW p \in Packets, TerminationPacket(p), UNCHANGED heard,
           ranked' = [ranked EXCEPT ![p.cid] = NotRanked]
    PROVE  Covered'
  <1> DEFINE fresh == ExpireSources(sources)
  <1>1. /\ p.cid \in Cids /\ fresh \in Tables /\ now' = now
        /\ sources' = StorePacket(p) /\ StorePacket(p) \in Tables
    BY ExpireSourcesType, StorePacketType DEF TerminationPacket, Packets, TypeOK, clock
  <1>2. PICK slot \in Slots : slot = SlotFor(fresh, p.cid)
    BY <1>1, SlotForType DEF TypeOK
  <1>3. \A i \in Slots : i # slot => sources'[i] = fresh[i]
    BY <1>1, <1>2, StoredTable
  <1>4. CASE ActiveSlots(StorePacket(p)) # {}
    <2>1. lastPacket' = now /\ ~failsafe'
      BY <1>1, <1>4, ApplyShows DEF TerminationPacket
    <2>2. Age(lastPacket)' = 0
      BY <1>1, <2>1, AgeValue DEF Age, TypeOK
    <2>3. \A c \in Cids : Live(c)' => Live(c) /\ heard[c] \in Nat
      BY <1>1 DEF Live, HistoryTypes
    <2> QED
      BY <2>1, <2>2, <2>3 DEF Covered
  <1>5. CASE ActiveSlots(StorePacket(p)) = {}
    <2>1. UNCHANGED outputState
      BY <1>5 DEF TerminationPacket, ApplyHighestActiveSource
    <2>2. \A i \in Slots : i # slot => ~fresh[i].active
      BY <1>1, <1>3, <1>5 DEF ActiveSlots
    <2> SUFFICES ASSUME NEW c \in Cids, Live(c)'
                 PROVE  heard[c] < Timeout /\ ~failsafe /\ Age(lastPacket) <= heard[c]
      BY <1>1, <2>1 DEF Covered, outputState, Age
    <2>3. Live(c) /\ c # p.cid
      BY <1>1 DEF Live, HistoryTypes
    <2>4. heard[c] < Timeout /\ ~failsafe
      BY <2>3 DEF Covered
    \* another source would have stayed, and have been applied
    <2>5. ~Crowded(c)
      <3>1. PICK j \in Slots : j # slot
        BY DEF Slots
      <3>2. ~(j \in ActiveSlots(fresh))
        BY <2>2, <3>1 DEF ActiveSlots
      <3>3. Crowded(c) => j \in ActiveSlots(sources) /\ Age(sources[j].lastMillis) <= heard[c]
        BY DEF Crowded, ActiveSlots
      <3> QED
        BY <2>4, <3>2, <3>3, CoverOutlivesExpiry
    <2>6. ~Tracked(c)
      <3> SUFFICES ASSUME NEW i \in ActiveSlots(sources), sources[i].cid = c,
                          Age(sources[i].lastMillis) <= heard[c]
                   PROVE  FALSE
        BY DEF Tracked
      <3>1. i \in Slots /\ fresh[i] = sources[i] /\ fresh[i].active
        BY <2>4, CoverOutlivesExpiry DEF ActiveSlots
      <3>2. i = slot
        BY <2>2, <3>1
      <3>3. \A j \in Slots : fresh[j].active
        BY <1>1, <1>2, <2>3, <3>1, <3>2, SlotForChoice
      <3> QED
        BY <2>2, <3>3 DEF Slots
    <2> QED
      BY <2>3, <2>4, <2>5, <2>6 DEF Covered
  <1> QED
    BY <1>4, <1>5

LEMMA TickCovered ==
    ASSUME TypeOK, HistoryTypes, Covered, Tick,
           heard' = [c \in Cids |-> Later(heard[c])],
           ranked' = [c \in Cids |-> IF heard'[c] >= Timeout THEN NotRanked
                                                             ELSE ranked[c]]
    PROVE  Covered'
  <1> SUFFICES ASSUME NEW c \in Cids, Live(c)'
               PROVE  /\ heard'[c] < Timeout /\ ~failsafe'
                      /\ \/ Tracked(c)' \/ Crowded(c)'
                         \/ Age(lastPacket)' <= heard'[c]
    BY DEF Covered
  <1>1. sources' = sources /\ lastPacket' = lastPacket /\ failsafe' = failsafe
    BY DEF Tick, outputState
  <1>2. /\ ~(heard'[c] >= Timeout) /\ Live(c)
        /\ heard'[c] = Later(heard[c]) /\ heard[c] \in 0 .. LossBound
    BY DEF Live, HistoryTypes
  <1>3. heard[c] \in Nat /\ heard'[c] = heard[c] + 1 /\ heard'[c] < Timeout
    <2>1. heard'[c] \in Nat
      BY <1>2, LossBoundIsNat DEF Later
    <2>2. heard'[c] < Timeout
      BY <1>2, <2>1, ClockAssumption
    <2> QED
      BY <1>2, <2>2, LossBoundIsNat, ClockAssumption DEF Later
  <1>4. \A t \in Millis : /\ Age(t) \in Nat /\ (now' - t) % ClockMod \in Nat
                           /\ (now' - t) % ClockMod <= Age(t) + 1
    <2> SUFFICES ASSUME NEW t \in Millis
                 PROVE  /\ Age(t) \in Nat /\ Age(t)' \in Nat
                        /\ Age(t)' <= Age(t) + 1
      BY DEF Age
    <2> QED
      BY AgeTick, AgeValue
  <1>5. CASE Tracked(c)
    <2>1. PICK i \in ActiveSlots(sources) :
             sources[i].cid = c /\ Age(sources[i].lastMillis) <= heard[c]
      BY <1>5 DEF Tracked
    <2>2. sources[i].lastMillis \in Millis
      BY SlotFields DEF TypeOK, ActiveSlots
    <2>3. (now' - sources[i].lastMillis) % ClockMod <= heard'[c]
      BY <1>3, <1>4, <2>1, <2>2
    <2>4. Tracked(c)'
      BY <1>1, <2>1, <2>3 DEF Tracked, ActiveSlots, Age
    <2> QED
      BY <1>1, <1>2, <1>3, <2>4 DEF Covered
  <1>6. CASE Crowded(c)
    <2>1. ASSUME NEW i \in Slots
          PROVE  sources[i].active /\ (now' - sources[i].lastMillis) % ClockMod <= heard'[c]
      <3>1. sources[i].lastMillis \in Millis
        BY SlotFields DEF TypeOK
      <3>2. sources[i].active /\ Age(sources[i].lastMillis) <= heard[c]
        BY <1>6 DEF Crowded
      <3> QED
        BY <1>3, <1>4, <3>1, <3>2
    <2>2. Crowded(c)'
      BY <1>1, <2>1 DEF Crowded, Age
    <2> QED
      BY <1>1, <1>2, <1>3, <2>2 DEF Covered
  <1>7. CASE Age(lastPacket) <= heard[c]
    <2>1. (now' - lastPacket) % ClockMod <= heard'[c]
      BY <1>3, <1>4, <1>7 DEF TypeOK
    <2> QED
      BY <1>1, <1>2, <1>3, <2>1 DEF Covered, Age
  <1> QED
    BY <1>2, <1>5, <1>6, <1>7 DEF Covered

\* The failsafe is entered only when no live sender is left to cover.
LEMMA FailsafeCovered ==
    ASSUME TypeOK, HistoryTypes, Covered, LoopFailsafe, UNCHANGED <<heard, ranked>>
    PROVE  Covered'
  <1>1. /\ ActiveSlots(ExpireSources(sources)) = {}
        /\ Age(lastPacket) > Timeout
    BY DEF LoopFailsafe, CanFailOver, FailoverDue, OutputTimedOut
  <1>2. ASSUME NEW c \in Cids, Live(c) PROVE FALSE
    <2>1. heard[c] < Timeout /\ heard[c] \in Nat
      BY <1>2 DEF Covered, HistoryTypes
    <2>2. ~(Age(lastPacket) <= heard[c])
      BY <1>1, <2>1, AgeValue, ClockAssumption DEF TypeOK
    <2>3. PICK i \in ActiveSlots(sources) : Age(sources[i].lastMillis) <= heard[c]
      BY <1>2, <2>2 DEF Covered, Tracked, Crowded, ActiveSlots, Slots
    <2> QED
      BY <1>1, <2>1, <2>3, CoverOutlivesExpiry
  <1> QED
    BY <1>2 DEF Covered, Live

LEMMA CoveredStep ==
    ASSUME TypeOK, SourceInv', HistoryTypes, Covered, [Observe]_hvars
    PROVE  Covered'
  <1>1. ASSUME NEW p \in Packets, DataPacket(p),
               heard' = [heard EXCEPT ![p.cid] = 0],
               ranked' = [ranked EXCEPT ![p.cid] = p.priority]
        PROVE  Covered'
    BY <1>1, DataCovered
  <1>2. ASSUME NEW p \in Packets, TerminationPacket(p), UNCHANGED heard,
               ranked' = [ranked EXCEPT ![p.cid] = NotRanked]
        PROVE  Covered'
    BY <1>2, TerminationCovered
  <1>3. CASE ranked' = [c \in Cids |-> NotRanked]
    BY <1>3 DEF Covered, Live
  <1>4. ASSUME UNCHANGED <<sources, lastPacket, failsafe, now, heard, ranked>>
        PROVE  Covered'
    BY <1>4 DEF Covered, Live, Tracked, Crowded, ActiveSlots, Age
  <1>5. CASE /\ Tick /\ heard' = [c \in Cids |-> Later(heard[c])]
             /\ ranked' = [c \in Cids |-> IF heard'[c] >= Timeout THEN NotRanked
                                                                 ELSE ranked[c]]
    BY <1>5, TickCovered
  <1>6. ASSUME UNCHANGED <<heard, silence, ranked, watching>>
        PROVE  /\ IgnorePacket => Covered'
               /\ ForeignFrame => Covered'
               /\ WebStatusPoll => Covered'
               /\ BindRetry => Covered'
               /\ LoopFailover => Covered'
               /\ LoopFailsafe => Covered'
               /\ LoopIdle => Covered'
               /\ \A p \in Packets : ReplayedPacket(p) => Covered'
    <2>1. ASSUME IgnorePacket PROVE Covered'
      BY <1>4, <1>6, <2>1 DEF IgnorePacket, outputState, clock
    <2>2. ASSUME ForeignFrame PROVE Covered'
      BY <1>4, <1>6, <2>2 DEF ForeignFrame, clock
    <2>3. ASSUME WebStatusPoll PROVE Covered'
      BY <1>6, <2>3, ExpiredCovered DEF WebStatusPoll, clock, outputState
    <2>4. ASSUME BindRetry PROVE Covered'
      BY <1>4, <1>6, <2>4 DEF BindRetry, outputState
    <2>5. ASSUME LoopFailover PROVE Covered'
      BY <1>6, <2>5, ExpiredCovered DEF LoopFailover, EndLoop, CanFailOver, ApplyHighestActiveSource
    <2>6. ASSUME LoopFailsafe PROVE Covered'
      BY <1>6, <2>6, FailsafeCovered
    <2>7. ASSUME LoopIdle PROVE Covered'
      BY <1>6, <2>7, ExpiredCovered DEF LoopIdle, EndLoop, outputState
    <2>8. ASSUME NEW p \in Packets, ReplayedPacket(p) PROVE Covered'
      BY <1>6, <2>8, ExpiredCovered DEF ReplayedPacket, clock, outputState
    <2> QED
      BY <2>1, <2>2, <2>3, <2>4, <2>5, <2>6, <2>7, <2>8
  <1>7. CASE /\ ArtAddressDirection \/ StoreWithoutRestart
             /\ UNCHANGED <<heard, silence, ranked>>
    BY <1>4, <1>7 DEF ArtAddressDirection, StoreWithoutRestart, outputState, clock
  <1>8. CASE UNCHANGED hvars
    BY <1>4, <1>8 DEF hvars, vars
  <1> QED
    BY <1>1, <1>2, <1>3, <1>5, <1>6, <1>7, <1>8, Zenon DEF Observe

\* The failsafe is never shown while a sender is live: not when its packets
\* lose to another priority, not when it was evicted from the two slots, not
\* when a timeout fires on a frame that was applied long ago.
THEOREM FailsafeWaitsForSilence == HistorySpec => []FailsafeNeverCoversLive
  <1>1. HistoryInit => Covered
    BY DEF HistoryInit, Covered, Live
  <1>2. (TypeOK /\ SourceInv /\ HistoryTypes) /\ (TypeOK /\ SourceInv /\ HistoryTypes)'
          /\ Covered /\ [Observe]_hvars => Covered'
    BY CoveredStep
  <1>3. Covered => FailsafeNeverCoversLive
    BY DEF Covered, FailsafeNeverCoversLive
  <1> QED
    BY <1>1, <1>2, <1>3, ObservedReceiver, PTL DEF HistorySpec
-----------------------------------------------------------------------------
(* Priorities: as many senders as slots *)

AtMostTwoSenders == \A a, b, c \in Cids : a = b \/ a = c \/ b = c

\* A live sender's last packet is in slot i, the first of its slots and,
\* when it has both, not the older one: eviction takes the other.
Seat(i, d) ==
    /\ sources[i].active /\ sources[i].cid = d /\ sources[i].priority = ranked[d]
    /\ Age(sources[i].lastMillis) <= heard[d]
    /\ \A j \in ActiveSlots(sources) : sources[j].cid = d =>
          i <= j /\ Age(sources[i].lastMillis) <= Age(sources[j].lastMillis)

Seated == \A d \in Cids : Live(d) => \E i \in Slots : Seat(i, d)

\* Expiry keeps the seat of a live sender.
LEMMA SeatOutlivesExpiry ==
    ASSUME TypeOK, HistoryTypes, NEW d \in Cids, heard[d] < Timeout,
           NEW i \in Slots, Seat(i, d)
    PROVE  /\ i \in ActiveSlots(ExpireSources(sources))
           /\ ExpireSources(sources)[i] = sources[i]
           /\ \A j \in ActiveSlots(ExpireSources(sources)) :
                 /\ j \in ActiveSlots(sources)
                 /\ ExpireSources(sources)[j] = sources[j]
  <1>1. i \in ActiveSlots(sources) /\ Age(sources[i].lastMillis) <= heard[d]
    BY DEF Seat, ActiveSlots
  <1>2. /\ i \in ActiveSlots(ExpireSources(sources))
        /\ ExpireSources(sources)[i] = sources[i]
    BY <1>1, CoverOutlivesExpiry
  <1>3. \A j \in ActiveSlots(ExpireSources(sources)) : j \in Slots
    BY DEF ActiveSlots
  <1> QED
    BY <1>2, <1>3, ExpireKeeps DEF TypeOK

LEMMA ExpiredSeated ==
    ASSUME TypeOK, HistoryTypes, Covered, Seated,
           sources' = ExpireSources(sources), UNCHANGED <<now, heard, ranked>>
    PROVE  Seated'
  <1> SUFFICES ASSUME NEW d \in Cids, Live(d)
               PROVE  \E i \in Slots : Seat(i, d)'
    BY DEF Seated, Live
  <1>1. PICK i \in Slots : Seat(i, d)
    BY DEF Seated
  <1>2. heard[d] < Timeout
    BY DEF Covered
  <1>3. /\ i \in ActiveSlots(sources)' /\ sources'[i] = sources[i]
        /\ \A j \in ActiveSlots(sources)' :
              j \in ActiveSlots(sources) /\ sources'[j] = sources[j]
    BY <1>1, <1>2, SeatOutlivesExpiry DEF ActiveSlots
  <1>4. Seat(i, d)'
    BY <1>1, <1>3 DEF Seat, ActiveSlots, Age
  <1> QED
    BY <1>4

\* No packet of another sender takes a live sender's seat.
LEMMA SeatIsNotChosen ==
    ASSUME AtMostTwoSenders, TypeOK, HistoryTypes, NEW d \in Cids, heard[d] < Timeout,
           NEW i \in Slots, Seat(i, d), NEW cid \in Cids, cid # d
    PROVE  SlotFor(ExpireSources(sources), cid) # i
  <1> DEFINE fresh == ExpireSources(sources)
  <1> SUFFICES ASSUME SlotFor(fresh, cid) = i
               PROVE  FALSE
    OBVIOUS
  <1>1. fresh \in Tables
    BY ExpireSourcesType DEF TypeOK
  <1>2. /\ i \in ActiveSlots(fresh) /\ fresh[i] = sources[i]
        /\ \A j \in ActiveSlots(fresh) :
              j \in ActiveSlots(sources) /\ fresh[j] = sources[j]
    BY SeatOutlivesExpiry
  <1>3. fresh[i].active /\ fresh[i].cid = d
    BY <1>2 DEF Seat
  <1>4. \A j \in Slots :
           /\ fresh[j].active /\ fresh[j].cid # cid
           /\ Age(fresh[j].lastMillis) <= Age(fresh[i].lastMillis)
           /\ Age(fresh[j].lastMillis) = Age(fresh[i].lastMillis) => i >= j
    BY <1>1, <1>3, SlotForChoice
  <1>5. \A j \in Slots : fresh[j].cid = d
    <2>1. \A j \in Slots : fresh[j].cid \in Cids
      BY <1>1, <1>4, SlotFields DEF ActiveSlots
    <2> QED
      BY <1>4, <2>1 DEF AtMostTwoSenders
  <1>6. \A j \in Slots : /\ i <= j
                          /\ Age(fresh[i].lastMillis) <= Age(fresh[j].lastMillis)
    BY <1>2, <1>4, <1>5 DEF Seat, ActiveSlots
  <1>7. \A j \in Slots : Age(fresh[j].lastMillis) \in Nat
    BY <1>1, SlotFields, AgeValue
  <1> QED
    BY <1>4, <1>6, <1>7 DEF Slots

\* The packet of one sender leaves the seat of another in place.
LEMMA OthersStaySeated ==
    ASSUME AtMostTwoSenders, TypeOK, HistoryTypes, Covered, Seated,
           NEW p \in Packets, sources' = StorePacket(p), now' = now,
           NEW d \in Cids, d # p.cid, Live(d), heard'[d] = heard[d],
           ranked'[d] = ranked[d]
    PROVE  \E i \in Slots : Seat(i, d)'
  <1> DEFINE fresh == ExpireSources(sources)
  <1>1. PICK i \in Slots : Seat(i, d)
    BY DEF Seated
  <1>2. heard[d] < Timeout /\ p.cid \in Cids /\ fresh \in Tables
    BY ExpireSourcesType DEF Covered, Packets, TypeOK
  <1>3. PICK slot \in Slots : slot = SlotFor(fresh, p.cid) /\ slot # i
    BY <1>1, <1>2, SlotForType, SeatIsNotChosen DEF TypeOK
  <1>4. /\ \A j \in Slots : j # slot => sources'[j] = fresh[j]
        /\ sources'[slot] = Stored(p)
    BY <1>3, StoredTable
  <1>5. sources'[slot].active => sources'[slot].cid # d
    BY <1>4 DEF Stored, FreeSlot
  <1>6. /\ i \in ActiveSlots(fresh) /\ fresh[i] = sources[i]
        /\ \A j \in ActiveSlots(fresh) :
              j \in ActiveSlots(sources) /\ fresh[j] = sources[j]
    BY <1>1, <1>2, SeatOutlivesExpiry
  <1>7. \A j \in ActiveSlots(sources)' : sources'[j].cid = d =>
           j \in ActiveSlots(sources) /\ sources'[j] = sources[j]
    BY <1>4, <1>5, <1>6 DEF ActiveSlots
  <1>8. i \in ActiveSlots(sources)' /\ sources'[i] = sources[i]
    BY <1>3, <1>4, <1>6 DEF ActiveSlots
  <1>9. Seat(i, d)'
    BY <1>1, <1>7, <1>8 DEF Seat, ActiveSlots, Age
  <1> QED
    BY <1>9

LEMMA DataSeated ==
    ASSUME AtMostTwoSenders, TypeOK, TypeOK', HistoryTypes, Covered, Seated,
           NEW p \in Packets, DataPacket(p),
           heard' = [heard EXCEPT ![p.cid] = 0],
           ranked' = [ranked EXCEPT ![p.cid] = p.priority]
    PROVE  Seated'
  <1> DEFINE fresh == ExpireSources(sources)
  <1>1. /\ p.cid \in Cids /\ fresh \in Tables /\ ~p.terminated
        /\ sources' = StorePacket(p) /\ now' = now
    BY ExpireSourcesType DEF DataPacket, Packets, TypeOK, clock
  <1> SUFFICES ASSUME NEW d \in Cids, Live(d)'
               PROVE  \E i \in Slots : Seat(i, d)'
    BY DEF Seated
  <1>2. CASE d # p.cid
    <2>1. heard'[d] = heard[d] /\ ranked'[d] = ranked[d] /\ Live(d)
      BY <1>1, <1>2 DEF HistoryTypes, Live
    <2> QED
      BY <1>1, <1>2, <2>1, OthersStaySeated
  <1>3. CASE d = p.cid
    <2>1. PICK slot \in Slots : slot = SlotFor(fresh, d)
      BY <1>1, <1>3, SlotForType DEF TypeOK
    <2>2. /\ sources'[slot] = Stored(p)
          /\ \A j \in Slots : j # slot => sources'[j] = fresh[j]
      BY <1>1, <1>3, <2>1, StoredTable
    <2>3. /\ sources'[slot].active /\ sources'[slot].cid = d
          /\ sources'[slot].priority = p.priority /\ sources'[slot].lastMillis = now
      BY <1>1, <1>3, <2>2 DEF Stored
    <2>4. heard'[d] = 0 /\ ranked'[d] = p.priority
      BY <1>1, <1>3 DEF HistoryTypes
    <2>5. Age(sources[slot].lastMillis)' = 0
      <3>1. Age(sources[slot].lastMillis)' = Age(now)
        BY <1>1, <2>3 DEF Age
      <3> QED
        BY <3>1, AgeValue DEF TypeOK
    <2>6. \A j \in Slots : Age(sources[j].lastMillis)' >= 0
      <3> SUFFICES ASSUME NEW j \in Slots
                   PROVE  Age(sources[j].lastMillis)' >= 0
        OBVIOUS
      <3>1. sources'[j].lastMillis \in Millis /\ now' \in Millis
        BY SlotFields DEF TypeOK, Tables, SourceSlots, FreeSlot
      <3>2. (now' - sources'[j].lastMillis) % ClockMod \in Nat
        BY <3>1, MillisDistance
      <3> QED
        BY <3>2 DEF Age
    <2>7. \A j \in Slots : fresh[j].active /\ fresh[j].cid = d => slot <= j
      BY <1>1, <2>1, SlotForChoice DEF Slots
    <2>8. Seat(slot, d)'
      BY <2>2, <2>3, <2>4, <2>5, <2>6, <2>7 DEF Seat, ActiveSlots, Slots
    <2> QED
      BY <2>8
  <1> QED
    BY <1>2, <1>3

LEMMA TerminationSeated ==
    ASSUME AtMostTwoSenders, TypeOK, HistoryTypes, Covered, Seated,
           NEW p \in Packets, TerminationPacket(p), UNCHANGED heard,
           ranked' = [ranked EXCEPT ![p.cid] = NotRanked]
    PROVE  Seated'
  <1> SUFFICES ASSUME NEW d \in Cids, Live(d)'
               PROVE  \E i \in Slots : Seat(i, d)'
    BY DEF Seated
  <1>1. p.cid \in Cids /\ sources' = StorePacket(p) /\ now' = now
    BY DEF TerminationPacket, Packets, clock
  <1>2. d # p.cid /\ Live(d) /\ ranked'[d] = ranked[d]
    BY <1>1 DEF HistoryTypes, Live
  <1> QED
    BY <1>1, <1>2, OthersStaySeated
LEMMA TickSeated ==
    ASSUME TypeOK, HistoryTypes, InTime, Seated, Tick,
           heard' = [c \in Cids |-> Later(heard[c])],
           ranked' = [c \in Cids |-> IF heard'[c] >= Timeout THEN NotRanked
                                                             ELSE ranked[c]]
    PROVE  Seated'
  <1> SUFFICES ASSUME NEW d \in Cids, Live(d)'
               PROVE  \E i \in Slots : Seat(i, d)'
    BY DEF Seated
  <1>1. /\ ~(heard'[d] >= Timeout) /\ Live(d) /\ ranked'[d] = ranked[d]
        /\ heard'[d] = Later(heard[d]) /\ heard[d] \in 0 .. LossBound
    BY DEF Live, HistoryTypes
  <1>2. heard[d] \in Nat /\ heard'[d] = heard[d] + 1
    <2>1. heard'[d] \in Nat
      BY <1>1, LossBoundIsNat DEF Later
    <2> QED
      BY <1>1, <2>1, LossBoundIsNat, ClockAssumption DEF Later
  <1>3. PICK i \in Slots : Seat(i, d)
    BY <1>1 DEF Seated
  <1>4. sources' = sources
    BY DEF Tick
  \* no tracked packet is old enough for its age to wrap
  <1>5. \A j \in ActiveSlots(sources) :
           /\ Age(sources[j].lastMillis) \in Nat
           /\ (now' - sources[j].lastMillis) % ClockMod = Age(sources[j].lastMillis) + 1
    <2> SUFFICES ASSUME NEW j \in ActiveSlots(sources)
                 PROVE  /\ Age(sources[j].lastMillis) \in Nat
                        /\ (now' - sources[j].lastMillis) % ClockMod
                              = Age(sources[j].lastMillis) + 1
      OBVIOUS
    <2>1. sources[j].lastMillis \in Millis
      BY SlotFields DEF TypeOK, ActiveSlots
    <2>2. Age(sources[j].lastMillis) \in Nat
      BY <2>1, AgeValue
    <2>3. Age(sources[j].lastMillis) < Timeout + lag /\ lag < MaxGap /\ lag \in Nat
      BY GapAssumption DEF InTime, SlotsInTime, Tick, TypeOK
    <2>4. Age(sources[j].lastMillis) + 1 < ClockMod
      BY <2>2, <2>3, ClockAssumption, GapAssumption, WrapAssumption
    <2>5. \A t \in Millis : Age(t) + 1 < ClockMod => (now' - t) % ClockMod = Age(t) + 1
      <3> SUFFICES ASSUME NEW t \in Millis, Age(t) + 1 < ClockMod
                   PROVE  Age(t)' = Age(t) + 1
        BY DEF Age
      <3> QED
        BY AgeTick
    <2> QED
      BY <2>1, <2>2, <2>4, <2>5
  <1>6. i \in ActiveSlots(sources)
    BY <1>3 DEF Seat, ActiveSlots
  <1>7. (now' - sources[i].lastMillis) % ClockMod <= heard'[d]
    BY <1>2, <1>3, <1>5, <1>6 DEF Seat
  <1>8. \A j \in ActiveSlots(sources) : sources[j].cid = d =>
           /\ i <= j
           /\ (now' - sources[i].lastMillis) % ClockMod
                 <= (now' - sources[j].lastMillis) % ClockMod
    BY <1>3, <1>5, <1>6 DEF Seat
  <1>9. Seat(i, d)'
    BY <1>1, <1>3, <1>4, <1>7, <1>8 DEF Seat, ActiveSlots, Age
  <1> QED
    BY <1>9

LEMMA SeatedStep ==
    ASSUME AtMostTwoSenders, TypeOK, TypeOK', HistoryTypes, InTime, Covered, Seated,
           [Observe]_hvars
    PROVE  Seated'
  <1>1. ASSUME NEW p \in Packets, DataPacket(p),
               heard' = [heard EXCEPT ![p.cid] = 0],
               ranked' = [ranked EXCEPT ![p.cid] = p.priority]
        PROVE  Seated'
    BY <1>1, DataSeated
  <1>2. ASSUME NEW p \in Packets, TerminationPacket(p), UNCHANGED heard,
               ranked' = [ranked EXCEPT ![p.cid] = NotRanked]
        PROVE  Seated'
    BY <1>2, TerminationSeated
  <1>3. CASE ranked' = [c \in Cids |-> NotRanked]
    BY <1>3 DEF Seated, Live
  <1>4. ASSUME UNCHANGED <<sources, now, heard, ranked>>
        PROVE  Seated'
    BY <1>4 DEF Seated, Live, Seat, ActiveSlots, Age
  <1>5. CASE /\ Tick /\ heard' = [c \in Cids |-> Later(heard[c])]
             /\ ranked' = [c \in Cids |-> IF heard'[c] >= Timeout THEN NotRanked
                                                                 ELSE ranked[c]]
    BY <1>5, TickSeated
  <1>6. ASSUME UNCHANGED <<heard, silence, ranked, watching>>
        PROVE  /\ IgnorePacket => Seated'
               /\ ForeignFrame => Seated'
               /\ WebStatusPoll => Seated'
               /\ BindRetry => Seated'
               /\ LoopFailover \/ LoopFailsafe \/ LoopIdle => Seated'
               /\ \A p \in Packets : ReplayedPacket(p) => Seated'
    <2>1. ASSUME IgnorePacket \/ ForeignFrame \/ BindRetry PROVE Seated'
      BY <1>4, <1>6, <2>1 DEF IgnorePacket, ForeignFrame, BindRetry, clock
    <2>2. ASSUME WebStatusPoll PROVE Seated'
      BY <1>6, <2>2, ExpiredSeated DEF WebStatusPoll, clock
    <2>3. ASSUME LoopFailover \/ LoopFailsafe \/ LoopIdle PROVE Seated'
      BY <1>6, <2>3, ExpiredSeated DEF LoopFailover, LoopFailsafe, LoopIdle, EndLoop
    <2>4. ASSUME NEW p \in Packets, ReplayedPacket(p) PROVE Seated'
      BY <1>6, <2>4, ExpiredSeated DEF ReplayedPacket, clock
    <2> QED
      BY <2>1, <2>2, <2>3, <2>4
  <1>7. CASE /\ ArtAddressDirection \/ StoreWithoutRestart
             /\ UNCHANGED <<heard, silence, ranked>>
    BY <1>4, <1>7 DEF ArtAddressDirection, StoreWithoutRestart, clock
  <1>8. CASE UNCHANGED hvars
    BY <1>4, <1>8 DEF hvars, vars
  <1> QED
    BY <1>1, <1>2, <1>3, <1>5, <1>6, <1>7, <1>8, Zenon DEF Observe

\* A live frame gets onto the output only as the best of the table.
LEMMA ShownIsBest ==
    ASSUME TypeOK, [Observe]_hvars, output' # output, output'.kind = "live"
    PROVE  \E i \in ActiveSlots(sources)' :
              /\ output'.cid = sources'[i].cid
              /\ \A j \in ActiveSlots(sources)' :
                    sources'[i].priority >= sources'[j].priority
  <1>1. ASSUME NEW table \in Tables, ApplyHighestActiveSource(table), sources' = table
        PROVE  \E i \in ActiveSlots(sources)' :
                  /\ output'.cid = sources'[i].cid
                  /\ \A j \in ActiveSlots(sources)' :
                        sources'[i].priority >= sources'[j].priority
    <2>1. ActiveSlots(table) # {}
      BY <1>1 DEF ApplyHighestActiveSource, outputState
    <2>2. PICK i \in ActiveSlots(table) :
             /\ output' = LiveFrame(table[i].cid, table[i].sequence)
             /\ \A j \in ActiveSlots(table) : table[i].priority >= table[j].priority
      BY <1>1, <2>1, ApplyShows
    <2>3. output'.cid = table[i].cid
      BY <2>2 DEF LiveFrame
    <2> QED
      BY <1>1, <2>2, <2>3 DEF ActiveSlots
  <1>2. ASSUME NEW p \in Packets, DataPacket(p) \/ TerminationPacket(p)
        PROVE  \E table \in Tables : ApplyHighestActiveSource(table) /\ sources' = table
    BY <1>2, StorePacketType DEF DataPacket, TerminationPacket, outputState
  <1>3. ASSUME LoopFailover
        PROVE  \E table \in Tables : ApplyHighestActiveSource(table) /\ sources' = table
    BY <1>3, ExpireSourcesType DEF LoopFailover, EndLoop, TypeOK
  <1>4. output' = output \/ output'.kind # "live"
        \/ (\E p \in Packets : DataPacket(p) \/ TerminationPacket(p)) \/ LoopFailover
    <2>1. LoopFailsafe => output' = output \/ output'.kind # "live"
      BY DEF LoopFailsafe, ApplySacnFailsafe, FailsafeFrame, OtherFrame
    <2>2. ForeignFrame => output'.kind # "live"
      BY DEF ForeignFrame, OtherFrame
    <2>3. \/ IgnorePacket \/ LoopIdle \/ BindRetry \/ NetworkChange
          \/ ApplyRuntimeConfig \/ StoreWithoutRestart \/ ArtAddressDirection
          \/ WebStatusPoll \/ Tick \/ UNCHANGED vars
          => output' = output
      BY DEF IgnorePacket, LoopIdle, BindRetry, NetworkChange, ApplyRuntimeConfig,
             StoreWithoutRestart, ArtAddressDirection, WebStatusPoll, Tick, vars, outputState
    <2>4. \A p \in Packets : ReplayedPacket(p) => output' = output
      BY DEF ReplayedPacket, outputState
    <2> QED
      BY <2>1, <2>2, <2>3, <2>4, ObserveIsNext DEF Next, Receive
  <1> QED
    BY <1>1, <1>2, <1>3, <1>4

\* With as many senders as slots, a sender that is live at a higher priority
\* is never overruled on the output, for all priorities, expiries, duplicate
\* slots and wraps of the clock.  The hypothesis is needed: a run shows what
\* a third sender does.
THEOREM TwoSendersAreRanked ==
    AtMostTwoSenders => (HistorySpec => HigherPriorityShields)
  <1> SUFFICES ASSUME AtMostTwoSenders PROVE HistorySpec => HigherPriorityShields
    OBVIOUS
  <1>1. HistoryInit => Covered /\ Seated
    BY DEF HistoryInit, Covered, Seated, Live
  <1>2. (TypeOK /\ SourceInv /\ HistoryTypes) /\ (TypeOK /\ SourceInv /\ HistoryTypes)'
          /\ InTime /\ Covered /\ Seated /\ [Observe]_hvars => (Covered /\ Seated)'
    BY CoveredStep, SeatedStep
  <1>3. ASSUME TypeOK, TypeOK', HistoryTypes', Seated', [Observe]_hvars,
               NEW d \in Cids, output'.kind = "live", output' # output
        PROVE  ~(Live(d) /\ Outranks(d, output.cid))'
    <2> SUFFICES ASSUME Live(d)', Outranks(d, output.cid)'
                 PROVE  FALSE
      OBVIOUS
    <2>1. PICK i \in ActiveSlots(sources)' :
             /\ output'.cid = sources'[i].cid
             /\ \A j \in ActiveSlots(sources)' :
                   sources'[i].priority >= sources'[j].priority
      BY <1>3, ShownIsBest
    <2>2. PICK k \in Slots : Seat(k, d)'
      BY <1>3 DEF Seated
    <2>3. k \in ActiveSlots(sources)' /\ sources'[k].priority = ranked'[d]
      BY <2>2 DEF Seat, ActiveSlots
    <2>4. ranked'[d] > sources'[i].priority
      BY <2>1 DEF Outranks
    <2>5. sources'[i].priority \in Int /\ sources'[k].priority \in Int
      BY <1>3, <2>1, <2>3, SlotFields DEF TypeOK, Tables, ActiveSlots
    <2> QED
      BY <2>1, <2>3, <2>4, <2>5
  <1>4. TypeOK /\ TypeOK' /\ HistoryTypes' /\ Seated' /\ [Observe]_hvars
          => [output'.kind = "live" /\ output' # output
                => \A d \in Cids : ~(Live(d) /\ Outranks(d, output.cid))']_hvars
    BY <1>3
  <1> QED
    BY <1>1, <1>2, <1>4, ObservedReceiver, ObservedInTime, PTL
       DEF HistorySpec, HigherPriorityShields

=============================================================================
