------------------------- MODULE ArtNetTables_proofs -------------------------
(***************************************************************************)
(* TLAPS proofs about the tables of the Art-Net code, for every number of  *)
(* senders, devices, slots and sequence numbers: the sequence numbers of   *)
(* ArtDmx senders (ArtDmxSequences), the subscribers a poll found and the  *)
(* delayed replies to the polls of others (ArtNetDirectory).               *)
(***************************************************************************)
EXTENDS ArtDmxSequences, ArtNetDirectory, FiniteSetTheorems, WellFoundedInduction, TLAPS

-----------------------------------------------------------------------------
(* Numbers *)

LEMMA LeastNatural ==
    ASSUME NEW S, S \subseteq Nat, S # {}
    PROVE  \E i \in S : \A j \in S : i <= j
  <1> DEFINE R == OpToRel(<, Nat)
  <1>1. IsWellFoundedOn(R, Nat)
    BY NatLessThanWellFounded
  <1>2. \A x, y \in Nat : x < y => <<x, y>> \in R
    BY DEF R, OpToRel
  <1> HIDE DEF R
  <1>3. PICK x \in S : \A y \in S : ~(<<y, x>> \in R)
    BY <1>1, WFMin
  <1>4. ASSUME NEW j \in S
        PROVE  x <= j
    <2>1. ~(j < x)
      BY <1>2, <1>3
    <2> QED
      BY <2>1
  <1> QED
    BY <1>4

LEMMA GreatestNatural ==
    ASSUME NEW S, NEW n \in Nat, S \subseteq 0 .. n, S # {}
    PROVE  \E i \in S : \A j \in S : j <= i
  <1> DEFINE T == {k \in 0 .. n : n - k \in S}
  <1>1. PICK i \in S : TRUE
    OBVIOUS
  <1>2. n - (n - i) = i /\ n - i \in 0 .. n
    BY <1>1
  <1>3. n - i \in T
    BY <1>2
  <1>4. T \subseteq Nat /\ T # {}
    <2>1. T \subseteq Nat
      OBVIOUS
    <2> HIDE DEF T
    <2> QED
      BY <1>3, <2>1
  <1>5. PICK t \in T : \A u \in T : t <= u
    <2> HIDE DEF T
    <2> QED
      BY <1>4, LeastNatural
  <1>6. n - t \in S /\ t \in 0 .. n
    OBVIOUS
  <1>7. ASSUME NEW j \in S
        PROVE  j <= n - t
    <2>1. n - (n - j) = j /\ n - j \in 0 .. n
      OBVIOUS
    <2>2. n - j \in T
      BY <2>1
    <2>3. t <= n - j
      BY <1>5, <2>2
    <2> QED
      BY <1>6, <2>3
  <1> QED
    BY <1>6, <1>7

LEMMA FirstOfIsLeast ==
    ASSUME NEW S, S \subseteq Nat, S # {}
    PROVE  FirstOf(S) \in S /\ \A j \in S : FirstOf(S) <= j
  BY LeastNatural DEF FirstOf

LEMMA LatestOfIsGreatest ==
    ASSUME NEW S, NEW n \in Nat, S \subseteq 0 .. n, S # {}
    PROVE  LatestOf(S) \in S /\ \A j \in S : j <= LatestOf(S)
  <1>1. \E i \in S : \A j \in S : i >= j
    <2>1. PICK i \in S : \A j \in S : j <= i
      BY GreatestNatural
    <2>2. \A j \in S : i >= j
      BY <2>1
    <2> QED
      BY <2>2
  <1>2. LatestOf(S) \in S /\ \A j \in S : LatestOf(S) >= j
    BY <1>1 DEF LatestOf
  <1> QED
    BY <1>2

\* Adding and subtracting modulo a size.
LEMMA Wraps ==
    ASSUME NEW n \in Nat \ {0}, NEW a \in 0 .. 2 * n - 1
    PROVE  a % n = IF a < n THEN a ELSE a - n
  OBVIOUS

\* The numbers that follow the last one are the newer ones.
LEMMA NewerFollows ==
    ASSUME NEW seq \in 0 .. SeqSize - 1, NEW last \in 0 .. SeqSize - 1
    PROVE  Newer(seq, last) <=>
              seq \in {(last + n) % SeqSize : n \in 1 .. SeqSize \div 2 - 1}
  <1> DEFINE half == SeqSize \div 2
  <1>1. SeqSize \in Nat \ {0} /\ half \in Nat /\ half < SeqSize
    BY SequenceSizes
  <1> HIDE DEF half
  <1>2. (seq + SeqSize - last) % SeqSize
           = IF seq < last THEN seq + SeqSize - last ELSE seq - last
    <2>1. seq + SeqSize - last \in 0 .. 2 * SeqSize - 1
      BY <1>1
    <2>2. (seq + SeqSize - last) % SeqSize = IF seq + SeqSize - last < SeqSize
             THEN seq + SeqSize - last ELSE (seq + SeqSize - last) - SeqSize
      BY <1>1, <2>1, Wraps
    <2> QED
      BY <1>1, <2>2
  <1>3. ASSUME NEW n \in 1 .. half - 1
        PROVE  (last + n) % SeqSize = IF last + n < SeqSize THEN last + n
                                      ELSE (last + n) - SeqSize
    <2>1. last + n \in 0 .. 2 * SeqSize - 1
      BY <1>1
    <2>2. (last + n) % SeqSize = IF last + n < SeqSize THEN last + n
                                 ELSE (last + n) - SeqSize
      BY <1>1, <2>1, Wraps
    <2> QED
      BY <2>2
  <1>4. ASSUME Newer(seq, last)
        PROVE  \E n \in 1 .. half - 1 : seq = (last + n) % SeqSize
    <2> DEFINE d == IF seq < last THEN seq + SeqSize - last ELSE seq - last
    <2>1. d \in 1 .. half - 1
      BY <1>2, <1>4 DEF Newer, half
    <2>2. (last + d) % SeqSize = seq
      BY <1>1, <1>3, <2>1
    <2> QED
      BY <2>1, <2>2
  <1>5. ASSUME NEW n \in 1 .. half - 1, seq = (last + n) % SeqSize
        PROVE  Newer(seq, last)
    <2>1. (seq + SeqSize - last) % SeqSize = n
      BY <1>1, <1>2, <1>3, <1>5
    <2> QED
      BY <2>1 DEF Newer, half
  <1> QED
    BY <1>4, <1>5 DEF half

-----------------------------------------------------------------------------
(* The sequence table: types *)

Entries == [sender : SeqSenders \cup {NoSender}, seq : 0 .. SeqSize - 1, age : 0 .. SeqTimeout + 1]
Heard == [seq : 0 .. SeqSize - 1, age : 0 .. SeqTimeout + 1]

LEMMA RestingEntries == FreeSlot \in Entries /\ NotHeard \in Heard /\ FreeSlot.sender = NoSender
  BY SequenceSizes DEF FreeSlot, NotHeard, Entries, Heard

\* The slot of a packet: the sender's first or a free one before it, and only
\* when there is neither, the last of the oldest.
LEMMA SlotOfSender ==
    ASSUME SeqTypeOK, NEW s \in SeqSenders
    PROVE  /\ SlotOf(s) \in Slots
           /\ \/ /\ sequences[SlotOf(s)].sender \in {s, NoSender}
                 /\ \A j \in Slots : sequences[j].sender \in {s, NoSender} => SlotOf(s) <= j
              \/ \A j \in Slots : /\ sequences[j].sender \notin {s, NoSender}
                                  /\ sequences[j].age <= sequences[SlotOf(s)].age
                                  /\ sequences[j].age = sequences[SlotOf(s)].age => j <= SlotOf(s)
  <1> DEFINE ends == {i \in Slots : sequences[i].sender \in {s, NoSender}}
             oldest == {i \in Slots : \A j \in Slots : sequences[j].age <= sequences[i].age}
             ages == {sequences[i].age : i \in Slots}
  <1>1. CASE ends # {}
    <2>1. SlotOf(s) = FirstOf(ends)
      BY <1>1 DEF SlotOf
    <2>2. ends \subseteq Nat
      BY SequenceSizes DEF Slots
    <2>3. FirstOf(ends) \in ends /\ \A j \in ends : FirstOf(ends) <= j
      <3> HIDE DEF ends
      <3> QED
        BY <1>1, <2>2, FirstOfIsLeast
    <2> QED
      BY <2>1, <2>3
  <1>2. CASE ends = {}
    <2>1. SlotOf(s) = LatestOf(oldest)
      BY <1>2 DEF SlotOf
    <2>2. ages \subseteq 0 .. SeqTimeout + 1 /\ SeqTimeout + 1 \in Nat
      BY SequenceSizes DEF SeqTypeOK
    <2>3. ages # {}
      <3>1. 1 \in Slots
        BY SequenceSizes DEF Slots
      <3> QED
        BY <3>1
    <2>4. PICK a \in ages : \A b \in ages : b <= a
      <3> HIDE DEF ages
      <3> QED
        BY <2>2, <2>3, GreatestNatural
    <2>5. PICK i \in Slots : a = sequences[i].age
      BY <2>4
    <2>6. i \in oldest
      BY <2>4, <2>5
    <2>7. oldest \subseteq 0 .. SeqSlots
      BY SequenceSizes DEF Slots
    <2>8. LatestOf(oldest) \in oldest /\ \A j \in oldest : j <= LatestOf(oldest)
      <3> HIDE DEF oldest
      <3> QED
        BY <2>6, <2>7, SequenceSizes, LatestOfIsGreatest
    <2>9. ASSUME NEW j \in Slots, sequences[j].age = sequences[LatestOf(oldest)].age
          PROVE  j <= LatestOf(oldest)
      <3>1. j \in oldest
        BY <2>8, <2>9
      <3> QED
        BY <2>8, <3>1
    <2> QED
      BY <1>2, <2>1, <2>8, <2>9
  <1> QED
    BY <1>1, <1>2

\* A number that is taken goes into the slot of its sender.
LEMMA TakenInSlot ==
    ASSUME SeqTypeOK, NEW s \in SeqSenders, NEW q \in 1 .. SeqSize - 1, NEW i \in Slots,
           sequences' = [sequences EXCEPT ![i] = [sender |-> s, seq |-> q, age |-> 0]],
           lastAccepted' = [lastAccepted EXCEPT ![s] = [seq |-> q, age |-> 0]]
    PROVE  /\ SeqTypeOK'
           /\ sequences'[i] = [sender |-> s, seq |-> q, age |-> 0]
           /\ \A j \in Slots \ {i} : sequences'[j] = sequences[j]
           /\ lastAccepted'[s] = [seq |-> q, age |-> 0]
           /\ \A t \in SeqSenders \ {s} : lastAccepted'[t] = lastAccepted[t]
  <1>1. [sender |-> s, seq |-> q, age |-> 0] \in Entries
    BY SequenceSizes DEF Entries
  <1>2. [seq |-> q, age |-> 0] \in Heard
    BY SequenceSizes DEF Heard
  <1>3. SeqTypeOK'
    BY <1>1, <1>2 DEF SeqTypeOK, Entries, Heard
  <1> QED
    BY <1>3 DEF SeqTypeOK

LEMMA SeqTickEntries ==
    ASSUME SeqTypeOK, SeqTick
    PROVE  /\ SeqTypeOK'
           /\ \A i \in Slots :
                 /\ sequences'[i].sender = sequences[i].sender
                 /\ sequences'[i].seq = sequences[i].seq
                 /\ sequences'[i].age = IF sequences[i].sender = NoSender \/ sequences[i].age > SeqTimeout
                                        THEN sequences[i].age ELSE sequences[i].age + 1
           /\ \A s \in SeqSenders :
                 /\ lastAccepted'[s].seq = lastAccepted[s].seq
                 /\ lastAccepted'[s].age = IF lastAccepted[s] = NotHeard \/ lastAccepted[s].age > SeqTimeout
                                           THEN lastAccepted[s].age ELSE lastAccepted[s].age + 1
  <1>1. ASSUME NEW i \in Slots
        PROVE  /\ sequences'[i] \in Entries
               /\ sequences'[i].sender = sequences[i].sender
               /\ sequences'[i].seq = sequences[i].seq
               /\ sequences'[i].age = IF sequences[i].sender = NoSender \/ sequences[i].age > SeqTimeout
                                      THEN sequences[i].age ELSE sequences[i].age + 1
    <2>1. sequences[i] \in Entries
      BY DEF SeqTypeOK, Entries
    <2>2. sequences'[i] = IF sequences[i].sender = NoSender \/ sequences[i].age > SeqTimeout
                          THEN sequences[i]
                          ELSE [sequences[i] EXCEPT !.age = sequences[i].age + 1]
      BY DEF SeqTick
    <2> QED
      BY <2>1, <2>2, SequenceSizes DEF Entries
  <1>2. ASSUME NEW s \in SeqSenders
        PROVE  /\ lastAccepted'[s] \in Heard
               /\ lastAccepted'[s].seq = lastAccepted[s].seq
               /\ lastAccepted'[s].age = IF lastAccepted[s] = NotHeard \/ lastAccepted[s].age > SeqTimeout
                                         THEN lastAccepted[s].age ELSE lastAccepted[s].age + 1
    <2>1. lastAccepted[s] \in Heard
      BY DEF SeqTypeOK, Heard
    <2>2. lastAccepted'[s] = IF lastAccepted[s] = NotHeard \/ lastAccepted[s].age > SeqTimeout
                             THEN lastAccepted[s]
                             ELSE [lastAccepted[s] EXCEPT !.age = lastAccepted[s].age + 1]
      BY DEF SeqTick
    <2> QED
      BY <2>1, <2>2, SequenceSizes DEF Heard
  <1>3. sequences' \in [Slots -> Entries] /\ lastAccepted' \in [SeqSenders -> Heard]
    BY <1>1, <1>2 DEF SeqTick
  <1>4. SeqTypeOK'
    BY <1>3 DEF SeqTypeOK, Entries, Heard
  <1> QED
    BY <1>1, <1>2, <1>4

-----------------------------------------------------------------------------
(* The sequence table: what it remembers *)

IsFirst(i, s) == sequences[i].sender = s /\ \A j \in Slots : sequences[j].sender = s => i <= j

\* A sender may have several slots, the younger ones first, and the first
\* holds the last number accepted.
CurrentInv ==
    /\ \A s \in SeqSenders : lastAccepted[s] = NotHeard \/ lastAccepted[s].seq # 0
    /\ \A s \in SeqSenders, i, j \in Slots :
          i <= j /\ sequences[i].sender = s /\ sequences[j].sender = s
             => sequences[i].age <= sequences[j].age
    /\ \A s \in SeqSenders, i \in Slots :
          IsFirst(i, s) /\ lastAccepted[s] # NotHeard =>
              /\ sequences[i].seq = lastAccepted[s].seq
              /\ sequences[i].age = lastAccepted[s].age

\* Until a slot is given up or taken, the free slots are the last ones and
\* every sender of the last SeqTimeout has one.
RememberedInv ==
    ~forgotten =>
        /\ \A i, j \in Slots : i < j /\ sequences[i].sender = NoSender => sequences[j].sender = NoSender
        /\ \A s \in SeqSenders : lastAccepted[s] # NotHeard /\ lastAccepted[s].age <= SeqTimeout
                                    => \E i \in Slots : sequences[i].sender = s

TableInv == SeqTypeOK /\ CurrentInv /\ RememberedInv

LEMMA FirstExists ==
    ASSUME NEW s, NEW i \in Slots, sequences[i].sender = s
    PROVE  \E f \in Slots : IsFirst(f, s)
  <1> DEFINE own == {j \in Slots : sequences[j].sender = s}
  <1>1. own \subseteq Nat /\ i \in own
    BY DEF Slots
  <1>2. FirstOf(own) \in own /\ \A j \in own : FirstOf(own) <= j
    <2> HIDE DEF own
    <2> QED
      BY <1>1, FirstOfIsLeast
  <1> QED
    BY <1>2 DEF IsFirst

LEMMA SequencesForget ==
    ASSUME sequences' = [i \in Slots |-> FreeSlot],
           lastAccepted' = [s \in SeqSenders |-> NotHeard]
    PROVE  TableInv'
  <1>1. \A i \in Slots : sequences'[i] = FreeSlot /\ sequences'[i].sender = NoSender
    BY RestingEntries
  <1>2. \A s \in SeqSenders : lastAccepted'[s] = NotHeard
    OBVIOUS
  <1>3. SeqTypeOK'
    BY <1>1, <1>2, RestingEntries DEF SeqTypeOK, Entries, Heard
  <1>4. CurrentInv' /\ RememberedInv'
    BY <1>1, <1>2, SequenceSizes DEF CurrentInv, RememberedInv, IsFirst
  <1> QED
    BY <1>3, <1>4 DEF TableInv

LEMMA SeqTickTable ==
    ASSUME TableInv, SeqTick
    PROVE  TableInv'
  <1>1. SeqTypeOK /\ SeqTypeOK'
    BY SeqTickEntries DEF TableInv
  <1>2. /\ \A s \in SeqSenders : lastAccepted'[s] = NotHeard <=> lastAccepted[s] = NotHeard
        /\ \A s \in SeqSenders : lastAccepted'[s] = NotHeard \/ lastAccepted'[s].seq # 0
    <2>1. ASSUME NEW s \in SeqSenders
          PROVE  /\ lastAccepted'[s] = NotHeard <=> lastAccepted[s] = NotHeard
                 /\ lastAccepted'[s] = NotHeard \/ lastAccepted'[s].seq # 0
      <3>1. CASE lastAccepted[s] = NotHeard
        BY <3>1 DEF SeqTick
      <3>2. CASE lastAccepted[s] # NotHeard
        <4>1. lastAccepted'[s].seq # 0
          BY <1>1, <3>2, SeqTickEntries DEF TableInv, CurrentInv
        <4> QED
          BY <3>2, <4>1 DEF NotHeard
      <3> QED
        BY <3>1, <3>2
    <2> QED
      BY <2>1
  <1>3. \A i \in Slots, s \in SeqSenders : IsFirst(i, s)' <=> IsFirst(i, s)
    BY <1>1, SeqTickEntries DEF IsFirst
  <1>4. \A i \in Slots : sequences[i].age \in Nat /\ sequences[i].age <= SeqTimeout + 1
    BY <1>1 DEF SeqTypeOK
  <1>5. ASSUME NEW s \in SeqSenders, NEW i \in Slots, NEW j \in Slots,
               i <= j, sequences[i].sender = s, sequences[j].sender = s
        PROVE  sequences'[i].age <= sequences'[j].age
    <2>1. s # NoSender /\ sequences[i].age <= sequences[j].age
      BY <1>5, SequenceSizes DEF TableInv, CurrentInv
    <2> QED
      BY <1>1, <1>4, <1>5, <2>1, SeqTickEntries, SequenceSizes
  <1>6. ASSUME NEW s \in SeqSenders, NEW i \in Slots, IsFirst(i, s), lastAccepted[s] # NotHeard
        PROVE  sequences'[i].seq = lastAccepted'[s].seq /\ sequences'[i].age = lastAccepted'[s].age
    <2>1. /\ sequences[i].sender = s /\ s # NoSender
          /\ sequences[i].seq = lastAccepted[s].seq /\ sequences[i].age = lastAccepted[s].age
      BY <1>6, SequenceSizes DEF IsFirst, TableInv, CurrentInv
    <2> QED
      BY <1>1, <1>6, <2>1, SeqTickEntries
  <1>7. CurrentInv'
    <2>1. ASSUME NEW s \in SeqSenders, NEW i \in Slots, NEW j \in Slots,
                 i <= j, sequences'[i].sender = s, sequences'[j].sender = s
          PROVE  sequences'[i].age <= sequences'[j].age
      BY <1>1, <1>5, <2>1, SeqTickEntries
    <2> QED
      BY <1>2, <1>3, <1>6, <2>1 DEF CurrentInv
  <1>8. RememberedInv'
    <2>1. forgotten' = forgotten
      BY DEF SeqTick
    <2>2. ASSUME NEW s \in SeqSenders, lastAccepted'[s] # NotHeard, lastAccepted'[s].age <= SeqTimeout
          PROVE  lastAccepted[s] # NotHeard /\ lastAccepted[s].age <= SeqTimeout
      <3>1. lastAccepted[s].age \in Nat
        BY <1>1 DEF SeqTypeOK
      <3> QED
        BY <1>1, <1>2, <2>2, <3>1, SeqTickEntries, SequenceSizes
    <2> QED
      BY <1>1, <2>1, <2>2, SeqTickEntries DEF TableInv, RememberedInv
  <1> QED
    BY <1>1, <1>7, <1>8 DEF TableInv

LEMMA AcceptUncountedTable ==
    ASSUME TableInv, NEW s \in SeqSenders, AcceptUncounted(s)
    PROVE  TableInv'
  <1> DEFINE own == {i \in Slots : sequences[i].sender = s}
  <1>1. /\ \A t \in SeqSenders \ {s} : lastAccepted'[t] = lastAccepted[t]
        /\ lastAccepted'[s] = NotHeard
        /\ lastAccepted' \in [SeqSenders -> Heard]
    BY RestingEntries DEF AcceptUncounted, TableInv, SeqTypeOK, Heard
  <1>2. CASE own = {}
    <2>1. sequences' = sequences /\ (forgotten' <=> forgotten)
      BY <1>2 DEF AcceptUncounted
    <2>2. SeqTypeOK'
      BY <1>1, <2>1 DEF TableInv, SeqTypeOK, Heard
    <2>3. CurrentInv'
      BY <1>1, <2>1 DEF TableInv, CurrentInv, IsFirst
    <2>4. RememberedInv'
      BY <1>1, <2>1 DEF TableInv, RememberedInv
    <2> QED
      BY <2>2, <2>3, <2>4 DEF TableInv
  <1>3. CASE own # {}
    <2> DEFINE f == FirstOf(own)
    <2>1. f \in Slots /\ IsFirst(f, s)
      <3>1. own \subseteq Nat
        BY DEF Slots
      <3>2. f \in own /\ \A j \in own : f <= j
        <4> HIDE DEF own
        <4> QED
          BY <1>3, <3>1, FirstOfIsLeast
      <3> QED
        BY <3>2 DEF IsFirst
    <2>2. sequences' = [sequences EXCEPT ![f] = FreeSlot] /\ forgotten'
      BY <1>3 DEF AcceptUncounted
    <2> HIDE DEF f
    <2>3. /\ sequences'[f] = FreeSlot /\ sequences'[f].sender = NoSender
          /\ \A j \in Slots \ {f} : sequences'[j] = sequences[j]
          /\ sequences' \in [Slots -> Entries]
      BY <2>1, <2>2, RestingEntries DEF TableInv, SeqTypeOK, Entries
    <2>4. SeqTypeOK'
      BY <1>1, <2>3 DEF SeqTypeOK, Entries, Heard
    <2>5. ASSUME NEW t \in SeqSenders \ {s}, NEW i \in Slots
          PROVE  (IsFirst(i, t)' <=> IsFirst(i, t)) /\ (IsFirst(i, t) => i # f)
      BY <2>1, <2>3, SequenceSizes DEF IsFirst
    <2>6. ASSUME NEW t \in SeqSenders, NEW i \in Slots, NEW j \in Slots, i <= j,
                 sequences'[i].sender = t, sequences'[j].sender = t
          PROVE  sequences'[i].age <= sequences'[j].age
      <3>1. i # f /\ j # f /\ sequences[i].sender = t /\ sequences[j].sender = t
        BY <2>3, <2>6, SequenceSizes
      <3> QED
        BY <2>3, <2>6, <3>1 DEF TableInv, CurrentInv
    <2>7. CurrentInv'
      BY <1>1, <2>3, <2>5, <2>6 DEF TableInv, CurrentInv
    <2>8. RememberedInv'
      BY <2>2 DEF RememberedInv
    <2> QED
      BY <2>4, <2>7, <2>8 DEF TableInv
  <1> QED
    BY <1>2, <1>3

\* The verdict on a numbered packet, and what a number that is taken changes.
LEMMA AcceptCountedTable ==
    ASSUME TableInv, NEW s \in SeqSenders, NEW q \in 1 .. SeqSize - 1, AcceptCounted(s, q)
    PROVE  TableInv' /\ FreshIsAccepted' /\ ReplayIsDropped'
  <1> DEFINE i == SlotOf(s)
             last == lastAccepted[s]
             late == /\ sequences[i].sender = s
                     /\ sequences[i].age <= SeqTimeout
                     /\ ~Newer(q, sequences[i].seq)
  <1>1. /\ i \in Slots
        /\ \/ /\ sequences[i].sender \in {s, NoSender}
              /\ \A j \in Slots : sequences[j].sender \in {s, NoSender} => i <= j
           \/ \A j \in Slots : /\ sequences[j].sender \notin {s, NoSender}
                               /\ sequences[j].age <= sequences[i].age
                               /\ sequences[j].age = sequences[i].age => j <= i
    BY SlotOfSender DEF TableInv
  <1>2. /\ incoming'.kind = Kind(s, q) /\ incoming'.accepted = ~late
        /\ late => UNCHANGED <<sequences, lastAccepted, forgotten>>
        /\ ~late => /\ sequences' = [sequences EXCEPT ![i] = [sender |-> s, seq |-> q, age |-> 0]]
                    /\ lastAccepted' = [lastAccepted EXCEPT ![s] = [seq |-> q, age |-> 0]]
                    /\ forgotten' <=> (forgotten \/ (sequences[i].sender \notin {s, NoSender}
                                                     /\ sequences[i].age <= SeqTimeout))
    BY DEF AcceptCounted
  <1> HIDE DEF i
  <1>3. /\ last.seq \in 0 .. SeqSize - 1 /\ q \in 0 .. SeqSize - 1
        /\ sequences[i].seq \in 0 .. SeqSize - 1
    BY <1>1, SequenceSizes DEF TableInv, SeqTypeOK
  <1>4. /\ Kind(s, q) \in {"first", "next", "late"}
        /\ Kind(s, q) = "next" => last # NotHeard /\ Newer(q, last.seq)
        /\ Kind(s, q) = "late" => last # NotHeard /\ ~(last.age > SeqTimeout) /\ ~Newer(q, last.seq)
    BY <1>3, NewerFollows DEF Kind
  <1>5. ASSUME sequences[i].sender = s
        PROVE  IsFirst(i, s)
    BY <1>1, <1>5 DEF IsFirst
  <1>6. FreshIsAccepted'
    <2> SUFFICES ASSUME Kind(s, q) = "next", late
                 PROVE  FALSE
      BY <1>2 DEF FreshIsAccepted
    <2>1. IsFirst(i, s) /\ last # NotHeard /\ Newer(q, last.seq)
      BY <1>4, <1>5
    <2>2. sequences[i].seq = last.seq
      BY <1>1, <2>1 DEF TableInv, CurrentInv
    <2> QED
      BY <2>1, <2>2
  <1>7. ReplayIsDropped'
    <2> SUFFICES ASSUME Kind(s, q) = "late", ~forgotten', ~late
                 PROVE  FALSE
      BY <1>2 DEF ReplayIsDropped
    <2>1. last # NotHeard /\ last.age <= SeqTimeout /\ ~Newer(q, last.seq) /\ ~forgotten
      <3>1. last.age \in Nat
        BY DEF TableInv, SeqTypeOK
      <3> QED
        BY <1>2, <1>4, <3>1, SequenceSizes
    <2>2. PICK o \in Slots : sequences[o].sender = s
      BY <2>1 DEF TableInv, RememberedInv
    <2>3. sequences[i].sender = s
      <3>1. sequences[i].sender \in {s, NoSender} /\ i <= o
        BY <1>1, <2>2
      <3>2. CASE sequences[i].sender = NoSender
        <4>1. i < o
          BY <1>1, <2>2, <3>1, <3>2, SequenceSizes DEF Slots
        <4> QED
          BY <1>1, <2>1, <2>2, <3>2, <4>1, SequenceSizes DEF TableInv, RememberedInv
      <3> QED
        BY <3>1, <3>2
    <2>4. sequences[i].seq = last.seq /\ sequences[i].age = last.age
      BY <1>1, <1>5, <2>1, <2>3 DEF TableInv, CurrentInv
    <2> QED
      BY <2>1, <2>3, <2>4
  <1>8. CASE late
    BY <1>2, <1>6, <1>7, <1>8 DEF TableInv, SeqTypeOK, CurrentInv, RememberedInv, IsFirst
  <1>9. CASE ~late
    <2>1. /\ SeqTypeOK'
          /\ sequences'[i] = [sender |-> s, seq |-> q, age |-> 0]
          /\ \A j \in Slots \ {i} : sequences'[j] = sequences[j]
          /\ lastAccepted'[s] = [seq |-> q, age |-> 0]
          /\ \A t \in SeqSenders \ {s} : lastAccepted'[t] = lastAccepted[t]
      BY <1>1, <1>2, <1>9, TakenInSlot DEF TableInv
    <2>2. sequences'[i].sender = s /\ sequences'[i].seq = q /\ sequences'[i].age = 0
      BY <2>1
    <2>3. lastAccepted'[s].seq = q /\ lastAccepted'[s].age = 0
      BY <2>1
    <2>4. \A j \in Slots : sequences[j].age \in Nat
      BY DEF TableInv, SeqTypeOK
    <2>5. \A j \in Slots : sequences[j].sender = s => i <= j
      BY <1>1
    <2>6. \A t \in SeqSenders : lastAccepted'[t] = NotHeard \/ lastAccepted'[t].seq # 0
      BY <2>1, <2>3 DEF TableInv, CurrentInv
    <2>7. ASSUME NEW t \in SeqSenders, NEW j \in Slots, NEW k \in Slots, j <= k,
                 sequences'[j].sender = t, sequences'[k].sender = t
          PROVE  sequences'[j].age <= sequences'[k].age
      <3>1. CASE j = i
        BY <2>1, <2>2, <2>4, <3>1
      <3>2. CASE j # i /\ k = i
        <4>1. sequences[j].sender = s /\ i <= j /\ j <= i
          BY <2>1, <2>2, <2>5, <2>7, <3>2
        <4> QED
          BY <1>1, <3>2, <4>1, SequenceSizes DEF Slots
      <3>3. CASE j # i /\ k # i
        BY <2>1, <2>7, <3>3 DEF TableInv, CurrentInv
      <3> QED
        BY <3>1, <3>2, <3>3
    \* A slot taken from another sender was its first only if it was its last.
    <2>8. ASSUME NEW t \in SeqSenders \ {s}, NEW j \in Slots, IsFirst(j, t)'
          PROVE  j # i /\ IsFirst(j, t)
      <3>1. j # i /\ sequences[j].sender = t
        BY <2>1, <2>2, <2>8 DEF IsFirst
      <3>2. ASSUME sequences[i].sender = t, i < j
            PROVE  FALSE
        <4>1. sequences[i].sender \notin {s, NoSender}
          BY <3>2, SequenceSizes
        <4>2. /\ sequences[j].age <= sequences[i].age
              /\ sequences[j].age = sequences[i].age => j <= i
          BY <1>1, <4>1
        <4>3. sequences[i].age <= sequences[j].age
          BY <1>1, <3>1, <3>2, SequenceSizes DEF TableInv, CurrentInv, Slots
        <4>4. sequences[i].age = sequences[j].age
          BY <1>1, <2>4, <4>2, <4>3
        <4> QED
          BY <1>1, <3>2, <4>2, <4>4, SequenceSizes DEF Slots
      <3>3. ASSUME NEW k \in Slots, sequences[k].sender = t
            PROVE  j <= k
        <4>1. CASE k = i
          BY <1>1, <3>1, <3>2, <3>3, <4>1, SequenceSizes DEF Slots
        <4>2. CASE k # i
          <5>1. sequences'[k].sender = t
            BY <2>1, <3>3, <4>2
          <5> QED
            BY <2>8, <5>1 DEF IsFirst
        <4> QED
          BY <4>1, <4>2
      <3> QED
        BY <3>1, <3>3 DEF IsFirst
    <2>9. ASSUME NEW j \in Slots, IsFirst(j, s)'
          PROVE  j = i
      <3>1. j <= i /\ (j = i \/ sequences[j].sender = s)
        BY <1>1, <2>1, <2>2, <2>9 DEF IsFirst
      <3> QED
        BY <1>1, <2>5, <3>1, SequenceSizes DEF Slots
    <2>10. CurrentInv'
      <3>1. ASSUME NEW t \in SeqSenders, NEW j \in Slots, IsFirst(j, t)', lastAccepted'[t] # NotHeard
            PROVE  sequences'[j].seq = lastAccepted'[t].seq /\ sequences'[j].age = lastAccepted'[t].age
        <4>1. CASE t = s
          BY <2>2, <2>3, <2>9, <3>1, <4>1
        <4>2. CASE t # s
          BY <2>1, <2>8, <3>1, <4>2 DEF TableInv, CurrentInv
        <4> QED
          BY <4>1, <4>2
      <3> QED
        BY <2>6, <2>7, <3>1 DEF CurrentInv
    <2>11. RememberedInv'
      <3> SUFFICES ASSUME ~forgotten'
                   PROVE  /\ \A j, k \in Slots : j < k /\ sequences'[j].sender = NoSender
                                                    => sequences'[k].sender = NoSender
                          /\ \A t \in SeqSenders : lastAccepted'[t] # NotHeard /\ lastAccepted'[t].age <= SeqTimeout
                                                      => \E j \in Slots : sequences'[j].sender = t
        BY DEF RememberedInv
      <3>1. ~forgotten /\ ~(sequences[i].sender \notin {s, NoSender} /\ sequences[i].age <= SeqTimeout)
        BY <1>2, <1>9
      <3>2. ASSUME NEW j \in Slots, NEW k \in Slots, j < k, sequences'[j].sender = NoSender
            PROVE  sequences'[k].sender = NoSender
        <4>1. j # i /\ sequences[j].sender = NoSender
          BY <2>1, <2>2, <3>2, SequenceSizes
        <4>2. sequences[k].sender = NoSender /\ i <= j
          BY <1>1, <3>1, <3>2, <4>1 DEF TableInv, RememberedInv
        <4>3. k # i
          BY <1>1, <3>2, <4>2, SequenceSizes DEF Slots
        <4> QED
          BY <2>1, <4>2, <4>3
      <3>3. ASSUME NEW t \in SeqSenders \ {s}, lastAccepted[t] # NotHeard, lastAccepted[t].age <= SeqTimeout
            PROVE  \E j \in Slots \ {i} : sequences[j].sender = t
        <4>1. PICK o \in Slots : sequences[o].sender = t
          BY <3>1, <3>3 DEF TableInv, RememberedInv
        <4>2. PICK f \in Slots : IsFirst(f, t)
          BY <4>1, FirstExists
        <4>3. CASE f = i
          <5>1. sequences[i].sender \notin {s, NoSender} /\ sequences[i].age <= SeqTimeout
            BY <3>3, <4>2, <4>3, SequenceSizes DEF IsFirst, TableInv, CurrentInv
          <5> QED
            BY <3>1, <5>1
        <4> QED
          BY <4>2, <4>3 DEF IsFirst
      <3>4. ASSUME NEW t \in SeqSenders, lastAccepted'[t] # NotHeard, lastAccepted'[t].age <= SeqTimeout
            PROVE  \E j \in Slots : sequences'[j].sender = t
        <4>1. CASE t = s
          BY <1>1, <2>2, <4>1
        <4>2. CASE t # s
          BY <2>1, <3>3, <3>4, <4>2
        <4> QED
          BY <4>1, <4>2
      <3> QED
        BY <3>2, <3>4
    <2> QED
      BY <1>6, <1>7, <2>1, <2>10, <2>11 DEF TableInv
  <1> QED
    BY <1>6, <1>7, <1>8, <1>9

LEMMA SeqNextTable ==
    TableInv /\ FreshIsAccepted /\ ReplayIsDropped /\ [SeqNext]_seqVars
       => TableInv' /\ FreshIsAccepted' /\ ReplayIsDropped'
  <1> SUFFICES ASSUME TableInv, FreshIsAccepted, ReplayIsDropped, [SeqNext]_seqVars
               PROVE  TableInv' /\ FreshIsAccepted' /\ ReplayIsDropped'
    OBVIOUS
  <1>1. ASSUME NEW s \in SeqSenders, AcceptUncounted(s)
        PROVE  TableInv' /\ FreshIsAccepted' /\ ReplayIsDropped'
    BY <1>1, AcceptUncountedTable DEF AcceptUncounted, FreshIsAccepted, ReplayIsDropped
  <1>2. ASSUME NEW s \in SeqSenders, NEW q \in 1 .. SeqSize - 1, AcceptCounted(s, q)
        PROVE  TableInv' /\ FreshIsAccepted' /\ ReplayIsDropped'
    BY <1>2, AcceptCountedTable
  <1>3. CASE ClearArtDmxSequences
    BY <1>3, SequencesForget DEF ClearArtDmxSequences, NoPacketYet, FreshIsAccepted, ReplayIsDropped
  <1>4. CASE SeqTick
    BY <1>4, SeqTickTable DEF SeqTick, NoPacketYet, FreshIsAccepted, ReplayIsDropped
  <1>5. CASE UNCHANGED seqVars
    BY <1>5 DEF seqVars, TableInv, SeqTypeOK, CurrentInv, RememberedInv, IsFirst,
       FreshIsAccepted, ReplayIsDropped
  <1> QED
    BY <1>1, <1>2, <1>3, <1>4, <1>5 DEF SeqNext

LEMMA SeqInitTable == SeqInit => TableInv /\ FreshIsAccepted /\ ReplayIsDropped
  <1> SUFFICES ASSUME SeqInit
               PROVE  TableInv /\ FreshIsAccepted /\ ReplayIsDropped
    OBVIOUS
  <1>1. \A i \in Slots : sequences[i] = FreeSlot /\ sequences[i].sender = NoSender
    BY RestingEntries DEF SeqInit
  <1>2. \A s \in SeqSenders : lastAccepted[s] = NotHeard
    BY DEF SeqInit
  <1>3. SeqTypeOK
    BY <1>1, <1>2, RestingEntries DEF SeqInit, SeqTypeOK, Entries, Heard
  <1>4. CurrentInv /\ RememberedInv
    BY <1>1, <1>2, SequenceSizes DEF CurrentInv, RememberedInv, IsFirst
  <1> QED
    BY <1>3, <1>4 DEF TableInv, SeqInit, NoPacketYet, FreshIsAccepted, ReplayIsDropped

LEMMA TableHolds == SeqSpec => [](TableInv /\ FreshIsAccepted /\ ReplayIsDropped)
  <1> QED
    BY SeqInitTable, SeqNextTable, PTL DEF SeqSpec

\* For every number of senders and slots: whatever senders come and go, wrap,
\* stop counting or push each other out of the table, the next packet of a
\* sender is accepted.
THEOREM NextPacketIsAccepted == SeqSpec => []FreshIsAccepted
  <1> QED
    BY TableHolds, PTL

\* And a late packet, or a copy, is dropped as long as the table has not had
\* to forget a sender.
THEOREM LatePacketIsDropped == SeqSpec => []ReplayIsDropped
  <1> QED
    BY TableHolds, PTL

\* Types.
THEOREM SequencesAreTyped == SeqSpec => []SeqTypeOK
  <1>1. TableInv => SeqTypeOK
    BY DEF TableInv
  <1> QED
    BY <1>1, TableHolds, PTL

-----------------------------------------------------------------------------
(* The table of subscribers: removing entries *)

Increasing(f) == \A i, j \in DOMAIN f : i < j => f[i] < f[j]

\* The numbers of a finite set can be listed in their order.
LEMMA OrderExists ==
    ASSUME NEW m \in Nat, NEW S \in SUBSET (1 .. m)
    PROVE  \E f \in [1 .. Cardinality(S) -> S] : Increasing(f)
  <1> DEFINE Listable(T) == \E f \in [1 .. Cardinality(T) -> T] : Increasing(f)
             Bad == {n \in Nat : \E T \in SUBSET (1 .. m) : Cardinality(T) = n /\ ~Listable(T)}
  <1>1. ASSUME NEW T \in SUBSET (1 .. m)
        PROVE  IsFiniteSet(T) /\ Cardinality(T) \in Nat
    <2>1. IsFiniteSet(1 .. m)
      BY FS_Interval
    <2> QED
      BY <2>1, FS_Subset, FS_CardinalityType
  <1>2. Bad = {}
    <2> SUFFICES ASSUME Bad # {} PROVE FALSE
      OBVIOUS
    <2>1. PICK n \in Bad : \A k \in Bad : n <= k
      <3>1. Bad \subseteq Nat
        OBVIOUS
      <3> HIDE DEF Bad
      <3> QED
        BY <3>1, LeastNatural
    <2>2. n \in Nat
      OBVIOUS
    <2>3. PICK T \in SUBSET (1 .. m) : Cardinality(T) = n /\ ~Listable(T)
      OBVIOUS
    <2>4. T # {}
      <3> SUFFICES ASSUME T = {} PROVE FALSE
        OBVIOUS
      <3>1. Cardinality(T) = 0
        BY FS_EmptySet
      <3> DEFINE f == [i \in 1 .. 0 |-> 0]
      <3>2. f \in [1 .. Cardinality(T) -> T] /\ Increasing(f)
        BY <3>1 DEF Increasing
      <3> HIDE DEF f
      <3> QED
        BY <2>3, <3>2
    <2>5. PICK x \in T : \A y \in T : y <= x
      <3>1. T \subseteq 0 .. m
        OBVIOUS
      <3> QED
        BY <2>4, <3>1, GreatestNatural
    <2> DEFINE U == T \ {x}
    <2>6. U \in SUBSET (1 .. m) /\ Cardinality(U) = n - 1 /\ n - 1 \in Nat
      <3>1. Cardinality(U) = Cardinality(T) - 1 /\ Cardinality(U) \in Nat
        BY <1>1, FS_RemoveElement
      <3> QED
        BY <2>2, <2>3, <3>1
    <2>7. Listable(U)
      <3>1. ~(n <= n - 1)
        BY <2>2
      <3>2. n - 1 \notin Bad
        <4> HIDE DEF Bad
        <4> QED
          BY <2>1, <3>1
      <3> HIDE DEF Listable, U
      <3> QED
        BY <2>6, <3>2
    <2>8. PICK g \in [1 .. n - 1 -> U] : Increasing(g)
      <3> HIDE DEF U
      <3> QED
        BY <2>6, <2>7
    <2> DEFINE f == [i \in 1 .. n |-> IF i = n THEN x ELSE g[i]]
    <2>9. f \in [1 .. n -> T]
      <3>1. ASSUME NEW i \in 1 .. n, i # n
            PROVE  g[i] \in T
        <4>1. i \in 1 .. n - 1
          BY <2>2, <3>1
        <4> QED
          BY <4>1
      <3> QED
        BY <3>1
    <2>10. ASSUME NEW i \in 1 .. n, NEW j \in 1 .. n, i < j
           PROVE  f[i] < f[j]
      <3>1. i \in 1 .. n - 1
        BY <2>2, <2>10
      <3>2. g[i] \in T /\ g[i] # x /\ g[i] \in 1 .. m /\ x \in 1 .. m
        BY <3>1
      <3>3. CASE j = n
        BY <2>5, <2>10, <3>2, <3>3
      <3>4. CASE j # n
        <4>1. j \in 1 .. n - 1
          BY <2>2, <3>4
        <4> QED
          BY <2>8, <2>10, <3>1, <3>4, <4>1 DEF Increasing
      <3> QED
        BY <3>3, <3>4
    <2>11. Increasing(f)
      BY <2>10 DEF Increasing
    <2> HIDE DEF f
    <2> QED
      BY <2>3, <2>9, <2>11
  <1>3. Cardinality(S) \in Nat
    BY <1>1
  <1> HIDE DEF Listable
  <1>4. Listable(S)
    BY <1>2, <1>3
  <1> QED
    BY <1>4 DEF Listable

LEMMA CountTo ==
    ASSUME NEW n \in Nat
    PROVE  IsFiniteSet(1 .. n) /\ Cardinality(1 .. n) = n
  <1>1. IsFiniteSet(1 .. n) /\ Cardinality(1 .. n) = IF 1 > n THEN 0 ELSE (n - 1) + 1
    BY FS_Interval
  <1> QED
    BY <1>1

Rows == [peer : Peers, age : 0 .. SubLimit]

LEMMA RowFields ==
    ASSUME subscribers \in Seq(Rows)
    PROVE  \A i \in DOMAIN subscribers :
              /\ subscribers[i] \in Rows /\ subscribers[i].peer \in Peers
              /\ subscribers[i].age \in 0 .. SubLimit
  <1> SUFFICES ASSUME NEW i \in DOMAIN subscribers
               PROVE  /\ subscribers[i] \in Rows /\ subscribers[i].peer \in Peers
                      /\ subscribers[i].age \in 0 .. SubLimit
    OBVIOUS
  <1>1. subscribers[i] \in Rows
    OBVIOUS
  <1> QED
    BY <1>1 DEF Rows

\* What is left of the table is the entries kept, each of them once.
LEMMA CompactedKeeps ==
    ASSUME subscribers \in Seq(Rows), NEW kept \in SUBSET DOMAIN subscribers,
           NEW c, c = Compacted(kept)
    PROVE  /\ c \in Seq(Rows) /\ Len(c) <= Len(subscribers)
           /\ \E f \in [DOMAIN c -> kept] :
                /\ \A i \in DOMAIN c : c[i] = subscribers[f[i]]
                /\ \A i, j \in DOMAIN c : f[i] = f[j] => i = j
                /\ \A k \in kept : \E i \in DOMAIN c : f[i] = k
  <1> DEFINE n == Cardinality(kept)
             m == Len(subscribers)
             order == CHOOSE f \in [1 .. n -> kept] : \A i, j \in DOMAIN f : i < j => f[i] < f[j]
  <1>1. m \in Nat /\ DOMAIN subscribers = 1 .. m /\ kept \in SUBSET (1 .. m)
    OBVIOUS
  <1>2. /\ IsFiniteSet(kept) /\ n \in Nat /\ n <= m
        /\ IsFiniteSet(1 .. n) /\ Cardinality(1 .. n) = n
    <2>1. IsFiniteSet(1 .. m) /\ Cardinality(1 .. m) = m
      BY <1>1, CountTo
    <2>2. IsFiniteSet(kept) /\ n \in Nat /\ n <= m
      <3> HIDE DEF m
      <3> QED
        BY <1>1, <2>1, FS_Subset, FS_CardinalityType
    <2>3. IsFiniteSet(1 .. n) /\ Cardinality(1 .. n) = n
      <3> HIDE DEF n
      <3> QED
        BY <2>2, CountTo
    <2> QED
      BY <2>2, <2>3
  <1>3. order \in [1 .. n -> kept] /\ \A i, j \in 1 .. n : i < j => order[i] < order[j]
    <2>1. \E f \in [1 .. n -> kept] : \A i, j \in DOMAIN f : i < j => f[i] < f[j]
      <3> HIDE DEF m
      <3> QED
        BY <1>1, OrderExists DEF Increasing
    <2>2. /\ order \in [1 .. n -> kept]
          /\ \A i, j \in DOMAIN order : i < j => order[i] < order[j]
      <3> HIDE DEF n
      <3> QED
        BY <2>1
    <2> HIDE DEF order
    <2> QED
      BY <2>2
  <1>4. c = [i \in DOMAIN order |-> subscribers[order[i]]]
    BY DEF Compacted
  <1> HIDE DEF order
  <1>5. ASSUME NEW i \in 1 .. n, NEW j \in 1 .. n, order[i] = order[j]
        PROVE  i = j
    <2>1. order[i] \in 1 .. m /\ i \in Nat /\ j \in Nat
      BY <1>1, <1>2, <1>3
    <2>2. ~(i < j) /\ ~(j < i)
      BY <1>3, <1>5, <2>1
    <2> QED
      BY <2>1, <2>2
  <1>6. order \in Surjection(1 .. n, kept)
    <2>1. order \in Injection(1 .. n, kept)
      BY <1>3, <1>5 DEF Injection, IsInjective
    <2>2. Cardinality(1 .. n) = Cardinality(kept)
      BY <1>2
    <2> HIDE DEF n
    <2> QED
      BY <1>2, <2>1, <2>2, FS_Injection
  <1>7. \A k \in kept : \E i \in 1 .. n : order[i] = k
    BY <1>6 DEF Surjection
  <1> HIDE DEF n
  <1>8. c = [i \in 1 .. n |-> subscribers[order[i]]]
    BY <1>3, <1>4
  <1>9. ASSUME NEW i \in 1 .. n
        PROVE  subscribers[order[i]] \in Rows
    BY <1>1, <1>3
  <1>10. c \in Seq(Rows) /\ Len(c) = n
    BY <1>2, <1>8, <1>9
  <1>11. DOMAIN c = 1 .. n
    BY <1>8
  <1> DEFINE d == DOMAIN c
  <1>12. d = 1 .. n
    BY <1>11
  <1> HIDE DEF d
  <1>14. order \in [d -> kept]
    BY <1>3, <1>12
  <1>15. /\ \A i \in d : c[i] = subscribers[order[i]]
         /\ \A i, j \in d : order[i] = order[j] => i = j
         /\ \A k \in kept : \E i \in d : order[i] = k
    BY <1>5, <1>7, <1>8, <1>12
  <1>16. \E f \in [d -> kept] :
                /\ \A i \in d : c[i] = subscribers[f[i]]
                /\ \A i, j \in d : f[i] = f[j] => i = j
                /\ \A k \in kept : \E i \in d : f[i] = k
    BY <1>14, <1>15
  <1> QED
    BY <1>2, <1>10, <1>16 DEF d

-----------------------------------------------------------------------------
(* The table of subscribers: who is in it *)

SubTypes ==
    /\ subscribers \in Seq(Rows) /\ Len(subscribers) <= MaxSubscribers
    /\ heardAge \in [Peers -> 0 .. SubLimit \cup {Nobody}]
    /\ subsChanged \in BOOLEAN /\ dirSocket \in BOOLEAN
    /\ dirPc \in {"loop", "read", "rest"} /\ dirLag \in 0 .. DirMaxLag

\* Every device is listed once, with the age of its last reply.
Unique ==
    /\ \A i, j \in DOMAIN subscribers : subscribers[i].peer = subscribers[j].peer => i = j
    /\ \A i \in DOMAIN subscribers : heardAge[subscribers[i].peer] = subscribers[i].age

\* Those listed are the ones that were live when the last pass ended, or have
\* answered since.
Live == \A p \in Peers :
    (\E i \in DOMAIN subscribers : subscribers[i].peer = p)
        <=> heardAge[p] # Nobody /\ heardAge[p] < SubTimeout + dirLag

Unbound == ~dirSocket =>
    dirPc = "loop" /\ Len(subscribers) = 0 /\ \A p \in Peers : heardAge[p] = Nobody

SubInv == SubTypes /\ Unique /\ Live /\ Unbound

LEMMA SizesOfTime ==
    /\ SubTimeout \in Nat /\ SubTimeout > 0 /\ DirMaxLag \in Nat /\ ReplyDelay \in Nat
    /\ SubLimit \in Nat /\ SubLimit = SubTimeout + DirMaxLag
    /\ MaxSubscribers \in Nat /\ MaxReplies \in Nat
    /\ Nobody \notin Nat /\ Nobody \notin Peers
  BY DirectorySizes DEF SubLimit

\* An empty table, of which nothing was heard.
LEMMA EmptyIsOK ==
    ASSUME subscribers' = <<>>, heardAge' = NoTimes, subsChanged' \in BOOLEAN,
           dirSocket' \in BOOLEAN, dirPc' = "loop", dirLag' \in 0 .. DirMaxLag
    PROVE  SubInv'
  <1>1. subscribers' \in Seq(Rows) /\ Len(subscribers') = 0 /\ DOMAIN subscribers' = {}
    OBVIOUS
  <1>2. \A p \in Peers : heardAge'[p] = Nobody
    BY DEF NoTimes
  <1>3. SubTypes'
    BY <1>1, SizesOfTime DEF SubTypes, NoTimes
  <1>4. Unique' /\ Live' /\ Unbound'
    BY <1>1, <1>2 DEF Unique, Live, Unbound
  <1> QED
    BY <1>3, <1>4 DEF SubInv

LEMMA SameTableIsOK ==
    ASSUME SubInv, UNCHANGED <<subscribers, heardAge, dirSocket>>,
           subsChanged' \in BOOLEAN, dirPc' \in {"loop", "read", "rest"},
           dirSocket \/ dirPc' = "loop",
           dirLag' \in 0 .. DirMaxLag, dirSocket => dirLag' = dirLag
    PROVE  SubInv'
  <1>1. SubTypes' /\ Unique' /\ Unbound'
    BY DEF SubInv, SubTypes, Unique, Unbound
  <1>2. CASE dirSocket
    <2>1. Live'
      BY <1>2 DEF SubInv, Live
    <2> QED
      BY <1>1, <2>1 DEF SubInv
  <1>3. CASE ~dirSocket
    <2>1. DOMAIN subscribers = {} /\ \A p \in Peers : heardAge[p] = Nobody
      BY <1>3 DEF SubInv, SubTypes, Unbound
    <2>2. Live'
      BY <2>1 DEF Live
    <2> QED
      BY <1>1, <2>2 DEF SubInv
  <1> QED
    BY <1>2, <1>3 DEF SubInv, SubTypes

\* What removing entries does to the table.
LEMMA RemovedIsOK ==
    ASSUME SubInv, dirSocket, dirSocket', NEW kept \in SUBSET DOMAIN subscribers,
           subscribers' = Compacted(kept), subsChanged' \in BOOLEAN,
           dirPc' \in {"loop", "rest"}, dirLag' \in 0 .. DirMaxLag,
           heardAge' \in [Peers -> 0 .. SubLimit \cup {Nobody}],
           \A i \in kept : heardAge'[subscribers[i].peer] = subscribers[i].age,
           \A p \in Peers : (\E i \in kept : subscribers[i].peer = p)
              <=> heardAge'[p] # Nobody /\ heardAge'[p] < SubTimeout + dirLag'
    PROVE  SubInv'
  <1>t. subscribers \in Seq(Rows) /\ Len(subscribers) <= MaxSubscribers
    BY DEF SubInv, SubTypes
  <1>1. /\ subscribers' \in Seq(Rows) /\ Len(subscribers') <= Len(subscribers)
    BY <1>t, CompactedKeeps
  <1>2. PICK f \in [DOMAIN subscribers' -> kept] :
                /\ \A i \in DOMAIN subscribers' : subscribers'[i] = subscribers[f[i]]
                /\ \A i, j \in DOMAIN subscribers' : f[i] = f[j] => i = j
                /\ \A k \in kept : \E i \in DOMAIN subscribers' : f[i] = k
    BY <1>t, CompactedKeeps
  <1>3. Len(subscribers') <= MaxSubscribers
    BY <1>1, <1>t, SizesOfTime
  <1>4. SubTypes'
    BY <1>1, <1>3 DEF SubTypes
  <1>5. Unique'
    <2>1. ASSUME NEW i \in DOMAIN subscribers', NEW j \in DOMAIN subscribers',
                 subscribers'[i].peer = subscribers'[j].peer
          PROVE  i = j
      <3>1. f[i] \in DOMAIN subscribers /\ f[j] \in DOMAIN subscribers
        OBVIOUS
      <3>2. subscribers[f[i]].peer = subscribers[f[j]].peer
        BY <1>2, <2>1
      <3>3. f[i] = f[j]
        BY <3>1, <3>2 DEF SubInv, Unique
      <3> QED
        BY <1>2, <3>3
    <2>2. ASSUME NEW i \in DOMAIN subscribers'
          PROVE  heardAge'[subscribers'[i].peer] = subscribers'[i].age
      BY <1>2
    <2> QED
      BY <2>1, <2>2 DEF Unique
  <1>6. ASSUME NEW p \in Peers
        PROVE  (\E i \in DOMAIN subscribers' : subscribers'[i].peer = p)
                  <=> \E i \in kept : subscribers[i].peer = p
    BY <1>2
  <1>7. Live' /\ Unbound'
    BY <1>6 DEF Live, Unbound
  <1> QED
    BY <1>4, <1>5, <1>7 DEF SubInv

LEMMA SubscribeIsOK ==
    ASSUME SubInv, dirSocket, NEW p \in Peers, Subscribe(p),
           UNCHANGED <<dirSocket, dirLag>>, dirPc' = "rest"
    PROVE  SubInv'
  <1>t. /\ subscribers \in Seq(Rows) /\ Len(subscribers) <= MaxSubscribers
        /\ heardAge \in [Peers -> 0 .. SubLimit \cup {Nobody}]
        /\ subsChanged \in BOOLEAN /\ dirLag \in 0 .. DirMaxLag
    BY DEF SubInv, SubTypes
  <1> DEFINE new == [peer |-> p, age |-> 0]
  <1>n. new \in Rows /\ new.peer = p /\ new.age = 0
    BY SizesOfTime DEF Rows
  <1>z. 0 # Nobody /\ 0 < SubTimeout + dirLag
    BY <1>t, SizesOfTime
  <1> HIDE DEF new
  <1>1. CASE IndexOf(p) = {} /\ Len(subscribers) >= MaxSubscribers
    BY <1>1, SameTableIsOK, <1>t DEF Subscribe, dirTable
  <1>2. CASE IndexOf(p) = {} /\ ~(Len(subscribers) >= MaxSubscribers)
    <2>1. /\ subscribers' = Append(subscribers, new) /\ subsChanged' = TRUE
          /\ heardAge' = [heardAge EXCEPT ![p] = 0]
      BY <1>2 DEF Subscribe, new
    <2> DEFINE m == Len(subscribers)
    <2>2. /\ m \in Nat /\ DOMAIN subscribers = 1 .. m /\ m + 1 <= MaxSubscribers
          /\ subscribers' \in Seq(Rows) /\ Len(subscribers') = m + 1
          /\ DOMAIN subscribers' = 1 .. m + 1
          /\ subscribers'[m + 1] = new
          /\ \A i \in 1 .. m : subscribers'[i] = subscribers[i]
      BY <1>2, <1>n, <1>t, <2>1, SizesOfTime
    <2>3. \A i \in 1 .. m : subscribers[i].peer # p /\ subscribers[i].peer \in Peers
      BY <1>2, <1>t, <2>2, RowFields DEF IndexOf
    <2> HIDE DEF m
    <2>4. SubTypes'
      BY <1>t, <2>1, <2>2, SizesOfTime DEF SubInv, SubTypes
    <2>5. ASSUME NEW i \in 1 .. m + 1
          PROVE  i = m + 1 \/ i \in 1 .. m
      BY <2>2
    <2>6. Unique'
      BY <1>n, <1>t, <2>1, <2>2, <2>3, <2>5 DEF SubInv, Unique
    <2>7. \A q \in Peers : heardAge'[q] = IF q = p THEN 0 ELSE heardAge[q]
      BY <1>t, <2>1
    <2>8. Live'
      <3>1. ASSUME NEW q \in Peers
            PROVE  (\E i \in 1 .. m + 1 : subscribers'[i].peer = q)
                     <=> q = p \/ \E i \in 1 .. m : subscribers[i].peer = q
        <4>1. 1 .. m + 1 = 1 .. m \cup {m + 1}
          BY <2>2
        <4> QED
          BY <1>n, <2>2, <4>1
      <3> QED
        BY <1>z, <2>2, <2>7, <3>1 DEF SubInv, Live
    <2> QED
      BY <2>4, <2>6, <2>8 DEF SubInv, Unbound
  <1>3. CASE IndexOf(p) # {}
    <2>1. /\ subscribers' = [i \in DOMAIN subscribers |->
                                IF i \in IndexOf(p) THEN new ELSE subscribers[i]]
          /\ subsChanged' = subsChanged /\ heardAge' = [heardAge EXCEPT ![p] = 0]
      BY <1>3 DEF Subscribe, new
    <2> DEFINE m == Len(subscribers)
    <2>2. m \in Nat /\ DOMAIN subscribers = 1 .. m
      BY <1>t
    <2>3. /\ subscribers' \in Seq(Rows) /\ Len(subscribers') = m
          /\ DOMAIN subscribers' = 1 .. m
      BY <1>n, <1>t, <2>1, <2>2
    <2>4. \A i \in 1 .. m : /\ subscribers'[i].peer = subscribers[i].peer
                            /\ subscribers[i].peer \in Peers
                            /\ subscribers'[i].age =
                                 IF subscribers[i].peer = p THEN 0 ELSE subscribers[i].age
      <3> SUFFICES ASSUME NEW i \in 1 .. m
                   PROVE  /\ subscribers'[i].peer = subscribers[i].peer
                          /\ subscribers[i].peer \in Peers
                          /\ subscribers'[i].age =
                               IF subscribers[i].peer = p THEN 0 ELSE subscribers[i].age
        OBVIOUS
      <3>1. i \in DOMAIN subscribers /\ subscribers[i].peer \in Peers
        BY <1>t, <2>2, RowFields
      <3>2. i \in IndexOf(p) <=> subscribers[i].peer = p
        BY <3>1 DEF IndexOf
      <3>3. subscribers'[i] = IF i \in IndexOf(p) THEN new ELSE subscribers[i]
        BY <2>1, <3>1
      <3> QED
        BY <1>n, <3>1, <3>2, <3>3
    <2>5. \E i \in 1 .. m : subscribers[i].peer = p
      BY <1>3, <2>2 DEF IndexOf
    <2> HIDE DEF m
    <2>6. SubTypes'
      BY <1>t, <2>1, <2>2, <2>3, SizesOfTime DEF SubInv, SubTypes, m
    <2>7. \A q \in Peers : heardAge'[q] = IF q = p THEN 0 ELSE heardAge[q]
      BY <1>t, <2>1
    <2>8. Unique'
      BY <2>2, <2>3, <2>4, <2>7 DEF SubInv, Unique
    <2>9. Live'
      BY <1>z, <2>2, <2>3, <2>4, <2>5, <2>7 DEF SubInv, Live
    <2> QED
      BY <2>6, <2>8, <2>9 DEF SubInv, Unbound
  <1> QED
    BY <1>1, <1>2, <1>3

LEMMA UnsubscribeIsOK ==
    ASSUME SubInv, dirSocket, NEW p \in Peers, Unsubscribe(p),
           UNCHANGED <<dirSocket, dirLag>>, dirPc' = "rest"
    PROVE  SubInv'
  <1> DEFINE kept == DOMAIN subscribers \ IndexOf(p)
  <1>t. /\ subscribers \in Seq(Rows) /\ subsChanged \in BOOLEAN
        /\ heardAge \in [Peers -> 0 .. SubLimit \cup {Nobody}] /\ dirLag \in 0 .. DirMaxLag
    BY DEF SubInv, SubTypes
  <1>1. /\ subscribers' = Compacted(kept)
        /\ subsChanged' \in BOOLEAN /\ heardAge' = [heardAge EXCEPT ![p] = Nobody]
    BY <1>t DEF Unsubscribe
  <1>2. \A i \in DOMAIN subscribers : /\ i \in kept <=> subscribers[i].peer # p
                                      /\ subscribers[i].peer \in Peers
    BY <1>t, RowFields DEF IndexOf
  <1>3. \A q \in Peers : heardAge'[q] = IF q = p THEN Nobody ELSE heardAge[q]
    BY <1>t, <1>1
  <1>4. kept \in SUBSET DOMAIN subscribers
    OBVIOUS
  <1> HIDE DEF kept
  <1>5. heardAge' \in [Peers -> 0 .. SubLimit \cup {Nobody}]
    BY <1>t, <1>1
  <1>6. \A i \in kept : heardAge'[subscribers[i].peer] = subscribers[i].age
    BY <1>2, <1>3, <1>4 DEF SubInv, Unique
  <1>7. \A q \in Peers : (\E i \in kept : subscribers[i].peer = q)
              <=> heardAge'[q] # Nobody /\ heardAge'[q] < SubTimeout + dirLag
    BY <1>2, <1>3, <1>4 DEF SubInv, Live
  <1> QED
    BY <1>t, <1>1, <1>4, <1>5, <1>6, <1>7, RemovedIsOK

LEMMA RestIsOK ==
    ASSUME SubInv, DirRest
    PROVE  SubInv'
  <1> DEFINE kept == {i \in DOMAIN subscribers : subscribers[i].age < SubTimeout}
  <1>t. /\ subscribers \in Seq(Rows) /\ subsChanged \in BOOLEAN
        /\ heardAge \in [Peers -> 0 .. SubLimit \cup {Nobody}] /\ dirLag \in 0 .. DirMaxLag
    BY DEF SubInv, SubTypes
  <1>1. /\ subscribers' = Compacted(kept) /\ subsChanged' \in BOOLEAN
        /\ heardAge' = heardAge /\ dirSocket' = dirSocket
        /\ dirPc = "rest" /\ dirPc' = "loop" /\ dirLag' = 0
    BY <1>t DEF DirRest, StaleRemoved
  <1>2. dirSocket
    BY <1>1 DEF SubInv, Unbound
  <1>3. ASSUME NEW p \in Peers
        PROVE  (\E i \in kept : subscribers[i].peer = p)
                  <=> heardAge'[p] # Nobody /\ heardAge'[p] < SubTimeout + dirLag'
    <2>1. \A i \in DOMAIN subscribers : subscribers[i].peer = p =>
              subscribers[i].age = heardAge[p] /\ heardAge[p] # Nobody
      BY <1>t DEF SubInv, Unique, Live
    <2>2. heardAge[p] # Nobody => heardAge[p] \in Nat
      BY <1>t, SizesOfTime
    <2>3. heardAge[p] # Nobody /\ heardAge[p] < SubTimeout => heardAge[p] < SubTimeout + dirLag
      BY <1>t, <2>2, SizesOfTime
    <2>4. SubTimeout + dirLag' = SubTimeout
      BY <1>1, SizesOfTime
    <2>5. heardAge[p] # Nobody /\ heardAge[p] < SubTimeout =>
              \E i \in DOMAIN subscribers : subscribers[i].peer = p
      BY <2>3 DEF SubInv, Live
    <2> QED
      BY <1>1, <2>1, <2>4, <2>5
  <1>4. kept \in SUBSET DOMAIN subscribers
    OBVIOUS
  <1>5. \A i \in kept : heardAge'[subscribers[i].peer] = subscribers[i].age
    BY <1>1 DEF SubInv, Unique
  <1>6. dirLag' \in 0 .. DirMaxLag
    BY <1>1, SizesOfTime
  <1> HIDE DEF kept
  <1> QED
    BY <1>t, <1>1, <1>2, <1>3, <1>4, <1>5, <1>6, RemovedIsOK

LEMMA TickIsOK ==
    ASSUME SubInv, DirTick
    PROVE  SubInv'
  <1>t. /\ subscribers \in Seq(Rows) /\ Len(subscribers) <= MaxSubscribers
        /\ heardAge \in [Peers -> 0 .. SubLimit \cup {Nobody}] /\ dirLag \in 0 .. DirMaxLag
    BY DEF SubInv, SubTypes
  <1> DEFINE m == Len(subscribers)
             Aged(a) == DirOlder(a, SubLimit)
  <1>1. /\ dirLag < DirMaxLag /\ dirLag' = dirLag + 1
        /\ subscribers' = [i \in DOMAIN subscribers |-> [subscribers[i] EXCEPT !.age = Aged(@)]]
        /\ heardAge' = [p \in Peers |-> Aged(heardAge[p])]
        /\ UNCHANGED <<dirSocket, subsChanged, dirPc>>
    BY DEF DirTick
  <1>2. m \in Nat /\ DOMAIN subscribers = 1 .. m
    BY <1>t
  <1>3. ASSUME NEW a \in 0 .. SubLimit
        PROVE  /\ Aged(a) \in 0 .. SubLimit
               /\ a < SubTimeout + dirLag <=> Aged(a) < SubTimeout + dirLag'
    BY <1>t, <1>1, SizesOfTime DEF DirOlder
  <1>4. Aged(Nobody) = Nobody
    BY DEF DirOlder
  <1> HIDE DEF Aged
  <1>5. ASSUME NEW i \in 1 .. m
        PROVE  /\ subscribers[i] \in Rows
               /\ subscribers'[i] \in Rows /\ subscribers'[i].peer = subscribers[i].peer
               /\ subscribers'[i].age = Aged(subscribers[i].age)
    <2>1. subscribers[i] \in Rows
      BY <1>t, <1>2
    <2>2. subscribers'[i] = [subscribers[i] EXCEPT !.age = Aged(subscribers[i].age)]
      BY <1>1, <1>2
    <2>3. Aged(subscribers[i].age) \in 0 .. SubLimit
      BY <1>3, <2>1 DEF Rows
    <2> DEFINE a == Aged(subscribers[i].age)
    <2> HIDE DEF a
    <2>4. subscribers'[i] = [subscribers[i] EXCEPT !.age = a] /\ a \in 0 .. SubLimit
      BY <2>2, <2>3 DEF a
    <2>5. /\ subscribers'[i] \in Rows /\ subscribers'[i].peer = subscribers[i].peer
          /\ subscribers'[i].age = a
      BY <2>1, <2>4 DEF Rows
    <2> QED
      BY <2>1, <2>5 DEF a
  <1>6. subscribers' \in Seq(Rows) /\ Len(subscribers') = m /\ DOMAIN subscribers' = 1 .. m
    <2>1. subscribers' = [i \in 1 .. m |-> subscribers'[i]]
      BY <1>1, <1>2
    <2> QED
      BY <1>2, <1>5, <2>1
  <1>7. ASSUME NEW p \in Peers
        PROVE  /\ heardAge'[p] \in 0 .. SubLimit \cup {Nobody}
               /\ heardAge'[p] = Aged(heardAge[p])
               /\ heardAge[p] = Nobody <=> heardAge'[p] = Nobody
               /\ heardAge[p] # Nobody /\ heardAge[p] < SubTimeout + dirLag
                     <=> heardAge'[p] # Nobody /\ heardAge'[p] < SubTimeout + dirLag'
    <2>1. heardAge'[p] = Aged(heardAge[p])
      BY <1>1
    <2>2. CASE heardAge[p] = Nobody
      BY <1>4, <2>1, <2>2
    <2>3. CASE heardAge[p] \in 0 .. SubLimit
      BY <1>3, <2>1, <2>3, SizesOfTime
    <2> QED
      BY <1>t, <2>2, <2>3
  <1>8. SubTypes'
    <2>1. heardAge' \in [Peers -> 0 .. SubLimit \cup {Nobody}]
      BY <1>1, <1>7
    <2>2. dirLag' \in 0 .. DirMaxLag
      BY <1>t, <1>1, SizesOfTime
    <2> QED
      BY <1>t, <1>1, <1>6, <2>1, <2>2 DEF SubInv, SubTypes
  <1> HIDE DEF m
  <1>9. Unique'
    <2>1. \A i \in 1 .. m : subscribers[i].peer \in Peers
      BY <1>5 DEF Rows
    <2> QED
      BY <1>2, <1>5, <1>6, <1>7, <2>1 DEF SubInv, Unique
  <1>10. Live'
    <2>1. ASSUME NEW p \in Peers
          PROVE  (\E i \in 1 .. m : subscribers'[i].peer = p)
                     <=> \E i \in 1 .. m : subscribers[i].peer = p
      BY <1>5
    <2> QED
      BY <1>2, <1>6, <1>7, <2>1 DEF SubInv, Live
  <1>11. Unbound'
    BY <1>1, <1>6, <1>7 DEF SubInv, Unbound, m
  <1> QED
    BY <1>8, <1>9, <1>10, <1>11 DEF SubInv

LEMMA SubInitInv == DirInit => SubInv
  <1> SUFFICES ASSUME DirInit PROVE SubInv
    OBVIOUS
  <1>1. subscribers = <<>> /\ DOMAIN subscribers = {} /\ \A p \in Peers : heardAge[p] = Nobody
    BY DEF DirInit, NoTimes
  <1>2. SubTypes
    <2>1. subscribers \in Seq(Rows) /\ Len(subscribers) <= MaxSubscribers
      BY <1>1, SizesOfTime
    <2>2. heardAge \in [Peers -> 0 .. SubLimit \cup {Nobody}]
      BY DEF DirInit, NoTimes
    <2>3. /\ subsChanged \in BOOLEAN /\ dirSocket \in BOOLEAN
          /\ dirPc \in {"loop", "read", "rest"} /\ dirLag \in 0 .. DirMaxLag
      <3>1. subsChanged = FALSE /\ dirSocket = FALSE /\ dirPc = "loop" /\ dirLag = 0
        BY DEF DirInit
      <3>2. 0 \in 0 .. DirMaxLag
        BY SizesOfTime
      <3> QED
        BY <3>1, <3>2
    <2> QED
      BY <2>1, <2>2, <2>3 DEF SubTypes
  <1>3. Unique /\ Live /\ Unbound
    BY <1>1 DEF DirInit, Unique, Live, Unbound
  <1> QED
    BY <1>2, <1>3 DEF SubInv

LEMMA SubNextInv == SubInv /\ [DirNext]_dirVars => SubInv'
  <1> SUFFICES ASSUME SubInv, [DirNext]_dirVars PROVE SubInv'
    OBVIOUS
  <1>t. /\ subsChanged \in BOOLEAN /\ dirLag \in 0 .. DirMaxLag /\ dirSocket \in BOOLEAN
        /\ dirPc \in {"loop", "read", "rest"} /\ (dirSocket \/ dirPc = "loop")
        /\ 0 \in 0 .. DirMaxLag
    BY SizesOfTime DEF SubInv, SubTypes, Unbound
  <1>c. ClearSubscribers => /\ subscribers' = <<>> /\ heardAge' = NoTimes
                            /\ subsChanged' \in BOOLEAN
    BY <1>t DEF ClearSubscribers
  <1>1. CASE DirBegin
    BY <1>1, <1>t, SameTableIsOK DEF DirBegin, dirTable
  <1>2. ASSUME NEW ok \in BOOLEAN, RetryBind(ok)
        PROVE  SubInv'
    <2>1. CASE ok
      BY <1>2, <1>c, <1>t, <2>1, EmptyIsOK DEF RetryBind, Rebind
    <2>2. CASE ~ok
      <3>1. /\ UNCHANGED <<subscribers, heardAge, subsChanged, dirPc>>
            /\ ~dirSocket /\ dirSocket' = FALSE /\ dirPc = "loop" /\ dirLag' = 0
        BY <1>2, <2>2 DEF RetryBind, Rebind, dirTable
      <3> QED
        BY <1>t, <3>1, SameTableIsOK
    <2> QED
      BY <2>1, <2>2
  <1>3. CASE WaitForBind
    BY <1>3, <1>t, SameTableIsOK DEF WaitForBind, dirTable
  <1>4. ASSUME NEW queue, ReadPass(queue)
        PROVE  dirSocket /\ UNCHANGED <<dirSocket, dirLag>> /\ dirPc' = "rest"
    BY <1>4, <1>t DEF ReadPass
  <1>5. CASE ReadNothing \/ \E p \in Peers : ReadPoll(p)
    <2>1. dirSocket /\ UNCHANGED <<dirSocket, dirLag, subscribers, heardAge, subsChanged>>
          /\ dirPc' = "rest"
      BY <1>4, <1>5 DEF ReadNothing, ReadPoll, dirTable
    <2> QED
      BY <1>t, <2>1, SameTableIsOK
  <1>6. ASSUME NEW p \in Peers, NEW matches \in BOOLEAN, ReadPollReply(p, matches)
        PROVE  SubInv'
    BY <1>4, <1>6, SubscribeIsOK, UnsubscribeIsOK DEF ReadPollReply
  <1>7. CASE DirRest
    BY <1>7, RestIsOK
  <1>8. ASSUME NEW ok \in BOOLEAN, DirNetworkChange(ok)
        PROVE  SubInv'
    BY <1>8, <1>c, <1>t, EmptyIsOK DEF DirNetworkChange, DirElsewhere, Rebind
  <1>9. ASSUME NEW input \in BOOLEAN, DirReconfigure(input)
        PROVE  SubInv'
    BY <1>9, <1>c, <1>t, EmptyIsOK DEF DirReconfigure, DirElsewhere
  <1>10. CASE DirDiscover
    BY <1>10, <1>t, SameTableIsOK DEF DirDiscover, DirElsewhere, dirTable
  <1>11. CASE DirServe
    BY <1>11, <1>t, SameTableIsOK DEF DirServe
  <1>12. CASE DirTick
    BY <1>12, TickIsOK
  <1>13. CASE UNCHANGED dirVars
    BY <1>13, <1>t, SameTableIsOK DEF dirVars, dirTable
  <1>14. ASSUME NEW input \in BOOLEAN, DirStoreWithoutRestart(input)
         PROVE  SubInv'
    BY <1>14, <1>t, SameTableIsOK DEF DirStoreWithoutRestart, DirElsewhere, dirTable
  <1> QED
    BY <1>1, <1>2, <1>3, <1>5, <1>6, <1>7, <1>8, <1>9, <1>10, <1>11, <1>12, <1>13, <1>14
    DEF DirNext, DirPass

\* The number of devices listed is the length of the table.
LEMMA ListedOnce ==
    ASSUME SubInv
    PROVE  Len(subscribers) = Cardinality(Listed(subscribers))
  <1> DEFINE m == Len(subscribers)
             f == [i \in 1 .. m |-> subscribers[i].peer]
  <1>1. m \in Nat /\ DOMAIN subscribers = 1 .. m
    BY DEF SubInv, SubTypes
  <1>2. f \in Bijection(1 .. m, Listed(subscribers))
    <2>1. \A i, j \in 1 .. m : f[i] = f[j] => i = j
      BY <1>1 DEF SubInv, Unique
    <2>2. \A p \in Listed(subscribers) : \E i \in 1 .. m : f[i] = p
      BY <1>1 DEF Listed
    <2>3. f \in [1 .. m -> Listed(subscribers)]
      BY <1>1 DEF Listed
    <2> HIDE DEF f
    <2> QED
      BY <2>1, <2>2, <2>3 DEF Bijection, Injection, Surjection, IsInjective
  <1> HIDE DEF m, f
  <1>3. ExistsBijection(1 .. m, Listed(subscribers))
    BY <1>2 DEF ExistsBijection
  <1>4. Cardinality(Listed(subscribers)) = m
    BY <1>1, <1>3, FS_CountingElements
  <1> QED
    BY <1>4 DEF m

\* After a pass the table holds, once each, the devices that answered within
\* the timeout.
THEOREM TableHoldsTheLive == DirSpec => []SubscribersAreLive
  <1>1. SubInv => SubscribersAreLive
    <2> SUFFICES ASSUME SubInv PROVE SubscribersAreLive
      OBVIOUS
    <2>1. \A p \in Peers : p \in Listed(subscribers)
                <=> heardAge[p] # Nobody /\ heardAge[p] < SubTimeout + dirLag
      BY DEF SubInv, Live, Listed
    <2>2. Listed(subscribers) \subseteq Peers
      BY RowFields DEF SubInv, SubTypes, Listed
    <2>3. Listed(subscribers) =
              {p \in Peers : heardAge[p] # Nobody /\ heardAge[p] < SubTimeout + dirLag}
      BY <2>1, <2>2
    <2> QED
      BY <2>3, ListedOnce DEF SubscribersAreLive
  <1> QED
    BY <1>1, SubInitInv, SubNextInv, PTL DEF DirSpec

-----------------------------------------------------------------------------
(* The table of subscribers: its version *)

LEMMA SamePeers ==
    ASSUME NEW s, NEW t, DOMAIN t = DOMAIN s, \A i \in DOMAIN s : t[i].peer = s[i].peer
    PROVE  Listed(t) = Listed(s)
  BY DEF Listed

LEMMA KeepingAll ==
    ASSUME subscribers \in Seq(Rows), NEW c, c = Compacted(DOMAIN subscribers)
    PROVE  Listed(c) = Listed(subscribers)
  <1>1. PICK f \in [DOMAIN c -> DOMAIN subscribers] :
                /\ \A i \in DOMAIN c : c[i] = subscribers[f[i]]
                /\ \A k \in DOMAIN subscribers : \E i \in DOMAIN c : f[i] = k
    BY CompactedKeeps
  <1>2. ASSUME NEW p \in Listed(c)
        PROVE  p \in Listed(subscribers)
    BY <1>1 DEF Listed
  <1>3. ASSUME NEW p \in Listed(subscribers)
        PROVE  p \in Listed(c)
    <2>1. PICK k \in DOMAIN subscribers : p = subscribers[k].peer
      BY DEF Listed
    <2>2. PICK i \in DOMAIN c : f[i] = k
      BY <1>1
    <2> QED
      BY <1>1, <2>1, <2>2 DEF Listed
  <1> QED
    BY <1>2, <1>3

\* One step that changes who is listed says so.
LEMMA ChangeNext == SubInv /\ ChangeIsAnnounced /\ [DirNext]_dirVars => ChangeIsAnnounced'
  <1> SUFFICES ASSUME SubInv, ChangeIsAnnounced, [DirNext]_dirVars, ~subsChanged'
               PROVE  Listed(subscribers') = lastServed'
    BY DEF ChangeIsAnnounced
  <1>t. /\ subscribers \in Seq(Rows) /\ subsChanged \in BOOLEAN
        /\ ~subsChanged => Listed(subscribers) = lastServed
    BY DEF SubInv, SubTypes, ChangeIsAnnounced
  <1>1. CASE UNCHANGED <<subscribers, subsChanged, lastServed>>
    BY <1>1, <1>t
  <1>2. CASE ClearSubscribers /\ lastServed' = lastServed
    <2>1. ~subsChanged /\ subscribers = <<>> /\ subscribers' = <<>>
      BY <1>2 DEF ClearSubscribers
    <2> QED
      BY <1>2, <1>t, <2>1
  <1>3. ASSUME NEW p \in Peers, Subscribe(p), lastServed' = lastServed
        PROVE  Listed(subscribers') = lastServed'
    <2>1. CASE UNCHANGED dirTable
      BY <1>1, <1>3, <2>1 DEF dirTable
    <2>2. CASE ~UNCHANGED dirTable
      <3>1. /\ subscribers' = [i \in DOMAIN subscribers |->
                                 IF i \in IndexOf(p) THEN [peer |-> p, age |-> 0] ELSE subscribers[i]]
            /\ subsChanged' = subsChanged
        BY <1>3, <2>2 DEF Subscribe
      <3>2. /\ DOMAIN subscribers' = DOMAIN subscribers
            /\ \A i \in DOMAIN subscribers : subscribers'[i].peer = subscribers[i].peer
        BY <3>1 DEF IndexOf
      <3>3. Listed(subscribers') = Listed(subscribers)
        BY <3>2, SamePeers
      <3> QED
        BY <1>3, <1>t, <3>1, <3>3
    <2> QED
      BY <2>1, <2>2
  <1>4. ASSUME NEW p \in Peers, Unsubscribe(p), lastServed' = lastServed
        PROVE  Listed(subscribers') = lastServed'
    <2>1. ~subsChanged /\ IndexOf(p) = {}
      BY <1>4 DEF Unsubscribe
    <2>2. subscribers' = Compacted(DOMAIN subscribers)
      BY <1>4, <2>1 DEF Unsubscribe
    <2>3. Listed(subscribers') = Listed(subscribers)
      BY <1>t, <2>2, KeepingAll
    <2> QED
      BY <1>4, <1>t, <2>1, <2>3
  <1>5. ASSUME NEW queue, ReadPass(queue)
        PROVE  lastServed' = lastServed
    BY <1>5 DEF ReadPass
  <1>6. CASE DirBegin \/ WaitForBind \/ DirDiscover
    BY <1>1, <1>6 DEF DirBegin, WaitForBind, DirDiscover, DirElsewhere, dirTable
  <1>7. ASSUME NEW ok \in BOOLEAN, RetryBind(ok) \/ DirNetworkChange(ok)
        PROVE  Listed(subscribers') = lastServed'
    BY <1>1, <1>2, <1>7 DEF RetryBind, DirNetworkChange, DirElsewhere, dirTable
  <1>8. CASE ReadNothing \/ \E p \in Peers : ReadPoll(p)
    BY <1>1, <1>5, <1>8 DEF ReadNothing, ReadPoll, dirTable
  <1>9. ASSUME NEW p \in Peers, NEW matches \in BOOLEAN, ReadPollReply(p, matches)
        PROVE  Listed(subscribers') = lastServed'
    BY <1>3, <1>4, <1>5, <1>9 DEF ReadPollReply
  <1>10. CASE DirRest
    <2>1. subscribers' = subscribers /\ ~subsChanged /\ lastServed' = lastServed
      BY <1>10 DEF DirRest
    <2> QED
      BY <1>t, <2>1
  <1>11. ASSUME NEW input \in BOOLEAN, DirReconfigure(input)
         PROVE  Listed(subscribers') = lastServed'
    BY <1>2, <1>11 DEF DirReconfigure, DirElsewhere
  <1>11a. ASSUME NEW input \in BOOLEAN, DirStoreWithoutRestart(input)
          PROVE  Listed(subscribers') = lastServed'
    BY <1>1, <1>11a DEF DirStoreWithoutRestart, DirElsewhere, dirTable
  <1>12. CASE DirServe
    BY <1>12 DEF DirServe
  <1>13. CASE DirTick
    <2>1. /\ DOMAIN subscribers' = DOMAIN subscribers
          /\ \A i \in DOMAIN subscribers :
                subscribers'[i] = [subscribers[i] EXCEPT !.age = DirOlder(@, SubLimit)]
          /\ UNCHANGED <<subsChanged, lastServed>>
      BY <1>13 DEF DirTick
    <2>2. \A i \in DOMAIN subscribers : subscribers'[i].peer = subscribers[i].peer
      <3> SUFFICES ASSUME NEW i \in DOMAIN subscribers
                   PROVE  subscribers'[i].peer = subscribers[i].peer
        OBVIOUS
      <3>1. subscribers[i] \in Rows
        BY <1>t, RowFields
      <3>2. subscribers'[i] = [subscribers[i] EXCEPT !.age = DirOlder(@, SubLimit)]
        BY <2>1
      <3> QED
        BY <3>1, <3>2 DEF Rows
    <2>3. Listed(subscribers') = Listed(subscribers)
      BY <2>1, <2>2, SamePeers
    <2> QED
      BY <1>t, <2>1, <2>3
  <1>14. CASE UNCHANGED dirVars
    BY <1>1, <1>14 DEF dirVars, dirTable
  <1> QED
    BY <1>6, <1>7, <1>8, <1>9, <1>10, <1>11, <1>11a, <1>12, <1>13, <1>14 DEF DirNext, DirPass

\* No device comes or goes without a new version of the table.
THEOREM ComingAndGoingIsAnnounced == DirSpec => []ChangeIsAnnounced
  <1>1. DirInit => ChangeIsAnnounced
    <2> SUFFICES ASSUME DirInit PROVE Listed(subscribers) = lastServed
      BY DEF ChangeIsAnnounced
    <2> QED
      BY DEF DirInit, Listed
  <1> QED
    BY <1>1, ChangeNext, SubInitInv, SubNextInv, PTL DEF DirSpec

-----------------------------------------------------------------------------
(* The queue of delayed replies *)

Waits == 1 .. MaxReplies
Places == [to : Peers \cup {Nobody}, due : 0 .. ReplyDelay]

\* Nobody waits twice.
OneEach(queue) ==
    \A i, j \in Waits : queue[i].to = queue[j].to /\ i # j => queue[i].to = Nobody

ReplyTypes ==
    /\ replies \in [Waits -> Places] /\ OneEach(replies)
    /\ askedAge \in [Peers -> Nat \cup {Nobody}]
    /\ dirSocket \in BOOLEAN /\ dirPc \in {"loop", "read", "rest"} /\ dirLag \in 0 .. DirMaxLag
    /\ ~dirSocket => dirPc = "loop"

\* Those in the queue are the ones who asked.
AskersWait == \A p \in Peers : askedAge[p] # Nobody <=> \E i \in Waits : replies[i].to = p

\* While a delay runs, what has passed and what is left add up to at most the
\* largest one; afterwards the answer waits for the next time the socket is read.
Overrun == (IF dirPc = "rest" THEN 0 ELSE DirMaxLag) + dirLag

DelaysInTime == dirSocket => \A i \in Waits : replies[i].to # Nobody =>
    askedAge[replies[i].to] + replies[i].due
       <= ReplyDelay + (IF replies[i].due > 0 THEN 0 ELSE Overrun)

ReplyInv == ReplyTypes /\ AskersWait /\ DelaysInTime

LEMMA PlaceFields ==
    ASSUME NEW queue \in [Waits -> Places]
    PROVE  \A i \in Waits : /\ queue[i] \in Places /\ queue[i].due \in 0 .. ReplyDelay
                            /\ queue[i].to \in Peers \cup {Nobody}
  <1> SUFFICES ASSUME NEW i \in Waits
               PROVE  /\ queue[i] \in Places /\ queue[i].due \in 0 .. ReplyDelay
                      /\ queue[i].to \in Peers \cup {Nobody}
    OBVIOUS
  <1>1. queue[i] \in Places
    OBVIOUS
  <1> QED
    BY <1>1 DEF Places

LEMMA NoReplyFields ==
    NoReply \in Places /\ NoReply.to = Nobody /\ NoReply.due = 0
  BY SizesOfTime DEF NoReply, Places

\* A queue of which all is forgotten.
LEMMA ForgottenIsOK ==
    ASSUME replies' = NoReplies, askedAge' = NoTimes, dirSocket' \in BOOLEAN,
           dirPc' = "loop", dirLag' \in 0 .. DirMaxLag
    PROVE  ReplyInv'
  <1>1. \A i \in Waits : replies'[i] = NoReply
    BY DEF NoReplies, Waits
  <1>2. replies' \in [Waits -> Places]
    BY NoReplyFields DEF NoReplies, Waits
  <1>3. \A p \in Peers : askedAge'[p] = Nobody
    BY DEF NoTimes
  <1>4. ReplyTypes'
    BY <1>1, <1>2, NoReplyFields DEF ReplyTypes, OneEach, NoTimes
  <1>5. AskersWait'
    BY <1>1, <1>3, NoReplyFields, SizesOfTime DEF AskersWait
  <1>6. DelaysInTime'
    BY <1>1, NoReplyFields DEF DelaysInTime
  <1> QED
    BY <1>4, <1>5, <1>6 DEF ReplyInv

\* Steps that leave the queue alone.
LEMMA SameQueueIsOK ==
    ASSUME ReplyInv, UNCHANGED <<replies, askedAge>>,
           dirSocket' \in BOOLEAN, dirSocket' => dirSocket,
           dirPc' \in {"loop", "read", "rest"}, ~dirSocket' => dirPc' = "loop",
           dirLag' \in 0 .. DirMaxLag, dirSocket' => Overrun' \in Nat /\ Overrun' >= Overrun
    PROVE  ReplyInv'
  <1>1. ReplyTypes' /\ AskersWait'
    BY DEF ReplyInv, ReplyTypes, AskersWait
  <1>2. DelaysInTime'
    <2> SUFFICES ASSUME dirSocket', NEW i \in Waits, replies[i].to # Nobody
                 PROVE  askedAge[replies[i].to] + replies[i].due
                          <= ReplyDelay + (IF replies[i].due > 0 THEN 0 ELSE Overrun')
      BY DEF DelaysInTime
    <2>1. askedAge[replies[i].to] + replies[i].due
             <= ReplyDelay + (IF replies[i].due > 0 THEN 0 ELSE Overrun)
      BY DEF ReplyInv, DelaysInTime
    <2>2. replies[i].to \in Peers /\ replies[i].due \in 0 .. ReplyDelay
      BY PlaceFields DEF ReplyInv, ReplyTypes
    <2>3. askedAge[replies[i].to] \in Nat
      BY <2>2 DEF ReplyInv, ReplyTypes, AskersWait
    <2>4. Overrun \in Nat /\ Overrun' \in Nat /\ Overrun' >= Overrun
      <3>1. dirLag \in Nat /\ DirMaxLag \in Nat
        BY SizesOfTime DEF ReplyInv, ReplyTypes
      <3>2. Overrun \in Nat
        BY <3>1 DEF Overrun
      <3> QED
        BY <3>2
    <2> QED
      BY <2>1, <2>2, <2>3, <2>4, SizesOfTime
  <1> QED
    BY <1>1, <1>2 DEF ReplyInv

\* What reading the socket does to the queue: what is due is gone, a new
\* requester takes a free slot.
LEMMA AfterSending ==
    ASSUME ReplyInv
    PROVE  /\ SendDueReplies \in [Waits -> Places] /\ OneEach(SendDueReplies)
           /\ \A i \in Waits : SendDueReplies[i].to # Nobody =>
                 SendDueReplies[i] = replies[i] /\ replies[i].due > 0
  <1> DEFINE sent == SendDueReplies
  <1>t. replies \in [Waits -> Places] /\ OneEach(replies) /\ DOMAIN replies = Waits
    BY DEF ReplyInv, ReplyTypes
  <1>1. sent = [i \in Waits |-> IF replies[i].to # Nobody /\ replies[i].due = 0
                                THEN NoReply ELSE replies[i]]
    BY <1>t DEF SendDueReplies
  <1> HIDE DEF sent
  <1>2. ASSUME NEW i \in Waits
        PROVE  /\ sent[i] \in Places
               /\ sent[i].to # Nobody => sent[i] = replies[i] /\ replies[i].due > 0
    <2>1. replies[i] \in Places /\ replies[i].due \in 0 .. ReplyDelay
      BY <1>t, PlaceFields
    <2>2. sent[i] = IF replies[i].to # Nobody /\ replies[i].due = 0 THEN NoReply ELSE replies[i]
      BY <1>1
    <2> QED
      BY <2>1, <2>2, NoReplyFields
  <1>3. sent \in [Waits -> Places]
    BY <1>1, <1>2
  <1>4. OneEach(sent)
    BY <1>2, <1>t DEF OneEach
  <1> QED
    BY <1>2, <1>3, <1>4 DEF sent

LEMMA QueuedFields ==
    ASSUME NEW queue \in [Waits -> Places], OneEach(queue),
           NEW p \in Peers, NEW delay \in 0 .. ReplyDelay
    PROVE  /\ Queued(queue, p, delay) \in [Waits -> Places] /\ OneEach(Queued(queue, p, delay))
           /\ \A i \in Waits : Queued(queue, p, delay)[i] = queue[i]
                 \/ /\ Queued(queue, p, delay)[i] = [to |-> p, due |-> delay]
                    /\ \A j \in Waits : queue[j].to # p
  <1> DEFINE free == {i \in DOMAIN queue : queue[i].to = Nobody}
             first == CHOOSE i \in free : \A j \in free : i <= j
             new == [to |-> p, due |-> delay]
             after == Queued(queue, p, delay)
  <1>d. DOMAIN queue = Waits
    OBVIOUS
  <1>n. new \in Places /\ new.to = p /\ p # Nobody
    BY SizesOfTime DEF Places
  <1>1. CASE p \in Waiting(queue) \/ free = {}
    BY <1>1 DEF Queued
  <1>2. CASE ~(p \in Waiting(queue) \/ free = {})
    <2>1. first \in free
      <3>1. free \subseteq Nat /\ free # {}
        BY <1>2, <1>d DEF Waits
      <3> HIDE DEF free
      <3> QED
        BY <3>1, LeastNatural
    <2>2. after = [queue EXCEPT ![first] = new]
      BY <1>2 DEF Queued
    <2>3. first \in Waits
      BY <1>d, <2>1
    <2> HIDE DEF first, new, after
    <2>4. \A i \in Waits : after[i] = IF i = first THEN new ELSE queue[i]
      BY <1>d, <2>2
    <2>5. \A j \in Waits : queue[j].to # p
      BY <1>2, <1>d, <1>n DEF Waiting
    <2>6. after \in [Waits -> Places]
      BY <1>n, <2>2, <2>3
    <2>7. OneEach(after)
      BY <1>n, <2>4, <2>5 DEF OneEach
    <2>8. \A i \in Waits : after[i] = queue[i] \/ after[i] = new
      BY <2>4
    <2> QED
      BY <2>5, <2>6, <2>7, <2>8 DEF new, after
  <1> QED
    BY <1>1, <1>2

LEMMA ReadIsOK ==
    ASSUME ReplyInv, NEW queue \in [Waits -> Places], OneEach(queue), ReadPass(queue),
           \A i \in Waits : queue[i] = SendDueReplies[i]
               \/ \A j \in Waits : SendDueReplies[j].to # queue[i].to
    PROVE  ReplyInv'
  <1> DEFINE sent == SendDueReplies
  <1>t. /\ replies \in [Waits -> Places] /\ askedAge \in [Peers -> Nat \cup {Nobody}]
        /\ dirSocket \in BOOLEAN /\ dirLag \in 0 .. DirMaxLag
    BY DEF ReplyInv, ReplyTypes
  <1>s. /\ sent \in [Waits -> Places]
        /\ \A i \in Waits : sent[i].to # Nobody => sent[i] = replies[i] /\ replies[i].due > 0
    BY AfterSending
  <1>d. DOMAIN queue = Waits /\ DOMAIN sent = Waits
    BY <1>s
  <1>0. \A i \in Waits : queue[i] = sent[i] \/ \A j \in Waits : sent[j].to # queue[i].to
    OBVIOUS
  <1>1. /\ dirPc = "read" /\ dirPc' = "rest" /\ replies' = queue
        /\ askedAge' = AskedAfter(queue) /\ UNCHANGED <<dirSocket, dirLag>>
    BY DEF ReadPass
  <1>2. dirSocket
    BY <1>1 DEF ReplyInv, ReplyTypes
  <1>3. \A p \in Peers : askedAge'[p] = IF p \notin Waiting(queue) THEN Nobody
                                        ELSE IF p \notin Waiting(sent) THEN 0
                                        ELSE askedAge[p]
    BY <1>1 DEF AskedAfter
  <1>4. \A p \in Peers : /\ p \in Waiting(queue) <=> \E i \in Waits : queue[i].to = p
                         /\ p \in Waiting(sent) <=> \E i \in Waits : sent[i].to = p
    BY <1>d, SizesOfTime DEF Waiting
  <1> HIDE DEF sent
  <1>5. ASSUME NEW p \in Peers, p \in Waiting(sent)
        PROVE  askedAge[p] \in Nat
    <2>1. PICK i \in Waits : sent[i].to = p
      BY <1>4, <1>5
    <2>2. replies[i].to = p
      BY <1>s, <2>1, SizesOfTime
    <2> QED
      BY <1>t, <2>2 DEF ReplyInv, AskersWait
  <1>6. askedAge' \in [Peers -> Nat \cup {Nobody}]
    <2>1. ASSUME NEW p \in Peers PROVE askedAge'[p] \in Nat \cup {Nobody}
      BY <1>3, <1>5
    <2>2. askedAge' = [p \in Peers |-> askedAge'[p]]
      BY <1>1 DEF AskedAfter
    <2> QED
      BY <2>1, <2>2
  <1>7. ReplyTypes'
    BY <1>t, <1>1, <1>2, <1>6 DEF ReplyTypes
  <1>8. AskersWait'
    BY <1>1, <1>3, <1>4, <1>5, SizesOfTime DEF AskersWait
  <1>9. ASSUME NEW i \in Waits, queue[i].to # Nobody
        PROVE  askedAge'[queue[i].to] + queue[i].due
                  <= ReplyDelay + (IF queue[i].due > 0 THEN 0 ELSE Overrun')
    <2> DEFINE p == queue[i].to
    <2>1. p \in Peers /\ queue[i].due \in 0 .. ReplyDelay
      BY <1>9, PlaceFields
    <2>2. p \in Waiting(queue)
      BY <1>4, <2>1
    <2>3. Overrun' \in Nat
      BY <1>t, <1>1, SizesOfTime DEF Overrun
    <2>4. CASE queue[i] = sent[i]
      <3>1. queue[i] = replies[i] /\ replies[i].due > 0
        BY <1>9, <1>s, <2>4
      <3>2. askedAge'[p] = askedAge[p]
        BY <1>3, <1>4, <2>1, <2>2, <2>4
      <3>3. askedAge[p] + queue[i].due <= ReplyDelay + 0
        BY <1>2, <1>9, <3>1 DEF ReplyInv, DelaysInTime
      <3> QED
        BY <3>1, <3>2, <3>3
    <2>5. CASE \A j \in Waits : sent[j].to # queue[i].to
      <3>1. askedAge'[p] = 0
        BY <1>3, <1>4, <2>1, <2>2, <2>5
      <3> QED
        BY <2>1, <2>3, <3>1, SizesOfTime
    <2> QED
      BY <1>0, <2>4, <2>5
  <1>10. DelaysInTime'
    BY <1>1, <1>9 DEF DelaysInTime
  <1> QED
    BY <1>7, <1>8, <1>10 DEF ReplyInv

LEMMA TickQueueIsOK ==
    ASSUME ReplyInv, DirTick
    PROVE  ReplyInv'
  <1> DEFINE limit == ReplyDelay + 2 * DirMaxLag + 1
             Aged(a) == DirOlder(a, limit)
  <1>t. /\ replies \in [Waits -> Places] /\ askedAge \in [Peers -> Nat \cup {Nobody}]
        /\ dirSocket \in BOOLEAN /\ dirLag \in 0 .. DirMaxLag /\ DOMAIN replies = Waits
    BY DEF ReplyInv, ReplyTypes
  <1>1. /\ dirLag < DirMaxLag /\ dirLag' = dirLag + 1 /\ UNCHANGED <<dirSocket, dirPc>>
        /\ replies' = [i \in DOMAIN replies |-> [replies[i] EXCEPT !.due = Sooner(@)]]
        /\ askedAge' = [p \in Peers |-> Aged(askedAge[p])]
    BY DEF DirTick
  <1>2. Aged(Nobody) = Nobody
    BY DEF DirOlder
  <1>3. ASSUME NEW a \in Nat
        PROVE  Aged(a) \in Nat /\ Aged(a) <= a + 1
    BY <1>3, SizesOfTime DEF DirOlder
  <1> HIDE DEF Aged
  <1>4. ASSUME NEW i \in Waits
        PROVE  /\ replies'[i] \in Places /\ replies'[i].to = replies[i].to
               /\ replies[i].due > 0 => replies'[i].due = replies[i].due - 1
               /\ replies[i].due = 0 => replies'[i].due = 0
    <2>1. replies[i] \in Places /\ replies[i].due \in 0 .. ReplyDelay
      BY <1>t, PlaceFields
    <2> DEFINE n == Sooner(replies[i].due)
    <2>2. /\ n \in 0 .. ReplyDelay
          /\ replies[i].due > 0 => n = replies[i].due - 1
          /\ replies[i].due = 0 => n = 0
      BY <2>1, SizesOfTime DEF Sooner
    <2>3. replies'[i] = [replies[i] EXCEPT !.due = n]
      BY <1>1, <1>t
    <2> HIDE DEF n
    <2>4. replies'[i] \in Places /\ replies'[i].to = replies[i].to /\ replies'[i].due = n
      BY <2>1, <2>2, <2>3 DEF Places
    <2> QED
      BY <2>2, <2>4
  <1>5. replies' \in [Waits -> Places]
    <2>1. replies' = [i \in Waits |-> replies'[i]]
      BY <1>1, <1>t
    <2> QED
      BY <1>4, <2>1
  <1>6. ASSUME NEW p \in Peers
        PROVE  /\ askedAge'[p] = Aged(askedAge[p])
               /\ askedAge'[p] \in Nat \cup {Nobody}
               /\ askedAge'[p] = Nobody <=> askedAge[p] = Nobody
    BY <1>1, <1>2, <1>3, <1>t, SizesOfTime
  <1>7. askedAge' \in [Peers -> Nat \cup {Nobody}]
    BY <1>1, <1>6
  <1>8. ReplyTypes'
    <2>1. OneEach(replies')
      BY <1>4 DEF ReplyInv, ReplyTypes, OneEach
    <2>2. dirLag' \in 0 .. DirMaxLag
      BY <1>t, <1>1, SizesOfTime
    <2> QED
      BY <1>1, <1>5, <1>7, <2>1, <2>2 DEF ReplyInv, ReplyTypes
  <1>9. AskersWait'
    BY <1>4, <1>6 DEF ReplyInv, AskersWait
  <1>10. ASSUME dirSocket, NEW i \in Waits, replies[i].to # Nobody
         PROVE  askedAge'[replies[i].to] + replies'[i].due
                   <= ReplyDelay + (IF replies'[i].due > 0 THEN 0 ELSE Overrun')
    <2> DEFINE a == askedAge[replies[i].to]
               b == askedAge'[replies[i].to]
               d == replies[i].due
    <2>1. replies[i].to \in Peers /\ d \in 0 .. ReplyDelay
      BY <1>10, <1>t, PlaceFields
    <2>2. a \in Nat
      BY <1>t, <2>1 DEF ReplyInv, AskersWait
    <2>3. b \in Nat /\ b <= a + 1
      BY <1>3, <1>6, <2>1, <2>2
    <2>4. a + d <= ReplyDelay + (IF d > 0 THEN 0 ELSE Overrun)
      BY <1>10 DEF ReplyInv, DelaysInTime
    <2>5. Overrun \in Nat /\ Overrun' = Overrun + 1
      <3>1. dirLag \in Nat /\ DirMaxLag \in Nat /\ dirLag' = dirLag + 1 /\ dirPc' = dirPc
        BY <1>t, <1>1, SizesOfTime
      <3> QED
        BY ONLY <3>1 DEF Overrun
    <2> HIDE DEF a, b, d
    <2>6. /\ d > 0 => replies'[i].due = d - 1
          /\ d = 0 => replies'[i].due = 0
      BY <1>4 DEF d
    <2>7. b + replies'[i].due <= ReplyDelay + (IF replies'[i].due > 0 THEN 0 ELSE Overrun')
      BY <2>1, <2>2, <2>3, <2>4, <2>5, <2>6, SizesOfTime
    <2> QED
      BY <2>7 DEF b
  <1>11. DelaysInTime'
    BY <1>1, <1>4, <1>10 DEF DelaysInTime
  <1> QED
    BY <1>8, <1>9, <1>11 DEF ReplyInv

LEMMA ReplyInitInv == DirInit => ReplyInv
  <1> SUFFICES ASSUME DirInit PROVE ReplyInv
    OBVIOUS
  <1>1. /\ replies = NoReplies /\ askedAge = NoTimes /\ dirSocket = FALSE
        /\ dirPc = "loop" /\ dirLag = 0
    BY DEF DirInit
  <1>2. replies \in [Waits -> Places] /\ \A i \in Waits : replies[i] = NoReply
    BY <1>1, NoReplyFields DEF NoReplies, Waits
  <1>3. \A p \in Peers : askedAge[p] = Nobody
    BY <1>1 DEF NoTimes
  <1>4. 0 \in 0 .. DirMaxLag
    BY SizesOfTime
  <1>5. ReplyTypes
    BY <1>1, <1>2, <1>4, NoReplyFields DEF ReplyTypes, OneEach, NoTimes
  <1>6. AskersWait /\ DelaysInTime
    BY <1>1, <1>2, <1>3, NoReplyFields, SizesOfTime DEF AskersWait, DelaysInTime
  <1> QED
    BY <1>5, <1>6 DEF ReplyInv

LEMMA ReplyNextInv == ReplyInv /\ [DirNext]_dirVars => ReplyInv'
  <1> SUFFICES ASSUME ReplyInv, [DirNext]_dirVars PROVE ReplyInv'
    OBVIOUS
  <1>t. /\ dirLag \in 0 .. DirMaxLag /\ dirSocket \in BOOLEAN /\ 0 \in 0 .. DirMaxLag
        /\ dirPc \in {"loop", "read", "rest"} /\ (~dirSocket => dirPc = "loop")
    BY SizesOfTime DEF ReplyInv, ReplyTypes
  <1>0. Overrun \in Nat /\ Overrun >= Overrun
    BY <1>t, SizesOfTime DEF Overrun
  <1>1. CASE DirBegin
    <2>1. /\ UNCHANGED <<replies, askedAge, dirSocket, dirLag>> /\ dirSocket
          /\ dirPc = "loop" /\ dirPc' = "read"
      BY <1>1 DEF DirBegin, dirReplies
    <2>2. Overrun' = Overrun
      BY <2>1 DEF Overrun
    <2> QED
      BY <1>0, <1>t, <2>1, <2>2, SameQueueIsOK
  <1>2. ASSUME NEW ok \in BOOLEAN, Rebind(ok), dirPc' = "loop", dirLag' \in 0 .. DirMaxLag
        PROVE  ReplyInv'
    <2>1. CASE ok
      BY <1>2, <2>1, ForgottenIsOK DEF Rebind
    <2>2. CASE ~ok
      BY <1>2, <2>2, SameQueueIsOK DEF Rebind, dirReplies
    <2> QED
      BY <2>1, <2>2
  <1>3. ASSUME NEW ok \in BOOLEAN, RetryBind(ok) \/ DirNetworkChange(ok)
        PROVE  ReplyInv'
    <2>1. Rebind(ok) /\ dirPc' = "loop" /\ dirLag' \in 0 .. DirMaxLag
      BY <1>3, <1>t DEF RetryBind, DirNetworkChange, DirElsewhere
    <2> QED
      BY <1>2, <2>1
  <1>4. CASE WaitForBind
    BY <1>4, <1>t, SameQueueIsOK DEF WaitForBind, dirReplies
  <1>5. CASE ReadNothing \/ \E p \in Peers, matches \in BOOLEAN : ReadPollReply(p, matches)
    <2>1. ReadPass(SendDueReplies)
      BY <1>5 DEF ReadNothing, ReadPollReply
    <2> QED
      BY <2>1, AfterSending, ReadIsOK
  <1>6. ASSUME NEW p \in Peers, ReadPoll(p)
        PROVE  ReplyInv'
    <2>1. PICK delay \in 0 .. ReplyDelay : ReadPass(Queued(SendDueReplies, p, delay))
      BY <1>6 DEF ReadPoll
    <2> DEFINE sent == SendDueReplies
               queue == Queued(sent, p, delay)
    <2>2. sent \in [Waits -> Places] /\ OneEach(sent)
      BY AfterSending
    <2> HIDE DEF sent
    <2>3. /\ queue \in [Waits -> Places] /\ OneEach(queue)
          /\ \A i \in Waits : queue[i] = sent[i]
                \/ (queue[i] = [to |-> p, due |-> delay] /\ \A j \in Waits : sent[j].to # p)
      BY <2>2, QueuedFields
    <2>4. ReadPass(queue)
      BY <2>1 DEF sent
    <2> HIDE DEF queue
    <2>5. \A i \in Waits : queue[i] = sent[i] \/ \A j \in Waits : sent[j].to # queue[i].to
      BY <2>3
    <2> QED
      BY <2>3, <2>4, <2>5, ReadIsOK DEF sent
  <1>7. CASE DirRest
    <2>1. /\ UNCHANGED <<replies, askedAge, dirSocket>> /\ dirLag' = 0
          /\ dirPc = "rest" /\ dirPc' = "loop"
      BY <1>7 DEF DirRest, dirReplies
    <2>2. Overrun = 0 + dirLag /\ Overrun' = DirMaxLag + 0
      BY <2>1 DEF Overrun
    <2>3. Overrun' \in Nat /\ Overrun' >= Overrun
      BY <1>t, <2>2, SizesOfTime
    <2> QED
      BY <1>t, <2>1, <2>3, SameQueueIsOK
  <1>8. CASE UNCHANGED <<dirReplies, dirSocket, dirPc, dirLag>>
    <2>1. Overrun' = Overrun
      BY <1>8 DEF Overrun
    <2> QED
      BY <1>0, <1>8, <1>t, <2>1, SameQueueIsOK DEF dirReplies
  <1>9. CASE \/ DirDiscover \/ DirServe
             \/ \E input \in BOOLEAN : DirReconfigure(input) \/ DirStoreWithoutRestart(input)
    BY <1>8, <1>9
    DEF DirDiscover, DirServe, DirReconfigure, DirStoreWithoutRestart, DirElsewhere
  <1>10. CASE DirTick
    BY <1>10, TickQueueIsOK
  <1>11. CASE UNCHANGED dirVars
    BY <1>8, <1>11 DEF dirVars
  <1> QED
    BY <1>1, <1>3, <1>4, <1>5, <1>6, <1>7, <1>9, <1>10, <1>11 DEF DirNext, DirPass

\* A poll that found room in the queue is answered in time, and once.
THEOREM PollsAnsweredInTime == DirSpec => []PollsAreAnswered
  <1>1. ReplyInv => PollsAreAnswered
    <2> SUFFICES ASSUME ReplyInv PROVE PollsAreAnswered
      OBVIOUS
    <2>1. DOMAIN replies = Waits /\ OneEach(replies)
      BY DEF ReplyInv, ReplyTypes
    <2>2. ASSUME dirSocket, NEW p \in Peers, askedAge[p] # Nobody
          PROVE  askedAge[p] <= ReplyDelay + 2 * DirMaxLag
      <3>1. PICK i \in Waits : replies[i].to = p
        BY <2>2 DEF ReplyInv, AskersWait
      <3>2. askedAge[p] \in Nat /\ replies[i].due \in 0 .. ReplyDelay
        BY <2>2, PlaceFields DEF ReplyInv, ReplyTypes
      <3>3. askedAge[p] + replies[i].due
               <= ReplyDelay + (IF replies[i].due > 0 THEN 0 ELSE Overrun)
        BY <2>2, <3>1, SizesOfTime DEF ReplyInv, DelaysInTime
      <3>4. Overrun \in Nat /\ Overrun <= 2 * DirMaxLag
        BY SizesOfTime DEF ReplyInv, ReplyTypes, Overrun
      <3> QED
        BY <3>2, <3>3, <3>4, SizesOfTime
    <2> QED
      BY <2>1, <2>2 DEF PollsAreAnswered, OneEach
  <1> QED
    BY <1>1, ReplyInitInv, ReplyNextInv, PTL DEF DirSpec

-----------------------------------------------------------------------------
(* The directory: types *)

\* A pass that reads the clock late has not lasted longer than the lag says.
PassTypes ==
    /\ dirInput \in BOOLEAN
    /\ bindWait \in 0 .. BindRetry
    /\ pollAge \in 0 .. PollInterval
    /\ discovery \in 0 .. DiscoveryTime \cup {Nobody}
    /\ passLag \in 0 .. DirMaxLag
    /\ dirLag \in 0 .. DirMaxLag
    /\ dirPc = "loop" \/ passLag <= dirLag

LEMMA Moments ==
    /\ 0 \in 0 .. BindRetry /\ BindRetry \in 0 .. BindRetry /\ BindRetry \in Nat
    /\ 0 \in 0 .. PollInterval /\ PollInterval \in 0 .. PollInterval /\ PollInterval \in Nat
    /\ 0 \in 0 .. DiscoveryTime /\ DiscoveryTime \in Nat
    /\ 0 \in 0 .. DirMaxLag /\ DirMaxLag \in Nat /\ Nobody \notin Nat
  BY DirectorySizes

LEMMA OlderByOne ==
    ASSUME NEW limit \in Nat
    PROVE  /\ \A a \in 0 .. limit : DirOlder(a, limit) \in 0 .. limit
           /\ \A a \in 0 .. limit \cup {Nobody} : DirOlder(a, limit) \in 0 .. limit \cup {Nobody}
           /\ \A w \in 0 .. limit : Sooner(w) \in 0 .. limit
  BY DirectorySizes DEF DirOlder, Sooner

LEMMA PassNext ==
    ASSUME PassTypes, [DirNext]_dirVars
    PROVE  PassTypes'
  <1>t. /\ dirInput \in BOOLEAN /\ bindWait \in 0 .. BindRetry /\ pollAge \in 0 .. PollInterval
        /\ discovery \in 0 .. DiscoveryTime \cup {Nobody}
        /\ passLag \in 0 .. DirMaxLag /\ dirLag \in 0 .. DirMaxLag
    BY DEF PassTypes
  <1>s. StartDiscovery => /\ pollAge' \in 0 .. PollInterval
                          /\ discovery' \in 0 .. DiscoveryTime \cup {Nobody}
    BY <1>t, Moments DEF StartDiscovery
  <1>r. ASSUME NEW ok, Rebind(ok)
        PROVE  bindWait' \in 0 .. BindRetry
    BY <1>r, Moments DEF Rebind
  <1>1. CASE DirBegin
    BY <1>1, <1>t, Moments DEF DirBegin, PassTypes
  <1>2. ASSUME NEW ok \in BOOLEAN, RetryBind(ok)
        PROVE  PassTypes'
    <2>1. pollAge' \in 0 .. PollInterval /\ discovery' \in 0 .. DiscoveryTime \cup {Nobody}
      BY <1>2, <1>s, <1>t DEF RetryBind, AfterRebind
    <2>2. /\ dirInput' = dirInput /\ passLag' = passLag /\ dirLag' = 0 /\ dirPc' = "loop"
          /\ bindWait' \in 0 .. BindRetry
      BY <1>2, <1>r DEF RetryBind
    <2> QED
      BY <1>t, <2>1, <2>2, Moments DEF PassTypes
  <1>3. CASE WaitForBind
    BY <1>3, <1>t, Moments DEF WaitForBind, PassTypes
  <1>4. ASSUME NEW queue, ReadPass(queue)
        PROVE  PassTypes'
    BY <1>4, <1>t DEF ReadPass, PassTypes
  <1>5. CASE DirRest
    <2>1. pollAge' \in 0 .. PollInterval
      BY <1>5, <1>t, Moments DEF DirRest
    <2>2. discovery' \in 0 .. DiscoveryTime \cup {Nobody}
      BY <1>5, <1>t DEF DirRest
    <2>3. UNCHANGED <<dirInput, bindWait, passLag>> /\ dirPc' = "loop" /\ dirLag' = 0
      BY <1>5 DEF DirRest
    <2> QED
      BY <1>t, <2>1, <2>2, <2>3, Moments DEF PassTypes
  <1>6. ASSUME NEW ok \in BOOLEAN, DirNetworkChange(ok)
        PROVE  PassTypes'
    <2>1. pollAge' \in 0 .. PollInterval /\ discovery' \in 0 .. DiscoveryTime \cup {Nobody}
      BY <1>6, <1>t, Moments DEF DirNetworkChange
    <2>2. UNCHANGED <<dirInput, passLag, dirLag>> /\ dirPc' = "loop" /\ bindWait' \in 0 .. BindRetry
      BY <1>6, <1>r DEF DirNetworkChange, DirElsewhere
    <2> QED
      BY <1>t, <2>1, <2>2 DEF PassTypes
  <1>7. ASSUME NEW input \in BOOLEAN, DirReconfigure(input)
        PROVE  PassTypes'
    <2>1. pollAge' \in 0 .. PollInterval /\ discovery' \in 0 .. DiscoveryTime \cup {Nobody}
      BY <1>7, <1>t, Moments DEF DirReconfigure
    <2>2. dirInput' \in BOOLEAN
      BY <1>7 DEF DirReconfigure
    <2>3. UNCHANGED <<bindWait, passLag, dirLag>> /\ dirPc' = "loop"
      BY <1>7 DEF DirReconfigure, DirElsewhere
    <2> QED
      BY <1>t, <2>1, <2>2, <2>3 DEF PassTypes
  <1>8. CASE DirDiscover
    BY <1>8, <1>s, <1>t DEF DirDiscover, DirElsewhere, PassTypes
  <1>9. CASE DirServe
    BY <1>9, <1>t DEF DirServe, PassTypes
  <1>10. CASE DirTick
    <2>1. /\ bindWait' \in 0 .. BindRetry /\ pollAge' \in 0 .. PollInterval
          /\ discovery' \in 0 .. DiscoveryTime \cup {Nobody}
      BY <1>10, <1>t, Moments, OlderByOne DEF DirTick
    <2>2. /\ dirInput' = dirInput /\ dirPc' = dirPc /\ dirLag < DirMaxLag /\ dirLag' = dirLag + 1
          /\ passLag' = IF dirPc = "loop" THEN 0 ELSE passLag + 1
      BY <1>10 DEF DirTick
    <2> QED
      BY <1>t, <2>1, <2>2, Moments DEF PassTypes
  <1>11. CASE UNCHANGED dirVars
    BY <1>11, <1>t DEF dirVars, PassTypes
  <1>12. ASSUME NEW input \in BOOLEAN, DirStoreWithoutRestart(input)
         PROVE  PassTypes'
    BY <1>12, <1>t DEF DirStoreWithoutRestart, DirElsewhere, PassTypes
  <1> QED
    BY <1>1, <1>2, <1>3, <1>4, <1>5, <1>6, <1>7, <1>8, <1>9, <1>10, <1>11, <1>12
    DEF DirNext, DirPass, ReadNothing, ReadPoll, ReadPollReply

\* Types of the directory: the table of subscribers and the queue of replies
\* stay within their sizes, and no timer runs past its end.
THEOREM DirectoryTypes == DirSpec => []DirTypeOK
  <1>1. DirInit => PassTypes
    BY Moments DEF DirInit, PassTypes
  <1>2. PassTypes /\ [DirNext]_dirVars => PassTypes'
    BY PassNext
  <1>3. SubInv /\ ReplyInv /\ PassTypes => DirTypeOK
    BY DEF SubInv, SubTypes, Rows, ReplyInv, ReplyTypes, Waits, Places, PassTypes, DirTypeOK
  <1> QED
    BY <1>1, <1>2, <1>3, SubInitInv, SubNextInv, ReplyInitInv, ReplyNextInv, PTL DEF DirSpec

=============================================================================
