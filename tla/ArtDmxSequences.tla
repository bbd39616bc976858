--------------------------- MODULE ArtDmxSequences ---------------------------
(***************************************************************************)
(* The table that tells an ArtDmx packet that is late, or a copy, from the *)
(* next one (acceptArtDmxSequence(), artnet.cpp).  Every sender, an IP     *)
(* address and a physical port, counts its packets; 0 means that it does   *)
(* not count.  Sequence numbers are taken modulo SeqSize, ages in ticks.   *)
(***************************************************************************)
EXTENDS Naturals, FiniteSets

CONSTANTS
    SeqSenders,     \* IP addresses and physical ports
    SeqSlots,       \* MAX_ARTDMX_SEQUENCE_SOURCES
    SeqSize,        \* 2^8
    SeqTimeout,     \* ARTDMX_SEQUENCE_TIMEOUT_MS
    NoSender        \* a free slot; nothing heard

ASSUME SequenceSizes ==
    /\ SeqSlots \in Nat \ {0} /\ SeqTimeout \in Nat
    /\ SeqSize \in Nat /\ SeqSize >= 4 /\ SeqSize % 2 = 0
    /\ NoSender \notin SeqSenders

VARIABLES
    sequences,      \* artDmxSequences: slot -> [sender, seq, age]
    lastAccepted,   \* history: sender -> the last number accepted and its age
    incoming,       \* history: the last packet, what is known of it, the verdict
    forgotten       \* history: a slot was given up, or taken from a live sender

seqVars == <<sequences, lastAccepted, incoming, forgotten>>

Slots == 1 .. SeqSlots
FreeSlot == [sender |-> NoSender, seq |-> 0, age |-> 0]
NotHeard == [seq |-> 0, age |-> 0]
NoPacketYet == [kind |-> "none", accepted |-> TRUE]

SeqInit ==
    /\ sequences = [i \in Slots |-> FreeSlot]
    /\ lastAccepted = [s \in SeqSenders |-> NotHeard]
    /\ incoming = NoPacketYet
    /\ forgotten = FALSE

-----------------------------------------------------------------------------

\* Variant: a number that is larger is newer.
Larger(seq, than) == seq > than

\* Variant: any other number is newer.
Different(seq, than) == seq # than

\* Unsigned difference of two numbers: 1 .. SeqSize \div 2 - 1 is newer.
Newer(seq, than) == (seq + SeqSize - than) % SeqSize \in 1 .. SeqSize \div 2 - 1

FirstOf(S) == CHOOSE i \in S : \A j \in S : i <= j
LatestOf(S) == CHOOSE i \in S : \A j \in S : i >= j

\* getArtDmxSequenceSlot(): the scan ends at the sender's slot or at a free
\* one, whichever comes first; else it is the last of the oldest.
SlotOf(s) ==
    LET ends == {i \in Slots : sequences[i].sender \in {s, NoSender}}
        oldest == {i \in Slots : \A j \in Slots : sequences[j].age <= sequences[i].age}
    IN IF ends # {} THEN FirstOf(ends) ELSE LatestOf(oldest)

\* History: what the packet is from the sender's point of view, who sends at
\* most half the numbers in a timeout.
Kind(s, seq) ==
    LET last == lastAccepted[s]
        following == {(last.seq + n) % SeqSize : n \in 1 .. SeqSize \div 2 - 1}
    IN IF last = NotHeard \/ last.age > SeqTimeout THEN "first"
       ELSE IF seq \in following THEN "next" ELSE "late"

\* acceptArtDmxSequence() for a sender that does not count: it loses its slot.
AcceptUncounted(s) ==
    LET own == {i \in Slots : sequences[i].sender = s}
    IN /\ sequences' = IF own = {} THEN sequences
                       ELSE [sequences EXCEPT ![FirstOf(own)] = FreeSlot]
       /\ lastAccepted' = [lastAccepted EXCEPT ![s] = NotHeard]
       /\ incoming' = [kind |-> "uncounted", accepted |-> TRUE]
       /\ forgotten' = (forgotten \/ own # {})

\* acceptArtDmxSequence() for one that does.
AcceptCounted(s, seq) ==
    LET i == SlotOf(s)
        late == /\ sequences[i].sender = s
                /\ sequences[i].age <= SeqTimeout
                /\ ~Newer(seq, sequences[i].seq)
    IN /\ incoming' = [kind |-> Kind(s, seq), accepted |-> ~late]
       /\ IF late
          THEN UNCHANGED <<sequences, lastAccepted, forgotten>>
          ELSE /\ sequences' = [sequences EXCEPT ![i] = [sender |-> s, seq |-> seq, age |-> 0]]
               /\ lastAccepted' = [lastAccepted EXCEPT ![s] = [seq |-> seq, age |-> 0]]
               /\ forgotten' = (forgotten \/ (sequences[i].sender \notin {s, NoSender}
                                               /\ sequences[i].age <= SeqTimeout))

\* clearArtDmxSequences(), on any change of network or configuration.
ClearArtDmxSequences ==
    /\ sequences' = [i \in Slots |-> FreeSlot]
    /\ lastAccepted' = [s \in SeqSenders |-> NotHeard]
    /\ incoming' = NoPacketYet
    /\ forgotten' = FALSE

SeqTick ==
    /\ sequences' = [i \in Slots |->
          IF sequences[i].sender = NoSender \/ sequences[i].age > SeqTimeout THEN sequences[i]
          ELSE [sequences[i] EXCEPT !.age = @ + 1]]
    /\ lastAccepted' = [s \in SeqSenders |->
          IF lastAccepted[s] = NotHeard \/ lastAccepted[s].age > SeqTimeout THEN lastAccepted[s]
          ELSE [lastAccepted[s] EXCEPT !.age = @ + 1]]
    /\ incoming' = NoPacketYet
    /\ UNCHANGED forgotten

SeqNext ==
    \/ \E s \in SeqSenders : AcceptUncounted(s) \/ (\E q \in 1 .. SeqSize - 1 : AcceptCounted(s, q))
    \/ ClearArtDmxSequences
    \/ SeqTick

SeqSpec == SeqInit /\ [][SeqNext]_seqVars

-----------------------------------------------------------------------------
(* Properties. *)

\* Types.
SeqTypeOK ==
    /\ sequences \in [Slots -> [sender : SeqSenders \cup {NoSender},
                                seq : 0 .. SeqSize - 1, age : 0 .. SeqTimeout + 1]]
    /\ lastAccepted \in [SeqSenders -> [seq : 0 .. SeqSize - 1, age : 0 .. SeqTimeout + 1]]

\* The next packet of a sender is never taken for an old one: not after the
\* number wraps, nor when a free slot stands before the sender's own and it
\* has two, nor when senders push each other out of the table.
FreshIsAccepted == incoming.kind = "next" => incoming.accepted

\* A late packet, or a copy, is dropped within the timeout of the last one, as
\* long as no sender stopped counting and none was pushed out.
ReplayIsDropped == (incoming.kind = "late" /\ ~forgotten) => ~incoming.accepted

=============================================================================
