--------------------------- MODULE MCSacnHistory ----------------------------
(***************************************************************************)
(* SacnHistory for TLC.  Senders are interchangeable model values: no      *)
(* action or property names one, and CHOOSE only picks slots.              *)
(***************************************************************************)
EXTENDS SacnHistory, TLC

CidSymmetry == Permutations(Cids)

\* Only a source in the table and the one on the output have a past that is
\* asked for again; of all others it is when they are next heard of.
Remembered(c) ==
    \/ output.kind = "live" /\ output.cid = c
    \/ \E i \in ActiveSlots(sources) : sources[i].cid = c

\* Sequence numbers are only compared with others of the same sender: what
\* counts is how far each is from that in the sender's first slot.
FromFirst(c, sequence) ==
    LET held == {i \in ActiveSlots(sources) : sources[i].cid = c}
        first == CHOOSE i \in held : \A j \in held : i <= j
    IN  IF held = {} THEN 0 ELSE (sequence - sources[first].sequence) % SeqMod

\* What a state is told apart by.  Without its protocol the receiver does the
\* same in either direction until a configuration names both anew; the time
\* of the output is only read while it is active, and silence while somebody
\* watches.
HistoryInView ==
    <<[i \in Slots |-> [sources[i] EXCEPT !.sequence = FromFirst(sources[i].cid, @)]],
      [output EXCEPT !.sequence = FromFirst(output.cid, @)],
      sacnActive, failsafe, socketReady, now, lag, processed, ranked, watching,
      IF sacnActive THEN lastPacket ELSE 0,
      IF protocol = "sacn" THEN <<direction, unapplied>> ELSE <<>>,
      [c \in Cids |-> IF Remembered(c) THEN heard[c] ELSE LossBound],
      IF watching THEN silence ELSE LossBound>>
=============================================================================
