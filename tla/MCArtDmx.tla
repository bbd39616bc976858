------------------------------ MODULE MCArtDmx ------------------------------
(* The view of the run over the ArtDmx output.                             *)
EXTENDS ArtDmxHistory

\* Senders are only compared: what counts is which of the two buffers and the
\* lock have none, and which of them have the same one.
SendersInView ==
    <<lock = NoSender, merge[0].sender = merge[1].sender,
      [i \in Slots |-> merge[i].sender = NoSender],
      [i \in Slots |-> merge[i].sender = lock]>>

\* What a state is told apart by: the age of the last packet is only read
\* while the output is active.
OutputInView ==
    <<SendersInView, [i \in Slots |-> <<merge[i].level, merge[i].age>>],
      lastMerge, cancelPending, syncState, artnetActive, failsafe, output,
      IF artnetActive THEN packetAge ELSE 0,
      config, socketReady, phase, lag, dropped>>
=============================================================================
