--------------------------- MODULE ArtDmxHistory ---------------------------
(***************************************************************************)
(* ArtDmxOutput.tla with one history variable, which no action reads: a    *)
(* frame held for ArtSync was dropped because the network changed, and     *)
(* nothing has changed the merge since.                                    *)
(***************************************************************************)
EXTENDS ArtDmxOutput

VARIABLE dropped

historyVars == <<vars, dropped>>

\* What a buffer contributes to the output.
Content(m) == [i \in Slots |-> <<m[i].sender, m[i].level>>]

Dropped ==
    \/ syncPending /\ NetworkChange
    \/ dropped /\ Content(merge') = Content(merge) /\ lastMerge' = lastMerge

HistoryInit == Init /\ dropped = FALSE

HistoryNext == Next /\ dropped' = Dropped

HistorySpec == HistoryInit /\ [][HistoryNext]_historyVars

-----------------------------------------------------------------------------
\* applyMergedOutputFrame() runs in every place that changes a buffer, the
\* mode or the sync window: unless a frame is held for ArtSync, or was
\* dropped with its window when the network changed, the DMX frame is the
\* merge of the sources that are left.  This needs every stored configuration
\* to be applied: one that is not hands the frame to sACN, or changes the
\* merge mode, while Art-Net still has sources.
OutputShowsMerge ==
    Live(merge) # {} /\ ~syncPending /\ ~dropped /\ ~unapplied
        => output = Merged(merge, lastMerge, mergeMode, output)

\* MANUAL.md: "Any pending frame is applied when leaving sync mode".
PendingFrameIsApplied ==
    [][syncPending /\ ~syncActive' /\ artnetActive'
         => output' = Merged(merge', lastMerge', mergeMode', output)]_historyVars

\* MANUAL.md: "AcCancelMerge clears the current merge on the next ArtDmx
\* packet; the sender of that packet takes control".
NextSenderTakesControl ==
    [][\A s \in Senders : cancelPending => ~ArtDmxLockedOut(s)]_historyVars
=============================================================================
