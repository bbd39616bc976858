---------------------------- MODULE SacnHistory -----------------------------
(***************************************************************************)
(* SacnReceiver observed from the network: what each sender last did and   *)
(* how long ago, counted in real ticks and not in the receiver's clock.    *)
(* The history variables constrain nothing; they let a property compare    *)
(* the output with the senders rather than with the receiver's own table.  *)
(***************************************************************************)
EXTENDS SacnReceiver

VARIABLES
    heard,      \* ticks since a data packet of this sender was accepted,
    silence,    \* and of any sender; both stop at LossBound
    ranked,     \* priority it had; NotRanked once it timed out, terminated or
                \* was forgotten in a reset
    watching    \* data was accepted and nothing reconfigured since

hvars == <<vars, heard, silence, ranked, watching>>

NotRanked == -1

\* Two timeouts, one for a source that outlives the frame it sent last and
\* one for the output, which is found up to a loop late.
LossBound == 2 * Timeout + MaxGap

\* The clock does not wrap between two ends of updateSacn(): 2^32 ms are 49
\* days, the timeout is seconds.
ASSUME WrapAssumption == Timeout + MaxGap < ClockMod

Later(n) == IF n < LossBound THEN n + 1 ELSE n

HistoryInit ==
    /\ Init
    /\ heard = [c \in Cids |-> LossBound]
    /\ silence = LossBound
    /\ ranked = [c \in Cids |-> NotRanked]
    /\ watching = FALSE

Observe ==
    \/ \E p \in Packets :
          /\ DataPacket(p)
          /\ heard' = [heard EXCEPT ![p.cid] = 0]
          /\ silence' = 0
          /\ ranked' = [ranked EXCEPT ![p.cid] = p.priority]
          /\ watching' = TRUE
    \/ \E p \in Packets :
          /\ TerminationPacket(p)
          /\ ranked' = [ranked EXCEPT ![p.cid] = NotRanked]
          /\ UNCHANGED <<heard, silence, watching>>
    \/ /\ NetworkChange \/ ApplyRuntimeConfig
       /\ heard' = [c \in Cids |-> LossBound]
       /\ silence' = LossBound
       /\ ranked' = [c \in Cids |-> NotRanked]
       /\ watching' = FALSE
    \/ /\ ArtAddressDirection \/ StoreWithoutRestart
       /\ watching' = FALSE
       /\ UNCHANGED <<heard, silence, ranked>>
    \/ /\ Tick
       /\ heard' = [c \in Cids |-> Later(heard[c])]
       /\ silence' = Later(silence)
       /\ ranked' = [c \in Cids |-> IF heard'[c] >= Timeout THEN NotRanked
                                                            ELSE ranked[c]]
       /\ UNCHANGED watching
    \/ /\ \/ IgnorePacket
          \/ \E p \in Packets : ReplayedPacket(p)
          \/ LoopFailover
          \/ LoopFailsafe
          \/ LoopIdle
          \/ BindRetry
          \/ WebStatusPoll
          \/ ForeignFrame
       /\ UNCHANGED <<heard, silence, ranked, watching>>

HistorySpec == HistoryInit /\ [][Observe]_hvars

\* The loop keeps running and the clock keeps counting; configuration stays
\* as it is, senders and the network do what they like.
ConfiguredOnceSpec ==
    /\ HistoryInit
    /\ [][Observe /\ UNCHANGED config]_hvars
    /\ WF_hvars(Observe /\ UNCHANGED config /\ lag' # lag)

\* A sender the receiver has no excuse to have forgotten.
Live(c) == ranked[c] # NotRanked

-----------------------------------------------------------------------------
(* Properties *)

\* When all senders fall silent (or terminate) and nobody reconfigures the
\* node, the failsafe is entered within LossBound, although updateSacn()
\* counts the output timeout from the last *application* of a frame and
\* re-applies a remaining source each time another one expires.
LossReachesFailsafe ==
    watching /\ silence >= LossBound => failsafe

\* The failsafe never covers the data of a sender that is still live.
FailsafeNeverCoversLive ==
    failsafe => \A c \in Cids : ~Live(c)

\* "Uses packet priority to ignore lower-priority sources while a
\* higher-priority source is active" (MANUAL): a frame put on the output is
\* never that of a sender all of whose tracked packets are outranked by
\* another live sender.
Outranks(d, c) ==
    \A i \in ActiveSlots(sources) :
        sources[i].cid = c => ranked[d] > sources[i].priority

HigherPriorityShields ==
    [][output'.kind = "live" /\ output' # output
         => \A d \in Cids : ~(Live(d) /\ Outranks(d, output.cid))']_hvars

\* While any source is tracked, the frame on the output is not older than
\* LossBound: the last frame of a sender that died is replaced by that of
\* another source, whoever expired the dead one - updateSacn() itself, the
\* packet handler or the web page, which tell nobody.  The last two can cost
\* a whole output timeout, counted from when that frame was applied.
DeadSourceIsReplaced ==
    ActiveSlots(sources) # {} /\ output.kind = "live"
        => heard[output.cid] < LossBound

\* "Applies the configured output failsafe after approximately five seconds
\* without valid sACN data" (MANUAL): live data on the output is always
\* followed by more data or by the failsafe.
DataLossIsAnswered ==
    output.kind = "live"
        ~> failsafe \/ output.kind # "live" \/ silence = 0
=============================================================================
