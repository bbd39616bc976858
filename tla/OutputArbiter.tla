---------------------------- MODULE OutputArbiter ----------------------------
(***************************************************************************)
(* What a receiver, sACN or Art-Net, promises of the shared DMX frame: it  *)
(* shows its senders while it has any, the failsafe once they went silent  *)
(* and until one of them is back, and leaves the frame to others only when *)
(* the configuration gives it to them.  A configuration that is stored but *)
(* not applied voids the last two until the next one is applied: both      *)
(* receivers may then hold senders, and each covers the other's frame.     *)
(* That silence is noticed in time is not promised here.                   *)
(***************************************************************************)
CONSTANTS
    SenderFrames,   \* what the receiver makes of its senders' data
    FailsafeFrame,  \* what the configured failsafe mode shows
    OtherFrames     \* written by the other receiver or the DMX input

VARIABLES
    live,           \* the receiver follows at least one sender
    failsafe,       \* it shows the failsafe
    frame,          \* the shared DMX frame
    mayDrive,       \* protocol and direction give the frame to this receiver
    unapplied       \* they changed in a configuration that was not applied

vars == <<live, failsafe, frame, mayDrive, unapplied>>

Init ==
    /\ live = FALSE /\ failsafe = FALSE
    /\ frame \in OtherFrames
    /\ mayDrive \in BOOLEAN
    /\ unapplied = FALSE

\* Data of a sender, or what is left when one of several went away.  The frame
\* may stay, when data is held back.
Follow ==
    /\ mayDrive \/ live
    /\ live' = TRUE /\ failsafe' = FALSE
    /\ frame' \in SenderFrames \cup {frame}
    /\ UNCHANGED <<mayDrive, unapplied>>

\* The last sender went silent; with failsafe mode "hold" the frame stays.
FallSilent ==
    /\ live /\ live' = FALSE
    /\ mayDrive \/ unapplied
    /\ failsafe' = TRUE
    /\ frame' \in {FailsafeFrame, frame}
    /\ UNCHANGED <<mayDrive, unapplied>>

\* The same with the failsafe refused; data held back may be shown before.
FallSilentUnnoticed ==
    /\ live /\ live' = FALSE
    /\ ~mayDrive \/ unapplied
    /\ frame' = frame \/ (unapplied /\ frame' \in SenderFrames)
    /\ UNCHANGED <<failsafe, mayDrive, unapplied>>

\* A new failsafe mode while the failsafe is shown.
ChangeFailsafe ==
    /\ failsafe /\ (mayDrive \/ unapplied)
    /\ frame' \in {FailsafeFrame, frame}
    /\ UNCHANGED <<live, failsafe, mayDrive, unapplied>>

\* A new configuration or network: the senders are forgotten and the failsafe
\* is over, the frame stays.  A new failsafe mode or a new way to merge is
\* applied before that.
Reset ==
    /\ live' = FALSE /\ failsafe' = FALSE
    /\ \/ frame' = frame
       \/ live /\ frame' \in SenderFrames
       \/ failsafe /\ frame' = FailsafeFrame
    /\ mayDrive' \in BOOLEAN
    /\ unapplied' = unapplied \/ unapplied' = FALSE

\* The configuration changes behind the receiver's back: a direction that
\* only the other receiver is told of, or a configuration stored unapplied.
Redirect ==
    /\ mayDrive' \in BOOLEAN
    /\ unapplied' = unapplied \/ unapplied' = TRUE
    /\ UNCHANGED <<live, failsafe, frame>>

\* Others write the frame.
Yield ==
    /\ ~mayDrive \/ unapplied
    /\ frame' \in OtherFrames
    /\ UNCHANGED <<live, failsafe, mayDrive, unapplied>>

Next ==
    \/ Follow
    \/ FallSilent
    \/ FallSilentUnnoticed
    \/ ChangeFailsafe
    \/ Reset
    \/ Redirect
    \/ Yield

Spec == Init /\ [][Next]_vars
=============================================================================
