---------------------------- MODULE AtomicConfig ----------------------------
(***************************************************************************)
(* What the configuration store promises: "Atomically replaces             *)
(* config.json" (firmware/uNode_2/config.cpp).  As long as the file system *)
(* does what it is asked, a save is one step, whenever the power goes; what *)
(* is stored is what the next boot runs with.  Once an operation of the    *)
(* file system has failed, nothing is promised here any more.              *)
(***************************************************************************)
CONSTANTS
    Values,     \* configurations
    Defaults,   \* the one made by setDefaults()
    Nothing     \* no configuration: stored, running or being saved

VARIABLES
    stored,     \* what a boot would find
    running,    \* config, Nothing while the node is off
    pending,    \* the configuration being saved
    trouble     \* the file system failed before

vars == <<stored, running, pending, trouble>>

Init ==
    /\ stored \in Values \cup {Nothing}
    /\ running = Nothing
    /\ pending = Nothing
    /\ trouble = FALSE

\* A valid candidate is to be saved.
Begin ==
    /\ running # Nothing /\ pending = Nothing
    /\ pending' \in Values
    /\ UNCHANGED <<stored, running, trouble>>

\* The one step in which the save takes effect.
Install ==
    /\ pending # Nothing
    /\ stored' = pending
    /\ UNCHANGED <<running, pending, trouble>>

\* The save returned success and the node runs with it.
Acknowledge ==
    /\ pending # Nothing /\ stored = pending
    /\ running' = pending
    /\ pending' = Nothing
    /\ UNCHANGED <<stored, trouble>>

PowerLoss ==
    /\ running' = Nothing
    /\ pending' = Nothing
    /\ UNCHANGED <<stored, trouble>>

\* The stored configuration, the defaults if there is none.  Defaults are
\* saved, and a stored configuration is when its schema is an older one.
Boot ==
    /\ running = Nothing
    /\ running' = IF stored = Nothing THEN Defaults ELSE stored
    /\ pending' \in IF stored = Nothing THEN {running'} ELSE {running', Nothing}
    /\ UNCHANGED <<stored, trouble>>

Fail == trouble'

Next == Begin \/ Install \/ Acknowledge \/ PowerLoss \/ Boot \/ Fail

Spec == Init /\ [][Next]_vars
=============================================================================
