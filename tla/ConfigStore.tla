---------------------------- MODULE ConfigStore -----------------------------
(***************************************************************************)
(* The persistent configuration: firmware/uNode_2/config.cpp.              *)
(*                                                                         *)
(* A save writes /config.tmp and puts it in place with two renames around  *)
(* /config.bak; a boot repairs what a power loss in between left behind.   *)
(* Every operation of the file system is a step of its own, between any    *)
(* two of which the power may go, and which may fail.  A configuration is  *)
(* one value and whether it is stored in the current schema; validation    *)
(* happens before the first step, an invalid candidate changes nothing.    *)
(***************************************************************************)
EXTENDS Naturals

CONSTANTS
    Values,     \* valid configurations
    Defaults,   \* the one made by setDefaults()
    Nothing,    \* no configuration: the node is off, nothing is being saved
    MaxFaults   \* bound: operations of the file system that fail

ASSUME ValueAssumption == Defaults \in Values /\ Nothing \notin Values
ASSUME FaultAssumption == MaxFaults \in Nat

VARIABLES
    config,     \* /config.json
    tmp,        \* /config.tmp
    bak,        \* /config.bak
    running,    \* the global config, Nothing while the node is off
    candidate,  \* the configuration persistConfig() is saving
    hadConfig,  \* its local of that name
    step,       \* the operation that comes next; "idle" when none does
    faults      \* operations that failed, by kind

files == <<config, tmp, bak>>
vars == <<config, tmp, bak, running, candidate, hadConfig, step, faults>>

-----------------------------------------------------------------------------
(* Files *)

Absent == [state |-> "absent", value |-> Nothing, current |-> TRUE]
Torn == [state |-> "torn", value |-> Nothing, current |-> FALSE]
Stored(v, isCurrent) == [state |-> "whole", value |-> v, current |-> isCurrent]
WholeFiles == [state : {"whole"}, value : Values, current : BOOLEAN]
Files == WholeFiles \cup {Absent, Torn}

Exists(f) == f.state # "absent"

\* LittleFS does what it is asked, or fails and changes nothing.  "short" is
\* a write that stored a part of the file, "boot" a failure while loading.
FaultKinds == {"save", "short", "boot"}

Succeeds == UNCHANGED faults
Fails(kind) ==
    /\ faults["save"] + faults["short"] + faults["boot"] < MaxFaults
    /\ faults' = [faults EXCEPT ![kind] = @ + 1]

-----------------------------------------------------------------------------
(* Saving *)

Begin(v) ==
    /\ candidate' = v
    /\ step' = "clean"

\* persistConfig() returns false: the caller keeps the running configuration.
GiveUp ==
    /\ step' = "idle"
    /\ candidate' = Nothing
    /\ UNCHANGED running

\* commitConfigCandidate() behind every way to change the configuration.
CommitConfigCandidate(v) ==
    /\ step = "idle" /\ running # Nothing
    /\ Begin(v)
    /\ UNCHANGED <<files, running, hadConfig, faults>>

RemoveTemp ==
    /\ step = "clean"
    /\ \/ Succeeds /\ tmp' = Absent
       \/ Fails("save") /\ UNCHANGED tmp
    /\ step' = "write"
    /\ UNCHANGED <<config, bak, running, candidate, hadConfig>>

\* A variant that writes the file in place.
WriteInPlace ==
    /\ step = "write"
    /\ Succeeds
    /\ config' = Torn
    /\ tmp' = Stored(candidate, TRUE)
    /\ step' = "backup"
    /\ UNCHANGED <<bak, running, candidate, hadConfig>>

\* writeConfigFile() takes any number of bytes for success.
WriteTemp ==
    /\ step = "write"
    /\ \/ Succeeds /\ tmp' = Stored(candidate, TRUE)
       \/ Fails("short") /\ tmp' = Torn
    /\ step' = "backup"
    /\ UNCHANGED <<config, bak, running, candidate, hadConfig>>

WriteTempFails ==
    /\ step = "write"
    /\ Fails("save")
    /\ tmp' = Absent
    /\ GiveUp
    /\ UNCHANGED <<config, bak, hadConfig>>

RemoveBackup ==
    /\ step = "backup"
    /\ hadConfig' = Exists(config)
    /\ \/ Succeeds /\ bak' = Absent
       \/ Fails("save") /\ UNCHANGED bak
    /\ step' = IF hadConfig' THEN "setAside" ELSE "install"
    /\ UNCHANGED <<config, tmp, running, candidate>>

SetAside ==
    /\ step = "setAside"
    /\ Succeeds
    /\ bak' = config
    /\ config' = Absent
    /\ step' = "install"
    /\ UNCHANGED <<tmp, running, candidate, hadConfig>>

SetAsideFails ==
    /\ step = "setAside"
    /\ Fails("save")
    /\ tmp' = Absent
    /\ GiveUp
    /\ UNCHANGED <<config, bak, hadConfig>>

Install ==
    /\ step = "install"
    /\ Succeeds
    /\ config' = tmp
    /\ tmp' = Absent
    /\ step' = "tidy"
    /\ UNCHANGED <<bak, running, candidate, hadConfig>>

InstallFails ==
    /\ step = "install"
    /\ Fails("save")
    /\ step' = "rollBack"
    /\ UNCHANGED <<files, running, candidate, hadConfig>>

\* A variant that leaves the backup to the next boot.
LeaveBackup ==
    /\ step = "rollBack"
    /\ Succeeds
    /\ tmp' = Absent
    /\ GiveUp
    /\ UNCHANGED <<config, bak, hadConfig>>

\* The backup goes back, if one was made; the result is not looked at.
RollBack ==
    /\ step = "rollBack"
    /\ \/ /\ hadConfig /\ Succeeds
          /\ config' = bak
          /\ bak' = Absent
       \/ /\ hadConfig /\ Fails("save")
          /\ UNCHANGED <<config, bak>>
       \/ /\ ~hadConfig /\ Succeeds
          /\ UNCHANGED <<config, bak>>
    /\ tmp' = Absent
    /\ GiveUp
    /\ UNCHANGED hadConfig

\* persistConfig() returns true and the candidate is the configuration.
RemoveOldBackup ==
    /\ step = "tidy"
    /\ \/ Succeeds /\ bak' = Absent
       \/ Fails("save") /\ UNCHANGED bak
    /\ running' = candidate
    /\ candidate' = Nothing
    /\ step' = "idle"
    /\ UNCHANGED <<config, tmp, hadConfig>>

-----------------------------------------------------------------------------
(* Power loss and boot *)

\* A file that was being written is there in part or not at all.
PowerLoss ==
    /\ running' = Nothing
    /\ candidate' = Nothing
    /\ step' = "boot"
    /\ tmp' \in IF step = "write" THEN {tmp, Absent, Torn} ELSE {tmp}
    /\ UNCHANGED <<config, bak, hadConfig, faults>>

\* loadConfig(): the backup replaces a configuration that is missing.
RestoreBackup ==
    /\ step = "boot"
    /\ \/ /\ ~Exists(config) /\ Exists(bak) /\ Succeeds
          /\ config' = bak
          /\ bak' = Absent
       \/ /\ ~Exists(config) /\ Exists(bak) /\ Fails("boot")
          /\ UNCHANGED <<config, bak>>
       \/ /\ Exists(config) \/ ~Exists(bak)
          /\ Succeeds
          /\ UNCHANGED <<config, bak>>
    /\ step' = "load"
    /\ UNCHANGED <<tmp, running, candidate, hadConfig>>

\* No configuration: run with the defaults and save them.
LoadNothing ==
    /\ step = "load" /\ ~Exists(config)
    /\ running' = Defaults
    /\ Begin(Defaults)
    /\ UNCHANGED <<files, hadConfig, faults>>

\* The file cannot be opened, or is no JSON document: the defaults, unsaved.
LoadFails ==
    /\ step = "load" /\ Exists(config)
    /\ \/ config = Torn /\ Succeeds
       \/ Fails("boot")
    /\ running' = Defaults
    /\ step' = "idle"
    /\ UNCHANGED <<files, candidate, hadConfig>>

\* A variant that does not ask whether the file could be parsed.
LoadUnchecked ==
    /\ step = "load" /\ Exists(config)
    /\ running' = config.value
    /\ IF config.current
         THEN step' = "idle" /\ UNCHANGED candidate
         ELSE Begin(config.value)
    /\ UNCHANGED <<files, hadConfig, faults>>

\* A configuration of an older schema is saved again in the current one.
LoadConfig ==
    /\ step = "load" /\ config.state = "whole"
    /\ running' = config.value
    /\ IF config.current
         THEN step' = "idle" /\ UNCHANGED candidate
         ELSE Begin(config.value)
    /\ UNCHANGED <<files, hadConfig, faults>>

-----------------------------------------------------------------------------
Init ==
    /\ config \in WholeFiles \cup {Absent}
    /\ tmp = Absent
    /\ bak = Absent
    /\ running = Nothing
    /\ candidate = Nothing
    /\ hadConfig = FALSE
    /\ step = "boot"
    /\ faults = [kind \in FaultKinds |-> 0]

Commit == \E v \in Values : CommitConfigCandidate(v)

Next ==
    \/ Commit
    \/ RemoveTemp
    \/ WriteTemp
    \/ WriteTempFails
    \/ RemoveBackup
    \/ SetAside
    \/ SetAsideFails
    \/ Install
    \/ InstallFails
    \/ RollBack
    \/ RemoveOldBackup
    \/ PowerLoss
    \/ RestoreBackup
    \/ LoadNothing
    \/ LoadFails
    \/ LoadConfig

Spec == Init /\ [][Next]_vars

-----------------------------------------------------------------------------
(* Properties *)

Steps == {"idle", "clean", "write", "backup", "setAside", "install", "rollBack",
          "tidy", "boot", "load"}

TypeOK ==
    /\ config \in Files
    /\ tmp \in Files
    /\ bak \in Files
    /\ running \in Values \cup {Nothing}
    /\ candidate \in Values \cup {Nothing}
    /\ hadConfig \in BOOLEAN
    /\ step \in Steps
    /\ faults \in [FaultKinds -> 0 .. MaxFaults]

\* The file the next boot would load.
Found == IF Exists(config) THEN config ELSE bak

NoFault == \A kind \in FaultKinds : faults[kind] = 0

\* What it would run with.
BootValue == IF Found.state = "whole" THEN Found.value ELSE Defaults

\* A node at rest runs with the configuration its next boot will run with,
\* after failed saves too, unless loading failed or a write was cut short.
\* Holds for two failures; a third can remove the last copy.
RunningIsStored ==
    step = "idle" /\ faults["short"] = 0 /\ faults["boot"] = 0
        => running = BootValue

\* No save leaves a file without a valid configuration in its place
\* ("Atomically replaces config.json", config.cpp).
NeverTorn == config # Torn

\* The whole store implements the atomic one: saves interrupted anywhere by
\* a power loss, the repair at boot, defaults and schema migration.
Atomic == INSTANCE AtomicConfig WITH
    stored <- Found.value,
    running <- running,
    pending <- candidate,
    trouble <- ~NoFault

ImplementsAtomicConfig == Atomic!Spec
=============================================================================
