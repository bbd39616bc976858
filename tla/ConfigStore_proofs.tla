------------------------- MODULE ConfigStore_proofs -------------------------
(***************************************************************************)
(* TLAPS proofs about ConfigStore: types, and that it implements           *)
(* AtomicConfig, for any set of configurations and any number of faults.   *)
(***************************************************************************)
EXTENDS ConfigStore, TLAPS

-----------------------------------------------------------------------------
(* Files and faults *)

LEMMA FileKinds ==
    /\ Absent \in Files /\ Torn \in Files /\ Absent # Torn
    /\ ~Exists(Absent) /\ Exists(Torn)
    /\ Absent.value = Nothing /\ Torn.value = Nothing
    /\ \A v \in Values, c \in BOOLEAN :
          /\ Stored(v, c) \in WholeFiles
          /\ Stored(v, c).value = v
    /\ \A f \in WholeFiles : /\ Exists(f) /\ f # Torn /\ f # Absent
                             /\ f.value \in Values /\ f.current \in BOOLEAN
                             /\ f.state = "whole"
  BY DEF Files, Absent, Torn, Exists, Stored, WholeFiles

LEMMA FileCases ==
    ASSUME NEW f \in Files
    PROVE  /\ ~Exists(f) => f = Absent
           /\ f.state = "whole" => f \in WholeFiles
           /\ f = Absent \/ f = Torn \/ f \in WholeFiles
  BY DEF Files, Absent, Torn, Exists, WholeFiles

\* A failure is never forgotten.
LEMMA FaultStep ==
    ASSUME faults \in [FaultKinds -> 0 .. MaxFaults],
           Succeeds \/ \E kind \in FaultKinds : Fails(kind)
    PROVE  /\ faults' \in [FaultKinds -> 0 .. MaxFaults]
           /\ NoFault' => NoFault
           /\ NoFault' => Succeeds
  <1>1. CASE Succeeds
    BY <1>1 DEF Succeeds, NoFault
  <1>2. ASSUME NEW kind \in FaultKinds, Fails(kind)
        PROVE  faults' \in [FaultKinds -> 0 .. MaxFaults] /\ ~NoFault'
    <2>1. \A k \in FaultKinds : faults[k] \in Nat
      BY FaultAssumption
    <2>2. faults["save"] \in Nat /\ faults["short"] \in Nat /\ faults["boot"] \in Nat
      BY <2>1 DEF FaultKinds
    <2>3. faults[kind] < MaxFaults
      BY <1>2, <2>2, FaultAssumption DEF Fails, FaultKinds
    <2>4. faults' = [faults EXCEPT ![kind] = faults[kind] + 1]
      BY <1>2 DEF Fails
    <2>5. faults[kind] + 1 \in 0 .. MaxFaults /\ faults[kind] + 1 # 0
      BY <2>1, <2>3, FaultAssumption
    <2>6. faults' \in [FaultKinds -> 0 .. MaxFaults]
      BY <2>4, <2>5
    <2>7. faults'[kind] # 0
      BY <2>4, <2>5
    <2> QED
      BY <2>6, <2>7 DEF NoFault
  <1> QED
    BY <1>1, <1>2

\* What every step but a boot's end makes of the faults.
LEMMA NextFaults ==
    ASSUME TypeOK, [Next]_vars
    PROVE  Succeeds \/ \E kind \in FaultKinds : Fails(kind)
  BY DEF Next, vars, Commit, CommitConfigCandidate, RemoveTemp, WriteTemp, WriteTempFails,
     RemoveBackup, SetAside, SetAsideFails, Install, InstallFails, RollBack, RemoveOldBackup,
     PowerLoss, RestoreBackup, LoadNothing, LoadFails, LoadConfig, Succeeds, FaultKinds

-----------------------------------------------------------------------------
(* Type correctness *)

\* Where the configuration being saved and the running one are.
StepInv ==
    /\ step \notin {"idle", "boot", "load"} => candidate \in Values /\ running \in Values
    /\ step \in {"idle", "boot", "load"} => candidate = Nothing
    /\ step = "idle" => running \in Values
    /\ step \in {"boot", "load"} => running = Nothing

LEMMA InitTypeOK == Init => TypeOK
  <1> SUFFICES ASSUME Init PROVE TypeOK
    OBVIOUS
  <1>1. faults \in [FaultKinds -> 0 .. MaxFaults]
    BY FaultAssumption DEF Init
  <1> QED
    BY <1>1, FileKinds DEF Init, TypeOK, Files, Steps

LEMMA NextTypeOK == TypeOK /\ StepInv /\ [Next]_vars => TypeOK'
  <1> SUFFICES ASSUME TypeOK, StepInv, [Next]_vars PROVE TypeOK'
    OBVIOUS
  <1>0. faults' \in [FaultKinds -> 0 .. MaxFaults]
    BY NextFaults, FaultStep DEF TypeOK
  <1> USE <1>0
  <1>1. ASSUME NEW v \in Values, CommitConfigCandidate(v)
        PROVE  TypeOK'
    BY <1>1 DEF CommitConfigCandidate, Begin, TypeOK, files, Steps
  <1>2. CASE RemoveTemp
    BY <1>2, FileKinds DEF RemoveTemp, TypeOK, Steps
  <1>3. CASE WriteTemp
    <2>1. Stored(candidate, TRUE) \in Files
      BY <1>3, FileKinds DEF WriteTemp, StepInv, Files
    <2> QED
      BY <1>3, <2>1, FileKinds DEF WriteTemp, TypeOK, Steps
  <1>4. CASE WriteTempFails
    BY <1>4, FileKinds DEF WriteTempFails, GiveUp, TypeOK, Steps
  <1>5. CASE RemoveBackup
    BY <1>5, FileKinds DEF RemoveBackup, TypeOK, Steps, Exists
  <1>6. CASE SetAside
    BY <1>6, FileKinds DEF SetAside, TypeOK, Steps
  <1>7. CASE SetAsideFails
    BY <1>7, FileKinds DEF SetAsideFails, GiveUp, TypeOK, Steps
  <1>8. CASE Install
    BY <1>8, FileKinds DEF Install, TypeOK, Steps
  <1>9. CASE InstallFails
    BY <1>9 DEF InstallFails, TypeOK, files, Steps
  <1>10. CASE RollBack
    BY <1>10, FileKinds DEF RollBack, GiveUp, TypeOK, Steps
  <1>11. CASE RemoveOldBackup
    BY <1>11, FileKinds DEF RemoveOldBackup, TypeOK, Steps
  <1>12. CASE PowerLoss
    BY <1>12, FileKinds DEF PowerLoss, TypeOK, Steps
  <1>13. CASE RestoreBackup
    BY <1>13, FileKinds DEF RestoreBackup, TypeOK, Steps
  <1>14. CASE LoadNothing
    BY <1>14, ValueAssumption DEF LoadNothing, Begin, TypeOK, files, Steps
  <1>15. CASE LoadFails
    BY <1>15, ValueAssumption DEF LoadFails, TypeOK, files, Steps
  <1>16. CASE LoadConfig
    BY <1>16, FileKinds, FileCases DEF LoadConfig, Begin, TypeOK, files, Steps
  <1>17. CASE UNCHANGED vars
    BY <1>17 DEF vars, TypeOK
  <1> QED
    BY <1>1, <1>2, <1>3, <1>4, <1>5, <1>6, <1>7, <1>8, <1>9, <1>10, <1>11, <1>12,
       <1>13, <1>14, <1>15, <1>16, <1>17 DEF Next, Commit

LEMMA InitStepInv == Init => StepInv
  BY DEF Init, StepInv

LEMMA NextStepInv == TypeOK /\ StepInv /\ [Next]_vars => StepInv'
  <1> SUFFICES ASSUME TypeOK, StepInv, [Next]_vars PROVE StepInv'
    OBVIOUS
  <1>1. ASSUME NEW v \in Values, CommitConfigCandidate(v)
        PROVE  StepInv'
    BY <1>1 DEF CommitConfigCandidate, Begin, StepInv
  <1>2. CASE RemoveTemp
    BY <1>2 DEF RemoveTemp, StepInv
  <1>3. CASE WriteTemp
    BY <1>3 DEF WriteTemp, StepInv
  <1>4. CASE WriteTempFails
    BY <1>4 DEF WriteTempFails, GiveUp, StepInv
  <1>5. CASE RemoveBackup
    BY <1>5 DEF RemoveBackup, StepInv
  <1>6. CASE SetAside
    BY <1>6 DEF SetAside, StepInv
  <1>7. CASE SetAsideFails
    BY <1>7 DEF SetAsideFails, GiveUp, StepInv
  <1>8. CASE Install
    BY <1>8 DEF Install, StepInv
  <1>9. CASE InstallFails
    BY <1>9 DEF InstallFails, StepInv
  <1>10. CASE RollBack
    BY <1>10 DEF RollBack, GiveUp, StepInv
  <1>11. CASE RemoveOldBackup
    BY <1>11 DEF RemoveOldBackup, StepInv
  <1>12. CASE PowerLoss
    BY <1>12 DEF PowerLoss, StepInv
  <1>13. CASE RestoreBackup
    BY <1>13 DEF RestoreBackup, StepInv
  <1>14. CASE LoadNothing
    BY <1>14, ValueAssumption DEF LoadNothing, Begin, StepInv
  <1>15. CASE LoadFails
    BY <1>15, ValueAssumption DEF LoadFails, StepInv
  <1>16. CASE LoadConfig
    <2>1. config.value \in Values
      BY <1>16, FileKinds, FileCases DEF LoadConfig, TypeOK
    <2> QED
      BY <1>16, <2>1 DEF LoadConfig, Begin, StepInv
  <1>17. CASE UNCHANGED vars
    BY <1>17 DEF vars, StepInv
  <1> QED
    BY <1>1, <1>2, <1>3, <1>4, <1>5, <1>6, <1>7, <1>8, <1>9, <1>10, <1>11, <1>12,
       <1>13, <1>14, <1>15, <1>16, <1>17 DEF Next, Commit

LEMMA TypesHold == Spec => [](TypeOK /\ StepInv)
  <1> QED
    BY InitTypeOK, InitStepInv, NextTypeOK, NextStepInv, PTL DEF Spec

\* Every reachable state is well typed, also after faults: a torn file is
\* never taken for a configuration.
THEOREM TypeCorrect == Spec => []TypeOK
  <1> QED
    BY TypesHold, PTL

-----------------------------------------------------------------------------
(* Atomicity *)

\* As long as the file system has not failed, a copy of the configuration
\* is where the next step, or the next boot, looks for it.
FilesInv ==
    NoFault =>
        /\ config # Torn /\ bak # Torn
        /\ step # "rollBack"
        /\ step \in {"backup", "setAside", "install"} => tmp = Stored(candidate, TRUE)
        /\ step = "setAside" => Exists(config) /\ ~Exists(bak)
        /\ step = "install" => ~Exists(config)
        /\ step = "tidy" => config = Stored(candidate, TRUE)
        /\ step \in {"load", "idle", "clean", "write", "backup"} =>
              Exists(config) \/ ~Exists(bak)

LEMMA InitFilesInv == Init => FilesInv
  <1> SUFFICES ASSUME Init PROVE FilesInv
    OBVIOUS
  <1>1. config # Torn /\ bak # Torn /\ ~Exists(bak)
    BY FileKinds DEF Init
  <1> QED
    BY <1>1 DEF Init, FilesInv

LEMMA NextFilesInv == TypeOK /\ StepInv /\ FilesInv /\ [Next]_vars => FilesInv'
  <1> SUFFICES ASSUME TypeOK, StepInv, FilesInv, [Next]_vars, NoFault'
               PROVE  FilesInv'
    BY DEF FilesInv
  <1>0. NoFault /\ faults' = faults
    BY NextFaults, FaultStep DEF TypeOK, Succeeds
  <1>f. \A kind \in FaultKinds : ~Fails(kind)
    <2> SUFFICES ASSUME NEW kind \in FaultKinds, Fails(kind) PROVE FALSE
      OBVIOUS
    <2>1. faults[kind] \in Nat /\ faults'[kind] = faults[kind] + 1
      BY FaultAssumption DEF Fails, TypeOK
    <2> QED
      BY <1>0, <2>1
  <1>k. ~Fails("save") /\ ~Fails("short") /\ ~Fails("boot")
    BY <1>f DEF FaultKinds
  <1> USE <1>0, <1>k
  <1>1. ASSUME NEW v \in Values, CommitConfigCandidate(v)
        PROVE  FilesInv'
    BY <1>1 DEF CommitConfigCandidate, Begin, FilesInv, files, Exists
  <1>2. CASE RemoveTemp
    BY <1>2 DEF RemoveTemp, FilesInv, Exists
  <1>3. CASE WriteTemp
    BY <1>3 DEF WriteTemp, FilesInv, Exists
  <1>4. CASE WriteTempFails
    BY <1>4 DEF WriteTempFails
  <1>5. CASE RemoveBackup
    BY <1>5, FileKinds DEF RemoveBackup, FilesInv, Exists
  <1>6. CASE SetAside
    BY <1>6, FileKinds DEF SetAside, FilesInv, Exists
  <1>7. CASE SetAsideFails
    BY <1>7 DEF SetAsideFails
  <1>8. CASE Install
    <2>1. tmp = Stored(candidate, TRUE) /\ candidate \in Values
      BY <1>8 DEF Install, FilesInv, StepInv
    <2>2. tmp # Torn
      BY <2>1, FileKinds
    <2> QED
      BY <1>8, <2>1, <2>2 DEF Install, FilesInv
  <1>9. CASE InstallFails
    BY <1>9 DEF InstallFails
  <1>10. CASE RollBack
    BY <1>10 DEF RollBack, FilesInv
  <1>11. CASE RemoveOldBackup
    BY <1>11, FileKinds DEF RemoveOldBackup, FilesInv
  <1>12. CASE PowerLoss
    BY <1>12 DEF PowerLoss, FilesInv
  <1>13. CASE RestoreBackup
    BY <1>13, FileKinds DEF RestoreBackup, FilesInv, Exists
  <1>14. CASE LoadNothing
    BY <1>14 DEF LoadNothing, Begin, FilesInv, files, Exists
  <1>15. CASE LoadFails
    BY <1>15 DEF LoadFails, FilesInv, files, Exists
  <1>16. CASE LoadConfig
    BY <1>16 DEF LoadConfig, Begin, FilesInv, files, Exists
  <1>17. CASE UNCHANGED vars
    BY <1>17 DEF vars, FilesInv, Exists
  <1> QED
    BY <1>1, <1>2, <1>3, <1>4, <1>5, <1>6, <1>7, <1>8, <1>9, <1>10, <1>11, <1>12,
       <1>13, <1>14, <1>15, <1>16, <1>17 DEF Next, Commit

-----------------------------------------------------------------------------
(* The refinement *)

LEMMA InitRefines == Init => Atomic!Init
  <1> SUFFICES ASSUME Init PROVE Atomic!Init
    OBVIOUS
  <1>1. NoFault
    BY DEF Init, NoFault
  <1>2. Found.value \in Values \cup {Nothing}
    BY FileKinds DEF Init, Found
  <1> QED
    BY <1>1, <1>2 DEF Init, Atomic!Init

LEMMA StepRefines ==
    TypeOK /\ StepInv /\ FilesInv /\ [Next]_vars => [Atomic!Next]_(Atomic!vars)
  <1> SUFFICES ASSUME TypeOK, StepInv, FilesInv, [Next]_vars
               PROVE  [Atomic!Next]_(Atomic!vars)
    OBVIOUS
  <1>a. CASE ~NoFault'
    BY <1>a DEF Atomic!Next, Atomic!Fail
  <1>b. CASE NoFault'
    <2>0. NoFault /\ faults' = faults
      BY <1>b, NextFaults, FaultStep DEF TypeOK, Succeeds
    <2>f. \A kind \in FaultKinds : ~Fails(kind)
      <3> SUFFICES ASSUME NEW kind \in FaultKinds, Fails(kind) PROVE FALSE
        OBVIOUS
      <3>1. faults[kind] \in Nat /\ faults'[kind] = faults[kind] + 1
        BY FaultAssumption DEF Fails, TypeOK
      <3> QED
        BY <2>0, <3>1
    <2>k. ~Fails("save") /\ ~Fails("short") /\ ~Fails("boot")
      BY <2>f DEF FaultKinds
    <2> USE <1>b, <2>0, <2>k
    <2>s. ASSUME UNCHANGED <<running, candidate>>, Found'.value = Found.value
          PROVE  UNCHANGED Atomic!vars
      BY <2>s DEF Atomic!vars
    <2>1. ASSUME NEW v \in Values, CommitConfigCandidate(v)
          PROVE  Atomic!Begin
      BY <2>1 DEF CommitConfigCandidate, Begin, Atomic!Begin, StepInv, files, Found, Exists
    <2>2. CASE RemoveTemp \/ WriteTemp
      BY <2>2, <2>s DEF RemoveTemp, WriteTemp, Found, Exists
    <2>3. CASE WriteTempFails \/ SetAsideFails \/ InstallFails \/ RollBack
      BY <2>3 DEF WriteTempFails, SetAsideFails, InstallFails, RollBack, FilesInv
    <2>4. CASE RemoveBackup
      <3>1. Found'.value = Found.value
        BY <2>4, FileKinds, FileCases DEF RemoveBackup, FilesInv, Found, Exists, TypeOK
      <3> QED
        BY <2>4, <2>s, <3>1 DEF RemoveBackup
    <2>5. CASE SetAside
      <3>1. Found'.value = Found.value
        BY <2>5, FileKinds DEF SetAside, FilesInv, Found, Exists
      <3> QED
        BY <2>5, <2>s, <3>1 DEF SetAside
    <2>6. CASE Install
      <3>1. tmp = Stored(candidate, TRUE) /\ candidate \in Values
        BY <2>6 DEF Install, FilesInv, StepInv
      <3>2. Exists(tmp) /\ tmp.value = candidate /\ candidate # Nothing
        BY <3>1, FileKinds, ValueAssumption
      <3>3. Found'.value = candidate
        BY <2>6, <3>2 DEF Install, Found, Exists
      <3> QED
        BY <2>6, <3>2, <3>3 DEF Install, Atomic!Install, Atomic!Next
    <2>7. CASE RemoveOldBackup
      <3>1. config = Stored(candidate, TRUE) /\ candidate \in Values
        BY <2>7 DEF RemoveOldBackup, FilesInv, StepInv
      <3>2. Exists(config) /\ config.value = candidate /\ candidate # Nothing
        BY <3>1, FileKinds, ValueAssumption
      <3>3. Found.value = candidate /\ Found'.value = candidate
        BY <2>7, <3>2 DEF RemoveOldBackup, Found, Exists
      <3> QED
        BY <2>7, <3>2, <3>3 DEF RemoveOldBackup, Atomic!Acknowledge, Atomic!Next
    <2>8. CASE PowerLoss
      BY <2>8 DEF PowerLoss, Found, Exists, Atomic!PowerLoss, Atomic!Next
    <2>9. CASE RestoreBackup
      <3>1. Found'.value = Found.value
        BY <2>9, FileKinds DEF RestoreBackup, Found, Exists
      <3> QED
        BY <2>9, <2>s, <3>1 DEF RestoreBackup
    <2>10. CASE LoadNothing
      <3>1. bak = Absent
        BY <2>10, FileCases DEF LoadNothing, FilesInv, TypeOK
      <3>2. Found.value = Nothing /\ Found' = Found
        BY <2>10, <3>1, FileKinds DEF LoadNothing, Found, files, Exists
      <3> QED
        BY <2>10, <3>2 DEF LoadNothing, Begin, StepInv, Atomic!Boot, Atomic!Next
    <2>11. CASE LoadFails
      BY <2>11 DEF LoadFails, FilesInv
    <2>12. CASE LoadConfig
      <3>1. config.value \in Values /\ Exists(config)
        BY <2>12, FileKinds, FileCases DEF LoadConfig, TypeOK
      <3>2. Found.value = config.value /\ Found' = Found /\ Found.value # Nothing
        BY <2>12, <3>1, ValueAssumption DEF LoadConfig, Found, files, Exists
      <3>3. running = Nothing /\ candidate = Nothing
        BY <2>12 DEF LoadConfig, StepInv
      <3>4. candidate' \in {running', Nothing}
        BY <2>12, <3>3 DEF LoadConfig, Begin
      <3> QED
        BY <2>12, <3>2, <3>3, <3>4 DEF LoadConfig, Atomic!Boot, Atomic!Next
    <2>13. CASE UNCHANGED vars
      BY <2>13, <2>s DEF vars, Found, Exists
    <2> QED
      BY <2>1, <2>2, <2>3, <2>4, <2>5, <2>6, <2>7, <2>8, <2>9, <2>10, <2>11, <2>12,
         <2>13 DEF Next, Commit, Atomic!Next
  <1> QED
    BY <1>a, <1>b

\* Until the file system fails, a save is atomic: whenever the power goes,
\* the next boot runs with the configuration of before or after it, and one
\* that was acknowledged is never lost.
THEOREM SavesAreAtomic == Spec => ImplementsAtomicConfig
  <1>1. Spec => [](TypeOK /\ StepInv /\ FilesInv)
    BY TypesHold, InitFilesInv, NextFilesInv, PTL DEF Spec
  <1> QED
    BY <1>1, InitRefines, StepRefines, PTL DEF Spec, ImplementsAtomicConfig, Atomic!Spec

-----------------------------------------------------------------------------
(* Saves that fail *)

\* Loading never failed, no write was cut short, and at most two operations
\* of the saves failed.
FewFailures == faults["short"] = 0 /\ faults["boot"] = 0 /\ faults["save"] <= 2

LastFailure == faults["save"] = 2

\* Where the copy of the running configuration is at each operation.  It can
\* be missing only when the failures are used up: the save that removed the
\* last backup will then install its own file.
CopiesInv ==
    FewFailures =>
        /\ config # Torn /\ bak # Torn
        /\ step \in {"backup", "setAside", "install"} => tmp = Stored(candidate, TRUE)
        /\ step \in {"idle", "clean", "write", "backup"} =>
              running = BootValue /\ (Exists(config) \/ ~Exists(bak) \/ LastFailure)
        /\ step = "setAside" => Exists(config) /\ hadConfig /\ running = BootValue
        /\ step = "install" =>
              /\ ~Exists(config) /\ (hadConfig => Exists(bak))
              /\ LastFailure \/ (running = BootValue /\ (Exists(bak) => hadConfig))
        /\ step = "rollBack" =>
              /\ ~Exists(config) /\ (hadConfig => Exists(bak)) /\ running = BootValue
              /\ faults["save"] # 0
              /\ LastFailure \/ (Exists(bak) => hadConfig)
        /\ step = "tidy" => config = Stored(candidate, TRUE)
        /\ step = "load" => Exists(config) \/ ~Exists(bak)

\* What a step may still do about the failures.
LEMMA FewFailuresStep ==
    ASSUME TypeOK, [Next]_vars, FewFailures'
    PROVE  /\ FewFailures
           /\ ~Fails("short") /\ ~Fails("boot")
           /\ Succeeds => LastFailure' = LastFailure
           /\ Fails("save") => /\ ~LastFailure
                               /\ faults'["save"] # 0
                               /\ faults["save"] # 0 => LastFailure'
  <1>1. /\ faults["save"] \in Nat /\ faults["short"] \in Nat /\ faults["boot"] \in Nat
        /\ DOMAIN faults = FaultKinds
    BY FaultAssumption DEF TypeOK, FaultKinds
  <1>2. ASSUME NEW kind \in FaultKinds, Fails(kind)
        PROVE  /\ faults'[kind] = faults[kind] + 1
               /\ \A k \in FaultKinds \ {kind} : faults'[k] = faults[k]
    BY <1>1, <1>2 DEF Fails
  <1>3. ~Fails("short") /\ ~Fails("boot")
    BY <1>1, <1>2 DEF FewFailures, FaultKinds
  <1>4. CASE Succeeds
    <2>1. faults' = faults
      BY <1>4 DEF Succeeds
    <2>2. ~Fails("save")
      BY <1>1, <1>2, <2>1 DEF FaultKinds
    <2> QED
      BY <1>3, <2>1, <2>2 DEF FewFailures, LastFailure
  <1>5. CASE Fails("save")
    <2>1. /\ faults'["save"] = faults["save"] + 1
          /\ faults'["short"] = faults["short"] /\ faults'["boot"] = faults["boot"]
      BY <1>2, <1>5 DEF FaultKinds
    <2>2. ~Succeeds
      BY <1>1, <2>1 DEF Succeeds
    <2> QED
      BY <1>1, <1>3, <2>1, <2>2 DEF FewFailures, LastFailure
  <1> QED
    BY <1>3, <1>4, <1>5, NextFaults DEF FaultKinds

\* The files of the next boot after a rename, and what it would run with.
LEMMA BootValueOf ==
    /\ Exists(config) => BootValue = IF config.state = "whole" THEN config.value ELSE Defaults
    /\ ~Exists(config) => BootValue = IF bak.state = "whole" THEN bak.value ELSE Defaults
  BY DEF BootValue, Found

LEMMA NextCopiesInv == TypeOK /\ StepInv /\ CopiesInv /\ [Next]_vars => CopiesInv'
  <1> SUFFICES ASSUME TypeOK, StepInv, CopiesInv, [Next]_vars, FewFailures'
               PROVE  CopiesInv'
    BY DEF CopiesInv
  <1>0. /\ FewFailures
        /\ ~Fails("short") /\ ~Fails("boot")
        /\ Succeeds => LastFailure' = LastFailure
        /\ Fails("save") => /\ ~LastFailure
                            /\ faults'["save"] # 0
                            /\ faults["save"] # 0 => LastFailure'
    BY FewFailuresStep
  <1>e. ASSUME UNCHANGED <<config, bak>>
        PROVE  BootValue' = BootValue /\ Exists(config)' = Exists(config) /\ Exists(bak)' = Exists(bak)
    BY <1>e DEF BootValue, Found, Exists
  <1> USE <1>0
  <1>1. ASSUME NEW v \in Values, CommitConfigCandidate(v)
        PROVE  CopiesInv'
    BY <1>1, <1>e DEF CommitConfigCandidate, Begin, CopiesInv, files, Succeeds
  <1>2. CASE RemoveTemp
    BY <1>2, <1>e DEF RemoveTemp, CopiesInv
  <1>3. CASE WriteTemp
    <2>1. Succeeds /\ tmp' = Stored(candidate, TRUE)
      BY <1>3 DEF WriteTemp
    <2>2. tmp' = Stored(candidate', TRUE)
      BY <1>3, <2>1 DEF WriteTemp
    <2> QED
      BY <1>3, <1>e, <2>1, <2>2 DEF WriteTemp, CopiesInv
  <1>4. CASE WriteTempFails
    BY <1>4, <1>e DEF WriteTempFails, GiveUp, CopiesInv
  <1>5. CASE RemoveBackup
    <2>1. /\ config' = config /\ tmp' = tmp /\ candidate' = candidate /\ running' = running
          /\ Exists(config)' = Exists(config) /\ hadConfig' = Exists(config)
          /\ tmp' = Stored(candidate', TRUE)
      BY <1>5 DEF RemoveBackup, CopiesInv, Exists
    <2>2. /\ config # Torn /\ bak' # Torn
          /\ bak' = bak \/ bak' = Absent
      BY <1>5, FileKinds DEF RemoveBackup, CopiesInv
    <2>3. CASE Exists(config)
      <3>1. BootValue' = BootValue
        BY <2>1, <2>3 DEF BootValue, Found
      <3>2. step' = "setAside"
        BY <1>5, <2>1, <2>3 DEF RemoveBackup
      <3> QED
        BY <1>5, <2>1, <2>2, <2>3, <3>1, <3>2 DEF RemoveBackup, CopiesInv
    <2>4. CASE ~Exists(config)
      <3>1. step' = "install" /\ ~hadConfig'
        BY <1>5, <2>1, <2>4 DEF RemoveBackup
      <3>2. CASE LastFailure
        BY <1>5, <2>1, <2>2, <2>4, <3>1, <3>2 DEF RemoveBackup, CopiesInv
      <3>3. CASE ~LastFailure
        <4>1. ~Exists(bak) /\ running = BootValue
          BY <1>5, <2>4, <3>3 DEF RemoveBackup, CopiesInv
        <4>2. bak = Absent
          BY <4>1, FileCases DEF TypeOK
        <4>3. bak' = bak /\ BootValue' = BootValue /\ ~Exists(bak')
          BY <2>1, <2>2, <4>1, <4>2 DEF BootValue, Found, Exists
        <4> QED
          BY <2>1, <2>2, <2>4, <3>1, <4>1, <4>3 DEF CopiesInv, Exists
      <3> QED
        BY <3>2, <3>3
    <2> QED
      BY <2>3, <2>4
  <1>6. CASE SetAside
    BY <1>6, FileKinds DEF SetAside, CopiesInv, BootValue, Found, Exists
  <1>7. CASE SetAsideFails
    BY <1>7, <1>e DEF SetAsideFails, GiveUp, CopiesInv
  <1>8. CASE Install
    <2>1. tmp = Stored(candidate, TRUE) /\ candidate \in Values
      BY <1>8 DEF Install, CopiesInv, StepInv
    <2>2. tmp # Torn
      BY <2>1, FileKinds
    <2> QED
      BY <1>8, <2>1, <2>2 DEF Install, CopiesInv
  <1>9. CASE InstallFails
    BY <1>9, <1>e DEF InstallFails, CopiesInv, files
  <1>10. CASE RollBack
    BY <1>10, FileKinds DEF RollBack, GiveUp, CopiesInv, BootValue, Found, Exists
  <1>11. CASE RemoveOldBackup
    <2>1. config = Stored(candidate, TRUE) /\ candidate \in Values
      BY <1>11 DEF RemoveOldBackup, CopiesInv, StepInv
    <2>2. Exists(config) /\ config.state = "whole" /\ config.value = candidate
      BY <2>1, FileKinds
    <2> QED
      BY <1>11, <2>2, FileKinds DEF RemoveOldBackup, CopiesInv, BootValue, Found, Exists
  <1>12. CASE PowerLoss
    BY <1>12 DEF PowerLoss, CopiesInv
  <1>13. CASE RestoreBackup
    BY <1>13, FileKinds DEF RestoreBackup, CopiesInv, Exists
  <1>14. CASE LoadNothing
    <2>1. bak = Absent
      BY <1>14, FileCases DEF LoadNothing, CopiesInv, TypeOK
    <2>2. BootValue = Defaults
      BY <1>14, <2>1 DEF LoadNothing, BootValue, Found, Absent
    <2> QED
      BY <1>14, <1>e, <2>2 DEF LoadNothing, Begin, CopiesInv, files
  <1>15. CASE LoadFails
    BY <1>15 DEF LoadFails, CopiesInv
  <1>16. CASE LoadConfig
    <2>1. Exists(config) /\ BootValue = config.value
      BY <1>16 DEF LoadConfig, BootValue, Found, Exists
    <2> QED
      BY <1>16, <1>e, <2>1 DEF LoadConfig, Begin, CopiesInv, files
  <1>17. CASE UNCHANGED vars
    BY <1>17, <1>e DEF vars, CopiesInv, LastFailure
  <1> QED
    BY <1>1, <1>2, <1>3, <1>4, <1>5, <1>6, <1>7, <1>8, <1>9, <1>10, <1>11, <1>12,
       <1>13, <1>14, <1>15, <1>16, <1>17 DEF Next, Commit

LEMMA InitCopiesInv == Init => CopiesInv
  <1> SUFFICES ASSUME Init PROVE CopiesInv
    OBVIOUS
  <1>1. config # Torn /\ bak # Torn
    BY FileKinds DEF Init
  <1> QED
    BY <1>1 DEF Init, CopiesInv

\* For any number of failures the bound allows: while no more than two of a
\* save's operations have failed, whatever power losses came in between, a
\* node at rest runs with the configuration its next boot will run with.
THEOREM TwoFailuresAreSafe == Spec => [](faults["save"] <= 2 => RunningIsStored)
  <1>1. CopiesInv => (faults["save"] <= 2 => RunningIsStored)
    BY DEF CopiesInv, FewFailures, RunningIsStored
  <1> QED
    BY <1>1, TypesHold, InitCopiesInv, NextCopiesInv, PTL DEF Spec
=============================================================================
