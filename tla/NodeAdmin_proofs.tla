-------------------------- MODULE NodeAdmin_proofs --------------------------
(***************************************************************************)
(* TLAPS proofs about how the node is administered: the configuration that *)
(* a boot, a restart and an apply leave on the RS-485 port (NodeBoot), the *)
(* sessions, updates and uploads of the web interface (WebAdmin), the      *)
(* button and LEDs (NodePanel), and the Wi-Fi link and its reconnects      *)
(* (WifiLink).  For any settings that need a restart and any sizes, delays *)
(* and timeouts.                                                           *)
(***************************************************************************)
EXTENDS NodeBoot, WebAdmin, NodePanel, WifiLink, TLAPS

Ports == [uart : {"off", "output", "input"}, pins : SUBSET Pins]

---------------------------------------------------------------------------
(* The pins                                                                *)

LEMMA PassiveType == Passive \in Ports
  BY DEF Passive, Ports

LEMMA PinsOf ==
  ASSUME NEW c \in NodeConfigs
  PROVE  /\ DirectionPins(c) \in SUBSET {"driver", "receiver"}
         /\ "driver" \in DirectionPins(c) <=> c.direction = "output"
         /\ "receiver" \in DirectionPins(c) <=> c.direction = "input"
         /\ TerminationPins(c) \in SUBSET {"termination"}
         /\ c.direction \in {"output", "input"}
  BY DEF DirectionPins, TerminationPins, NodeConfigs, Directions

\* initDMX() sets every pin and the UART by the configuration, whatever they
\* were before.
LEMMA InitDMXFields ==
  ASSUME NEW p \in Ports, NEW c \in NodeConfigs
  PROVE  InitDMX(p, c) = [uart |-> c.direction,
                          pins |-> DirectionPins(c) \cup TerminationPins(c)]
  <1>1. ApplyHardwareForDirection(p, c)
           = [uart |-> p.uart, pins |-> DirectionPins(c) \cup TerminationPins(c)]
    BY DEF ApplyHardwareForDirection, Ports
  <1> QED
    BY <1>1 DEF InitDMX

\* A port that starts from the configuration agrees with it.
LEMMA StartedPort ==
  ASSUME NEW p \in Ports, NEW c \in NodeConfigs
  PROVE  /\ InitDMX(p, c) \in Ports
         /\ InitDMX(p, c) = InitDMX(Passive, c)
         /\ InitDMX(p, c).uart = c.direction
         /\ "driver" \in InitDMX(p, c).pins <=> InitDMX(p, c).uart = "output"
         /\ "receiver" \in InitDMX(p, c).pins <=> InitDMX(p, c).uart = "input"
  <1>1. InitDMX(p, c) = [uart |-> c.direction,
                         pins |-> DirectionPins(c) \cup TerminationPins(c)]
    BY InitDMXFields
  <1>2. InitDMX(Passive, c) = InitDMX(p, c)
    BY <1>1, InitDMXFields, PassiveType
  <1>3. InitDMX(p, c) \in Ports
    BY <1>1, PinsOf DEF Ports, Pins
  <1> QED
    BY <1>1, <1>2, <1>3, PinsOf

LEMMA HardwareType ==
  ASSUME NEW p \in Ports, NEW c \in NodeConfigs
  PROVE  /\ ApplyHardwareForDirection(p, c) \in Ports
         /\ [p EXCEPT !.uart = "off"] \in Ports
  BY PinsOf DEF ApplyHardwareForDirection, Ports, Pins

\* A restart of the UART is a start from nothing.
LEMMA RestartIsInit ==
  ASSUME NEW p \in Ports, NEW c \in NodeConfigs
  PROVE  RestartDMX(ApplyHardwareForDirection(p, c), c) = InitDMX(Passive, c)
  BY HardwareType, StartedPort DEF RestartDMX

---------------------------------------------------------------------------
(* The invariant                                                           *)

\* The transceiver never drives without the transmitter.
PinsAgree == /\ "driver" \in port.pins <=> port.uart = "output"
             /\ "receiver" \in port.pins <=> port.uart = "input"

\* Where the configuration that will be loaded, or is in use, stands while
\* the bus belongs to a console.
ConsoleKeepsBus ==
  bus = "kept" => /\ stored.direction = "input"
                  /\ boot = "running" => running.direction = "input"
                  /\ port.uart # "output"

\* The probe runs only for a configuration that would drive the bus.
GuardProbes ==
  boot = "guard" => running = stored /\ stored.direction = "output"

PortIsCurrent ==
  (boot = "running" /\ ~unapplied) => port = InitDMX(Passive, running)

BootInv == BootTypeOK /\ PinsAgree /\ ConsoleKeepsBus /\ GuardProbes /\ PortIsCurrent

LEMMA BootInitInv == BootInit => BootInv
  <1> SUFFICES ASSUME BootInit
               PROVE  BootInv
    OBVIOUS
  <1>1. BootTypeOK
    <2>1. 0 \in 0..GuardFrames
      BY BootAssumption
    <2> QED
      BY <2>1, PassiveType DEF BootInit, BootTypeOK, Ports
  <1>2. PinsAgree
    BY DEF BootInit, PinsAgree, Passive
  <1>3. ConsoleKeepsBus /\ GuardProbes /\ PortIsCurrent
    BY DEF BootInit, ConsoleKeepsBus, GuardProbes, PortIsCurrent
  <1> QED
    BY <1>1, <1>2, <1>3 DEF BootInv

\* applyArtNetRuntimeConfig() keeps a current port current, and makes it
\* current when the direction changes.
LEMMA RuntimePort ==
  ASSUME BootInv, boot = "running", NEW c \in NodeConfigs
  PROVE  /\ ApplyRuntime(running, c) \in Ports
         /\ "driver" \in ApplyRuntime(running, c).pins
               <=> ApplyRuntime(running, c).uart = "output"
         /\ "receiver" \in ApplyRuntime(running, c).pins
               <=> ApplyRuntime(running, c).uart = "input"
         /\ (~unapplied \/ c.direction # running.direction)
               => ApplyRuntime(running, c) = InitDMX(Passive, c)
         /\ c.direction = running.direction
               => ApplyRuntime(running, c).uart = port.uart
  <1> DEFINE p == ApplyRuntime(running, c)
  <1>1. port \in Ports /\ running \in NodeConfigs
    BY DEF BootInv, BootTypeOK, Ports
  <1>2. PinsAgree /\ PortIsCurrent
    BY DEF BootInv
  <1>3. CASE running.direction # c.direction
    <2>1. p = InitDMX(Passive, c)
      BY <1>1, <1>3, RestartIsInit DEF ApplyRuntime
    <2> QED
      BY <2>1, <1>3, StartedPort, PassiveType
  <1>4. CASE running.direction = c.direction /\ running.termination # c.termination
    <2>1. p = [port EXCEPT !.pins = (@ \ {"termination"}) \cup TerminationPins(c)]
      BY <1>4 DEF ApplyRuntime, ApplyTermination
    <2>2. /\ p = [uart |-> port.uart,
                  pins |-> (port.pins \ {"termination"}) \cup TerminationPins(c)]
          /\ port.pins \in SUBSET Pins
      BY <1>1, <2>1 DEF Ports
    <2>3. p \in Ports /\ p.uart = port.uart
      BY <1>1, <2>2, PinsOf DEF Ports, Pins
    <2>4. /\ "driver" \in p.pins <=> "driver" \in port.pins
          /\ "receiver" \in p.pins <=> "receiver" \in port.pins
      BY <2>2, PinsOf
    <2>5. ASSUME ~unapplied
          PROVE  p = InitDMX(Passive, c)
      <3>1. /\ port.uart = running.direction
            /\ port.pins = DirectionPins(running) \cup TerminationPins(running)
        BY <1>1, <1>2, <2>5, InitDMXFields, PassiveType DEF PortIsCurrent
      <3>2. DirectionPins(running) = DirectionPins(c)
        BY <1>4 DEF DirectionPins
      <3>3. port.pins \ {"termination"} = DirectionPins(c)
        BY <1>1, <3>1, <3>2, PinsOf
      <3> QED
        BY <1>4, <2>2, <3>1, <3>3, InitDMXFields, PassiveType
    <2> QED
      BY <1>2, <1>4, <2>3, <2>4, <2>5 DEF PinsAgree
  <1>5. CASE running.direction = c.direction /\ running.termination = c.termination
    <2>1. p = port
      BY <1>5 DEF ApplyRuntime
    <2>2. InitDMX(Passive, running) = InitDMX(Passive, c)
      BY <1>1, <1>5, InitDMXFields, PassiveType DEF DirectionPins, TerminationPins
    <2> QED
      BY <1>1, <1>2, <1>5, <2>1, <2>2 DEF PinsAgree, PortIsCurrent
  <1> QED
    BY <1>3, <1>4, <1>5

LEMMA DirectionChanged ==
  ASSUME NEW c \in NodeConfigs, NEW d \in Directions
  PROVE  /\ [c EXCEPT !.direction = d] \in NodeConfigs
         /\ [c EXCEPT !.direction = d].direction = d
  BY DEF NodeConfigs

\* One step of boot or of the running node keeps the invariant.
LEMMA BootNextInv == BootInv /\ [BootNext]_bootVars => BootInv'
  <1> SUFFICES ASSUME BootInv, [BootNext]_bootVars
               PROVE  BootInv'
    OBVIOUS
  <1> USE DEF BootInv
  <1>t. /\ running \in NodeConfigs /\ stored \in NodeConfigs /\ port \in Ports
        /\ guardFrames \in 0..GuardFrames /\ GuardFrames \in Nat \ {0}
        /\ bus \in {"free", "kept", "lost"} /\ unapplied \in BOOLEAN
        /\ boot \in {"reset", "guard", "running", "recovery", "halted"}
    BY BootAssumption DEF BootTypeOK, Ports
  <1>i. 0 \in 0..GuardFrames
    BY <1>t
  <1>1. CASE Setup
    <2>1. CASE GuardApplies(stored)
      <3>1. port' = [uart |-> "input",
                     pins |-> IF stored.termination # "off"
                              THEN {"receiver", "termination"} ELSE {"receiver"}]
        BY <1>1, <2>1 DEF Setup, ApplyHardwareListenOnly, Passive
      <3>2. port' \in Ports /\ PinsAgree'
        BY <3>1 DEF Ports, Pins, PinsAgree
      <3>3. BootTypeOK'
        BY <1>1, <1>t, <1>i, <2>1, <3>2 DEF Setup, BootTypeOK, Ports
      <3>4. ConsoleKeepsBus' /\ GuardProbes' /\ PortIsCurrent'
        BY <1>1, <2>1, <3>1
        DEF Setup, GuardApplies, ConsoleKeepsBus, GuardProbes, PortIsCurrent
      <3> QED
        BY <3>2, <3>3, <3>4
    <2>2. CASE ~GuardApplies(stored)
      <3>1. port' = InitDMX(Passive, stored) /\ boot' = "running"
        BY <1>1, <2>2 DEF Setup
      <3>2. port' \in Ports /\ PinsAgree' /\ port'.uart = stored.direction
        BY <1>t, <3>1, StartedPort, PassiveType DEF PinsAgree
      <3>3. BootTypeOK'
        BY <1>1, <1>t, <1>i, <3>1, <3>2 DEF Setup, BootTypeOK, Ports
      <3>4. ConsoleKeepsBus' /\ GuardProbes' /\ PortIsCurrent'
        BY <1>1, <3>1, <3>2 DEF Setup, ConsoleKeepsBus, GuardProbes, PortIsCurrent
      <3> QED
        BY <3>2, <3>3, <3>4
    <2> QED
      BY <2>1, <2>2
  <1>1a. ASSUME NEW d \in Defaults, SetupWithoutConfig(d)
         PROVE  BootInv'
    <2>1. d \in NodeConfigs
      BY DEF Defaults
    <2>2. /\ port' = InitDMX(Passive, d) /\ boot' = "running" /\ running' = d
          /\ stored' \in {stored, d} /\ guardFrames' = 0 /\ unapplied' = unapplied
      BY <1>1a DEF SetupWithoutConfig
    <2>3. bus' \in {"free", "kept", "lost"} /\ bus' # "kept"
      BY <1>1a, <1>t DEF SetupWithoutConfig, Overwritten
    <2>4. port' \in Ports /\ PinsAgree'
      BY <2>1, <2>2, StartedPort, PassiveType DEF PinsAgree
    <2>5. BootTypeOK'
      BY <1>t, <1>i, <2>1, <2>2, <2>3, <2>4 DEF BootTypeOK, Ports
    <2>6. ConsoleKeepsBus' /\ GuardProbes' /\ PortIsCurrent'
      BY <2>2, <2>3 DEF ConsoleKeepsBus, GuardProbes, PortIsCurrent
    <2> QED
      BY <2>4, <2>5, <2>6
  <1>2. ASSUME NEW d \in Defaults, RecoveryBoot(d)
        PROVE  BootInv'
    <2>1. d \in NodeConfigs
      BY DEF Defaults
    <2> QED
      BY <1>2, <1>t, <2>1, PassiveType
      DEF RecoveryBoot, BootTypeOK, Ports, PinsAgree, ConsoleKeepsBus, GuardProbes,
          PortIsCurrent, Passive
  <1>3. CASE FilesystemFault
    BY <1>3, <1>t, PassiveType
    DEF FilesystemFault, BootTypeOK, Ports, PinsAgree, ConsoleKeepsBus, GuardProbes,
        PortIsCurrent, Passive
  <1>4. CASE GuardFrame
    <2>1. guardFrames' \in 0..GuardFrames
      BY <1>4, <1>t DEF GuardFrame
    <2> QED
      BY <1>4, <1>t, <2>1
      DEF GuardFrame, BootTypeOK, PinsAgree, ConsoleKeepsBus, GuardProbes, PortIsCurrent
  <1>5. CASE GuardFindsConsole
    <2>1. running' \in NodeConfigs /\ stored' \in NodeConfigs
      BY <1>5, <1>t, DirectionChanged DEF GuardFindsConsole, Directions
    <2>2. port' = InitDMX(Passive, running')
      BY <1>5, <1>t, <2>1, HardwareType, StartedPort DEF GuardFindsConsole
    <2>3. port' \in Ports /\ PinsAgree' /\ port'.uart = running'.direction
      BY <2>1, <2>2, StartedPort, PassiveType DEF PinsAgree
    <2>4. BootTypeOK'
      BY <1>5, <1>t, <1>i, <2>1, <2>3 DEF GuardFindsConsole, BootTypeOK, Ports
    <2>5. bus' = "kept" => running'.direction = "input" /\ stored' = running'
      BY <1>5, <1>t, DirectionChanged DEF GuardFindsConsole, Directions
    <2>6. ConsoleKeepsBus' /\ GuardProbes' /\ PortIsCurrent'
      BY <1>5, <2>2, <2>3, <2>5
      DEF GuardFindsConsole, ConsoleKeepsBus, GuardProbes, PortIsCurrent
    <2> QED
      BY <2>3, <2>4, <2>6
  <1>6. CASE GuardFindsNothing
    <2>1. port' = InitDMX(Passive, running)
      BY <1>6, <1>t, HardwareType, StartedPort DEF GuardFindsNothing
    <2>2. port' \in Ports /\ PinsAgree'
      BY <1>t, <2>1, StartedPort, PassiveType DEF PinsAgree
    <2>3. BootTypeOK'
      BY <1>6, <1>t, <1>i, <2>2 DEF GuardFindsNothing, BootTypeOK, Ports
    <2>4. bus # "kept"
      BY <1>6 DEF GuardFindsNothing, ConsoleKeepsBus, GuardProbes
    <2>5. ConsoleKeepsBus' /\ GuardProbes' /\ PortIsCurrent'
      BY <1>6, <2>1, <2>4 DEF GuardFindsNothing, ConsoleKeepsBus, GuardProbes, PortIsCurrent
    <2> QED
      BY <2>2, <2>3, <2>5
  <1>7. ASSUME NEW c \in NodeConfigs, SaveConfig(c) \/ ImportConfig(c)
        PROVE  BootInv'
    <2>0. /\ boot = "running" /\ stored' = c /\ running' = c /\ boot' = boot
          /\ bus' = Commanded(c) /\ guardFrames' = guardFrames
      BY <1>7 DEF SaveConfig, ImportConfig, StoreUnapplied
    <2>1. bus' \in {"free", "kept", "lost"} /\ (bus' = "kept" => bus = "kept" /\ c.direction = "input")
      BY <1>t, <2>0, PinsOf DEF Commanded
    <2>2. CASE StoreUnapplied(c)
      <3>1. /\ port' = port
            /\ unapplied' = (unapplied \/ c.direction # running.direction
                                       \/ c.termination # running.termination)
        BY <2>2 DEF StoreUnapplied
      <3>2. BootTypeOK' /\ PinsAgree' /\ GuardProbes' /\ ConsoleKeepsBus'
        BY <1>t, <2>0, <2>1, <3>1
        DEF BootTypeOK, PinsAgree, Ports, GuardProbes, ConsoleKeepsBus
      <3>3. PortIsCurrent'
        <4>1. SUFFICES ASSUME ~unapplied'
                       PROVE  port' = InitDMX(Passive, c)
          BY <2>0 DEF PortIsCurrent
        <4>2. ~unapplied /\ c.direction = running.direction
                         /\ c.termination = running.termination
          BY <1>t, <3>1, <4>1
        <4> QED
          BY <1>t, <2>0, <3>1, <4>2, InitDMXFields, PassiveType
          DEF PortIsCurrent, DirectionPins, TerminationPins
      <3> QED
        BY <3>2, <3>3
    <2>3. CASE ~StoreUnapplied(c)
      <3>1. /\ port' = ApplyRuntime(running, c)
            /\ unapplied' = (unapplied /\ c.direction = running.direction)
        BY <1>7, <2>3 DEF SaveConfig, ImportConfig
      <3>2. port' \in Ports /\ PinsAgree'
        BY <2>0, <3>1, RuntimePort DEF PinsAgree
      <3>3. BootTypeOK' /\ GuardProbes' /\ PortIsCurrent'
        BY <1>t, <2>0, <2>1, <3>1, <3>2, RuntimePort
        DEF BootTypeOK, Ports, GuardProbes, PortIsCurrent
      <3>4. ConsoleKeepsBus'
        BY <2>0, <2>1, <3>1, RuntimePort DEF ConsoleKeepsBus
      <3> QED
        BY <3>2, <3>3, <3>4
    <2> QED
      BY <2>2, <2>3
  <1>8. ASSUME NEW d \in Directions, ArtAddressDirection(d)
        PROVE  BootInv'
    <2>1. running' \in NodeConfigs /\ running'.direction = d
      BY <1>8, <1>t, DirectionChanged DEF ArtAddressDirection
    <2>2. stored' \in NodeConfigs
      BY <1>8, <1>t, <2>1 DEF ArtAddressDirection
    <2>3. port' = InitDMX(Passive, running')
      BY <1>8, <1>t, <2>1, RestartIsInit DEF ArtAddressDirection
    <2>4. port' \in Ports /\ PinsAgree' /\ port'.uart = d
      BY <2>1, <2>3, StartedPort, PassiveType DEF PinsAgree
    <2>5. bus' = "kept" => bus = "kept" /\ d = "input"
      BY <1>8, <2>1, PinsOf DEF ArtAddressDirection, Commanded
    <2>6. bus' \in {"free", "kept", "lost"}
      BY <1>8, <1>t DEF ArtAddressDirection, Commanded
    <2>7. BootTypeOK'
      BY <1>8, <1>t, <2>1, <2>2, <2>4, <2>6 DEF ArtAddressDirection, BootTypeOK, Ports
    <2>8. ConsoleKeepsBus' /\ GuardProbes' /\ PortIsCurrent'
      BY <1>8, <2>1, <2>3, <2>4, <2>5
      DEF ArtAddressDirection, ConsoleKeepsBus, GuardProbes, PortIsCurrent
    <2> QED
      BY <2>4, <2>7, <2>8
  <1>9. ASSUME NEW d \in Directions, TemporaryRuntimeConfig(d)
        PROVE  BootInv'
    <2>0. /\ boot = "running" /\ boot' = boot /\ stored' = stored
          /\ guardFrames' = guardFrames
          /\ running' \in NodeConfigs /\ running'.direction = d
          /\ unapplied' = (unapplied /\ d = running.direction)
      BY <1>9, <1>t, DirectionChanged DEF TemporaryRuntimeConfig
    <2>1. port' = ApplyRuntime(running, running')
      BY <1>9 DEF TemporaryRuntimeConfig
    <2>2. port' \in Ports /\ PinsAgree'
      BY <2>0, <2>1, RuntimePort DEF PinsAgree
    <2>3. bus' \in {"free", "kept", "lost"} /\ (bus' = "kept" => bus = "kept" /\ d = "input")
      BY <1>9, <1>t, <2>0, PinsOf DEF TemporaryRuntimeConfig, Commanded
    <2>4. BootTypeOK'
      BY <1>t, <2>0, <2>2, <2>3 DEF BootTypeOK, Ports
    <2>5. PortIsCurrent'
      BY <1>t, <2>0, <2>1, RuntimePort DEF PortIsCurrent
    <2>6. ConsoleKeepsBus' /\ GuardProbes'
      BY <2>0, <2>1, <2>3, RuntimePort DEF ConsoleKeepsBus, GuardProbes
    <2> QED
      BY <2>2, <2>4, <2>5, <2>6
  <1>10. CASE StoreOtherSetting
    BY <1>10, <1>t
    DEF StoreOtherSetting, BootTypeOK, Ports, PinsAgree, ConsoleKeepsBus, GuardProbes,
        PortIsCurrent
  <1>11. ASSUME NEW d \in Defaults, FactoryReset(d)
         PROVE  BootInv'
    <2>1. d \in NodeConfigs
      BY DEF Defaults
    <2>2. BootTypeOK' /\ PinsAgree' /\ ConsoleKeepsBus' /\ GuardProbes'
      BY <1>11, <1>t, <2>1
      DEF FactoryReset, BootTypeOK, Ports, PinsAgree, ConsoleKeepsBus, GuardProbes
    <2>3. PortIsCurrent'
      BY <1>11 DEF FactoryReset, PortIsCurrent
    <2> QED
      BY <2>2, <2>3
  <1>12. ASSUME NEW d \in Defaults, RecoveryPassword(d)
         PROVE  BootInv'
    <2>1. d \in NodeConfigs
      BY DEF Defaults
    <2> QED
      BY <1>12, <1>t, <2>1
      DEF RecoveryPassword, Overwritten, BootTypeOK, Ports, PinsAgree, ConsoleKeepsBus,
          GuardProbes, PortIsCurrent
  <1>13. CASE NodeRestart
    BY <1>13, <1>t, <1>i, PassiveType
    DEF NodeRestart, BootTypeOK, Ports, PinsAgree, ConsoleKeepsBus, GuardProbes,
        PortIsCurrent, Passive
  <1>14. CASE UNCHANGED bootVars
    BY <1>14
    DEF bootVars, BootTypeOK, PinsAgree, ConsoleKeepsBus, GuardProbes, PortIsCurrent
  <1> QED
    BY <1>1, <1>1a, <1>2, <1>3, <1>4, <1>5, <1>6, <1>7, <1>8, <1>9, <1>10, <1>11,
       <1>12, <1>13, <1>14 DEF BootNext

---------------------------------------------------------------------------
(* Theorems                                                                *)

\* The inductive invariant holds in every state of the boot and port model.
THEOREM BootInvariant == BootSpec => []BootInv
  BY BootInitInv, BootNextInv, PTL DEF BootSpec

\* Every variable of the boot model keeps its type, whatever sequence of
\* saves, resets, failed stores and restarts the node goes through.
THEOREM BootTypes == BootSpec => []BootTypeOK
  <1>1. BootInv => BootTypeOK
    BY DEF BootInv
  <1> QED
    BY <1>1, BootInvariant, PTL

\* Once the bus guard has stored that a console owns the bus, and as long as
\* no load of the configuration fails, the node does not drive it before an
\* operator asks for the output: the configuration in flash, the one in RAM
\* and the port carry the decision through every restart.  (When the store or
\* a load fails the node does drive it: GuardedBusIsNotDriven is refuted.)
THEOREM GuardHolds == BootSpec => []GuardDecisionLasts
  <1>1. BootInv => GuardDecisionLasts
    BY DEF BootInv, ConsoleKeepsBus, PinsAgree, GuardDecisionLasts
  <1> QED
    BY <1>1, BootInvariant, PTL

\* UART, transceiver and termination agree with each other always, and with
\* the configuration unless a save or an upload has been left unapplied.
THEOREM PortAgrees == BootSpec => []PortFollowsConfig
  <1>1. BootInv => PortFollowsConfig
    BY DEF BootInv, PinsAgree, PortIsCurrent, PortFollowsConfig
  <1> QED
    BY <1>1, BootInvariant, PTL

-----------------------------------------------------------------------------
(* The lockout *)

\* No login is refused for longer than its window has lasted.
LockoutInv ==
  /\ failures \in [count : Nat, age : Nat]
  /\ blockedFor \in Nat
  /\ IF Blocked(failures) THEN blockedFor <= failures.age ELSE blockedFor = 0

LEMMA LockoutStarts == WebInit => LockoutInv
  BY WebSizes DEF WebInit, LockoutInv, NoFailures, Blocked

\* Every attempt that is let through leaves a window that is younger than any
\* refusal before it, or none.
LEMMA RecordedType ==
  ASSUME NEW f \in [count : Nat, age : Nat]
  PROVE  /\ Recorded(f) \in [count : Nat, age : Nat]
         /\ Lapsed(f) \in [count : Nat, age : Nat]
  BY DEF Recorded, Lapsed, NoFailures

LEMMA AttemptKeepsLockout ==
  ASSUME LockoutInv, NEW f \in [count : Nat, age : Nat], LoginWith(f),
         f = failures \/ ~Blocked(failures)
  PROVE  LockoutInv'
  BY DEF LockoutInv, LoginWith, Blocked

LEMMA TickKeepsLockout == LockoutInv /\ WebTick => LockoutInv'
  <1> SUFFICES ASSUME LockoutInv, WebTick
               PROVE  LockoutInv'
    OBVIOUS
  <1>1. failures' = IF failures.count > 0 /\ failures.age < FailureWindow
                    THEN [failures EXCEPT !.age = @ + 1] ELSE failures
    BY DEF WebTick
  <1>2. /\ failures' \in [count : Nat, age : Nat]
        /\ failures'.count = failures.count
        /\ failures'.age >= failures.age
    BY <1>1 DEF LockoutInv
  <1>3. blockedFor' = IF Blocked(failures') /\ blockedFor <= FailureWindow
                      THEN blockedFor + 1 ELSE 0
    BY DEF WebTick
  <1>4. CASE Blocked(failures')
    <2>1. Blocked(failures) /\ failures'.age = failures.age + 1
      BY <1>1, <1>2, <1>4, WebSizes DEF Blocked, LockoutInv
    <2> QED
      BY <2>1, <1>2, <1>3, <1>4, WebSizes DEF LockoutInv, Blocked
  <1>5. CASE ~Blocked(failures')
    BY <1>2, <1>3, <1>5 DEF LockoutInv, Blocked
  <1> QED
    BY <1>4, <1>5

LEMMA LockoutStep == LockoutInv /\ [WebNext]_webVars => LockoutInv'
  <1> SUFFICES ASSUME LockoutInv, [WebNext]_webVars
               PROVE  LockoutInv'
    OBVIOUS
  <1>1. CASE UNCHANGED <<failures, blockedFor>>
    BY <1>1 DEF LockoutInv, Blocked
  <1>2. CASE failures' = NoFailures /\ blockedFor' = 0
    BY <1>2, WebSizes DEF LockoutInv, NoFailures, Blocked
  <1>3. CASE WebAuth
    <2>1. CASE LoginRefused
      BY <2>1, AttemptKeepsLockout DEF LoginRefused, LockoutInv
    <2>2. CASE LoginWrong
      <3>1. Lapsed(Recorded(Lapsed(failures))) \in [count : Nat, age : Nat]
        BY RecordedType DEF LockoutInv
      <3> QED
        BY <3>1, <2>2, AttemptKeepsLockout DEF LoginWrong
    <2>3. CASE LoginRight
      <3>1. NoFailures \in [count : Nat, age : Nat]
        BY DEF NoFailures
      <3> QED
        BY <3>1, <2>3, AttemptKeepsLockout DEF LoginRight
    <2>4. CASE \E b \in BOOLEAN : SetPassword(b)
      BY <2>4, <1>2 DEF SetPassword
    <2>5. CASE Logout \/ ForgetToken \/ RecoveryClearPassword \/ (\E b \in BOOLEAN : UseSession(b))
      BY <2>5, <1>1, Zenon DEF Logout, ForgetToken, RecoveryClearPassword, UseSession
    <2> QED
      BY <1>3, <2>1, <2>2, <2>3, <2>4, <2>5 DEF WebAuth
  <1>4. CASE WebUpdate
    BY <1>4, <1>1, Zenon
       DEF WebUpdate, StartUpdate, WriteUpdate, EndUpdate, AbortUpdate, AnswerUpdate,
           UnlessUpdate, authVars
  <1>5. CASE WebConfig
    BY <1>5, <1>1, Zenon
       DEF WebConfig, StartConfig, WriteConfig, EndConfig, AbortConfig, AnswerConfig,
           UnlessUpload, authVars
  <1>6. CASE AskRestart
    BY <1>6, <1>1, Zenon DEF AskRestart
  <1>7. CASE Restart
    BY <1>7, <1>2 DEF Restart
  <1>8. CASE WebTick
    BY <1>8, TickKeepsLockout
  <1>9. CASE UNCHANGED webVars
    BY <1>9, <1>1, Zenon DEF webVars, authVars
  <1> QED
    BY <1>3, <1>4, <1>5, <1>6, <1>7, <1>8, <1>9 DEF WebNext

\* Attempts that are refused do not lengthen a lockout: it ends with the window
\* of the failures that caused it.
THEOREM LockoutIsBounded == WebSpec => []LockoutEnds
  <1>1. LockoutInv => LockoutEnds
    BY WebSizes DEF LockoutInv, LockoutEnds, Blocked
  <1> QED
    BY <1>1, LockoutStarts, LockoutStep, PTL DEF WebSpec

-----------------------------------------------------------------------------
(* Firmware and file system *)

UpdaterType == [running : BOOLEAN, size : Nat, got : Nat, whole : BOOLEAN]

\* The updater runs only while an upload does, and success is only set at the
\* end of one.
UpdateInv ==
  /\ update \in [error : BOOLEAN, succeeded : BOOLEAN, declared : Nat, written : Nat]
  /\ updater \in [running : BOOLEAN, size : Nat, got : Nat, whole : BOOLEAN]
  /\ update.succeeded => updater.whole /\ update.written = update.declared
  /\ Updating => ~update.succeeded
  /\ ~Updating => ~updater.running

LEMMA UpdateStarts == WebInit => UpdateInv
  BY DEF WebInit, UpdateInv, Updating, NoRequest, UpdaterIdle

\* The updater stops with or without an accepted image.
LEMMA IdleUpdater ==
  ASSUME NEW b \in BOOLEAN
  PROVE  /\ UpdaterIdle \in UpdaterType /\ ~UpdaterIdle.running
         /\ [UpdaterIdle EXCEPT !.whole = b] \in UpdaterType
         /\ ~[UpdaterIdle EXCEPT !.whole = b].running
         /\ [UpdaterIdle EXCEPT !.whole = b].whole = b
  BY DEF UpdaterIdle, UpdaterType

LEMMA StartKeepsUpdate ==
  ASSUME UpdateInv, NEW kind \in {"flash", "fs"}, NEW size \in 0 .. MaxUpload,
         NEW begins \in BOOLEAN, StartUpdate(kind, size, begins)
  PROVE  UpdateInv'
  <1>1. update' = [error |-> ~begins, succeeded |-> FALSE, declared |-> size, written |-> 0]
    BY DEF StartUpdate
  <1>2. size \in Nat /\ (~begins) \in BOOLEAN
    BY WebSizes
  <1>3. /\ update' \in [error : BOOLEAN, succeeded : BOOLEAN, declared : Nat, written : Nat]
        /\ ~update'.succeeded
    BY <1>1, <1>2
  <1>4. updater' = IF begins THEN [running |-> TRUE, size |-> size, got |-> 0, whole |-> FALSE]
                   ELSE updater
    BY DEF StartUpdate
  <1>5. updater' \in [running : BOOLEAN, size : Nat, got : Nat, whole : BOOLEAN]
    BY <1>2, <1>4 DEF UpdateInv
  <1>6. Updating'
    BY DEF StartUpdate, Updating
  <1> QED
    BY <1>3, <1>5, <1>6 DEF UpdateInv

LEMMA WriteKeepsUpdate ==
  ASSUME UpdateInv, NEW taken \in 0 .. 1, WriteUpdate(taken)
  PROVE  UpdateInv'
  <1>1. /\ Updating /\ Updating'
        /\ ~update.succeeded
    BY DEF WriteUpdate, Updating, UpdateInv
  <1>2. /\ update' \in [error : BOOLEAN, succeeded : BOOLEAN, declared : Nat, written : Nat]
        /\ update'.succeeded = update.succeeded
    <2>1. CASE UNCHANGED update
      BY <2>1 DEF UpdateInv
    <2>2. CASE update' = [update EXCEPT !.error = TRUE]
      BY <2>2 DEF UpdateInv
    <2>3. CASE update' = [update EXCEPT !.written = @ + taken, !.error = (taken = 0)]
      <3>1. (taken = 0) \in BOOLEAN /\ update.written + taken \in Nat
        BY DEF UpdateInv
      <3> QED
        BY <2>3, <3>1 DEF UpdateInv
    <2> QED
      BY <2>1, <2>2, <2>3 DEF WriteUpdate
  <1>3. updater' \in [running : BOOLEAN, size : Nat, got : Nat, whole : BOOLEAN]
    <2>1. CASE UNCHANGED updater
      BY <2>1 DEF UpdateInv
    <2>2. CASE updater' = [updater EXCEPT !.got = @ + taken]
      BY <2>2 DEF UpdateInv
    <2> QED
      BY <2>1, <2>2 DEF WriteUpdate
  <1> QED
    BY <1>1, <1>2, <1>3 DEF UpdateInv

LEMMA EndKeepsUpdate ==
  ASSUME UpdateInv, NEW verified \in BOOLEAN, EndUpdate(verified)
  PROVE  UpdateInv'
  <1> DEFINE right == ~update.error /\ update.written = update.declared
  <1> DEFINE accepted == right /\ updater.running /\ updater.got = updater.size /\ verified
  <1>1. right \in BOOLEAN /\ accepted \in BOOLEAN /\ (~accepted) \in BOOLEAN
    BY DEF UpdateInv
  <1>2. update' = [update EXCEPT !.error = ~accepted, !.succeeded = accepted]
    BY DEF EndUpdate
  <1>3. updater' = IF right \/ updater.running THEN [UpdaterIdle EXCEPT !.whole = accepted]
                   ELSE updater
    BY DEF EndUpdate
  <1>4. accepted => right /\ update.written = update.declared
    OBVIOUS
  <1>5. ~Updating'
    BY DEF EndUpdate, Updating, UpdateInv
  <1> HIDE DEF accepted
  <1>6. /\ update' \in [error : BOOLEAN, succeeded : BOOLEAN, declared : Nat, written : Nat]
        /\ update'.declared = update.declared /\ update'.written = update.written
    BY <1>1, <1>2 DEF UpdateInv
  <1>7. update'.succeeded = accepted
    BY <1>1, <1>2, Zenon DEF UpdateInv
  <1>8. /\ updater' \in UpdaterType /\ ~updater'.running
        /\ accepted => updater'.whole
    <2>1. CASE right \/ updater.running
      BY <1>1, <1>3, <2>1, IdleUpdater, Zenon
    <2>2. CASE ~(right \/ updater.running)
      BY <1>3, <1>4, <2>2, Zenon DEF UpdateInv, UpdaterType
    <2> QED
      BY <2>1, <2>2, Zenon
  <1>9. update'.succeeded => updater'.whole /\ update'.written = update'.declared
    BY <1>4, <1>6, <1>7, <1>8, Zenon
  <1> QED
    BY <1>5, <1>6, <1>8, <1>9, Zenon DEF UpdateInv, UpdaterType

LEMMA AbortKeepsUpdate ==
  ASSUME UpdateInv, AbortUpdate
  PROVE  UpdateInv'
  <1>1. /\ ~Updating' /\ ~update.succeeded
        /\ update' = [update EXCEPT !.error = TRUE]
        /\ updater' = IF updater.running THEN UpdaterIdle ELSE updater
    BY DEF AbortUpdate, Updating, NoRequest, UpdateInv
  <1>2. /\ update' \in [error : BOOLEAN, succeeded : BOOLEAN, declared : Nat, written : Nat]
        /\ ~update'.succeeded
    BY <1>1 DEF UpdateInv
  <1>3. updater' \in UpdaterType /\ ~updater'.running
    BY <1>1, IdleUpdater, Zenon DEF UpdateInv, UpdaterType
  <1> QED
    BY <1>1, <1>2, <1>3 DEF UpdateInv, UpdaterType

LEMMA UpdateStep == UpdateInv /\ [WebNext]_webVars => UpdateInv'
  <1> SUFFICES ASSUME UpdateInv, [WebNext]_webVars
               PROVE  UpdateInv'
    OBVIOUS
  <1>1. CASE UNCHANGED <<update, updater>> /\ (Updating <=> Updating')
    BY <1>1, Zenon DEF UpdateInv
  <1>2. CASE UNCHANGED <<request, update, updater>>
    BY <1>1, <1>2, Zenon DEF Updating
  <1>3. CASE WebAuth
    BY <1>2, <1>3, Zenon
       DEF WebAuth, LoginRefused, LoginWrong, LoginRight, LoginWith, Logout, SetPassword,
           UseSession, ForgetToken, RecoveryClearPassword, UnlessAuth, updateVars
  <1>4. CASE WebUpdate
    <2>1. CASE AnswerUpdate
      <3>1. ~Updating /\ ~Updating' /\ UNCHANGED <<update, updater>>
        BY <2>1 DEF AnswerUpdate, Updating, NoRequest, updateVars
      <3> QED
        BY <1>1, <3>1
    <2> QED
      BY <1>4, <2>1, StartKeepsUpdate, WriteKeepsUpdate, EndKeepsUpdate, AbortKeepsUpdate
         DEF WebUpdate
  <1>5. CASE WebConfig
    <2>1. UNCHANGED <<update, updater>>
      BY <1>5, Zenon DEF WebConfig, StartConfig, WriteConfig, EndConfig, AbortConfig,
                         AnswerConfig, UnlessUpload, updateVars
    <2>2. CASE \E taken \in 0 .. 1 : WriteConfig(taken)
      BY <1>1, <2>1, <2>2 DEF WriteConfig, Updating
    <2>3. CASE \E v \in BOOLEAN : EndConfig(v)
      BY <1>1, <2>1, <2>3 DEF EndConfig, Updating
    <2>4. CASE AbortConfig \/ AnswerConfig
      <3>1. /\ request.kind = "config" \/ request.kind = "answerConfig"
            /\ request' = NoRequest
        BY <2>4, Zenon DEF AbortConfig, AnswerConfig
      <3>2. ~Updating /\ ~Updating'
        BY <3>1 DEF Updating, NoRequest
      <3> QED
        BY <1>1, <2>1, <3>2
    <2>5. CASE \E size \in 0 .. MaxUpload, b \in BOOLEAN : StartConfig(size, b)
      BY <1>1, <2>1, <2>5 DEF StartConfig, Free, Updating
    <2> QED
      BY <1>5, <2>2, <2>3, <2>4, <2>5 DEF WebConfig
  <1>6. CASE AskRestart \/ WebTick
    BY <1>2, <1>6, Zenon DEF AskRestart, WebTick, updateVars
  <1>7. CASE Restart
    <2>1. /\ update' = [error |-> TRUE, succeeded |-> FALSE, declared |-> 0, written |-> 0]
          /\ updater' = UpdaterIdle /\ ~Updating'
      BY <1>7 DEF Restart, Free, Updating
    <2> QED
      BY <2>1 DEF UpdateInv, UpdaterIdle
  <1>8. CASE UNCHANGED webVars
    BY <1>8, <1>2, Zenon DEF webVars, updateVars
  <1> QED
    BY <1>3, <1>4, <1>5, <1>6, <1>7, <1>8 DEF WebNext

\* Whatever an earlier upload left behind and however the chunks of this one
\* come, an update that is reported as successful has been accepted whole.
THEOREM UpdatesAreWhole == WebSpec => []UpdateIsWhole
  <1>1. UpdateInv => UpdateIsWhole
    BY DEF UpdateInv, UpdateIsWhole, Free, Updating
  <1> QED
    BY <1>1, UpdateStarts, UpdateStep, PTL DEF WebSpec

-----------------------------------------------------------------------------
(* The configuration file *)

\* The file and its temporary name exist only while an upload runs.
UploadInv ==
  /\ upload \in [open : BOOLEAN, error : BOOLEAN, ok : BOOLEAN, written : Nat, temp : BOOLEAN]
  /\ imported \in BOOLEAN
  /\ request.kind # "config" => ~upload.open /\ ~upload.temp
  /\ request.kind = "answerConfig" => upload.ok = imported

LEMMA UploadStarts == WebInit => UploadInv
  <1> SUFFICES ASSUME WebInit
               PROVE  UploadInv
    OBVIOUS
  <1>1. /\ upload = [open |-> FALSE, error |-> TRUE, ok |-> FALSE, written |-> 0, temp |-> FALSE]
        /\ imported = FALSE /\ request.kind = "none"
    BY DEF WebInit, NoRequest
  <1> QED
    BY <1>1 DEF UploadInv

LEMMA ConfigKeepsUpload ==
  ASSUME UploadInv, WebConfig
  PROVE  UploadInv'
  <1> DEFINE Type == [open : BOOLEAN, error : BOOLEAN, ok : BOOLEAN, written : Nat,
                      temp : BOOLEAN]
  <1>1. CASE \E size \in 0 .. MaxUpload, b \in BOOLEAN : StartConfig(size, b)
    <2>1. PICK b \in BOOLEAN :
             /\ upload' = [open |-> b, error |-> ~b, ok |-> FALSE, written |-> 0, temp |-> b]
             /\ request' = [kind |-> "config", sent |-> 0] /\ imported' = FALSE
      BY <1>1 DEF StartConfig
    <2>2. (~b) \in BOOLEAN
      OBVIOUS
    <2>3. upload' \in Type
      BY <2>1, <2>2
    <2> QED
      BY <2>1, <2>3 DEF UploadInv
  <1>2. CASE \E taken \in 0 .. 1 : WriteConfig(taken)
    <2>1. PICK taken \in 0 .. 1 : WriteConfig(taken)
      BY <1>2
    <2>2. request'.kind = "config" /\ imported' = imported
      BY <2>1 DEF WriteConfig
    <2>3. CASE UNCHANGED upload
      BY <2>2, <2>3 DEF UploadInv
    <2>4. CASE upload' = [upload EXCEPT !.open = FALSE, !.error = TRUE, !.temp = FALSE]
      BY <2>2, <2>4 DEF UploadInv
    <2>5. CASE upload' = [upload EXCEPT !.written = @ + taken, !.error = (taken = 0)]
      <3>1. (taken = 0) \in BOOLEAN /\ upload.written + taken \in Nat
        BY DEF UploadInv
      <3>2. upload' \in Type
        BY <2>5, <3>1 DEF UploadInv
      <3> QED
        BY <2>2, <3>2 DEF UploadInv
    <2> QED
      BY <2>1, <2>3, <2>4, <2>5 DEF WriteConfig
  <1>3. CASE \E v \in BOOLEAN : EndConfig(v)
    <2>1. PICK v \in BOOLEAN : EndConfig(v)
      BY <1>3
    <2> DEFINE ok == ~upload.error /\ v
    <2> DEFINE error == upload.error \/ ~v
    <2>2. ok \in BOOLEAN /\ error \in BOOLEAN
      BY DEF UploadInv
    <2>3. /\ upload' = [upload EXCEPT !.open = FALSE, !.temp = FALSE, !.ok = ok, !.error = error]
          /\ imported' = ok
      BY <2>1 DEF EndConfig
    <2>4. request'.kind = "answerConfig"
      BY <2>1 DEF EndConfig
    <2> HIDE DEF ok, error
    <2>5. upload' \in Type /\ ~upload'.open /\ ~upload'.temp
      BY <2>2, <2>3 DEF UploadInv
    <2>6. upload'.ok = ok
      BY <2>2, <2>3, Zenon DEF UploadInv
    <2> QED
      BY <2>2, <2>3, <2>4, <2>5, <2>6, Zenon DEF UploadInv
  <1>4. CASE AbortConfig
    BY <1>4 DEF AbortConfig, NoRequest, UploadInv
  <1>5. CASE AnswerConfig
    BY <1>5 DEF AnswerConfig, NoRequest, UploadInv, uploadVars
  <1> QED
    BY <1>1, <1>2, <1>3, <1>4, <1>5 DEF WebConfig

LEMMA UploadStep == UploadInv /\ [WebNext]_webVars => UploadInv'
  <1> SUFFICES ASSUME UploadInv, [WebNext]_webVars
               PROVE  UploadInv'
    OBVIOUS
  <1>1. CASE UNCHANGED <<request, upload, imported>>
    BY <1>1, Zenon DEF UploadInv
  <1>2. CASE WebAuth
    BY <1>1, <1>2, Zenon
       DEF WebAuth, LoginRefused, LoginWrong, LoginRight, LoginWith, Logout, SetPassword,
           UseSession, ForgetToken, RecoveryClearPassword, UnlessAuth, uploadVars
  <1>3. CASE WebUpdate
    <2>1. UNCHANGED <<upload, imported>>
      BY <1>3, Zenon DEF WebUpdate, StartUpdate, WriteUpdate, EndUpdate, AbortUpdate,
                         AnswerUpdate, UnlessUpdate, uploadVars
    <2>2. request.kind # "config" /\ request'.kind \notin {"config", "answerConfig"}
      <3>1. CASE \E taken \in 0 .. 1 : WriteUpdate(taken)
        BY <3>1 DEF WriteUpdate, Updating
      <3>2. CASE \E v \in BOOLEAN : EndUpdate(v)
        BY <3>2 DEF EndUpdate, Updating
      <3>3. CASE AbortUpdate \/ AnswerUpdate
        BY <3>3 DEF AbortUpdate, AnswerUpdate, Updating, NoRequest
      <3>4. CASE \E kind \in {"flash", "fs"}, size \in 0 .. MaxUpload, b \in BOOLEAN :
                    StartUpdate(kind, size, b)
        BY <3>4 DEF StartUpdate, Free
      <3> QED
        BY <1>3, <3>1, <3>2, <3>3, <3>4 DEF WebUpdate
    <2> QED
      BY <2>1, <2>2, Zenon DEF UploadInv
  <1>4. CASE WebConfig
    BY <1>4, ConfigKeepsUpload
  <1>5. CASE AskRestart \/ WebTick
    BY <1>1, <1>5, Zenon DEF AskRestart, WebTick, uploadVars
  <1>6. CASE Restart
    BY <1>6 DEF Restart, Free, UploadInv
  <1>7. CASE UNCHANGED webVars
    BY <1>1, <1>7, Zenon DEF webVars, uploadVars
  <1> QED
    BY <1>2, <1>3, <1>4, <1>5, <1>6, <1>7 DEF WebNext

\* What the browser is told is what happened to the configuration, and nothing
\* of the upload outlives it.
THEOREM ConfigUploadsAreReported == WebSpec => []ConfigUploadIsReported
  <1>1. UploadInv => ConfigUploadIsReported
    BY DEF UploadInv, ConfigUploadIsReported, Free
  <1> QED
    BY <1>1, UploadStarts, UploadStep, PTL DEF WebSpec

-----------------------------------------------------------------------------
(* The types of the web server *)

Sessions == [open : BOOLEAN, held : BOOLEAN, idle : 0 .. IdleTimeout + 1]

LEMMA SessionValues ==
  /\ NoSession \in Sessions
  /\ [open |-> TRUE, held |-> TRUE, idle |-> 0] \in Sessions
  /\ \A s \in Sessions : /\ [s EXCEPT !.idle = 0] \in Sessions
                         /\ [s EXCEPT !.held = TRUE] \in Sessions
                         /\ [s EXCEPT !.held = FALSE] \in Sessions
                         /\ s.idle <= IdleTimeout => [s EXCEPT !.idle = @ + 1] \in Sessions
  <1>1. 0 \in 0 .. IdleTimeout + 1
    BY WebSizes
  <1>2. /\ NoSession \in Sessions
        /\ [open |-> TRUE, held |-> TRUE, idle |-> 0] \in Sessions
    BY <1>1 DEF Sessions, NoSession
  <1>3. ASSUME NEW s \in Sessions
        PROVE  /\ [s EXCEPT !.idle = 0] \in Sessions
               /\ [s EXCEPT !.held = TRUE] \in Sessions
               /\ [s EXCEPT !.held = FALSE] \in Sessions
    BY <1>1 DEF Sessions
  <1>4. ASSUME NEW s \in Sessions, s.idle <= IdleTimeout
        PROVE  [s EXCEPT !.idle = @ + 1] \in Sessions
    <2>1. s.idle + 1 \in 0 .. IdleTimeout + 1
      BY <1>4, WebSizes DEF Sessions
    <2> QED
      BY <2>1 DEF Sessions
  <1> QED
    BY <1>2, <1>3, <1>4

LEMMA SessionAfterType ==
  ASSUME session \in Sessions, NEW touch \in BOOLEAN
  PROVE  SessionAfter(TRUE, touch) \in Sessions
  BY SessionValues DEF SessionAfter

\* Who may ask, and until when.
AccessInv ==
  /\ recoveryMode \in BOOLEAN /\ fsMounted \in BOOLEAN /\ fsKnown \in BOOLEAN
  /\ password \in BOOLEAN /\ session \in Sessions /\ restartIn \in 0 .. NotScheduled

LEMMA RestartTimes == /\ NotScheduled \in 0 .. NotScheduled /\ RestartDelay \in 0 .. NotScheduled
                      /\ \A t \in 0 .. NotScheduled : t # 0 => t - 1 \in 0 .. NotScheduled
  BY WebSizes DEF NotScheduled

LEMMA AccessStarts == WebInit => AccessInv
  BY SessionValues, RestartTimes DEF WebInit, AccessInv

LEMMA AccessStep == AccessInv /\ [WebNext]_webVars => AccessInv'
  <1> SUFFICES ASSUME AccessInv, [WebNext]_webVars
               PROVE  AccessInv'
    OBVIOUS
  <1>1. CASE /\ UNCHANGED <<recoveryMode, fsMounted, fsKnown, restartIn>>
             /\ password' \in BOOLEAN /\ session' \in Sessions
    BY <1>1 DEF AccessInv
  <1>s. \A touch \in BOOLEAN : SessionAfter(TRUE, touch) \in Sessions
    BY SessionAfterType DEF AccessInv
  <1>2. CASE WebAuth
    <2>1. UNCHANGED <<recoveryMode, fsMounted, fsKnown, restartIn>>
      BY <1>2, Zenon
         DEF WebAuth, LoginRefused, LoginWrong, LoginRight, LoginWith, Logout, SetPassword,
             UseSession, ForgetToken, RecoveryClearPassword, UnlessAuth
    <2>2. CASE LoginRefused \/ LoginWrong
      BY <1>1, <2>1, <2>2 DEF LoginRefused, LoginWrong, LoginWith, AccessInv
    <2>3. CASE LoginRight
      BY <1>1, <2>1, <2>3, SessionValues DEF LoginRight, LoginWith, AccessInv
    <2>4. CASE Logout
      BY <1>1, <2>1, <2>4, SessionValues DEF Logout, AccessInv
    <2>5. ASSUME NEW b \in BOOLEAN, SetPassword(b)
          PROVE  AccessInv'
      <3> DEFINE now == SessionAfter(TRUE, TRUE)
      <3>1. /\ password' = b
            /\ session' = IF ~b THEN NoSession
                          ELSE IF now.open THEN [now EXCEPT !.held = TRUE]
                          ELSE [open |-> TRUE, held |-> TRUE, idle |-> 0]
        BY <2>5 DEF SetPassword
      <3>2. now \in Sessions
        BY <1>s
      <3> HIDE DEF now
      <3>3. session' \in Sessions
        BY <3>1, <3>2, SessionValues
      <3> QED
        BY <1>1, <2>1, <3>1, <3>3
    <2>6. ASSUME NEW b \in BOOLEAN, UseSession(b)
          PROVE  AccessInv'
      BY <1>1, <1>s, <2>1, <2>6 DEF UseSession, AccessInv
    <2>7. CASE ForgetToken
      BY <1>1, <2>1, <2>7, SessionValues DEF ForgetToken, AccessInv
    <2>8. CASE RecoveryClearPassword
      BY <1>1, <2>1, <2>8, SessionValues DEF RecoveryClearPassword, AccessInv
    <2> QED
      BY <1>2, <2>2, <2>3, <2>4, <2>5, <2>6, <2>7, <2>8 DEF WebAuth
  <1>3. CASE WebUpdate
    <2>1. ASSUME NEW kind \in {"flash", "fs"}, NEW size \in 0 .. MaxUpload, NEW b \in BOOLEAN,
                 StartUpdate(kind, size, b)
          PROVE  AccessInv'
      <3>1. /\ session' \in {session, SessionAfter(TRUE, TRUE)}
            /\ fsMounted' \in {fsMounted, FALSE} /\ fsKnown' \in {fsKnown, FALSE}
            /\ UNCHANGED <<recoveryMode, password, restartIn>>
        BY <2>1 DEF StartUpdate, UnlessUpdate
      <3> QED
        BY <1>s, <3>1 DEF AccessInv
    <2>2. CASE \/ \E taken \in 0 .. 1 : WriteUpdate(taken)
               \/ \E v \in BOOLEAN : EndUpdate(v)
               \/ AbortUpdate
      <3>1. UNCHANGED <<recoveryMode, fsMounted, fsKnown, password, session, restartIn>>
        BY <2>2, Zenon DEF WriteUpdate, EndUpdate, AbortUpdate, UnlessUpdate
      <3> QED
        BY <3>1 DEF AccessInv
    <2>3. CASE AnswerUpdate
      <3>1. /\ UNCHANGED <<recoveryMode, fsMounted, fsKnown, password, session>>
            /\ restartIn' \in {restartIn, RestartDelay}
        BY <2>3 DEF AnswerUpdate, ScheduleRestart, authVars
      <3> QED
        BY <3>1, RestartTimes DEF AccessInv
    <2> QED
      BY <1>3, <2>1, <2>2, <2>3 DEF WebUpdate
  <1>4. CASE WebConfig
    <2>1. UNCHANGED <<recoveryMode, fsMounted, fsKnown, restartIn>>
      BY <1>4, Zenon DEF WebConfig, StartConfig, WriteConfig, EndConfig, AbortConfig,
                         AnswerConfig, UnlessUpload
    <2>2. session' = session \/ session' = SessionAfter(TRUE, TRUE)
      BY <1>4, Zenon DEF WebConfig, StartConfig, WriteConfig, EndConfig, AbortConfig,
                         AnswerConfig
    <2>3. password' = password \/ password' \in BOOLEAN
      BY <1>4, Zenon DEF WebConfig, StartConfig, WriteConfig, EndConfig, AbortConfig,
                         AnswerConfig
    <2> QED
      BY <1>1, <1>s, <2>1, <2>2, <2>3, Zenon DEF AccessInv
  <1>5. CASE AskRestart
    <2>1. /\ UNCHANGED <<recoveryMode, fsMounted, fsKnown>>
          /\ session' = session \/ session' = SessionAfter(TRUE, TRUE)
          /\ restartIn' = RestartDelay
      BY <1>5, Zenon DEF AskRestart, ScheduleRestart
    <2>2. password' = password \/ password' = FALSE
      BY <1>5, Zenon DEF AskRestart
    <2>3. password' \in BOOLEAN
      BY <2>2, Zenon DEF AccessInv
    <2> QED
      BY <1>s, <2>1, <2>3, RestartTimes, Zenon DEF AccessInv
  <1>6. CASE Restart
    <2>1. fsKnown' \in BOOLEAN
      BY <1>6 DEF Restart
    <2> QED
      BY <1>6, <2>1, SessionValues, RestartTimes DEF Restart, AccessInv
  <1>7. CASE WebTick
    <2>1. /\ UNCHANGED <<recoveryMode, fsMounted, fsKnown, password>>
          /\ session' = IF session.open /\ session.idle <= IdleTimeout
                        THEN [session EXCEPT !.idle = @ + 1] ELSE session
          /\ restartIn # 0
          /\ restartIn' = IF restartIn = NotScheduled THEN NotScheduled ELSE restartIn - 1
      BY <1>7 DEF WebTick
    <2> QED
      BY <2>1, SessionValues, RestartTimes DEF AccessInv
  <1>8. CASE UNCHANGED webVars
    BY <1>8 DEF webVars, authVars, AccessInv
  <1> QED
    BY <1>2, <1>3, <1>4, <1>5, <1>6, <1>7, <1>8 DEF WebNext

Failures == [count : 0 .. FailureLimit, age : 0 .. FailureWindow]

\* An attempt is counted only below the limit, so the limit is never passed.
LEMMA FailuresStep ==
  failures \in Failures /\ [WebNext]_webVars => failures' \in Failures
  <1> SUFFICES ASSUME failures \in Failures, [WebNext]_webVars
               PROVE  failures' \in Failures
    OBVIOUS
  <1>1. NoFailures \in Failures
    BY WebSizes DEF NoFailures, Failures
  <1>2. CASE WebAuth
    <2>1. CASE LoginWrong
      <3> DEFINE f == Lapsed(failures)
                 g == Recorded(f)
      <3>1. f \in Failures /\ (f.count < FailureLimit \/ f.age >= FailureWindow)
        BY <2>1, <1>1, WebSizes DEF LoginWrong, Lapsed, Blocked, NoFailures, Failures
      <3> HIDE DEF f
      <3>2. g \in Failures
        BY <3>1, WebSizes DEF Recorded, Failures
      <3> HIDE DEF g
      <3>3. failures' = Lapsed(g)
        BY <2>1 DEF LoginWrong, LoginWith, g, f
      <3> QED
        BY <1>1, <3>2, <3>3 DEF Lapsed
    <2>2. failures' \in {failures, NoFailures} \/ LoginWrong
      BY <1>2 DEF WebAuth, LoginRefused, LoginRight, LoginWith, Logout, SetPassword,
                  UseSession, ForgetToken, RecoveryClearPassword
    <2> QED
      BY <1>1, <2>1, <2>2
  <1>3. CASE WebUpdate \/ WebConfig \/ AskRestart \/ UNCHANGED webVars
    <2>1. UNCHANGED failures
      BY <1>3, Zenon
         DEF WebUpdate, StartUpdate, WriteUpdate, EndUpdate, AbortUpdate, AnswerUpdate,
             UnlessUpdate, WebConfig, StartConfig, WriteConfig, EndConfig, AbortConfig,
             AnswerConfig, UnlessUpload, AskRestart, webVars, authVars
    <2> QED
      BY <2>1
  <1>4. CASE Restart
    BY <1>1, <1>4 DEF Restart
  <1>5. CASE WebTick
    <2>1. failures' = IF failures.count > 0 /\ failures.age < FailureWindow
                      THEN [failures EXCEPT !.age = @ + 1] ELSE failures
      BY <1>5 DEF WebTick
    <2> QED
      BY <2>1, WebSizes DEF Failures
  <1> QED
    BY <1>2, <1>3, <1>4, <1>5 DEF WebNext

Requests ==
  [kind : {"none", "flash", "fs", "config", "answer", "answerConfig"}, sent : 0 .. MaxUpload]

\* What a request has sent bounds what was written of it.
SizesInv ==
  /\ request \in Requests
  /\ update.declared <= MaxUpload /\ update.written <= MaxUpload
  /\ updater.size <= MaxUpload /\ updater.got <= MaxUpload
  /\ upload.written <= MaxUpload
  /\ Updating /\ ~update.error => updater.got <= update.written
  /\ request.kind = "config" => upload.written <= request.sent

LEMMA RequestFields ==
  ASSUME request \in Requests
  PROVE  /\ NoRequest \in Requests
         /\ \A k \in {"flash", "fs", "config"} : [kind |-> k, sent |-> 0] \in Requests
         /\ \A k \in {"answer", "answerConfig"} : [request EXCEPT !.kind = k] \in Requests
         /\ request.sent < MaxUpload =>
              /\ [request EXCEPT !.sent = @ + 1] \in Requests
              /\ [request EXCEPT !.sent = @ + 1].kind = request.kind
              /\ [request EXCEPT !.sent = @ + 1].sent = request.sent + 1
  BY WebSizes DEF NoRequest, Requests

LEMMA SizesStart == WebInit => SizesInv
  BY WebSizes DEF WebInit, SizesInv, Requests, NoRequest, UpdaterIdle, Updating

LEMMA UpdateKeepsSizes ==
  ASSUME UpdateInv, UploadInv, SizesInv, WebUpdate
  PROVE  SizesInv'
  <1>r. request \in Requests
    BY DEF SizesInv
  <1>f. upload' = upload
    BY Zenon DEF WebUpdate, StartUpdate, WriteUpdate, EndUpdate, AbortUpdate,
       AnswerUpdate, UnlessUpdate, uploadVars
  <1>t. /\ MaxUpload \in Nat /\ 0 <= MaxUpload
        /\ update.written \in Nat /\ update.declared \in Nat
        /\ updater.got \in Nat /\ updater.size \in Nat
    BY WebSizes DEF UpdateInv
  <1>u. /\ upload' = upload /\ MaxUpload \in Nat /\ 0 <= MaxUpload
        /\ update.written \in Nat /\ update.declared \in Nat
        /\ updater.got \in Nat /\ updater.size \in Nat
    BY <1>f, <1>t
  <1>1. ASSUME NEW kind \in {"flash", "fs"}, NEW size \in 0 .. MaxUpload, NEW b \in BOOLEAN,
               StartUpdate(kind, size, b)
        PROVE  SizesInv'
    <2>1. /\ request' = [kind |-> kind, sent |-> 0]
          /\ update'.error = ~b /\ update'.declared = size /\ update'.written = 0
          /\ b => updater'.size = size /\ updater'.got = 0
          /\ ~b => updater' = updater
      BY <1>1 DEF StartUpdate
    <2>2. /\ request' \in Requests
          /\ request'.kind # "config"
      BY <1>r, <2>1, RequestFields
    <2>3. /\ update'.declared <= MaxUpload /\ update'.written <= MaxUpload
          /\ updater'.size <= MaxUpload /\ updater'.got <= MaxUpload
          /\ upload'.written <= MaxUpload
      BY <1>u, <2>1 DEF SizesInv
    <2>4. ~update'.error => updater'.got <= update'.written
      <3>1. ~update'.error => b
        BY <2>1, Zenon
      <3>2. b => updater'.got <= update'.written
        BY <2>1
      <3> QED
        BY <3>1, <3>2, Zenon
    <2> QED
      BY <2>2, <2>3, <2>4 DEF SizesInv
  <1>2. ASSUME NEW taken \in 0 .. 1, WriteUpdate(taken)
        PROVE  SizesInv'
    <2>1. /\ request' = [request EXCEPT !.sent = @ + 1] /\ request.sent < MaxUpload
          /\ Updating
      BY <1>2 DEF WriteUpdate
    <2>2. /\ request' \in Requests
          /\ request'.kind # "config" /\ Updating'
      BY <1>r, <2>1, RequestFields DEF Updating, Requests
    <2>3. CASE update.error
      <3>1. update' = update /\ updater' = updater
        BY <1>2, <2>3 DEF WriteUpdate
      <3>2. update'.error
        BY <2>3, <3>1, Zenon
      <3>3. /\ update.declared <= MaxUpload /\ update.written <= MaxUpload
            /\ updater.size <= MaxUpload /\ updater.got <= MaxUpload
            /\ upload.written <= MaxUpload
        BY DEF SizesInv
      <3> QED
        BY <1>u, <2>2, <3>1, <3>2, <3>3, Zenon DEF SizesInv
    <2>4. CASE ~update.error /\ update.written + 1 > update.declared
      <3>1. update' = [update EXCEPT !.error = TRUE] /\ updater' = updater
        BY <1>2, <2>4 DEF WriteUpdate
      <3>2. /\ update'.error /\ update'.declared = update.declared
            /\ update'.written = update.written
        BY <3>1 DEF UpdateInv
      <3> QED
        BY <1>u, <2>2, <3>1, <3>2 DEF SizesInv
    <2>5. CASE ~update.error /\ ~(update.written + 1 > update.declared)
      <3>1. /\ update' = [update EXCEPT !.written = @ + taken, !.error = (taken = 0)]
            /\ updater' = [updater EXCEPT !.got = @ + taken]
        BY <1>2, <2>5 DEF WriteUpdate
      <3>2. /\ update'.declared = update.declared
            /\ update'.written = update.written + taken
            /\ updater'.size = updater.size /\ updater'.got = updater.got + taken
        BY <3>1 DEF UpdateInv
      <3>3. updater.got <= update.written /\ update.declared <= MaxUpload
            /\ updater.size <= MaxUpload /\ upload.written <= MaxUpload
        BY <2>1, <2>5 DEF SizesInv
      <3> QED
        BY <1>u, <2>2, <2>5, <3>2, <3>3 DEF SizesInv
    <2> QED
      BY <2>3, <2>4, <2>5
  <1>3. CASE (\E v \in BOOLEAN : EndUpdate(v)) \/ AbortUpdate \/ AnswerUpdate
    <2>1. /\ request' \in {NoRequest, [request EXCEPT !.kind = "answer"]}
          /\ update'.declared = update.declared /\ update'.written = update.written
      BY <1>3 DEF EndUpdate, AbortUpdate, AnswerUpdate, updateVars, UpdateInv
    <2>2. /\ updater'.size \in {updater.size, 0} /\ updater'.got \in {updater.got, 0}
      <3>1. CASE \E v \in BOOLEAN : EndUpdate(v)
        <4>1. PICK a : updater' \in {[UpdaterIdle EXCEPT !.whole = a], updater}
          BY <3>1, Zenon DEF EndUpdate
        <4> QED
          BY <4>1 DEF UpdaterIdle
      <3>2. CASE AbortUpdate \/ AnswerUpdate
        BY <3>2 DEF AbortUpdate, AnswerUpdate, updateVars, UpdaterIdle
      <3> QED
        BY <1>3, <3>1, <3>2
    <2>3. /\ request' \in Requests
          /\ request'.kind \in {"none", "answer"}
      BY <1>r, <2>1, RequestFields DEF NoRequest, Requests
    <2> QED
      BY <1>u, <2>1, <2>2, <2>3 DEF SizesInv, Updating
  <1> QED
    BY <1>1, <1>2, <1>3 DEF WebUpdate

LEMMA ConfigKeepsSizes ==
  ASSUME UpdateInv, UploadInv, SizesInv, WebConfig
  PROVE  SizesInv'
  <1>r. request \in Requests
    BY DEF SizesInv
  <1>f. update' = update /\ updater' = updater
    BY Zenon DEF WebConfig, StartConfig, WriteConfig, EndConfig, AbortConfig,
       AnswerConfig, UnlessUpload, updateVars
  <1>t. MaxUpload \in Nat /\ 0 <= MaxUpload /\ upload.written \in Nat
    BY WebSizes DEF UploadInv
  <1>u. /\ update' = update /\ updater' = updater
        /\ MaxUpload \in Nat /\ 0 <= MaxUpload /\ upload.written \in Nat
    BY <1>f, <1>t
  <1>1. ASSUME NEW size \in 0 .. MaxUpload, NEW b \in BOOLEAN, StartConfig(size, b)
        PROVE  SizesInv'
    <2>1. /\ request' = [kind |-> "config", sent |-> 0] /\ upload'.written = 0
      BY <1>1 DEF StartConfig
    <2> QED
      BY <1>r, <1>u, <2>1, RequestFields DEF SizesInv, Updating
  <1>2. ASSUME NEW taken \in 0 .. 1, WriteConfig(taken)
        PROVE  SizesInv'
    <2>1. /\ request' = [request EXCEPT !.sent = @ + 1] /\ request.sent < MaxUpload
          /\ request.kind = "config"
      BY <1>2 DEF WriteConfig
    <2>2. /\ request' \in Requests
          /\ request'.kind = "config" /\ request'.sent = request.sent + 1
      BY <1>r, <2>1, RequestFields
    <2>3. upload'.written \in {upload.written, upload.written + taken}
      BY <1>2 DEF WriteConfig, UploadInv
    <2>4. upload.written <= request.sent /\ request.sent \in 0 .. MaxUpload
      BY <1>r, <2>1 DEF SizesInv, Requests
    <2>5. upload'.written <= request'.sent /\ upload'.written <= MaxUpload
      BY <1>u, <2>1, <2>2, <2>3, <2>4
    <2> QED
      BY <1>u, <2>2, <2>5 DEF SizesInv, Updating
  <1>3. CASE (\E v \in BOOLEAN : EndConfig(v)) \/ AbortConfig \/ AnswerConfig
    <2>1. /\ request' \in {NoRequest, [request EXCEPT !.kind = "answerConfig"]}
          /\ upload'.written = upload.written
      BY <1>3 DEF EndConfig, AbortConfig, AnswerConfig, uploadVars, UploadInv
    <2>2. /\ request' \in Requests
          /\ request'.kind \in {"none", "answerConfig"}
      BY <1>r, <2>1, RequestFields DEF NoRequest, Requests
    <2> QED
      BY <1>u, <2>1, <2>2 DEF SizesInv, Updating
  <1> QED
    BY <1>1, <1>2, <1>3 DEF WebConfig

LEMMA SizesStep ==
  UpdateInv /\ UploadInv /\ SizesInv /\ [WebNext]_webVars => SizesInv'
  <1> SUFFICES ASSUME UpdateInv, UploadInv, SizesInv, [WebNext]_webVars
               PROVE  SizesInv'
    OBVIOUS
  <1>1. CASE UNCHANGED <<request, update, updater, upload>>
    BY <1>1, Zenon DEF SizesInv, Updating
  <1>2. CASE WebAuth \/ AskRestart \/ WebTick \/ UNCHANGED webVars
    BY <1>1, <1>2, Zenon
       DEF WebAuth, LoginRefused, LoginWrong, LoginRight, LoginWith, Logout, SetPassword,
           UseSession, ForgetToken, RecoveryClearPassword, UnlessAuth, updateVars, uploadVars,
           AskRestart, WebTick, webVars
  <1>3. CASE Restart
    <2>1. /\ request' = request /\ request.kind = "none"
          /\ update'.declared = 0 /\ update'.written = 0 /\ updater'.size = 0
          /\ updater'.got = 0 /\ upload'.written = 0
      BY <1>3 DEF Restart, Free, UpdaterIdle
    <2> QED
      BY <2>1, WebSizes DEF SizesInv, Updating
  <1> QED
    BY <1>2, <1>3, UpdateKeepsSizes, ConfigKeepsSizes DEF WebNext

\* The web server's types, for any sizes, limits and times.
THEOREM WebTypes == WebSpec => []WebTypeOK
  <1> DEFINE Inv == /\ LockoutInv /\ UpdateInv /\ UploadInv
                    /\ AccessInv /\ failures \in Failures /\ SizesInv
  <1>1. WebInit => Inv
    <2>1. WebInit => failures \in Failures
      BY WebSizes DEF WebInit, NoFailures, Failures
    <2> QED
      BY <2>1, LockoutStarts, UpdateStarts, UploadStarts, AccessStarts, SizesStart
  <1>2. Inv /\ [WebNext]_webVars => Inv'
    BY LockoutStep, UpdateStep, UploadStep, AccessStep, FailuresStep, SizesStep
  <1>3. Inv => WebTypeOK
    <2> SUFFICES ASSUME Inv PROVE WebTypeOK
      OBVIOUS
    <2>1. update \in [error : BOOLEAN, succeeded : BOOLEAN, declared : 0 .. MaxUpload,
                      written : 0 .. MaxUpload]
      BY WebSizes DEF UpdateInv, SizesInv
    <2>2. updater \in [running : BOOLEAN, size : 0 .. MaxUpload, got : 0 .. MaxUpload,
                       whole : BOOLEAN]
      BY WebSizes DEF UpdateInv, SizesInv
    <2>3. upload \in [open : BOOLEAN, error : BOOLEAN, ok : BOOLEAN,
                      written : 0 .. MaxUpload, temp : BOOLEAN]
      BY WebSizes DEF UploadInv, SizesInv
    <2> QED
      BY <2>1, <2>2, <2>3
         DEF WebTypeOK, LockoutInv, UploadInv, AccessInv, Sessions, Failures, SizesInv, Requests
  <1> QED
    BY <1>1, <1>2, <1>3, PTL DEF WebSpec

---------------------------------------------------------------------------
(* The panel                                                               *)

Buttons == [last : BOOLEAN, age : 0..Debounce, down : BOOLEAN,
            held : {Unset} \cup 0..LongPress, longFired : BOOLEAN]
Leds == [indicator : Indicators, mute : BOOLEAN, override : BOOLEAN,
         pattern : {"none", "progress", "success", "failed"},
         patternLeft : 0..PatternTime, flash : {Stuck} \cup 0..FlashTime]

\* A press that is down has acted once if it has fired as a long one, else
\* not yet.
PressInv ==
  /\ PanelTypeOK
  /\ button.down => pressActs = IF button.longFired THEN 1 ELSE 0
  /\ PressActsOnce

LEMMA LedFields ==
  ASSUME NEW l \in Leds
  PROVE  /\ \A i \in Indicators : /\ [l EXCEPT !.indicator = i] \in Leds
                                  /\ [l EXCEPT !.indicator = i].indicator = i
         /\ \A m \in BOOLEAN : /\ [l EXCEPT !.mute = m] \in Leds
                               /\ [l EXCEPT !.mute = m].indicator = l.indicator
         /\ \A m \in BOOLEAN : /\ [l EXCEPT !.override = m] \in Leds
                               /\ [l EXCEPT !.override = m].indicator = l.indicator
         /\ WithoutOldPattern(l) \in Leds
         /\ WithoutOldPattern(l).indicator = l.indicator
         /\ \A f \in {Stuck} \cup 0..FlashTime : /\ [l EXCEPT !.flash = f] \in Leds
                                                 /\ [l EXCEPT !.flash = f].indicator = l.indicator
  BY DEF Leds, WithoutOldPattern

LEMMA SampledFields ==
  ASSUME NEW b \in Buttons, contact \in BOOLEAN
  PROVE  /\ Sampled(b) \in Buttons
         /\ Sampled(b).down = b.down
         /\ Sampled(b).longFired = b.longFired
  <1>1. CASE contact = b.last
    BY <1>1 DEF Sampled
  <1>2. CASE contact # b.last
    <2>1. Sampled(b) = [b EXCEPT !.last = contact, !.age = 0]
      BY <1>2 DEF Sampled
    <2>2. 0 \in 0..Debounce
      BY PanelAssumption
    <2> QED
      BY <2>1, <2>2 DEF Buttons
  <1> QED
    BY <1>1, <1>2

LEMMA ShownType == ASSUME NEW l \in Leds
                   PROVE  Shown(l) \in [layer : {"pattern", "override", "dark", "locate", "status"},
                                        activity : BOOLEAN]
  <1>1. Layer(l) \in {"pattern", "override", "dark", "locate", "status"}
    BY DEF Layer
  <1> QED
    BY <1>1 DEF Shown

\* What every action that leaves the button alone does to the LEDs.
LEMMA LedsKeepPress ==
  ASSUME PressInv, UNCHANGED <<button, pressActs>>, contact' \in BOOLEAN, led' \in Leds,
         reported' = led'.indicator,
         rendered' \in {rendered, Shown(led')}
  PROVE  PressInv'
  <1>1. reported' \in Indicators
    BY DEF Leds
  <1>2. rendered' \in [layer : {"pattern", "override", "dark", "locate", "status"}, activity : BOOLEAN]
    BY ShownType DEF PressInv, PanelTypeOK
  <1> QED
    BY <1>1, <1>2 DEF PressInv, PanelTypeOK, PressActsOnce, Leds

LEMMA ActFields ==
  ASSUME Act, led \in Leds, reported = led.indicator, pressActs \in Nat
  PROVE  /\ led' \in Leds /\ reported' = led'.indicator
         /\ pressActs' = pressActs + 1
  <1>1. PICK action \in ButtonActions : ExecuteButtonAction(action)
    BY DEF Act
  <1>2. CASE action = "locate"
    <2>1. ToggleLocate
      BY <1>1, <1>2 DEF ExecuteButtonAction
    <2>2. ToggledLocate \in Indicators
      BY DEF ToggledLocate, Indicators
    <2> QED
      BY <2>1, <2>2, LedFields DEF ToggleLocate, Act
  <1>3. CASE action = "mute"
    <2>1. led' = [led EXCEPT !.mute = ~led.mute] /\ UNCHANGED reported
      BY <1>1, <1>3 DEF ExecuteButtonAction
    <2>2. (~led.mute) \in BOOLEAN
      OBVIOUS
    <2> QED
      BY <2>1, <2>2, LedFields DEF Act
  <1>4. CASE action = "disabled"
    BY <1>1, <1>4 DEF ExecuteButtonAction, Act
  <1> QED
    BY <1>2, <1>3, <1>4 DEF ButtonActions

\* The button's own steps: a press that acts is one that has not yet.
LEMMA ButtonKeepsPress ==
  ASSUME PressInv, ButtonPass
  PROVE  PressInv'
  <1>0. /\ contact \in BOOLEAN /\ pressActs \in Nat /\ button \in Buttons /\ led \in Leds
        /\ reported = led.indicator /\ pressActs <= 1
        /\ contact' = contact /\ rendered' = rendered
    BY DEF PressInv, PanelTypeOK, PressActsOnce, Buttons, Leds, ButtonPass
  <1> DEFINE b == Sampled(button)
  <1>1. b \in Buttons /\ b.down = button.down /\ b.longFired = button.longFired
    BY <1>0, SampledFields
  <1> HIDE DEF b
  <1>2. SUFFICES
          /\ button' \in Buttons /\ led' \in Leds /\ reported' = led'.indicator
          /\ pressActs' \in Nat /\ pressActs' <= 1
          /\ button'.down => pressActs' = IF button'.longFired THEN 1 ELSE 0
    <2>1. reported' \in Indicators
      BY <1>2 DEF Leds
    <2> QED
      BY <1>0, <1>2, <2>1 DEF PressInv, PanelTypeOK, PressActsOnce, Buttons, Leds
  <1>3. button.down => pressActs = IF button.longFired THEN 1 ELSE 0
    BY DEF PressInv
  <1>4. CASE ButtonWaits
    BY <1>0, <1>1, <1>3, <1>4 DEF ButtonWaits, NoAction, b
  <1>5. CASE ButtonPressed
    <2>1. PICK since \in {0, Unset} :
            button' = [b EXCEPT !.down = TRUE, !.held = since, !.longFired = FALSE]
      BY <1>5 DEF ButtonPressed, b
    <2>2. since \in {Unset} \cup 0..LongPress
      BY PanelAssumption
    <2>3. button' \in Buttons /\ button'.down = TRUE /\ button'.longFired = FALSE
      BY <1>1, <2>1, <2>2 DEF Buttons
    <2> QED
      BY <1>0, <1>5, <2>3 DEF ButtonPressed
  <1>6. CASE ButtonReleased
    <2>1. button' = [b EXCEPT !.down = FALSE, !.held = Unset, !.longFired = FALSE]
      BY <1>6 DEF ButtonReleased, b
    <2>2. button' \in Buttons /\ button'.down = FALSE
      BY <1>1, <2>1 DEF Buttons
    <2>3. CASE ShortReleased(button)
      <3>1. Act /\ pressActs = 0
        BY <1>3, <1>6, <2>3 DEF ButtonReleased, ShortReleased
      <3> QED
        BY <1>0, <2>2, <3>1, ActFields
    <2>4. CASE ~ShortReleased(button)
      BY <1>0, <1>6, <2>2, <2>4 DEF ButtonReleased, NoAction
    <2> QED
      BY <2>3, <2>4
  <1>7. CASE ButtonHeld
    <2>1. CASE LongDue(button)
      <3>1. Act /\ pressActs = 0 /\ button' = [button EXCEPT !.longFired = TRUE]
        BY <1>3, <1>7, <2>1 DEF ButtonHeld, LongDue, LongFired
      <3>2. button' \in Buttons /\ button'.longFired = TRUE
        BY <1>0, <3>1 DEF Buttons
      <3> QED
        BY <1>0, <3>1, <3>2, ActFields
    <2>2. CASE ~LongDue(button)
      BY <1>0, <1>3, <1>7, <2>2 DEF ButtonHeld, NoAction
    <2> QED
      BY <2>1, <2>2
  <1> QED
    BY <1>4, <1>5, <1>6, <1>7 DEF ButtonPass

LEMMA PanelTickKeepsPress ==
  ASSUME PressInv, PanelTick
  PROVE  PressInv'
  <1>0. button \in Buttons /\ led \in Leds
    BY DEF PressInv, PanelTypeOK, Buttons, Leds
  <1>1. /\ button' \in Buttons
        /\ button'.down = button.down /\ button'.longFired = button.longFired
    <2> DEFINE a == IF button.age < Debounce THEN button.age + 1 ELSE button.age
               h == IF button.held # Unset /\ button.held < LongPress THEN button.held + 1
                    ELSE button.held
    <2>1. a \in 0..Debounce /\ h \in {Unset} \cup 0..LongPress
      BY <1>0, PanelAssumption DEF Buttons, Unset
    <2>2. button' = [button EXCEPT !.age = a, !.held = h]
      BY DEF PanelTick
    <2> HIDE DEF a, h
    <2> QED
      BY <1>0, <2>1, <2>2 DEF Buttons
  <1>2. led' \in Leds /\ led'.indicator = led.indicator
    <2> DEFINE p == IF led.patternLeft > 0 THEN led.patternLeft - 1 ELSE 0
               f == IF led.flash > 0 THEN led.flash - 1 ELSE led.flash
    <2>1. p \in 0..PatternTime /\ f \in {Stuck} \cup 0..FlashTime
      BY <1>0, PanelAssumption DEF Leds, Stuck
    <2>2. led' = [led EXCEPT !.patternLeft = p, !.flash = f]
      BY DEF PanelTick
    <2> HIDE DEF p, f
    <2> QED
      BY <1>0, <2>1, <2>2 DEF Leds
  <1> QED
    BY <1>1, <1>2 DEF PanelTick, PressInv, PanelTypeOK, PressActsOnce, Buttons, Leds

LEMMA PanelNextPress == PressInv /\ [PanelNext]_panelVars => PressInv'
  <1> SUFFICES ASSUME PressInv, [PanelNext]_panelVars
               PROVE  PressInv'
    OBVIOUS
  <1>0. led \in Leds /\ reported = led.indicator /\ contact \in BOOLEAN
    BY DEF PressInv, PanelTypeOK, PressActsOnce, Leds
  <1>1. CASE LedPass
    BY <1>0, <1>1, LedFields, LedsKeepPress DEF LedPass, UpdateLEDs
  <1>2. ASSUME NEW i \in Indicators, ArtAddressIndicator(i)
        PROVE  PressInv'
    <2>1. led' \in Leds /\ led'.indicator = i
      BY <1>0, <1>2 DEF ArtAddressIndicator, Leds
    <2> QED
      BY <1>0, <1>2, <2>1, LedsKeepPress DEF ArtAddressIndicator, LedsOnly
  <1>3. CASE WebLocate
    <2>1. ToggledLocate \in Indicators
      BY DEF ToggledLocate, Indicators
    <2> QED
      BY <1>0, <1>3, <2>1, LedFields, LedsKeepPress DEF WebLocate, ToggleLocate, LedsOnly
  <1>4. ASSUME NEW m \in BOOLEAN, WebMute(m)
        PROVE  PressInv'
    BY <1>0, <1>4, LedFields, LedsKeepPress DEF WebMute, LedsOnly
  <1>5. ASSUME NEW on \in BOOLEAN, WebOverride(on)
        PROVE  PressInv'
    <2> DEFINE l == [led EXCEPT !.override = on]
    <2>1. l \in Leds /\ l.indicator = led.indicator
      BY <1>0, LedFields
    <2>2. led' = WithoutOldPattern(l) /\ rendered' = Shown(led')
      BY <1>5 DEF WebOverride, UpdateLEDs
    <2> HIDE DEF l
    <2> QED
      BY <1>0, <1>5, <2>1, <2>2, LedFields, LedsKeepPress DEF WebOverride, LedsOnly
  <1>6. CASE Flash
    <2>1. FlashTime \in {Stuck} \cup 0..FlashTime
      BY PanelAssumption
    <2> QED
      BY <1>0, <1>6, <2>1, LedFields, LedsKeepPress DEF Flash, LedsOnly
  <1>7. ASSUME NEW kind \in {"progress", "success", "failed"}, UpdatePattern(kind)
        PROVE  PressInv'
    <2> DEFINE p == IF kind = "failed" THEN PatternTime ELSE 0
    <2>1. p \in 0..PatternTime /\ led' = [led EXCEPT !.pattern = kind, !.patternLeft = p]
      BY <1>7, PanelAssumption DEF UpdatePattern
    <2> HIDE DEF p
    <2>2. led' \in Leds /\ led'.indicator = led.indicator
      BY <1>0, <2>1 DEF Leds
    <2> QED
      BY <1>0, <1>7, <2>2, LedsKeepPress DEF UpdatePattern, LedsOnly
  <1>8. CASE ButtonPass
    BY <1>8, ButtonKeepsPress
  <1>9. CASE ContactChange
    BY <1>0, <1>9, LedsKeepPress DEF ContactChange, ledVars
  <1>10. CASE PanelTick
    BY <1>10, PanelTickKeepsPress
  <1>11. CASE ClockWraps
    BY <1>0, <1>11, LedFields, LedsKeepPress DEF ClockWraps
  <1>12. CASE UNCHANGED panelVars
    BY <1>0, <1>12, LedsKeepPress DEF panelVars
  <1> QED
    BY <1>1, <1>2, <1>3, <1>4, <1>5, <1>6, <1>7, <1>8, <1>9, <1>10, <1>11, <1>12 DEF PanelNext

LEMMA PanelInitPress == PanelInit => PressInv
  <1> SUFFICES ASSUME PanelInit PROVE PressInv
    OBVIOUS
  <1>1. button \in Buttons /\ button.down = FALSE
    BY PanelAssumption DEF PanelInit, Buttons
  <1>2. led \in Leds /\ led.indicator = "normal"
    BY PanelAssumption DEF PanelInit, Leds, Indicators
  <1>3. /\ rendered \in [layer : {"pattern", "override", "dark", "locate", "status"},
                         activity : BOOLEAN]
        /\ contact \in BOOLEAN /\ pressActs = 0 /\ reported = "normal"
    BY DEF PanelInit
  <1>4. PanelTypeOK
    BY <1>1, <1>2, <1>3 DEF PanelTypeOK, Buttons, Leds, Indicators
  <1> QED
    BY <1>1, <1>2, <1>3, <1>4 DEF PressInv, PressActsOnce

LEMMA PressInvHolds == PanelSpec => []PressInv
  <1> QED
    BY PanelInitPress, PanelNextPress, PTL DEF PanelSpec

\* The types of the button and the LEDs, for any times.
THEOREM PanelTypes == PanelSpec => []PanelTypeOK
  <1>1. PressInv => PanelTypeOK
    BY DEF PressInv
  <1> QED
    BY <1>1, PressInvHolds, PTL

\* However the contact bounces and whoever changes the indicator in between,
\* a press acts once at most, and the node reports the state its LEDs show.
THEOREM PressesActOnce == PanelSpec => []PressActsOnce
  <1>1. PressInv => PressActsOnce
    BY DEF PressInv
  <1> QED
    BY <1>1, PressInvHolds, PTL

-----------------------------------------------------------------------------
(* The Wi-Fi link: how long a reconnect may take *)

NodeFields == {"cfgMode", "radio", "link", "joinLeft", "lease", "since", "last",
               "lastIp", "down", "wait", "delay", "request", "requestIn", "outage",
               "hold", "test", "testUp", "switchIn", "deadlineIn", "mdns", "led"}

\* What may be left to wait at the most, if QuietLimit is to be enough.
LongestWait == QuietLimit - ((3 + WifiMaxLag) * JoinTime + WifiMaxLag)

\* What the attempts made with delays up to d may have taken: each doubles the
\* delay, so they sum up to no more than the next one, and each is late by a
\* poll at most.
Spent(d) == (2 + WifiMaxLag) * Least(d, JoinTime)

LinkTypes(n) ==
    /\ DOMAIN n = NodeFields
    /\ n.link \in {"off", "joining", "up"}
    /\ n.joinLeft \in 0 .. JoinTime
    /\ n.since \in 0 .. (1 + WifiMaxLag)
    /\ n.delay \in MinDelay .. MaxDelay
    /\ n.wait \in 0 .. LongestWait /\ n.hold \in 0 .. LongestWait
    /\ n.outage \in 0 .. LongestWait

\* There is a station in the Client modes and while the temporary Client runs;
\* only then can there be a link, a request or an outage.
Modes(n, left) ==
    /\ n.test # "none" => n.cfgMode = "AP"
    /\ HasStation(n) <=> (n.cfgMode # "AP" \/ n.test = "active")
    /\ ~HasStation(n) => n.link = "off" /\ ~n.request /\ left = 0

\* No attempt is due before the outage is over.
OutageHeld(n, left) == left > 0 => n.link = "off" /\ ~n.last /\ left <= n.wait

\* The attempts so far were in time; "late" is how late the one due may be.
InTime(n, ticks, late) ==
    IF n.wait > 0 THEN ticks + n.wait <= LongestWait + Spent(n.delay)
    ELSE ticks < LongestWait + Spent(n.delay) + late

\* The association in progress ends before the next attempt would abort it.
Assured(n, ticks) ==
    /\ n.link = "joining" /\ n.joinLeft \in 1 .. n.wait
    /\ ticks + n.joinLeft <= QuietLimit

Returning(n, ticks, there) ==
    HasStation(n) /\ n.link # "up" =>
      /\ n.last => ticks <= n.since
      /\ there /\ ~n.last => InTime(n, ticks, n.since) \/ Assured(n, ticks)

LinkInv(n, left, ticks, there) ==
    /\ LinkTypes(n) /\ left \in Nat /\ ticks \in Nat
    /\ Modes(n, left) /\ OutageHeld(n, left) /\ Returning(n, ticks, there)

LEMMA Spending ==
    /\ \A d \in Nat \ {0} : /\ Spent(d) \in Nat /\ 2 + WifiMaxLag <= Spent(d)
                            /\ Spent(d) <= Spent(JoinTime)
    /\ \A d \in Nat \ {0} : 2 * d < JoinTime =>
          Spent(d) + WifiMaxLag + 2 * d <= Spent(2 * d)
    /\ LongestWait \in Nat /\ MaxDelay <= LongestWait
    /\ \A o \in Outages : o \in Nat /\ o <= LongestWait
    /\ QuietLimit = LongestWait + Spent(JoinTime) + WifiMaxLag + JoinTime
  <1> DEFINE c == 2 + WifiMaxLag
             J == JoinTime
  <1>1. c \in Nat /\ J \in Nat \ {0} /\ WifiMaxLag \in Nat /\ QuietLimit \in Nat
        /\ MaxDelay \in Nat /\ c = 2 + WifiMaxLag
    BY WifiAssumption
  <1>2. \A d \in Nat \ {0} : Least(d, J) \in Nat \ {0} /\ Least(d, J) <= J
    BY <1>1 DEF Least
  <1>3. ASSUME NEW a \in Nat, NEW b \in Nat, a <= b
        PROVE  c * a <= c * b /\ c * a \in Nat
    <2>1. b - a \in Nat /\ b = a + (b - a)
      BY <1>3
    <2>2. c * (b - a) \in Nat
      BY <1>1, <2>1
    <2>3. c * (a + (b - a)) = c * a + c * (b - a)
      BY <1>1, <1>3, <2>1
    <2>4. c * a \in Nat /\ c * b = c * a + c * (b - a)
      BY <1>1, <1>3, <2>1, <2>3
    <2> QED
      BY <2>2, <2>4
  <1>4. Spent(J) = c * J
    BY <1>1 DEF Spent, Least
  <1>5. ASSUME NEW d \in Nat \ {0}
        PROVE  Spent(d) \in Nat /\ 2 + WifiMaxLag <= Spent(d) /\ Spent(d) <= Spent(J)
    <2>1. Spent(d) = c * Least(d, J)
      BY DEF Spent
    <2>2. Least(d, J) \in Nat \ {0} /\ Least(d, J) <= J
      BY <1>2
    <2>3. c * 1 <= c * Least(d, J) /\ c * Least(d, J) <= c * J /\ c * Least(d, J) \in Nat
      BY <1>1, <1>3, <2>2
    <2> QED
      BY <1>1, <1>4, <2>1, <2>3
  <1>6. ASSUME NEW d \in Nat \ {0}, 2 * d < J
        PROVE  Spent(d) + WifiMaxLag + 2 * d <= Spent(2 * d)
    <2>1. Spent(d) = c * d /\ Spent(2 * d) = c * (2 * d)
      BY <1>1, <1>6 DEF Spent, Least
    <2>2. c * (2 * d) = c * d + c * d
      BY <1>1
    <2>3. c * d = WifiMaxLag * d + 2 * d
      BY <1>1
    <2>4. WifiMaxLag <= WifiMaxLag * d
      BY <1>1
    <2>5. c * d \in Nat /\ WifiMaxLag * d \in Nat
      BY <1>1
    <2> QED
      BY <1>1, <2>1, <2>2, <2>3, <2>4, <2>5
  <1>7. /\ c * J \in Nat /\ (3 + WifiMaxLag) * J = c * J + J
        /\ LongestWait = QuietLimit - ((3 + WifiMaxLag) * J + WifiMaxLag)
    BY <1>1 DEF LongestWait
  <1>8. \A w \in Outages \cup {MaxDelay} :
            w \in Nat /\ w + (3 + WifiMaxLag) * J + WifiMaxLag <= QuietLimit
    BY WifiAssumption, QuietAssumption DEF ReturnBound
  <1>9. \A w \in Outages \cup {MaxDelay} : w \in Nat /\ w <= LongestWait
    BY <1>1, <1>7, <1>8
  <1>10. LongestWait \in Int
    BY <1>1, <1>7
  <1>11. LongestWait \in Nat
    BY <1>1, <1>9, <1>10
  <1>12. QuietLimit = LongestWait + Spent(J) + WifiMaxLag + J
    BY <1>1, <1>4, <1>7
  <1> QED
    BY <1>5, <1>6, <1>9, <1>11, <1>12

LEMMA LinkConstants ==
    /\ MinDelay \in Nat \ {0} /\ MaxDelay \in Nat \ {0} /\ MinDelay <= MaxDelay
    /\ JoinTime \in Nat \ {0} /\ WifiMaxLag \in Nat /\ JoinTime <= MaxDelay
    /\ MinDelay <= LongestWait
  BY WifiAssumption, QuietAssumption, Spending

\* The links that nothing has disturbed for no tick.
LEMMA JustDisturbed ==
    ASSUME NEW n, LinkTypes(n), NEW late \in Nat
    PROVE  InTime(n, 0, late)
  <1>1. n.wait \in Nat /\ n.wait <= LongestWait /\ n.delay \in Nat \ {0}
    BY Spending, LinkConstants DEF LinkTypes
  <1>2. Spent(n.delay) \in Nat /\ Spent(n.delay) > 0 /\ LongestWait \in Nat
    BY <1>1, Spending, LinkConstants
  <1> QED
    BY <1>1, <1>2 DEF InTime

\* The property of the link.
LEMMA LinkReturns ==
    ASSUME NEW n, NEW left, NEW ticks, NEW there, LinkInv(n, left, ticks, there)
    PROVE  /\ ticks >= QuietLimit /\ there /\ HasStation(n) => n.link = "up"
           /\ left > 0 => n.link = "off"
  <1>1. LinkTypes(n) /\ ticks \in Nat /\ Returning(n, ticks, there) /\ OutageHeld(n, left)
    BY DEF LinkInv
  <1>2. /\ n.delay \in Nat \ {0} /\ n.since \in Nat /\ n.since <= 1 + WifiMaxLag
        /\ n.wait \in Nat /\ n.joinLeft \in Nat
    BY <1>1, LinkConstants, Spending DEF LinkTypes
  <1>3. /\ Spent(n.delay) \in Nat /\ Spent(n.delay) <= Spent(JoinTime)
        /\ Spent(JoinTime) \in Nat /\ 2 + WifiMaxLag <= Spent(JoinTime)
        /\ LongestWait \in Nat /\ WifiMaxLag \in Nat /\ JoinTime \in Nat \ {0}
        /\ QuietLimit = LongestWait + Spent(JoinTime) + WifiMaxLag + JoinTime
    BY <1>2, Spending, LinkConstants
  <1>4. ASSUME InTime(n, ticks, n.since) PROVE ticks < QuietLimit
    BY <1>1, <1>2, <1>3, <1>4 DEF InTime
  <1>5. ASSUME Assured(n, ticks) PROVE ticks < QuietLimit
    BY <1>1, <1>2, <1>3, <1>5 DEF Assured
  <1>6. ASSUME ticks <= n.since PROVE ticks < QuietLimit
    BY <1>1, <1>2, <1>3, <1>6
  <1>7. QuietLimit \in Nat
    BY WifiAssumption
  <1>8. ticks >= QuietLimit /\ there /\ HasStation(n) => n.link = "up"
    BY <1>1, <1>4, <1>5, <1>6, <1>7 DEF Returning
  <1> QED
    BY <1>1, <1>8 DEF OutageHeld

\* Changes of the link that begin its history again.
LEMMA DisturbedLink ==
    ASSUME NEW n, NEW m, NEW left, NEW ticks, NEW was, NEW there, LinkInv(n, left, ticks, was),
           \/ m = n /\ (n.link # "up" \/ there = was)
           \/ m = Disconnected(n)
    PROVE  LinkInv(m, left, 0, there)
  <1>t. LinkTypes(n) /\ Modes(n, left) /\ OutageHeld(n, left) /\ left \in Nat
    BY DEF LinkInv
  <1>1. /\ LinkTypes(m) /\ m.last = n.last /\ m.wait = n.wait
        /\ m.test = n.test /\ m.cfgMode = n.cfgMode /\ m.radio = n.radio
        /\ m.request = n.request /\ m.since = n.since
        /\ m.link = n.link \/ m.link = "off"
    <2>1. CASE m = n
      BY <1>t, <2>1 DEF LinkTypes
    <2>2. CASE m = Disconnected(n)
      <3>1. /\ DOMAIN m = NodeFields /\ m.link = "off" /\ m.joinLeft = 0
            /\ m.last = n.last /\ m.wait = n.wait /\ m.hold = n.hold /\ m.delay = n.delay
            /\ m.test = n.test /\ m.cfgMode = n.cfgMode /\ m.radio = n.radio
            /\ m.request = n.request /\ m.since = n.since /\ m.outage = n.outage
        BY <1>t, <2>2 DEF LinkTypes, NodeFields, Disconnected
      <3>2. 0 \in 0 .. JoinTime
        BY LinkConstants
      <3> QED
        BY <1>t, <3>1, <3>2 DEF LinkTypes
    <2> QED
      BY <2>1, <2>2
  <1>2. Modes(m, left) /\ OutageHeld(m, left)
    BY <1>t, <1>1 DEF Modes, OutageHeld, HasStation
  <1>3. m.since \in Nat
    BY <1>1, LinkConstants DEF LinkTypes
  <1>4. Returning(m, 0, there)
    BY <1>1, <1>3, JustDisturbed DEF Returning
  <1> QED
    BY <1>t, <1>1, <1>2, <1>4 DEF LinkInv

\* Time passes.
LEMMA TickedLink ==
    ASSUME LinkInv(wifi, outageLeft, quiet, apThere), WifiTick
    PROVE  LinkInv(wifi, outageLeft, quiet, apThere)'
  <1>t. /\ LinkTypes(wifi) /\ Modes(wifi, outageLeft) /\ OutageHeld(wifi, outageLeft)
        /\ Returning(wifi, quiet, apThere) /\ outageLeft \in Nat /\ quiet \in Nat
    BY DEF LinkInv
  <1>n. /\ wifi.wait \in Nat /\ wifi.hold \in Nat /\ wifi.joinLeft \in Nat
        /\ wifi.since \in Nat /\ wifi.since <= WifiMaxLag /\ wifi.delay \in Nat \ {0}
        /\ LongestWait \in Nat /\ JoinTime \in Nat \ {0} /\ WifiMaxLag \in Nat
        /\ QuietLimit \in Nat
    BY <1>t, Spending, LinkConstants, WifiAssumption DEF LinkTypes, WifiTick
  <1>1. /\ DOMAIN wifi' = NodeFields
        /\ wifi'.since = wifi.since + 1 /\ wifi'.wait = Less1(wifi.wait)
        /\ wifi'.hold = Less1(wifi.hold) /\ wifi'.joinLeft = Less1(wifi.joinLeft)
        /\ wifi'.link = LinkAfterTick(wifi) /\ wifi'.delay = wifi.delay
        /\ wifi'.outage = wifi.outage /\ wifi'.last = wifi.last
        /\ wifi'.test = wifi.test /\ wifi'.cfgMode = wifi.cfgMode
        /\ wifi'.radio = wifi.radio /\ wifi'.request = wifi.request
    BY <1>t DEF WifiTick, LinkTypes, NodeFields
  <1>2. outageLeft' = Less1(outageLeft) /\ quiet' = Least(quiet + 1, QuietLimit)
        /\ apThere' = apThere
    BY DEF WifiTick
  <1>3. /\ LinkAfterTick(wifi) \in {"off", "joining", "up"}
        /\ wifi.link # "joining" \/ wifi.joinLeft > 1 => LinkAfterTick(wifi) = wifi.link
        /\ wifi.link = "joining" /\ wifi.joinLeft <= 1 /\ apThere => LinkAfterTick(wifi) = "up"
    BY <1>t, <1>n DEF LinkAfterTick, LinkTypes
  <1>4. LinkTypes(wifi)'
    <2>1. /\ Less1(wifi.wait) \in 0 .. LongestWait /\ Less1(wifi.hold) \in 0 .. LongestWait
          /\ Less1(wifi.joinLeft) \in 0 .. JoinTime /\ wifi.since + 1 \in 0 .. (1 + WifiMaxLag)
      BY <1>t, <1>n DEF LinkTypes, Less1
    <2> QED
      BY <1>t, <1>1, <1>3, <2>1 DEF LinkTypes
  <1>5. outageLeft' \in Nat /\ outageLeft' <= outageLeft /\ (outageLeft' > 0 => outageLeft' = outageLeft - 1)
    BY <1>t, <1>2 DEF Less1
  <1>6. quiet' \in Nat /\ quiet' <= quiet + 1
    BY <1>t, <1>n, <1>2 DEF Least
  <1>7. Modes(wifi, outageLeft)'
    BY <1>t, <1>1, <1>3, <1>5 DEF Modes, HasStation
  <1>8. OutageHeld(wifi, outageLeft)'
    <2> SUFFICES ASSUME outageLeft' > 0
                 PROVE  wifi'.link = "off" /\ ~wifi'.last /\ outageLeft' <= wifi'.wait
      BY DEF OutageHeld
    <2>1. wifi.link = "off" /\ ~wifi.last /\ outageLeft <= wifi.wait
      BY <1>t, <1>5 DEF OutageHeld
    <2>2. outageLeft' <= Less1(wifi.wait)
      BY <1>t, <1>n, <1>5, <2>1 DEF Less1
    <2> QED
      BY <1>1, <1>3, <2>1, <2>2
  <1>9. Returning(wifi, quiet, apThere)'
    <2> SUFFICES ASSUME HasStation(wifi)', wifi'.link # "up"
                 PROVE  /\ wifi'.last => quiet' <= wifi'.since
                        /\ apThere' /\ ~wifi'.last
                             => InTime(wifi', quiet', wifi'.since) \/ Assured(wifi', quiet')
      BY DEF Returning
    <2>1. HasStation(wifi) /\ wifi.link # "up"
      BY <1>1, <1>3, <1>t DEF HasStation, LinkTypes
    <2>2. wifi'.last => quiet' <= wifi'.since
      BY <1>t, <1>n, <1>1, <1>6, <2>1 DEF Returning
    <2>3. ASSUME apThere', ~wifi'.last, InTime(wifi, quiet, wifi.since)
          PROVE  InTime(wifi', quiet', wifi'.since)
      <3>1. Spent(wifi.delay) \in Nat
        BY <1>n, Spending
      <3>2. CASE wifi.wait > 0
        <4>1. quiet + wifi.wait <= LongestWait + Spent(wifi.delay)
          BY <2>3, <3>2 DEF InTime
        <4>2. wifi'.wait = wifi.wait - 1 /\ wifi'.delay = wifi.delay /\ wifi'.since >= 1
              /\ wifi'.since \in Nat
          BY <1>n, <1>1, <3>2 DEF Less1
        <4>3. /\ quiet' + (wifi.wait - 1) <= LongestWait + Spent(wifi.delay)
              /\ wifi.wait = 1 => quiet' < LongestWait + Spent(wifi.delay) + wifi'.since
          BY <1>t, <1>n, <1>6, <3>1, <4>1, <4>2
        <4>4. CASE wifi.wait = 1
          BY <4>2, <4>3, <4>4 DEF InTime
        <4>5. CASE wifi.wait > 1
          BY <1>n, <4>2, <4>3, <4>5 DEF InTime
        <4> QED
          BY <1>n, <3>2, <4>4, <4>5
      <3>3. CASE wifi.wait = 0
        <4>1. quiet < LongestWait + Spent(wifi.delay) + wifi.since
          BY <2>3, <3>3, <1>n DEF InTime
        <4>2. wifi'.wait = 0 /\ wifi'.delay = wifi.delay /\ wifi'.since = wifi.since + 1
          BY <1>1, <3>3 DEF Less1
        <4> QED
          BY <1>t, <1>n, <1>6, <3>1, <4>1, <4>2 DEF InTime
      <3> QED
        BY <1>n, <3>2, <3>3
    <2>4. ASSUME apThere', ~wifi'.last, Assured(wifi, quiet)
          PROVE  Assured(wifi', quiet')
      <3>1. wifi.link = "joining" /\ wifi.joinLeft >= 1 /\ wifi.joinLeft <= wifi.wait
            /\ quiet + wifi.joinLeft <= QuietLimit
        BY <2>4, <1>n DEF Assured
      <3>2. wifi.joinLeft > 1
        BY <1>n, <1>1, <1>2, <1>3, <2>4, <3>1
      <3>3. wifi'.joinLeft = wifi.joinLeft - 1 /\ wifi'.wait = wifi.wait - 1
            /\ wifi'.link = "joining"
        BY <1>n, <1>1, <1>3, <3>1, <3>2 DEF Less1
      <3> QED
        BY <1>t, <1>n, <1>6, <3>1, <3>2, <3>3 DEF Assured
    <2>5. apThere' /\ ~wifi'.last => InTime(wifi, quiet, wifi.since) \/ Assured(wifi, quiet)
      BY <1>t, <1>1, <1>2, <2>1 DEF Returning
    <2> QED
      BY <2>2, <2>3, <2>4, <2>5
  <1> QED
    BY <1>4, <1>5, <1>6, <1>7, <1>8, <1>9 DEF LinkInv

-----------------------------------------------------------------------------
(* The poll of the link, stage by stage *)

LEMMA StartedFields ==
    ASSUME NEW n, DOMAIN n = NodeFields, SwitchDue(n)
    PROVE  LET r == StartTestClient(n)
           IN  /\ DOMAIN r = NodeFields
               /\ r.test = "active" /\ r.radio = "STA" /\ r.link = "joining"
               /\ r.joinLeft = JoinTime /\ r.wait = MinDelay /\ r.delay = MinDelay
               /\ r.cfgMode = n.cfgMode /\ r.since = n.since /\ r.last = n.last
               /\ r.request = n.request /\ r.requestIn = n.requestIn
               /\ r.outage = n.outage /\ r.hold = n.hold
               /\ r.deadlineIn = TestTimeout /\ ~r.testUp
  BY DEF StartTestClient, NodeFields, Joining, StopMDNS, HasStation

LEMMA RestoredFields ==
    ASSUME NEW n, DOMAIN n = NodeFields, TestGivesUp(n)
    PROVE  LET r == RestoreTestFallback(n)
           IN  /\ DOMAIN r = NodeFields
               /\ r.test = "none" /\ r.radio = "AP" /\ r.link = "off"
               /\ r.joinLeft = 0 /\ ~r.request /\ r.hold = 0
               /\ r.cfgMode = n.cfgMode /\ r.since = n.since /\ r.last = n.last
               /\ r.wait = n.wait /\ r.delay = n.delay /\ r.outage = n.outage
  BY DEF RestoreTestFallback, NodeFields, Disconnected, StopMDNS

LEMMA OrderedFields ==
    ASSUME NEW n, DOMAIN n = NodeFields, RequestDue(n)
    PROVE  LET r == StartOutage(n)
           IN  /\ DOMAIN r = NodeFields
               /\ r.test = n.test /\ r.radio = n.radio /\ r.link = "off"
               /\ r.joinLeft = 0 /\ ~r.request
               /\ r.hold = n.outage /\ r.wait = n.outage /\ r.delay = MinDelay
               /\ r.cfgMode = n.cfgMode /\ r.since = n.since /\ r.last = n.last
               /\ r.outage = n.outage
  BY DEF StartOutage, NodeFields, Disconnected, StopMDNS

LEMMA NoticedFields ==
    ASSUME NEW n, DOMAIN n = NodeFields
    PROVE  LET r == NoticeStatus(n)
           IN  /\ DOMAIN r = NodeFields
               /\ r.test = n.test /\ r.radio = n.radio /\ r.link = n.link
               /\ r.joinLeft = n.joinLeft /\ r.request = n.request
               /\ r.cfgMode = n.cfgMode /\ r.since = n.since /\ r.outage = n.outage
               /\ r.delay \in {n.delay, MinDelay} /\ r.hold \in {n.hold, 0}
               /\ r.wait \in {n.wait, LossWait(n)}
               /\ n.link # "up" /\ ~n.last => r.wait = n.wait /\ r.delay = n.delay
               /\ n.link # "up" /\ n.last /\ ManagesStation(n) =>
                    r.wait = LossWait(n) /\ r.delay = MinDelay
  <1>1. CASE ~ManagesStation(n)
    BY <1>1 DEF NoticeStatus
  <1>2. CASE ManagesStation(n) /\ Connected(n)
    BY <1>2 DEF NoticeStatus, NoticeConnection, NodeFields, Connected
  <1>3. CASE ManagesStation(n) /\ ~Connected(n) /\ n.last
    BY <1>3 DEF NoticeStatus, NoticeLoss, StopMDNS, NodeFields, Connected
  <1>4. CASE ManagesStation(n) /\ ~Connected(n) /\ ~n.last
    BY <1>4 DEF NoticeStatus, NodeFields, Connected
  <1> QED
    BY <1>1, <1>2, <1>3, <1>4

LEMMA AttemptFields ==
    ASSUME NEW n, DOMAIN n = NodeFields
    PROVE  LET r == Attempt(n)
           IN  /\ DOMAIN r = NodeFields
               /\ r.test = n.test /\ r.radio = n.radio /\ r.request = n.request
               /\ r.cfgMode = n.cfgMode /\ r.since = n.since /\ r.outage = n.outage
               /\ r.hold = n.hold
               /\ ~AttemptDue(n) => r = n
               /\ AttemptDue(n) =>
                    /\ r.wait = NextDelay(n.delay) /\ r.delay = NextDelay(n.delay)
                    /\ HasStation(n) => r.link = "joining" /\ r.joinLeft = JoinTime
                    /\ ~HasStation(n) => r.link = n.link /\ r.joinLeft = n.joinLeft
  BY DEF Attempt, NodeFields, Joining, HasStation

\* In the middle of a poll, after the requests: the loss of the connection may
\* still have to be noticed.
MidPoll(n, left, ticks, there) ==
    /\ LinkTypes(n) /\ left \in Nat /\ ticks \in Nat
    /\ Modes(n, left)
    /\ left > 0 => n.link = "off" /\ left <= n.wait /\ (n.last => n.hold = left)
    /\ HasStation(n) /\ n.link # "up" =>
         /\ n.last => ticks <= 1 + WifiMaxLag
         /\ there /\ ~n.last => InTime(n, ticks, 1 + WifiMaxLag) \/ Assured(n, ticks)

LEMMA BeginPoll ==
    ASSUME NEW n, NEW left, NEW ticks, NEW there, LinkInv(n, left, ticks, there)
    PROVE  MidPoll([n EXCEPT !.since = 0], left, ticks, there)
  <1> DEFINE m == [n EXCEPT !.since = 0]
  <1>t. /\ LinkTypes(n) /\ Modes(n, left) /\ OutageHeld(n, left)
        /\ Returning(n, ticks, there) /\ left \in Nat /\ ticks \in Nat
    BY DEF LinkInv
  <1>1. /\ DOMAIN m = NodeFields /\ m.since = 0
        /\ m.link = n.link /\ m.joinLeft = n.joinLeft
        /\ m.last = n.last /\ m.wait = n.wait /\ m.hold = n.hold /\ m.delay = n.delay
        /\ m.test = n.test /\ m.cfgMode = n.cfgMode /\ m.radio = n.radio
        /\ m.request = n.request /\ m.outage = n.outage
    BY <1>t DEF LinkTypes, NodeFields
  <1> HIDE DEF m
  <1>n. /\ n.since \in Nat /\ n.since <= 1 + WifiMaxLag /\ n.wait \in Nat
        /\ 0 \in 0 .. (1 + WifiMaxLag) /\ WifiMaxLag \in Nat
        /\ Spent(n.delay) \in Nat /\ LongestWait \in Nat
    BY <1>t, LinkConstants, Spending DEF LinkTypes
  <1>2. LinkTypes(m)
    BY <1>t, <1>1, <1>n DEF LinkTypes
  <1>3. Modes(m, left)
    BY <1>t, <1>1 DEF Modes, HasStation
  <1>4. left > 0 => m.link = "off" /\ left <= m.wait /\ (m.last => m.hold = left)
    BY <1>t, <1>1 DEF OutageHeld
  <1>5. InTime(n, ticks, n.since) => InTime(m, ticks, 1 + WifiMaxLag)
    BY <1>t, <1>1, <1>n DEF InTime
  <1>6. Assured(n, ticks) => Assured(m, ticks)
    BY <1>1 DEF Assured
  <1>7. HasStation(m) /\ m.link # "up" =>
         /\ m.last => ticks <= 1 + WifiMaxLag
         /\ there /\ ~m.last => InTime(m, ticks, 1 + WifiMaxLag) \/ Assured(m, ticks)
    BY <1>t, <1>1, <1>n, <1>5, <1>6 DEF Returning, HasStation
  <1> QED
    BY <1>t, <1>2, <1>3, <1>4, <1>7 DEF MidPoll, m

\* Where the history begins again in the middle of a poll.
LEMMA MidPollBegun ==
    ASSUME NEW n, NEW left, NEW there, LinkTypes(n), left \in Nat, Modes(n, left),
           left > 0 => n.link = "off" /\ left <= n.wait /\ (n.last => n.hold = left)
    PROVE  MidPoll(n, left, 0, there)
  <1>1. 1 + WifiMaxLag \in Nat /\ 0 <= 1 + WifiMaxLag
    BY LinkConstants
  <1>2. InTime(n, 0, 1 + WifiMaxLag)
    BY <1>1, JustDisturbed
  <1> QED
    BY <1>1, <1>2 DEF MidPoll

LEMMA StartKeepsMid ==
    ASSUME NEW n, NEW left, NEW ticks, NEW there, MidPoll(n, left, ticks, there)
    PROVE  MidPoll(StartTestClient(n), left, IF SwitchDue(n) THEN 0 ELSE ticks, there)
  <1>1. CASE ~SwitchDue(n)
    BY <1>1 DEF StartTestClient
  <1>2. CASE SwitchDue(n)
    <2>t. LinkTypes(n) /\ Modes(n, left) /\ left \in Nat
      BY DEF MidPoll
    <2>1. PICK r : /\ r = StartTestClient(n) /\ DOMAIN r = NodeFields
                   /\ r.test = "active" /\ r.radio = "STA" /\ r.link = "joining"
                   /\ r.joinLeft = JoinTime /\ r.wait = MinDelay /\ r.delay = MinDelay
                   /\ r.cfgMode = n.cfgMode /\ r.since = n.since
                   /\ r.outage = n.outage /\ r.hold = n.hold
      BY <1>2, <2>t, StartedFields DEF LinkTypes
    <2>2. n.test = "pending"
      BY <1>2 DEF SwitchDue
    <2>3. n.cfgMode = "AP" /\ left = 0
      BY <2>t, <2>2 DEF Modes
    <2>4. LinkTypes(r)
      BY <2>t, <2>1, LinkConstants, Spending DEF LinkTypes
    <2>5. Modes(r, left)
      BY <2>1, <2>3 DEF Modes, HasStation
    <2>6. MidPoll(r, left, 0, there)
      BY <2>t, <2>3, <2>4, <2>5, MidPollBegun
    <2> QED
      BY <1>2, <2>1, <2>6
  <1> QED
    BY <1>1, <1>2

LEMMA RestoreKeepsMid ==
    ASSUME NEW n, NEW left, NEW ticks, NEW there, MidPoll(n, left, ticks, there)
    PROVE  MidPoll(RestoreTestFallback(n), IF TestGivesUp(n) THEN 0 ELSE left,
                   IF TestGivesUp(n) THEN 0 ELSE ticks, there)
  <1>1. CASE ~TestGivesUp(n)
    BY <1>1 DEF RestoreTestFallback
  <1>2. CASE TestGivesUp(n)
    <2>t. LinkTypes(n) /\ Modes(n, left)
      BY DEF MidPoll
    <2>1. PICK r : /\ r = RestoreTestFallback(n) /\ DOMAIN r = NodeFields
                   /\ r.test = "none" /\ r.radio = "AP" /\ r.link = "off"
                   /\ r.joinLeft = 0 /\ ~r.request /\ r.hold = 0
                   /\ r.cfgMode = n.cfgMode /\ r.since = n.since
                   /\ r.wait = n.wait /\ r.delay = n.delay /\ r.outage = n.outage
      BY <1>2, <2>t, RestoredFields DEF LinkTypes
    <2>2. n.cfgMode = "AP"
      BY <1>2, <2>t DEF TestGivesUp, Modes
    <2>3. LinkTypes(r)
      <3>1. 0 \in 0 .. JoinTime /\ 0 \in 0 .. LongestWait
        BY LinkConstants, Spending
      <3> QED
        BY <2>t, <2>1, <3>1 DEF LinkTypes
    <2>4. Modes(r, 0)
      BY <2>1, <2>2 DEF Modes, HasStation
    <2>5. MidPoll(r, 0, 0, there)
      BY <2>3, <2>4, MidPollBegun
    <2> QED
      BY <1>2, <2>1, <2>5
  <1> QED
    BY <1>1, <1>2

LEMMA OrderKeepsMid ==
    ASSUME NEW n, NEW left, NEW ticks, NEW there, MidPoll(n, left, ticks, there)
    PROVE  MidPoll(StartOutage(n), IF RequestDue(n) THEN n.outage ELSE left,
                   IF RequestDue(n) THEN 0 ELSE ticks, there)
  <1>1. CASE ~RequestDue(n)
    BY <1>1 DEF StartOutage
  <1>2. CASE RequestDue(n)
    <2>t. LinkTypes(n) /\ Modes(n, left)
      BY DEF MidPoll
    <2>1. PICK r : /\ r = StartOutage(n) /\ DOMAIN r = NodeFields
                   /\ r.test = n.test /\ r.radio = n.radio /\ r.link = "off"
                   /\ r.joinLeft = 0 /\ ~r.request
                   /\ r.hold = n.outage /\ r.wait = n.outage /\ r.delay = MinDelay
                   /\ r.cfgMode = n.cfgMode /\ r.since = n.since /\ r.outage = n.outage
      BY <1>2, <2>t, OrderedFields DEF LinkTypes
    <2>2. HasStation(n)
      BY <1>2, <2>t DEF RequestDue, Modes
    <2>3. LinkTypes(r)
      <3>1. 0 \in 0 .. JoinTime /\ MinDelay \in MinDelay .. MaxDelay
        BY LinkConstants
      <3> QED
        BY <2>t, <2>1, <3>1 DEF LinkTypes
    <2>4. n.outage \in Nat
      BY <2>t, Spending DEF LinkTypes
    <2>5. Modes(r, n.outage)
      BY <2>t, <2>1, <2>2 DEF Modes, HasStation
    <2>6. MidPoll(r, n.outage, 0, there)
      BY <2>1, <2>3, <2>4, <2>5, MidPollBegun
    <2> QED
      BY <1>2, <2>1, <2>6
  <1> QED
    BY <1>1, <1>2

LEMMA NextDelays ==
    ASSUME NEW d \in MinDelay .. MaxDelay
    PROVE  /\ NextDelay(d) \in MinDelay .. MaxDelay
           /\ NextDelay(d) \in Nat \ {0} /\ NextDelay(d) <= LongestWait
           /\ NextDelay(d) < JoinTime => NextDelay(d) = 2 * d
  <1>1. d \in Nat \ {0} /\ d >= MinDelay /\ d <= MaxDelay
    BY LinkConstants
  <1>2. 2 * d \in Nat /\ 2 * d >= d
    BY <1>1
  <1>3. \/ NextDelay(d) = 2 * d /\ 2 * d <= MaxDelay
        \/ NextDelay(d) = MaxDelay
    BY <1>2, LinkConstants DEF NextDelay, Least
  <1> QED
    BY <1>1, <1>2, <1>3, LinkConstants, Spending

\* The rest of the poll: the loss is noticed and an attempt that is due made.
LEMMA FinishPoll ==
    ASSUME NEW m, NEW left, NEW ticks, NEW there, MidPoll(m, left, ticks, there),
           NEW a, a = Attempt(NoticeStatus(m)),
           NEW v, DOMAIN v = NodeFields, v.last <=> m.link = "up",
           v.link = a.link, v.joinLeft = a.joinLeft, v.since = a.since,
           v.wait = a.wait, v.delay = a.delay, v.hold = a.hold, v.outage = a.outage,
           v.test = a.test, v.cfgMode = a.cfgMode, v.radio = a.radio,
           v.request = a.request
    PROVE  LinkInv(v, left, ticks, there)
  <1>t. LinkTypes(m) /\ Modes(m, left) /\ left \in Nat /\ ticks \in Nat
    BY DEF MidPoll
  <1>o. left > 0 => m.link = "off" /\ left <= m.wait /\ (m.last => m.hold = left)
    BY DEF MidPoll
  <1>n. /\ m.wait \in Nat /\ m.wait <= LongestWait /\ m.hold \in Nat /\ m.hold <= LongestWait
        /\ m.delay \in Nat \ {0} /\ m.delay \in MinDelay .. MaxDelay
        /\ m.joinLeft \in Nat /\ m.joinLeft <= JoinTime
        /\ LongestWait \in Nat /\ JoinTime \in Nat \ {0} /\ WifiMaxLag \in Nat
        /\ MinDelay \in Nat \ {0} /\ MinDelay <= LongestWait
        /\ MinDelay \in MinDelay .. MaxDelay
    BY <1>t, Spending, LinkConstants DEF LinkTypes
  <1>1. PICK r : /\ r = NoticeStatus(m) /\ DOMAIN r = NodeFields
                 /\ r.test = m.test /\ r.radio = m.radio /\ r.link = m.link
                 /\ r.joinLeft = m.joinLeft /\ r.request = m.request
                 /\ r.cfgMode = m.cfgMode /\ r.since = m.since /\ r.outage = m.outage
                 /\ r.delay \in {m.delay, MinDelay} /\ r.hold \in {m.hold, 0}
                 /\ r.wait \in {m.wait, LossWait(m)}
                 /\ m.link # "up" /\ ~m.last => r.wait = m.wait /\ r.delay = m.delay
                 /\ m.link # "up" /\ m.last /\ ManagesStation(m) =>
                      r.wait = LossWait(m) /\ r.delay = MinDelay
    BY <1>t, NoticedFields DEF LinkTypes
  <1>l. /\ LossWait(m) \in Nat \ {0} /\ LossWait(m) <= LongestWait
        /\ m.hold > 0 => LossWait(m) = m.hold
    BY <1>n DEF LossWait
  <1>r. /\ r.wait \in Nat /\ r.wait <= LongestWait /\ r.hold \in Nat /\ r.hold <= LongestWait
        /\ r.delay \in MinDelay .. MaxDelay
    BY <1>n, <1>1, <1>l
  <1>2. /\ v.test = r.test /\ v.radio = r.radio /\ v.request = r.request
        /\ v.cfgMode = r.cfgMode /\ v.since = r.since /\ v.outage = r.outage
        /\ v.hold = r.hold
        /\ ~AttemptDue(r) => v.link = r.link /\ v.joinLeft = r.joinLeft
                             /\ v.wait = r.wait /\ v.delay = r.delay
        /\ AttemptDue(r) =>
             /\ v.wait = NextDelay(r.delay) /\ v.delay = NextDelay(r.delay)
             /\ HasStation(r) => v.link = "joining" /\ v.joinLeft = JoinTime
             /\ ~HasStation(r) => v.link = r.link /\ v.joinLeft = r.joinLeft
    BY <1>1, AttemptFields
  <1>3. LinkTypes(v)
    <2>1. CASE AttemptDue(r)
      <3>1. NextDelay(r.delay) \in 0 .. LongestWait /\ NextDelay(r.delay) \in MinDelay .. MaxDelay
        BY <1>n, <1>r, NextDelays
      <3>2. v.link \in {"off", "joining", "up"} /\ v.joinLeft \in 0 .. JoinTime
        BY <1>t, <1>n, <1>1, <1>2, <2>1 DEF LinkTypes
      <3> QED
        BY <1>t, <1>r, <1>1, <1>2, <2>1, <3>1, <3>2, Spending DEF LinkTypes
    <2>2. CASE ~AttemptDue(r)
      BY <1>t, <1>r, <1>1, <1>2, <2>2, Spending DEF LinkTypes
    <2> QED
      BY <2>1, <2>2
  <1>4. HasStation(v) = HasStation(m) /\ HasStation(r) = HasStation(m)
        /\ (HasStation(m) => ManagesStation(m) /\ ManagesStation(r))
    BY <1>t, <1>1, <1>2 DEF HasStation, ManagesStation, Modes
  <1>5. Modes(v, left)
    BY <1>t, <1>1, <1>2, <1>4 DEF Modes
  <1>6. OutageHeld(v, left)
    <2> SUFFICES ASSUME left > 0
                 PROVE  v.link = "off" /\ ~v.last /\ left <= v.wait
      BY DEF OutageHeld
    <2>1. /\ m.link = "off" /\ left <= m.wait /\ (m.last => m.hold = left)
          /\ ManagesStation(m)
      BY <1>t, <1>o, <1>4 DEF Modes
    <2>2. left <= r.wait
      <3>1. CASE m.last
        BY <1>t, <1>1, <1>l, <2>1, <3>1
      <3>2. CASE ~m.last
        BY <1>1, <2>1, <3>2
      <3> QED
        BY <3>1, <3>2
    <2>3. ~AttemptDue(r)
      BY <1>t, <1>r, <2>2 DEF AttemptDue
    <2> QED
      BY <1>1, <1>2, <2>1, <2>2, <2>3
  <1>7. Returning(v, ticks, there)
    <2> SUFFICES ASSUME HasStation(v), v.link # "up"
                 PROVE  /\ ~v.last
                        /\ there => InTime(v, ticks, v.since) \/ Assured(v, ticks)
      BY DEF Returning
    <2>1. m.link # "up"
      BY <1>1, <1>2 DEF AttemptDue, Connected
    <2>2. ManagesStation(m) /\ ManagesStation(r) /\ HasStation(m) /\ HasStation(r)
      BY <1>4
    <2>3. ASSUME m.last
          PROVE  InTime(v, ticks, v.since)
      <3>1. ticks <= 1 + WifiMaxLag
        BY <2>1, <2>2, <2>3 DEF MidPoll
      <3>2. r.wait = LossWait(m) /\ r.delay = MinDelay
        BY <1>1, <2>1, <2>2, <2>3
      <3>3. ~AttemptDue(r)
        BY <1>l, <3>2 DEF AttemptDue
      <3>4. v.wait = LossWait(m) /\ v.delay = MinDelay
        BY <1>2, <3>2, <3>3
      <3>5. Spent(MinDelay) \in Nat /\ 2 + WifiMaxLag <= Spent(MinDelay)
        BY <1>n, Spending
      <3> QED
        BY <1>t, <1>n, <1>l, <3>1, <3>4, <3>5 DEF InTime
    <2>4. ASSUME ~m.last, there
          PROVE  InTime(v, ticks, v.since) \/ Assured(v, ticks)
      <3>1. r.wait = m.wait /\ r.delay = m.delay
        BY <1>1, <2>1, <2>4
      <3>2. InTime(m, ticks, 1 + WifiMaxLag) \/ Assured(m, ticks)
        BY <2>1, <2>2, <2>4 DEF MidPoll
      <3>3. CASE m.wait > 0
        <4>1. ~AttemptDue(r)
          BY <1>n, <3>1, <3>3 DEF AttemptDue
        <4>2. v.wait = m.wait /\ v.delay = m.delay /\ v.link = m.link /\ v.joinLeft = m.joinLeft
          BY <1>1, <1>2, <3>1, <4>1
        <4>3. InTime(m, ticks, 1 + WifiMaxLag) => InTime(v, ticks, v.since)
          BY <3>3, <4>2 DEF InTime
        <4>4. Assured(m, ticks) => Assured(v, ticks)
          BY <4>2 DEF Assured
        <4> QED
          BY <3>2, <4>3, <4>4
      <3>4. CASE m.wait = 0
        <4>1. AttemptDue(r)
          BY <1>1, <2>1, <2>2, <3>1, <3>4 DEF AttemptDue, Connected
        <4> DEFINE d == m.delay
                   next == NextDelay(m.delay)
        <4>2. v.wait = next /\ v.delay = next /\ v.link = "joining" /\ v.joinLeft = JoinTime
          BY <1>2, <2>2, <3>1, <4>1
        <4>3. /\ next \in Nat \ {0} /\ next <= LongestWait
              /\ next < JoinTime => next = 2 * d
          BY <1>n, NextDelays
        <4>4. /\ Spent(d) \in Nat /\ Spent(d) <= Spent(JoinTime) /\ Spent(JoinTime) \in Nat
              /\ QuietLimit = LongestWait + Spent(JoinTime) + WifiMaxLag + JoinTime
              /\ Spent(next) \in Nat
          BY <1>n, <4>3, Spending
        <4>5. ticks <= LongestWait + Spent(d) + WifiMaxLag
          <5>1. ~Assured(m, ticks)
            BY <1>n, <3>4 DEF Assured
          <5>2. ticks < LongestWait + Spent(d) + (1 + WifiMaxLag)
            BY <3>2, <3>4, <5>1 DEF InTime
          <5> QED
            BY <1>t, <1>n, <4>4, <5>2
        <4>6. CASE next < JoinTime
          <5>1. next = 2 * d
            BY <4>3, <4>6
          <5>2. 2 * d < JoinTime
            BY <4>6, <5>1
          <5>3. d \in Nat \ {0}
            BY <1>n
          <5>4. Spent(d) + WifiMaxLag + 2 * d <= Spent(2 * d)
            BY <5>2, <5>3, Spending
          <5>5. Spent(d) + WifiMaxLag + next <= Spent(next)
            BY <5>1, <5>4
          <5> HIDE DEF d, next
          <5>6. ticks + next <= LongestWait + Spent(next)
            BY <1>t, <1>n, <4>3, <4>4, <4>5, <5>5
          <5> QED
            BY <4>2, <4>3, <5>6 DEF InTime
        <4>7. CASE ~(next < JoinTime)
          <5> HIDE DEF d, next
          <5>1. ticks + JoinTime <= QuietLimit /\ JoinTime \in 1 .. next
            BY <1>t, <1>n, <4>3, <4>4, <4>5, <4>7
          <5> QED
            BY <4>2, <5>1 DEF Assured
        <4> QED
          BY <4>6, <4>7
      <3> QED
        BY <1>n, <3>3, <3>4
    <2>5. ~v.last
      BY <2>1
    <2> QED
      BY <2>3, <2>4, <2>5
  <1> QED
    BY <1>t, <1>3, <1>5, <1>6, <1>7 DEF LinkInv

LEMMA PolledLink ==
    ASSUME LinkInv(wifi, outageLeft, quiet, apThere), UpdateNetwork
    PROVE  LinkInv(wifi, outageLeft, quiet, apThere)'
  <1> DEFINE begun == [wifi EXCEPT !.since = 0]
             started == StartTestClient(begun)
             kept == RestoreTestFallback(started)
             ordered == StartOutage(kept)
             attempt == Attempt(NoticeStatus(ordered))
             left1 == IF TestGivesUp(started) THEN 0 ELSE outageLeft
             left2 == IF RequestDue(kept) THEN kept.outage ELSE left1
             ticks1 == IF SwitchDue(begun) THEN 0 ELSE quiet
             ticks2 == IF TestGivesUp(started) THEN 0 ELSE ticks1
             ticks3 == IF RequestDue(kept) THEN 0 ELSE ticks2
  <1>d. DOMAIN wifi = NodeFields
    BY DEF LinkInv, LinkTypes
  <1>s. SwitchDue(begun) <=> SwitchDue(wifi)
    BY <1>d DEF SwitchDue, NodeFields
  <1>1. MidPoll(begun, outageLeft, quiet, apThere)
    BY BeginPoll
  <1>2. MidPoll(started, outageLeft, ticks1, apThere)
    BY <1>1, StartKeepsMid
  <1>3. MidPoll(kept, left1, ticks2, apThere)
    BY <1>2, RestoreKeepsMid
  <1>4. MidPoll(ordered, left2, ticks3, apThere)
    BY <1>3, OrderKeepsMid
  <1>5. /\ outageLeft' = left2 /\ apThere' = apThere
        /\ quiet' = IF SwitchDue(wifi) \/ TestGivesUp(started) \/ RequestDue(kept)
                    THEN 0 ELSE quiet
        /\ \E begins \in BOOLEAN :
             wifi' = [(IF Changed(ordered) THEN StartMDNS(attempt, begins)
                       ELSE attempt) EXCEPT
                        !.lastIp = ActiveIP(ordered), !.last = Connected(ordered),
                        !.led = NetworkLed(ordered)]
    BY DEF UpdateNetwork
  <1>6. quiet' = ticks3
    BY <1>5, <1>s
  <1>7. DOMAIN attempt = NodeFields
    <2>1. DOMAIN ordered = NodeFields
      BY <1>4 DEF MidPoll, LinkTypes
    <2>2. DOMAIN NoticeStatus(ordered) = NodeFields
      BY <2>1, NoticedFields
    <2> QED
      BY <2>2, AttemptFields
  <1> HIDE DEF begun, started, kept, ordered, attempt, left1, left2, ticks1, ticks2, ticks3
  <1>8. /\ DOMAIN wifi' = NodeFields /\ (wifi'.last <=> ordered.link = "up")
        /\ wifi'.link = attempt.link /\ wifi'.joinLeft = attempt.joinLeft
        /\ wifi'.since = attempt.since /\ wifi'.wait = attempt.wait
        /\ wifi'.delay = attempt.delay /\ wifi'.hold = attempt.hold
        /\ wifi'.outage = attempt.outage /\ wifi'.test = attempt.test
        /\ wifi'.cfgMode = attempt.cfgMode /\ wifi'.radio = attempt.radio
        /\ wifi'.request = attempt.request
    BY <1>5, <1>7 DEF StartMDNS, NodeFields, Connected
  <1>9. attempt = Attempt(NoticeStatus(ordered))
    BY DEF attempt
  <1>10. LinkInv(wifi', left2, ticks3, apThere)
    BY <1>4, <1>8, <1>9, FinishPoll
  <1> QED
    BY <1>5, <1>6, <1>10

\* A boot or restart.
LEMMA BootedLink ==
    ASSUME NEW n \in InitNetwork, NEW there
    PROVE  LinkInv(n, 0, 0, there)
  <1>1. PICK mode \in WifiModes, up \in BOOLEAN, begins \in BOOLEAN, lease \in Addresses :
             n = Booted(mode, up, begins, lease)
    BY DEF InitNetwork
  <1> DEFINE on == up /\ mode # "AP"
  <1>2. /\ DOMAIN n = NodeFields /\ n.cfgMode = mode /\ n.test = "none"
        /\ n.link = (IF on THEN "up" ELSE "off")
        /\ n.radio = (CASE mode = "AP" -> "AP" [] mode = "CLIENT" -> "STA"
                        [] OTHER -> "AP_STA")
        /\ n.joinLeft = 0 /\ n.since = 0 /\ (n.last <=> on)
        /\ n.wait \in {0, MinDelay} /\ n.delay = MinDelay
        /\ ~n.request /\ n.outage = 0 /\ n.hold = 0
    <2> DEFINE radio == CASE mode = "AP" -> "AP" [] mode = "CLIENT" -> "STA"
                          [] OTHER -> "AP_STA"
               wait == IF mode # "AP" /\ ~on THEN MinDelay ELSE 0
               link == IF on THEN "up" ELSE "off"
               b == [cfgMode |-> mode, lease |-> lease, radio |-> radio,
                     link |-> link, joinLeft |-> 0, since |-> 0,
                     last |-> on, lastIp |-> NoAddress, down |-> mode # "AP" /\ ~on,
                     wait |-> wait, delay |-> MinDelay, request |-> FALSE, requestIn |-> 0,
                     outage |-> 0, hold |-> 0, test |-> "none",
                     testUp |-> FALSE, switchIn |-> 0, deadlineIn |-> 0,
                     mdns |-> NoAddress, led |-> "disconnected"]
    <2>1. n = [StartMDNS(b, begins) EXCEPT !.lastIp = ActiveIP(b), !.led = NetworkLed(b)]
      BY <1>1 DEF Booted
    <2> HIDE DEF radio, wait, link, on
    <2>2. /\ DOMAIN b = NodeFields /\ b.cfgMode = mode /\ b.test = "none"
          /\ b.link = link /\ b.radio = radio /\ b.joinLeft = 0 /\ b.since = 0
          /\ b.last = on /\ b.wait = wait /\ b.delay = MinDelay
          /\ b.request = FALSE /\ b.outage = 0 /\ b.hold = 0
      BY DEF NodeFields
    <2> HIDE DEF b
    <2>3. /\ DOMAIN n = NodeFields /\ n.cfgMode = mode /\ n.test = "none"
          /\ n.link = link /\ n.radio = radio /\ n.joinLeft = 0 /\ n.since = 0
          /\ n.last = on /\ n.wait = wait /\ n.delay = MinDelay
          /\ n.request = FALSE /\ n.outage = 0 /\ n.hold = 0
      BY <2>1, <2>2 DEF StartMDNS, NodeFields
    <2>4. wait \in {0, MinDelay}
      BY DEF wait
    <2> QED
      BY <2>3, <2>4 DEF radio, link
  <1>3. LinkTypes(n)
    <2>1. /\ 0 \in 0 .. JoinTime /\ 0 \in 0 .. (1 + WifiMaxLag)
          /\ 0 \in 0 .. LongestWait /\ MinDelay \in 0 .. LongestWait
          /\ MinDelay \in MinDelay .. MaxDelay
      BY LinkConstants, Spending
    <2> QED
      BY <1>2, <2>1 DEF LinkTypes
  <1>4. Modes(n, 0)
    BY <1>1, <1>2 DEF Modes, HasStation, WifiModes
  <1>5. n.since \in Nat /\ 0 <= n.since
    BY <1>2
  <1>6. Returning(n, 0, there)
    BY <1>3, <1>5, JustDisturbed DEF Returning
  <1>7. OutageHeld(n, 0)
    BY DEF OutageHeld
  <1> QED
    BY <1>3, <1>4, <1>6, <1>7 DEF LinkInv

LEMMA LinkStarts == WifiInit => LinkInv(wifi, outageLeft, quiet, apThere)
  BY BootedLink DEF WifiInit

\* Requests change the link only when they are carried out.
LEMMA RequestedLink ==
    ASSUME NEW n, NEW m, NEW left, NEW ticks, NEW there, LinkInv(n, left, ticks, there),
           DOMAIN m = NodeFields, m.outage \in 0 .. LongestWait,
           m.link = n.link, m.joinLeft = n.joinLeft, m.since = n.since,
           m.last = n.last, m.wait = n.wait, m.hold = n.hold, m.delay = n.delay,
           m.cfgMode = n.cfgMode, m.radio = n.radio,
           \/ m.test = n.test /\ (m.request = n.request \/ HasStation(n))
           \/ n.test = "none" /\ m.test = "pending" /\ n.cfgMode = "AP"
              /\ m.request = n.request
    PROVE  LinkInv(m, left, ticks, there)
  <1>t. /\ LinkTypes(n) /\ Modes(n, left) /\ OutageHeld(n, left)
        /\ Returning(n, ticks, there) /\ left \in Nat /\ ticks \in Nat
    BY DEF LinkInv
  <1>1. LinkTypes(m)
    BY <1>t DEF LinkTypes
  <1>2. Modes(m, left)
    BY <1>t DEF Modes, HasStation
  <1>3. OutageHeld(m, left)
    BY <1>t DEF OutageHeld
  <1>4. Returning(m, ticks, there)
    BY <1>t DEF Returning, HasStation, InTime, Assured
  <1> QED
    BY <1>t, <1>1, <1>2, <1>3, <1>4 DEF LinkInv

LEMMA LinkNext ==
    LinkInv(wifi, outageLeft, quiet, apThere) /\ [WifiNext]_wifiVars
        => LinkInv(wifi, outageLeft, quiet, apThere)'
  <1> SUFFICES ASSUME LinkInv(wifi, outageLeft, quiet, apThere), [WifiNext]_wifiVars
               PROVE  LinkInv(wifi, outageLeft, quiet, apThere)'
    OBVIOUS
  <1>t. LinkTypes(wifi) /\ Modes(wifi, outageLeft)
    BY DEF LinkInv
  <1>1. CASE UpdateNetwork
    BY <1>1, PolledLink
  <1>2. ASSUME NEW length \in Outages, RequestClientReconnect(length)
        PROVE  LinkInv(wifi, outageLeft, quiet, apThere)'
    <2>1. /\ wifi' = [wifi EXCEPT !.request = TRUE, !.requestIn = RequestDelay,
                                  !.outage = length]
          /\ wifi.link = "up"
          /\ UNCHANGED <<apThere, outageLeft, quiet>>
      BY <1>2 DEF RequestClientReconnect, Connected
    <2>2. length \in 0 .. LongestWait
      BY Spending
    <2>3. HasStation(wifi)
      BY <1>t, <2>1 DEF Modes
    <2>4. /\ DOMAIN wifi' = NodeFields /\ wifi'.outage \in 0 .. LongestWait
          /\ wifi'.link = wifi.link /\ wifi'.joinLeft = wifi.joinLeft
          /\ wifi'.since = wifi.since /\ wifi'.last = wifi.last /\ wifi'.wait = wifi.wait
          /\ wifi'.hold = wifi.hold /\ wifi'.delay = wifi.delay
          /\ wifi'.cfgMode = wifi.cfgMode /\ wifi'.radio = wifi.radio
          /\ wifi'.test = wifi.test
      BY <1>t, <2>1, <2>2 DEF LinkTypes, NodeFields
    <2>5. LinkInv(wifi', outageLeft, quiet, apThere)
      BY <2>3, <2>4, RequestedLink
    <2> QED
      BY <2>1, <2>5
  <1>3. CASE RequestTestClient
    <2>1. /\ wifi' = [wifi EXCEPT !.test = "pending", !.switchIn = SwitchDelay]
          /\ wifi.cfgMode = "AP" /\ wifi.test = "none"
          /\ UNCHANGED <<apThere, outageLeft, quiet>>
      BY <1>3 DEF RequestTestClient
    <2>2. /\ DOMAIN wifi' = NodeFields /\ wifi'.outage \in 0 .. LongestWait
          /\ wifi'.link = wifi.link /\ wifi'.joinLeft = wifi.joinLeft
          /\ wifi'.since = wifi.since /\ wifi'.last = wifi.last /\ wifi'.wait = wifi.wait
          /\ wifi'.hold = wifi.hold /\ wifi'.delay = wifi.delay
          /\ wifi'.cfgMode = wifi.cfgMode /\ wifi'.radio = wifi.radio
          /\ wifi'.request = wifi.request /\ wifi'.test = "pending"
      BY <1>t, <2>1 DEF LinkTypes, NodeFields
    <2>3. LinkInv(wifi', outageLeft, quiet, apThere)
      BY <2>1, <2>2, RequestedLink
    <2> QED
      BY <2>1, <2>3
  <1>4. CASE NetworkRestart
    <2>1. LinkInv(wifi', 0, 0, apThere)
      BY <1>4, BootedLink DEF NetworkRestart
    <2> QED
      BY <1>4, <2>1 DEF NetworkRestart
  <1>5. CASE AccessPointLost \/ AccessPointBack \/ Deauthenticated
    <2>1. /\ outageLeft' = outageLeft /\ quiet' = 0
          /\ \/ wifi' = wifi /\ (wifi.link # "up" \/ apThere' = apThere)
             \/ wifi' = Disconnected(wifi)
             \/ wifi' = wifi /\ wifi.link = "up"
      BY <1>5 DEF AccessPointLost, AccessPointBack, Deauthenticated, Disturb, Connected
    <2>2. CASE wifi' = wifi /\ wifi.link = "up"
      <3>1. LinkInv(wifi, outageLeft, 0, apThere')
        BY <2>2 DEF LinkInv, Returning
      <3> QED
        BY <2>1, <2>2, <3>1
    <2>3. CASE ~(wifi' = wifi /\ wifi.link = "up")
      <3>1. LinkInv(wifi', outageLeft, 0, apThere')
        BY <2>1, <2>3, DisturbedLink
      <3> QED
        BY <2>1, <3>1
    <2> QED
      BY <2>2, <2>3
  <1>6. CASE LeaseChanged
    <2>1. PICK a \in Addresses : wifi' = [wifi EXCEPT !.lease = a]
      BY <1>6 DEF LeaseChanged
    <2>2. UNCHANGED <<apThere, outageLeft, quiet>>
      BY <1>6 DEF LeaseChanged
    <2>3. /\ DOMAIN wifi' = NodeFields /\ wifi'.outage \in 0 .. LongestWait
          /\ wifi'.link = wifi.link /\ wifi'.joinLeft = wifi.joinLeft
          /\ wifi'.since = wifi.since /\ wifi'.last = wifi.last /\ wifi'.wait = wifi.wait
          /\ wifi'.hold = wifi.hold /\ wifi'.delay = wifi.delay
          /\ wifi'.cfgMode = wifi.cfgMode /\ wifi'.radio = wifi.radio
          /\ wifi'.request = wifi.request /\ wifi'.test = wifi.test
      BY <1>t, <2>1 DEF LinkTypes, NodeFields
    <2>4. LinkInv(wifi', outageLeft, quiet, apThere)
      BY <2>3, RequestedLink
    <2> QED
      BY <2>2, <2>4
  <1>7. CASE WifiTick
    BY <1>7, TickedLink
  <1>8. CASE UNCHANGED wifiVars
    <2>1. wifi' = wifi /\ UNCHANGED <<apThere, outageLeft, quiet>>
      BY <1>8 DEF wifiVars
    <2> QED
      BY <2>1
  <1> QED
    BY <1>1, <1>2, <1>3, <1>4, <1>5, <1>6, <1>7, <1>8 DEF WifiNext

\* A station whose access point stays in range is connected again within
\* ReturnBound, for any delays, outages and lateness of the polls, if the
\* longest delay is longer than an association takes; and a controlled outage
\* is never cut short.
THEOREM StationComesBack == WifiSpec => []StationReturnsInTime
  <1> DEFINE Inv == LinkInv(wifi, outageLeft, quiet, apThere)
  <1>1. Inv => StationReturnsInTime
    <2> SUFFICES ASSUME Inv PROVE StationReturnsInTime
      OBVIOUS
    <2>1. /\ quiet >= QuietLimit /\ apThere /\ HasStation(wifi) => wifi.link = "up"
          /\ outageLeft > 0 => wifi.link = "off"
      BY LinkReturns
    <2>2. QuietLimit \in Nat
      BY WifiAssumption
    <2> QED
      BY <2>1, <2>2 DEF StationReturnsInTime, Connected
  <1>2. WifiInit => Inv
    BY LinkStarts
  <1>3. Inv /\ [WifiNext]_wifiVars => Inv'
    BY LinkNext
  <1> QED
    BY <1>1, <1>2, <1>3, PTL DEF WifiSpec

-----------------------------------------------------------------------------
(* The types of the link *)

Ips == Addresses \cup {ApAddress, NoAddress}
Radios == {"AP", "AP_STA", "STA", "OFF"}
Links == {"off", "joining", "up"}
Tests == {"none", "pending", "active"}
NetLeds == {"connected", "ap", "disconnected"}
Nodes == [cfgMode : WifiModes, radio : Radios,
               link : Links, joinLeft : 0..JoinTime,
               lease : Addresses, since : 0..(1 + WifiMaxLag),
               last : BOOLEAN, lastIp : Ips,
               down : BOOLEAN, wait : Nat, delay : MinDelay..MaxDelay,
               request : BOOLEAN, requestIn : 0..RequestDelay,
               outage : Outages \cup {0}, hold : Nat,
               test : Tests, testUp : BOOLEAN,
               switchIn : 0..SwitchDelay, deadlineIn : 0..TestTimeout,
               mdns : Ips,
               led : NetLeds]
\* The same field by field, which is how the steps below keep it.
NodeTyped(n) ==
  /\ n = [f \in NodeFields |-> n[f]]
  /\ n.cfgMode \in WifiModes /\ n.radio \in Radios /\ n.link \in Links
  /\ n.joinLeft \in 0..JoinTime /\ n.lease \in Addresses
  /\ n.since \in 0..(1 + WifiMaxLag) /\ n.last \in BOOLEAN /\ n.lastIp \in Ips
  /\ n.down \in BOOLEAN /\ n.wait \in Nat /\ n.delay \in MinDelay..MaxDelay
  /\ n.request \in BOOLEAN /\ n.requestIn \in 0..RequestDelay
  /\ n.outage \in Outages \cup {0} /\ n.hold \in Nat /\ n.test \in Tests
  /\ n.testUp \in BOOLEAN /\ n.switchIn \in 0..SwitchDelay
  /\ n.deadlineIn \in 0..TestTimeout /\ n.mdns \in Ips /\ n.led \in NetLeds


LEMMA NodeType == ASSUME NEW n PROVE NodeTyped(n) <=> n \in Nodes
  <1>1. NodeTyped(n) => n \in Nodes
    BY DEF NodeTyped, Nodes, NodeFields
  <1>2. n \in Nodes => NodeTyped(n)
    BY DEF NodeTyped, Nodes, NodeFields
  <1> QED
    BY <1>1, <1>2

LEMMA NodeConstants ==
    /\ 0 \in 0 .. JoinTime /\ JoinTime \in 0 .. JoinTime
    /\ 0 \in 0 .. (1 + WifiMaxLag) /\ MinDelay \in MinDelay .. MaxDelay
    /\ RequestDelay \in 0 .. RequestDelay /\ 0 \in 0 .. RequestDelay
    /\ SwitchDelay \in 0 .. SwitchDelay /\ 0 \in 0 .. SwitchDelay
    /\ TestTimeout \in 0 .. TestTimeout /\ 0 \in 0 .. TestTimeout
    /\ MinDelay \in Nat /\ Outages \subseteq Nat /\ 0 \in Outages \cup {0}
    /\ \A d \in MinDelay .. MaxDelay : d \in Nat /\ NextDelay(d) \in MinDelay .. MaxDelay
  BY WifiAssumption DEF NextDelay, Least

LEMMA ActiveTyped == ASSUME NEW n, NodeTyped(n) PROVE ActiveIP(n) \in Ips
  BY DEF NodeTyped, ActiveIP, Ips

LEMMA StopTyped == ASSUME NEW n, NodeTyped(n) PROVE NodeTyped(StopMDNS(n))
  BY DEF NodeTyped, NodeFields, StopMDNS, Ips

LEMMA StartTyped == ASSUME NEW n, NodeTyped(n), NEW begins PROVE NodeTyped(StartMDNS(n, begins))
  <1> DEFINE ip == IF begins THEN ActiveIP(n) ELSE NoAddress
  <1>1. ip \in Ips
    BY ActiveTyped DEF Ips
  <1>2. StartMDNS(n, begins) = [n EXCEPT !.mdns = ip]
    BY DEF StartMDNS
  <1> HIDE DEF ip
  <1> QED
    BY <1>1, <1>2 DEF NodeTyped, NodeFields

LEMMA OffTyped == ASSUME NEW n, NodeTyped(n) PROVE NodeTyped(Disconnected(n))
  BY NodeConstants DEF NodeTyped, NodeFields, Disconnected, Links

LEMMA JoiningTyped == ASSUME NEW n, NodeTyped(n) PROVE NodeTyped(Joining(n))
  BY NodeConstants DEF NodeTyped, NodeFields, Joining, Links

LEMMA NoticedTyped == ASSUME NEW n, NodeTyped(n) PROVE NodeTyped(NoticeStatus(n))
  <1>1. NodeTyped(NoticeConnection(n))
    <2> DEFINE v == n.testUp \/ n.test = "active"
               m == [n EXCEPT !.testUp = v, !.delay = MinDelay, !.down = FALSE, !.hold = 0]
    <2>1. v \in BOOLEAN
      OBVIOUS
    <2>2. NoticeConnection(n) = m
      BY DEF NoticeConnection
    <2> HIDE DEF v
    <2>3. NodeTyped(m)
      BY <2>1, NodeConstants DEF NodeTyped, NodeFields
    <2> QED
      BY <2>2, <2>3
  <1>2. NodeTyped(NoticeLoss(n))
    <2> DEFINE w == LossWait(n)
               m == [n EXCEPT !.down = TRUE, !.delay = MinDelay, !.wait = w]
    <2>1. w \in Nat
      BY NodeConstants DEF NodeTyped, LossWait
    <2> HIDE DEF w
    <2>2. NodeTyped(m)
      BY <2>1, NodeConstants DEF NodeTyped, NodeFields
    <2>3. NoticeLoss(n) = StopMDNS(m)
      BY DEF NoticeLoss, w
    <2> HIDE DEF m
    <2> QED
      BY <2>2, <2>3, StopTyped
  <1>3. NodeTyped([n EXCEPT !.down = TRUE])
    BY DEF NodeTyped, NodeFields
  <1> QED
    BY <1>1, <1>2, <1>3 DEF NoticeStatus

LEMMA AttemptTyped == ASSUME NEW n, NodeTyped(n) PROVE NodeTyped(Attempt(n))
  <1> DEFINE d == NextDelay(n.delay)
             j == Joining(n)
  <1>1. d \in MinDelay .. MaxDelay /\ d \in Nat
    BY NodeConstants DEF NodeTyped
  <1>2. NodeTyped(j)
    BY JoiningTyped
  <1>3. Attempt(n) = IF AttemptDue(n) THEN [j EXCEPT !.delay = d, !.wait = d] ELSE n
    BY DEF Attempt
  <1> HIDE DEF d, j
  <1>4. NodeTyped([j EXCEPT !.delay = d, !.wait = d])
    BY <1>1, <1>2 DEF NodeTyped, NodeFields
  <1> QED
    BY <1>3, <1>4

LEMMA StartedTyped == ASSUME NEW n, NodeTyped(n) PROVE NodeTyped(StartTestClient(n))
  <1> DEFINE m == [n EXCEPT !.test = "active", !.testUp = FALSE, !.deadlineIn = TestTimeout,
                   !.down = TRUE, !.wait = MinDelay, !.delay = MinDelay,
                   !.radio = "STA"]
  <1>1. NodeTyped(m)
    BY NodeConstants DEF NodeTyped, NodeFields, Tests, Radios
  <1>2. StartTestClient(n) = IF SwitchDue(n) THEN Joining(StopMDNS(m)) ELSE n
    BY DEF StartTestClient
  <1> HIDE DEF m
  <1> QED
    BY <1>1, <1>2, JoiningTyped, StopTyped

LEMMA KeptTyped == ASSUME NEW n, NodeTyped(n) PROVE NodeTyped(RestoreTestFallback(n))
  <1> DEFINE m == Disconnected(StopMDNS(n))
             r == [m EXCEPT !.radio = "AP", !.test = "none", !.testUp = FALSE,
                            !.request = FALSE, !.down = FALSE, !.hold = 0]
  <1>1. NodeTyped(m)
    BY OffTyped, StopTyped
  <1>2. RestoreTestFallback(n) = IF TestGivesUp(n) THEN r ELSE n
    BY DEF RestoreTestFallback
  <1> HIDE DEF m
  <1>3. NodeTyped(r)
    BY <1>1 DEF NodeTyped, NodeFields, Tests, Radios
  <1> HIDE DEF r
  <1> QED
    BY <1>2, <1>3

LEMMA OrderedTyped == ASSUME NEW n, NodeTyped(n) PROVE NodeTyped(StartOutage(n))
  <1> DEFINE o == n.outage
             m == [n EXCEPT !.request = FALSE, !.down = TRUE,
                   !.delay = MinDelay, !.hold = o, !.wait = o]
  <1>1. StartOutage(n) = IF RequestDue(n) THEN Disconnected(StopMDNS(m)) ELSE n
    BY DEF StartOutage
  <1>2. o \in Nat
    BY NodeConstants DEF NodeTyped
  <1> HIDE DEF o
  <1>3. NodeTyped(m)
    BY <1>2, NodeConstants DEF NodeTyped, NodeFields
  <1> HIDE DEF m
  <1> QED
    BY <1>1, <1>3, OffTyped, StopTyped

LEMMA BootedTyped == ASSUME NEW n \in InitNetwork PROVE NodeTyped(n)
  <1>1. PICK mode \in WifiModes, up \in BOOLEAN, begins \in BOOLEAN, lease \in Addresses :
             n = Booted(mode, up, begins, lease)
    BY DEF InitNetwork
  <1> DEFINE on == up /\ mode # "AP"
             lost == mode # "AP" /\ ~on
             radio == CASE mode = "AP" -> "AP" [] mode = "CLIENT" -> "STA"
                        [] OTHER -> "AP_STA"
             wait == IF mode # "AP" /\ ~on THEN MinDelay ELSE 0
             link == IF on THEN "up" ELSE "off"
             b == [cfgMode |-> mode, lease |-> lease, radio |-> radio,
                   link |-> link, joinLeft |-> 0, since |-> 0,
                   last |-> on, lastIp |-> NoAddress, down |-> lost,
                   wait |-> wait, delay |-> MinDelay, request |-> FALSE, requestIn |-> 0,
                   outage |-> 0, hold |-> 0, test |-> "none",
                   testUp |-> FALSE, switchIn |-> 0, deadlineIn |-> 0,
                   mdns |-> NoAddress, led |-> "disconnected"]
  <1>2. n = [StartMDNS(b, begins) EXCEPT !.lastIp = ActiveIP(b), !.led = NetworkLed(b)]
    BY <1>1 DEF Booted
  <1>3. /\ on \in BOOLEAN /\ lost \in BOOLEAN /\ radio \in Radios /\ wait \in Nat
        /\ link \in Links
    BY NodeConstants DEF Radios, Links
  <1> HIDE DEF on, lost, radio, wait, link
  <1>4. NodeTyped(b)
    BY <1>3, NodeConstants DEF NodeTyped, NodeFields, Ips, Tests, NetLeds
  <1> DEFINE m == StartMDNS(b, begins)
             ip == ActiveIP(b)
             lit == NetworkLed(b)
  <1>5. NodeTyped(m) /\ ip \in Ips /\ lit \in NetLeds
    BY <1>4, StartTyped, ActiveTyped DEF NetworkLed, NetLeds
  <1> HIDE DEF b, m, ip, lit
  <1>6. NodeTyped([m EXCEPT !.lastIp = ip, !.led = lit])
    BY <1>5 DEF NodeTyped, NodeFields
  <1> QED
    BY <1>2, <1>6 DEF m, ip, lit

LinkTyped == /\ NodeTyped(wifi) /\ apThere \in BOOLEAN /\ served \in Ips
             /\ outageLeft \in Nat /\ quiet \in 0 .. QuietLimit

LEMMA QuietStarts == 0 \in 0 .. QuietLimit /\ 0 \in Nat
  BY WifiAssumption

LEMMA PollKeepsTypes == ASSUME LinkTyped, UpdateNetwork PROVE LinkTyped'
  <1> DEFINE begun == [wifi EXCEPT !.since = 0]
             started == StartTestClient(begun)
             kept == RestoreTestFallback(started)
             ordered == StartOutage(kept)
             attempt == Attempt(NoticeStatus(ordered))
             ip == ActiveIP(ordered)
             up == Connected(ordered)
             lit == NetworkLed(ordered)
  <1>1. NodeTyped(begun)
    BY NodeConstants DEF LinkTyped, NodeTyped, NodeFields
  <1> HIDE DEF begun
  <1>2. NodeTyped(started)
    BY <1>1, StartedTyped
  <1>3. NodeTyped(kept)
    BY <1>2, KeptTyped
  <1>4. NodeTyped(ordered)
    BY <1>3, OrderedTyped
  <1>5. NodeTyped(attempt)
    BY <1>4, NoticedTyped, AttemptTyped
  <1>6. /\ \E begins \in BOOLEAN :
             wifi' = [(IF Changed(ordered) THEN StartMDNS(attempt, begins)
                       ELSE attempt) EXCEPT
                        !.lastIp = ip, !.last = up, !.led = lit]
        /\ served' = IF Changed(ordered) THEN ip ELSE served
        /\ outageLeft' = IF RequestDue(kept) THEN kept.outage
                         ELSE IF TestGivesUp(started) THEN 0 ELSE outageLeft
        /\ quiet' \in {0, quiet} /\ apThere' = apThere
    BY DEF UpdateNetwork, begun
  <1>7. kept.outage \in Nat
    BY <1>3, NodeConstants DEF NodeTyped
  <1> HIDE DEF started, kept, ordered, attempt
  <1>8. ip \in Ips /\ up \in BOOLEAN /\ lit \in NetLeds
    BY <1>4, ActiveTyped DEF Connected, NetworkLed, NetLeds
  <1> HIDE DEF ip, up, lit
  <1>9. NodeTyped(wifi')
    <2>1. PICK begins \in BOOLEAN :
             wifi' = [(IF Changed(ordered) THEN StartMDNS(attempt, begins)
                       ELSE attempt) EXCEPT !.lastIp = ip, !.last = up, !.led = lit]
      BY <1>6
    <2> DEFINE m == IF Changed(ordered) THEN StartMDNS(attempt, begins) ELSE attempt
    <2>2. NodeTyped(m)
      BY <1>5, StartTyped
    <2>3. wifi' = [m EXCEPT !.lastIp = ip, !.last = up, !.led = lit]
      BY <2>1
    <2> HIDE DEF m
    <2>4. NodeTyped([m EXCEPT !.lastIp = ip, !.last = up, !.led = lit])
      BY <1>8, <2>2 DEF NodeTyped, NodeFields
    <2> QED
      BY <2>3, <2>4
  <1>10. served' \in Ips /\ outageLeft' \in Nat
    BY <1>6, <1>7, <1>8 DEF LinkTyped
  <1>11. quiet' \in 0 .. QuietLimit
    BY <1>6, QuietStarts DEF LinkTyped
  <1> QED
    BY <1>6, <1>9, <1>10, <1>11 DEF LinkTyped

LEMMA RequestKeepsTypes ==
    ASSUME LinkTyped, (\E length \in Outages : RequestClientReconnect(length)) \/ RequestTestClient
    PROVE  LinkTyped'
  <1>1. NodeTyped(wifi')
    <2>1. ASSUME NEW length \in Outages, RequestClientReconnect(length)
          PROVE  NodeTyped(wifi')
      <3>1. wifi' = [wifi EXCEPT !.request = TRUE, !.requestIn = RequestDelay,
                                 !.outage = length]
        BY <2>1 DEF RequestClientReconnect
      <3> QED
        BY <3>1, NodeConstants DEF LinkTyped, NodeTyped, NodeFields
    <2>2. CASE RequestTestClient
      <3>1. wifi' = [wifi EXCEPT !.test = "pending", !.switchIn = SwitchDelay]
        BY <2>2 DEF RequestTestClient
      <3> QED
        BY <3>1, NodeConstants DEF LinkTyped, NodeTyped, NodeFields, Tests
    <2> QED
      BY <2>1, <2>2
  <1> QED
    BY <1>1 DEF LinkTyped, RequestClientReconnect, RequestTestClient

LEMMA EnvironmentKeepsTypes ==
    ASSUME LinkTyped, AccessPointLost \/ AccessPointBack \/ Deauthenticated \/ LeaseChanged
    PROVE  LinkTyped'
  <1>1. CASE AccessPointLost \/ AccessPointBack \/ Deauthenticated
    <2>1. /\ wifi' \in {wifi, Disconnected(wifi)} /\ quiet' = 0
          /\ UNCHANGED <<served, outageLeft>> /\ apThere' \in {TRUE, FALSE, apThere}
      BY <1>1 DEF AccessPointLost, AccessPointBack, Deauthenticated, Disturb
    <2>2. NodeTyped(wifi')
      BY <2>1, OffTyped DEF LinkTyped
    <2> QED
      BY <2>1, <2>2, QuietStarts DEF LinkTyped
  <1>2. CASE LeaseChanged
    <2>1. PICK a \in Addresses : wifi' = [wifi EXCEPT !.lease = a]
      BY <1>2 DEF LeaseChanged
    <2>2. NodeTyped(wifi')
      BY <2>1 DEF LinkTyped, NodeTyped, NodeFields
    <2> QED
      BY <1>2, <2>2 DEF LinkTyped, LeaseChanged
  <1> QED
    BY <1>1, <1>2

LEMMA TickKeepsTypes == ASSUME LinkTyped, WifiTick PROVE LinkTyped'
  <1> DEFINE link == LinkAfterTick(wifi)
             m == [wifi EXCEPT
       !.since = wifi.since + 1, !.wait = Less1(wifi.wait), !.hold = Less1(wifi.hold),
       !.requestIn = Less1(wifi.requestIn), !.switchIn = Less1(wifi.switchIn),
       !.deadlineIn = Less1(wifi.deadlineIn), !.joinLeft = Less1(wifi.joinLeft),
       !.link = link]
  <1>1. wifi' = m
    BY DEF WifiTick
  <1>2. link \in Links
    BY DEF LinkAfterTick, LinkTyped, NodeTyped, Links
  <1>3. wifi.since + 1 \in 0 .. (1 + WifiMaxLag)
    BY WifiAssumption DEF WifiTick, LinkTyped, NodeTyped
  <1>4. /\ Less1(wifi.wait) \in Nat /\ Less1(wifi.hold) \in Nat
        /\ Less1(wifi.requestIn) \in 0 .. RequestDelay
        /\ Less1(wifi.switchIn) \in 0 .. SwitchDelay
        /\ Less1(wifi.deadlineIn) \in 0 .. TestTimeout
        /\ Less1(wifi.joinLeft) \in 0 .. JoinTime
    BY WifiAssumption DEF Less1, LinkTyped, NodeTyped
  <1> HIDE DEF link
  <1>5. NodeTyped(m)
    BY <1>2, <1>3, <1>4 DEF LinkTyped, NodeTyped, NodeFields
  <1> HIDE DEF m
  <1>6. /\ outageLeft' = Less1(outageLeft) /\ quiet' = Least(quiet + 1, QuietLimit)
        /\ UNCHANGED <<apThere, served>>
    BY DEF WifiTick
  <1>7. outageLeft' \in Nat /\ quiet' \in 0 .. QuietLimit
    BY <1>6, WifiAssumption DEF LinkTyped, Less1, Least
  <1> QED
    BY <1>1, <1>5, <1>6, <1>7 DEF LinkTyped

\* The types of the link, for any addresses, delays and outages.
THEOREM WifiTypes == WifiSpec => []WifiTypeOK
  <1>1. WifiInit => LinkTyped
    BY BootedTyped, ActiveTyped, QuietStarts DEF WifiInit, LinkTyped
  <1>2. LinkTyped /\ [WifiNext]_wifiVars => LinkTyped'
    <2> SUFFICES ASSUME LinkTyped, [WifiNext]_wifiVars
                 PROVE  LinkTyped'
      OBVIOUS
    <2>1. CASE NetworkRestart
      <3>1. NodeTyped(wifi')
        BY <2>1, BootedTyped DEF NetworkRestart
      <3>2. ActiveIP(wifi') \in Ips
        BY <3>1, ActiveTyped
      <3> QED
        BY <2>1, <3>1, <3>2, QuietStarts DEF NetworkRestart, LinkTyped
    <2>2. CASE UNCHANGED wifiVars
      BY <2>2 DEF wifiVars, LinkTyped
    <2> QED
      BY <2>1, <2>2, PollKeepsTypes, RequestKeepsTypes, EnvironmentKeepsTypes,
         TickKeepsTypes DEF WifiNext
  <1>3. LinkTyped => WifiTypeOK
    <2> SUFFICES ASSUME LinkTyped PROVE WifiTypeOK
      OBVIOUS
    <2>1. wifi \in Nodes
      BY NodeType DEF LinkTyped
    <2> QED
      BY <2>1 DEF LinkTyped, WifiTypeOK, Nodes, Ips, Radios, Links, Tests, NetLeds
  <1> QED
    BY <1>1, <1>2, <1>3, PTL DEF WifiSpec

=============================================================================
