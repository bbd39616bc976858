------------------------------ MODULE NodeBoot ------------------------------
(***************************************************************************)
(* How the node decides whether it drives the RS-485 bus: the order of     *)
(* setup() with the recovery button and the file system (uNode_2.ino), the *)
(* boot bus guard and the start of the UART (dmx.cpp), the direction and   *)
(* termination pins (hardware.cpp, boards with split control), and the     *)
(* five ways a running node gets another direction: a configuration saved  *)
(* or uploaded in the web interface, ArtAddress, the temporary             *)
(* configuration of the fixture and a restart.                             *)
(*                                                                         *)
(* A configuration is reduced to the direction, the termination mode, the  *)
(* bus guard and "restartOnly", which stands for the settings that         *)
(* configChangeRequiresRestart() names.                                    *)
(***************************************************************************)
EXTENDS Integers

CONSTANTS
  RestartOnly,    \* values of the settings that take effect after a restart
  GuardFrames     \* frames that convince the bus guard: 2 in dmx.cpp

ASSUME BootAssumption == GuardFrames \in Nat \ {0} /\ RestartOnly # {}

VARIABLES
  boot,         \* "reset", "guard", "running", "recovery", "halted"
  running,      \* the configuration in RAM
  stored,       \* the configuration in LittleFS
  port,         \* what the UART does and the pins of the transceiver
  guardFrames,  \* bootGuardInputFrames, counted up to GuardFrames
  bus,          \* history: "free"; once the guard has heard a console "kept"
                \* or, if that could not be stored or loaded again, "lost"
  unapplied     \* history: a save or an upload changed the settings of the
                \* port, and nothing has applied them since

bootVars == <<boot, running, stored, port, guardFrames, bus, unapplied>>

Directions == {"output", "input"}
Terminations == {"off", "on", "auto"}
NodeConfigs == [direction : Directions, termination : Terminations,
                busGuard : BOOLEAN, restartOnly : RestartOnly]

\* The outputs of hardware.cpp, on boards that have all three.
Pins == {"driver", "receiver", "termination"}

BootTypeOK ==
  /\ boot \in {"reset", "guard", "running", "recovery", "halted"}
  /\ running \in NodeConfigs /\ stored \in NodeConfigs
  /\ port \in [uart : {"off", "output", "input"}, pins : SUBSET Pins]
  /\ guardFrames \in 0..GuardFrames
  /\ bus \in {"free", "kept", "lost"} /\ unapplied \in BOOLEAN

---------------------------------------------------------------------------
(* Pins and UART                                                           *)

\* initHardware(): driver and receiver disabled, no termination.
Passive == [uart |-> "off", pins |-> {}]

DirectionPins(c) == IF c.direction = "output" THEN {"driver"} ELSE {"receiver"}

TerminationPins(c) ==
  IF c.termination = "on" \/ (c.termination = "auto" /\ c.direction = "input")
  THEN {"termination"} ELSE {}

ApplyTermination(p, c) ==
  [p EXCEPT !.pins = (@ \ {"termination"}) \cup TerminationPins(c)]

ApplyHardwareForDirection(p, c) ==
  [p EXCEPT !.pins = DirectionPins(c) \cup TerminationPins(c)]

ApplyHardwareListenOnly(p, c) ==
  [p EXCEPT !.pins = IF c.termination # "off" THEN {"receiver", "termination"}
                     ELSE {"receiver"}]

InitDMX(p, c) == [ApplyHardwareForDirection(p, c) EXCEPT !.uart = c.direction]

RestartDMX(p, c) == InitDMX([p EXCEPT !.uart = "off"], c)

---------------------------------------------------------------------------
(* setup()                                                                 *)

GuardApplies(c) == c.busGuard /\ c.direction = "output"

Setup ==
  /\ boot = "reset"
  /\ running' = stored /\ guardFrames' = 0
  /\ IF GuardApplies(stored)
     THEN /\ boot' = "guard"
          /\ port' = [ApplyHardwareListenOnly(Passive, stored) EXCEPT !.uart = "input"]
     ELSE /\ boot' = "running"
          /\ port' = InitDMX(Passive, stored)
  /\ UNCHANGED <<stored, bus, unapplied>>

\* What becomes of the guard's decision when a failed load replaces it.
Overwritten == IF bus = "kept" THEN "lost" ELSE bus

\* setup() does not look at the result of loadConfig(): when config.json is
\* there and cannot be read the node runs with the defaults, and when it is
\* gone they are stored as well.
SetupWithoutConfig(defaults) ==
  /\ boot = "reset"
  /\ boot' = "running" /\ running' = defaults /\ guardFrames' = 0
  /\ stored' \in {stored, defaults}
  /\ port' = InitDMX(Passive, defaults)
  /\ bus' = Overwritten
  /\ UNCHANGED unapplied

\* The button is held during the reset: defaults in RAM, no DMX at all.
RecoveryBoot(defaults) ==
  /\ boot = "reset"
  /\ boot' = "recovery" /\ running' = defaults /\ port' = Passive
  /\ UNCHANGED <<stored, guardFrames, bus, unapplied>>

\* LittleFS.begin() fails: haltWithFilesystemFault() never returns.
FilesystemFault ==
  /\ boot = "reset"
  /\ boot' = "halted" /\ port' = Passive
  /\ UNCHANGED <<running, stored, guardFrames, bus, unapplied>>

\* A frame with at least one slot arrives during the probe.
GuardFrame ==
  /\ boot = "guard" /\ guardFrames < GuardFrames
  /\ guardFrames' = guardFrames + 1
  /\ UNCHANGED <<boot, running, stored, port, bus, unapplied>>

\* Variant: the direction is changed in RAM and not stored.
GuardFindsConsoleInRam ==
  /\ boot = "guard" /\ guardFrames >= GuardFrames
  /\ boot' = "running"
  /\ running' = [running EXCEPT !.direction = "input"]
  /\ port' = InitDMX([port EXCEPT !.uart = "off"], running')
  /\ bus' = "kept"
  /\ guardFrames' = 0
  /\ UNCHANGED <<stored, unapplied>>

\* applyBootBusGuard() with enough frames, then initDMX().  The result of
\* updateConfiguredDirection() is logged only: when the store fails the
\* direction is still output, and initDMX() drives the bus.
GuardFindsConsole ==
  /\ boot = "guard" /\ guardFrames >= GuardFrames
  /\ boot' = "running"
  /\ \/ /\ running' = [running EXCEPT !.direction = "input"]
        /\ stored' = running'
        /\ bus' = "kept"
     \/ /\ bus' = "lost"
        /\ UNCHANGED <<running, stored>>
  /\ port' = InitDMX([port EXCEPT !.uart = "off"], running')
  /\ guardFrames' = 0
  /\ UNCHANGED unapplied

\* The 1200 ms are over without enough frames.
GuardFindsNothing ==
  /\ boot = "guard" /\ guardFrames < GuardFrames
  /\ boot' = "running"
  /\ port' = InitDMX([port EXCEPT !.uart = "off"], running)
  /\ guardFrames' = 0
  /\ UNCHANGED <<running, stored, bus, unapplied>>

---------------------------------------------------------------------------
(* The running node                                                        *)

\* What a setting means for the history of the bus: the operator asked for
\* the output, so the node may drive the bus again.
Commanded(c) == IF c.direction = "output" THEN "free" ELSE bus

RequiresRestart(previous, c) ==
  previous.restartOnly # c.restartOnly \/ previous.busGuard # c.busGuard

\* Variant: the pins follow the new direction, the UART is not restarted.
ApplyRuntimePinsOnly(previous, c) ==
  IF previous.direction # c.direction THEN ApplyHardwareForDirection(port, c)
  ELSE IF previous.termination # c.termination THEN ApplyTermination(port, c)
  ELSE port

\* applyArtNetRuntimeConfig(), as far as the port goes: it compares with the
\* previous configuration, not with what the port does.
ApplyRuntime(previous, c) ==
  IF previous.direction # c.direction
  THEN RestartDMX(ApplyHardwareForDirection(port, c), c)
  ELSE IF previous.termination # c.termination THEN ApplyTermination(port, c)
  ELSE port

\* The configuration is stored and in use at once, the port is left as it is.
StoreUnapplied(c) ==
  /\ stored' = c /\ running' = c /\ bus' = Commanded(c)
  /\ unapplied' = (unapplied \/ c.direction # running.direction
                             \/ c.termination # running.termination)
  /\ UNCHANGED <<boot, port, guardFrames>>

\* handleSaveConfig(): the port follows unless something needs a restart.
SaveConfig(c) ==
  /\ boot = "running"
  /\ IF RequiresRestart(running, c)
     THEN StoreUnapplied(c)
     ELSE /\ stored' = c /\ running' = c /\ bus' = Commanded(c)
          /\ port' = ApplyRuntime(running, c)
          /\ unapplied' = (unapplied /\ c.direction = running.direction)
          /\ UNCHANGED <<boot, guardFrames>>

\* handleUploadConfig(), at the end of the upload: importConfigFile() applies
\* nothing, whatever the uploaded configuration changes.
ImportConfig(c) == boot = "running" /\ StoreUnapplied(c)

\* setDirectionFromArtAddress(): unlike the web it restarts the UART also
\* when the direction is the one the node has.
ArtAddressDirection(direction) ==
  /\ boot = "running"
  /\ running' = [running EXCEPT !.direction = direction]
  /\ stored' = IF running.direction = direction THEN stored ELSE running'
  /\ bus' = Commanded(running')
  /\ port' = RestartDMX(ApplyHardwareForDirection(port, running'), running')
  /\ unapplied' = FALSE
  /\ UNCHANGED <<boot, guardFrames>>

\* handleTemporaryRuntimeConfig(): RAM only.
TemporaryRuntimeConfig(direction) ==
  /\ boot = "running"
  /\ running' = [running EXCEPT !.direction = direction]
  /\ bus' = Commanded(running')
  /\ port' = ApplyRuntime(running, running')
  /\ unapplied' = (unapplied /\ direction = running.direction)
  /\ UNCHANGED <<boot, stored, guardFrames>>

\* Any other setting is stored by writing the whole configuration in RAM, a
\* temporary direction included.
StoreOtherSetting ==
  /\ boot = "running"
  /\ stored' = running
  /\ UNCHANGED <<boot, running, port, guardFrames, bus, unapplied>>

\* handleFactoryReset(), a route of the recovery server only; the restart it
\* schedules comes later.
FactoryReset(defaults) ==
  /\ boot = "recovery"
  /\ stored' = defaults /\ running' = defaults /\ bus' = "free"
  /\ UNCHANGED <<boot, port, guardFrames, unapplied>>

\* handleRecoveryAuthPassword(): loads the configuration and stores it with
\* another password.  It does not look at the result of loadConfig(): after
\* a failed load it stores the defaults.
RecoveryPassword(defaults) ==
  /\ boot = "recovery"
  /\ \/ running' = stored /\ UNCHANGED <<stored, bus>>
     \/ /\ running' = defaults /\ stored' = defaults
        /\ bus' = Overwritten
  /\ UNCHANGED <<boot, port, guardFrames, unapplied>>

\* Reset, power cycle or a scheduled restart, at any time.
NodeRestart ==
  /\ boot # "reset"
  /\ boot' = "reset" /\ port' = Passive /\ guardFrames' = 0 /\ unapplied' = FALSE
  /\ UNCHANGED <<running, stored, bus>>

Defaults == {c \in NodeConfigs : c.direction = "output" /\ c.termination = "auto"
                                 /\ ~c.busGuard}

BootInit ==
  /\ boot = "reset" /\ stored \in NodeConfigs /\ running = stored
  /\ port = Passive /\ guardFrames = 0 /\ bus = "free" /\ unapplied = FALSE

BootNext ==
  \/ Setup
  \/ \E d \in Defaults : SetupWithoutConfig(d) \/ RecoveryBoot(d)
  \/ FilesystemFault
  \/ GuardFrame
  \/ GuardFindsConsole
  \/ GuardFindsNothing
  \/ \E c \in NodeConfigs : SaveConfig(c) \/ ImportConfig(c)
  \/ \E d \in Directions : ArtAddressDirection(d)
  \/ \E d \in Directions : TemporaryRuntimeConfig(d)
  \/ StoreOtherSetting
  \/ \E d \in Defaults : FactoryReset(d)
  \/ \E d \in Defaults : RecoveryPassword(d)
  \/ NodeRestart

BootSpec == BootInit /\ [][BootNext]_bootVars

---------------------------------------------------------------------------
(* Properties                                                              *)

\* The guard's decision lasts once it is stored: as long as no load of the
\* configuration fails, the bus is not driven until an operator asks for the
\* output, not in that session and not after any number of restarts, whatever
\* else is saved or uploaded meanwhile.
GuardDecisionLasts ==
  bus = "kept" => "driver" \notin port.pins /\ port.uart # "output"

\* "If at least two valid DMX frames are detected, the node switches to DMX
\* input and stores that direction" (MANUAL.md): a bus on which the guard has
\* heard a console is not driven, whether or not its decision could be stored.
GuardedBusIsNotDriven ==
  bus # "free" => "driver" \notin port.pins /\ port.uart # "output"

\* The transceiver, the UART and the termination agree with each other and,
\* unless a save or an upload has been left unapplied, with the configuration,
\* whichever of the five ways changed it; the driver is never on without the
\* transmitter.
PortFollowsConfig ==
  /\ "driver" \in port.pins <=> port.uart = "output"
  /\ "receiver" \in port.pins <=> port.uart = "input"
  /\ (boot = "running" /\ ~unapplied)
        => port = InitDMX(Passive, running)

=============================================================================
