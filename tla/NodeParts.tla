------------------------------ MODULE NodeParts ------------------------------
(***************************************************************************)
(* The components of the node that share no variable in these models, and  *)
(* the test tool of its fixture, checked in one run: "part" selects the    *)
(* one that runs, all others stay where they start.  What is checked is    *)
(* the sum of their state spaces, not the product; the environment of each *)
(* is in its own module.                                                   *)
(***************************************************************************)
EXTENDS DmxDriver, DmxPort, ArtNetDirectory, ArtDmxSequences, WebAdmin,
        WifiLink, NodeBoot, NodePanel, DmxTool, SacnSocket

VARIABLE part   \* the component under observation

Parts == {"driver", "port", "directory", "sequences", "web", "wifi", "boot",
          "panel", "tool", "socket"}

partsVars == <<part, drvVars, portVars, dirVars, seqVars, webVars, wifiVars,
               bootVars, panelVars, toolVars, socketVars>>

\* Components with many initial states rest in one of them.
WifiAtRest ==
  /\ apThere = FALSE
  /\ wifi = Booted("AP", FALSE, FALSE, CHOOSE a \in Addresses : TRUE)
  /\ served = ApAddress /\ outageLeft = 0 /\ quiet = 0

BootAtRest ==
  /\ running = CHOOSE c \in NodeConfigs : TRUE
  /\ boot = "halted" /\ stored = running /\ port = Passive
  /\ guardFrames = 0 /\ bus = "free" /\ unapplied = FALSE

PortAtRest ==
  /\ portDirection = "output" /\ liveProtocol = "artnet"
  /\ source = CHOOSE f \in Frames : TRUE

SocketAtRest ==
  /\ address = [n \in Interfaces |-> UnsetAddress] /\ ~socketReady
  /\ universe = CHOOSE u \in Universes : TRUE

WebAtRest == ~recoveryMode /\ fsMounted /\ ~password

PartsInit ==
  /\ part \in Parts
  /\ DriverInit /\ PortInit /\ DirInit /\ SeqInit /\ WebInit /\ PanelInit
  /\ ToolInit /\ SocketInit
  /\ part # "port" => PortAtRest
  /\ part # "directory" => ~dirInput
  /\ part # "web" => WebAtRest
  /\ part # "tool" => dmxLine.next = 0
  /\ part # "socket" => SocketAtRest
  /\ IF part = "wifi" THEN WifiInit ELSE WifiAtRest
  /\ IF part = "boot" THEN BootInit ELSE BootAtRest

PartsNext ==
  \/ /\ part = "driver"
     /\ UNCHANGED <<part, portVars, dirVars, seqVars, webVars, wifiVars,
                    bootVars, panelVars, toolVars, socketVars>>
     /\ DriverNext
  \/ /\ part = "port"
     /\ UNCHANGED <<part, drvVars, dirVars, seqVars, webVars, wifiVars,
                    bootVars, panelVars, toolVars, socketVars>>
     /\ PortNext
  \/ /\ part = "directory"
     /\ UNCHANGED <<part, drvVars, portVars, seqVars, webVars, wifiVars,
                    bootVars, panelVars, toolVars, socketVars>>
     /\ DirNext
  \/ /\ part = "sequences"
     /\ UNCHANGED <<part, drvVars, portVars, dirVars, webVars, wifiVars,
                    bootVars, panelVars, toolVars, socketVars>>
     /\ SeqNext
  \/ /\ part = "web"
     /\ UNCHANGED <<part, drvVars, portVars, dirVars, seqVars, wifiVars,
                    bootVars, panelVars, toolVars, socketVars>>
     /\ WebNext
  \/ /\ part = "wifi"
     /\ UNCHANGED <<part, drvVars, portVars, dirVars, seqVars, webVars,
                    bootVars, panelVars, toolVars, socketVars>>
     /\ WifiNext
  \/ /\ part = "boot"
     /\ UNCHANGED <<part, drvVars, portVars, dirVars, seqVars, webVars,
                    wifiVars, panelVars, toolVars, socketVars>>
     /\ BootNext
  \/ /\ part = "panel"
     /\ UNCHANGED <<part, drvVars, portVars, dirVars, seqVars, webVars,
                    wifiVars, bootVars, toolVars, socketVars>>
     /\ PanelNext
  \/ /\ part = "tool"
     /\ UNCHANGED <<part, drvVars, portVars, dirVars, seqVars, webVars,
                    wifiVars, bootVars, panelVars, socketVars>>
     /\ ToolNext
  \/ /\ part = "socket"
     /\ UNCHANGED <<part, drvVars, portVars, dirVars, seqVars, webVars,
                    wifiVars, bootVars, panelVars, toolVars>>
     /\ SocketNext

PartsSpec == PartsInit /\ [][PartsNext]_partsVars

\* The type invariant of the component that runs.
PartsTypeOK ==
  /\ part \in Parts
  /\ part = "driver" => DriverTypeOK
  /\ part = "port" => PortTypeOK
  /\ part = "directory" => DirTypeOK
  /\ part = "sequences" => SeqTypeOK
  /\ part = "web" => WebTypeOK
  /\ part = "wifi" => WifiTypeOK
  /\ part = "boot" => BootTypeOK
  /\ part = "panel" => PanelTypeOK
  /\ part = "tool" => ToolTypeOK
  /\ part = "socket" => SocketTypeOK

=============================================================================
