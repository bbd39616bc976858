--------------------------- MODULE NodeParts_proofs ---------------------------
(***************************************************************************)
(* TLAPS proofs about NodeParts: what runs there is one of the components, *)
(* by its own specification, so that all that is proved of a component     *)
(* holds of it there; and the types of whichever runs.  The component      *)
(* never changes, and those that rest need not start as they would run.    *)
(***************************************************************************)
EXTENDS NodeParts, DmxLine_proofs, ArtNetTables_proofs, NodeAdmin_proofs,
        SacnSocket_proofs

LEMMA PartStays ==
  ASSUME [PartsNext]_partsVars
  PROVE  part' = part
  BY DEF PartsNext, partsVars

LEMMA PartStarts ==
  ASSUME PartsInit
  PROVE  /\ part \in Parts
         /\ DriverInit /\ PortInit /\ DirInit /\ SeqInit /\ WebInit /\ PanelInit /\ ToolInit
         /\ SocketInit
         /\ part = "wifi" => WifiInit
         /\ part = "boot" => BootInit
  BY DEF PartsInit

\* A step of the run is a step of the component that runs, or changes nothing
\* of it.
LEMMA PartSteps ==
  ASSUME [PartsNext]_partsVars
  PROVE  /\ part = "driver" => [DriverNext]_drvVars
         /\ part = "port" => [PortNext]_portVars
         /\ part = "directory" => [DirNext]_dirVars
         /\ part = "sequences" => [SeqNext]_seqVars
         /\ part = "web" => [WebNext]_webVars
         /\ part = "wifi" => [WifiNext]_wifiVars
         /\ part = "boot" => [BootNext]_bootVars
         /\ part = "panel" => [PanelNext]_panelVars
         /\ part = "tool" => [ToolNext]_toolVars
         /\ part = "socket" => [SocketNext]_socketVars
  BY DEF PartsNext, partsVars

\* What runs under NodeParts is a behaviour of the component's own module, for
\* each of the ten: whatever is proved of a component's specification holds
\* of it here.
THEOREM PartsAreTheirModules ==
  PartsSpec => /\ part = "driver" => DriverSpec
               /\ part = "port" => PortSpec
               /\ part = "directory" => DirSpec
               /\ part = "sequences" => SeqSpec
               /\ part = "web" => WebSpec
               /\ part = "wifi" => WifiSpec
               /\ part = "boot" => BootSpec
               /\ part = "panel" => PanelSpec
               /\ part = "tool" => ToolSpec
               /\ part = "socket" => SocketSpec
  <1>1. PartsSpec => (part = "driver" => DriverSpec)
    <2>1. PartsInit /\ part = "driver" => DriverInit
      BY PartStarts
    <2>2. part = "driver" /\ [PartsNext]_partsVars => (part = "driver")' /\ [DriverNext]_drvVars
      BY PartStays, PartSteps
    <2> QED
      BY <2>1, <2>2, PTL DEF PartsSpec, DriverSpec
  <1>2. PartsSpec => (part = "port" => PortSpec)
    <2>1. PartsInit /\ part = "port" => PortInit
      BY PartStarts
    <2>2. part = "port" /\ [PartsNext]_partsVars => (part = "port")' /\ [PortNext]_portVars
      BY PartStays, PartSteps
    <2> QED
      BY <2>1, <2>2, PTL DEF PartsSpec, PortSpec
  <1>3. PartsSpec => (part = "directory" => DirSpec)
    <2>1. PartsInit /\ part = "directory" => DirInit
      BY PartStarts
    <2>2. part = "directory" /\ [PartsNext]_partsVars => (part = "directory")' /\ [DirNext]_dirVars
      BY PartStays, PartSteps
    <2> QED
      BY <2>1, <2>2, PTL DEF PartsSpec, DirSpec
  <1>4. PartsSpec => (part = "sequences" => SeqSpec)
    <2>1. PartsInit /\ part = "sequences" => SeqInit
      BY PartStarts
    <2>2. part = "sequences" /\ [PartsNext]_partsVars => (part = "sequences")' /\ [SeqNext]_seqVars
      BY PartStays, PartSteps
    <2> QED
      BY <2>1, <2>2, PTL DEF PartsSpec, SeqSpec
  <1>5. PartsSpec => (part = "web" => WebSpec)
    <2>1. PartsInit /\ part = "web" => WebInit
      BY PartStarts
    <2>2. part = "web" /\ [PartsNext]_partsVars => (part = "web")' /\ [WebNext]_webVars
      BY PartStays, PartSteps
    <2> QED
      BY <2>1, <2>2, PTL DEF PartsSpec, WebSpec
  <1>6. PartsSpec => (part = "wifi" => WifiSpec)
    <2>1. PartsInit /\ part = "wifi" => WifiInit
      BY PartStarts
    <2>2. part = "wifi" /\ [PartsNext]_partsVars => (part = "wifi")' /\ [WifiNext]_wifiVars
      BY PartStays, PartSteps
    <2> QED
      BY <2>1, <2>2, PTL DEF PartsSpec, WifiSpec
  <1>7. PartsSpec => (part = "boot" => BootSpec)
    <2>1. PartsInit /\ part = "boot" => BootInit
      BY PartStarts
    <2>2. part = "boot" /\ [PartsNext]_partsVars => (part = "boot")' /\ [BootNext]_bootVars
      BY PartStays, PartSteps
    <2> QED
      BY <2>1, <2>2, PTL DEF PartsSpec, BootSpec
  <1>8. PartsSpec => (part = "panel" => PanelSpec)
    <2>1. PartsInit /\ part = "panel" => PanelInit
      BY PartStarts
    <2>2. part = "panel" /\ [PartsNext]_partsVars => (part = "panel")' /\ [PanelNext]_panelVars
      BY PartStays, PartSteps
    <2> QED
      BY <2>1, <2>2, PTL DEF PartsSpec, PanelSpec
  <1>9. PartsSpec => (part = "tool" => ToolSpec)
    <2>1. PartsInit /\ part = "tool" => ToolInit
      BY PartStarts
    <2>2. part = "tool" /\ [PartsNext]_partsVars => (part = "tool")' /\ [ToolNext]_toolVars
      BY PartStays, PartSteps
    <2> QED
      BY <2>1, <2>2, PTL DEF PartsSpec, ToolSpec
  <1>10. PartsSpec => (part = "socket" => SocketSpec)
    <2>1. PartsInit /\ part = "socket" => SocketInit
      BY PartStarts
    <2>2. part = "socket" /\ [PartsNext]_partsVars => (part = "socket")' /\ [SocketNext]_socketVars
      BY PartStays, PartSteps
    <2> QED
      BY <2>1, <2>2, PTL DEF PartsSpec, SocketSpec
  <1> QED
    BY <1>1, <1>2, <1>3, <1>4, <1>5, <1>6, <1>7, <1>8, <1>9, <1>10

\* The types of the component that runs, whichever it is.
THEOREM PartsTypes == PartsSpec => []PartsTypeOK
  <1>1. PartsInit =>
          \/ part = "driver"
          \/ part = "port"
          \/ part = "directory"
          \/ part = "sequences"
          \/ part = "web"
          \/ part = "wifi"
          \/ part = "boot"
          \/ part = "panel"
          \/ part = "tool"
          \/ part = "socket"
    BY PartStarts DEF Parts
  <1>2. PartsSpec /\ part = "driver" => []PartsTypeOK
    <2>1. part = "driver" /\ DriverTypeOK => PartsTypeOK
      BY DEF PartsTypeOK, Parts
    <2>2. part = "driver" /\ [PartsNext]_partsVars => (part = "driver")'
      BY PartStays
    <2> QED
      BY <2>1, <2>2, PartsAreTheirModules, DriverTypes, PTL DEF PartsSpec
  <1>3. PartsSpec /\ part = "port" => []PartsTypeOK
    <2>1. part = "port" /\ PortTypeOK => PartsTypeOK
      BY DEF PartsTypeOK, Parts
    <2>2. part = "port" /\ [PartsNext]_partsVars => (part = "port")'
      BY PartStays
    <2> QED
      BY <2>1, <2>2, PartsAreTheirModules, PortTypes, PTL DEF PartsSpec
  <1>4. PartsSpec /\ part = "directory" => []PartsTypeOK
    <2>1. part = "directory" /\ DirTypeOK => PartsTypeOK
      BY DEF PartsTypeOK, Parts
    <2>2. part = "directory" /\ [PartsNext]_partsVars => (part = "directory")'
      BY PartStays
    <2> QED
      BY <2>1, <2>2, PartsAreTheirModules, DirectoryTypes, PTL DEF PartsSpec
  <1>5. PartsSpec /\ part = "sequences" => []PartsTypeOK
    <2>1. part = "sequences" /\ SeqTypeOK => PartsTypeOK
      BY DEF PartsTypeOK, Parts
    <2>2. part = "sequences" /\ [PartsNext]_partsVars => (part = "sequences")'
      BY PartStays
    <2> QED
      BY <2>1, <2>2, PartsAreTheirModules, SequencesAreTyped, PTL DEF PartsSpec
  <1>6. PartsSpec /\ part = "web" => []PartsTypeOK
    <2>1. part = "web" /\ WebTypeOK => PartsTypeOK
      BY DEF PartsTypeOK, Parts
    <2>2. part = "web" /\ [PartsNext]_partsVars => (part = "web")'
      BY PartStays
    <2> QED
      BY <2>1, <2>2, PartsAreTheirModules, WebTypes, PTL DEF PartsSpec
  <1>7. PartsSpec /\ part = "wifi" => []PartsTypeOK
    <2>1. part = "wifi" /\ WifiTypeOK => PartsTypeOK
      BY DEF PartsTypeOK, Parts
    <2>2. part = "wifi" /\ [PartsNext]_partsVars => (part = "wifi")'
      BY PartStays
    <2> QED
      BY <2>1, <2>2, PartsAreTheirModules, WifiTypes, PTL DEF PartsSpec
  <1>8. PartsSpec /\ part = "boot" => []PartsTypeOK
    <2>1. part = "boot" /\ BootTypeOK => PartsTypeOK
      BY DEF PartsTypeOK, Parts
    <2>2. part = "boot" /\ [PartsNext]_partsVars => (part = "boot")'
      BY PartStays
    <2> QED
      BY <2>1, <2>2, PartsAreTheirModules, BootTypes, PTL DEF PartsSpec
  <1>9. PartsSpec /\ part = "panel" => []PartsTypeOK
    <2>1. part = "panel" /\ PanelTypeOK => PartsTypeOK
      BY DEF PartsTypeOK, Parts
    <2>2. part = "panel" /\ [PartsNext]_partsVars => (part = "panel")'
      BY PartStays
    <2> QED
      BY <2>1, <2>2, PartsAreTheirModules, PanelTypes, PTL DEF PartsSpec
  <1>10. PartsSpec /\ part = "tool" => []PartsTypeOK
    <2>1. part = "tool" /\ ToolTypeOK => PartsTypeOK
      BY DEF PartsTypeOK, Parts
    <2>2. part = "tool" /\ [PartsNext]_partsVars => (part = "tool")'
      BY PartStays
    <2> QED
      BY <2>1, <2>2, PartsAreTheirModules, ToolTypes, PTL DEF PartsSpec
  <1>11. PartsSpec /\ part = "socket" => []PartsTypeOK
    <2>1. part = "socket" /\ SocketTypeOK => PartsTypeOK
      BY DEF PartsTypeOK, Parts
    <2>2. part = "socket" /\ [PartsNext]_partsVars => (part = "socket")'
      BY PartStays
    <2> QED
      BY <2>1, <2>2, PartsAreTheirModules, SocketTypes, PTL DEF PartsSpec
  <1> QED
    BY <1>1, <1>2, <1>3, <1>4, <1>5, <1>6, <1>7, <1>8, <1>9, <1>10, <1>11, PTL DEF PartsSpec

===============================================================================
