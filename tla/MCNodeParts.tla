----------------------------- MODULE MCNodeParts -----------------------------
(* The view of the run over the components of the node.                    *)
EXTENDS NodeParts

\* Frames are only compared.  An override that is not active has no frame, and
\* the version that the loop read is asked for at the copy only.
PortInView ==
  <<portConfig, source = driverFrame,
    IF test.active THEN <<test.frame = source, test.frame = driverFrame>> ELSE <<>>,
    testAge, testTimeout, IF portPc = "copy" THEN outdated ELSE outdated \ {"loop"},
    pending, taken, inputAge, sendVars, portPc, local, portLag>>

\* A pass takes its time anew, and a changed table is served as it then is.
DirectoryInView ==
  <<dirInput, dirSocket, bindWait, dirTable, pollAge, discovery, dirReplies, dirPc, dirLag,
    IF dirPc = "loop" THEN 0 ELSE passLag, IF subsChanged THEN {} ELSE lastServed>>

\* All that a state is told apart by: the state of the part that runs, for the
\* others never change.
PartInView ==
  <<part,
    CASE part = "driver"    -> drvVars
      [] part = "port"      -> PortInView
      [] part = "directory" -> DirectoryInView
      [] part = "sequences" -> seqVars
      [] part = "web"       -> webVars
      [] part = "wifi"      -> wifiVars
      [] part = "boot"      -> bootVars
      [] part = "panel"     -> panelVars
      [] part = "tool"      -> toolVars
      [] part = "socket"    -> socketVars>>

=============================================================================
