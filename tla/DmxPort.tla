------------------------------- MODULE DmxPort -------------------------------
(***************************************************************************)
(* The shared DMX frame (dmx_frame.cpp) between its writers and the port   *)
(* (dmx.cpp): updateDMX() copies a changed frame to the UART in the output *)
(* direction, and takes received frames from it and sends them to the      *)
(* network in the input direction.  A local test may override the frame;   *)
(* the override ends by itself, and whichever reader comes first notices.  *)
(*                                                                         *)
(* updateDMX() is cut where it reads the clock, the frame or the interrupt *)
(* counter, because time passes and interrupts come in between.  The other *)
(* tasks of loop() run between two calls (portPc = "loop").  A frame is a  *)
(* value of Frames.  A version is only ever compared for equality with the *)
(* copy somebody took earlier, so the model keeps who holds an old copy.   *)
(* Times are ages; Never is the time stamp 0 that restartDMX() stores,     *)
(* whose age is that of the node.                                          *)
(***************************************************************************)
EXTENDS Naturals

CONSTANTS
    Frames,           \* contents of a frame
    OverrideTimeout,  \* DMX_TEST_OVERRIDE_TIMEOUT_MS
    KeepAlive,        \* 1000 ms between transmissions without a change
    Throttle,         \* 100 ms between transmissions for a new subscriber
    InputTimeout,     \* 2000 ms without a frame and the input is inactive
    MaxLag,           \* ticks that updateDMX() may be late or take
    Never             \* a time stamp of 0

ASSUME PortTimes ==
    /\ OverrideTimeout \in Nat \ {0} /\ KeepAlive \in Nat /\ InputTimeout \in Nat
    /\ Throttle \in Nat \ {0} /\ Throttle <= KeepAlive /\ KeepAlive < InputTimeout
    /\ MaxLag \in Nat
    /\ Never \notin Nat

VARIABLES
    portDirection,    \* config.direction: "output" or "input"
    liveProtocol,     \* config.liveProtocol
    portUart,         \* the direction initDMX() has started the UART in
    source,           \* sourceChannels
    test,             \* testChannels and testOverrideActive
    testAge,          \* time since the override was begun or extended
    testTimeout,      \* testOverrideTimeoutEnabled
    outdated,         \* who holds another version than frameVersion: the
                      \* driver (lastOutputVersion), the loop (its local)
    driverFrame,      \* the frame of the driver, which it sends or receives
    pending,          \* pendingInputFrames is not 0
    taken,            \* history: the frame that came last, to the node and to
                      \* the driver, is one that the node took from the line
    inputAge,         \* lastDmxFrameTime
    transmitAge,      \* lastArtNetTransmitMillis
    attemptAge,       \* lastArtNetTransmitAttemptMillis
    subs,             \* any subscriber; a version not yet served
    portPc,           \* where updateDMX() is
    local,            \* its overrideExpired, and the way back from transmitting
    portLag           \* ticks since updateDMX() ended

portConfig == <<portDirection, liveProtocol, portUart>>
frameVars == <<source, test, testAge, testTimeout, outdated>>
sendVars == <<transmitAge, attemptAge, subs>>
portVars == <<portConfig, frameVars, driverFrame, pending, taken,
              inputAge, sendVars, portPc, local, portLag>>

Everybody == {"driver", "loop"}
Idle == [expired |-> FALSE, back |-> "loop"]

PortInit ==
    /\ portDirection \in {"output", "input"}
    /\ liveProtocol \in {"artnet", "sacn"}
    /\ portUart = portDirection
    /\ source \in Frames
    /\ test = [frame |-> source, active |-> FALSE]
    /\ testAge = 0 /\ testTimeout = TRUE
    /\ outdated = Everybody
    /\ driverFrame = source
    /\ pending = FALSE /\ taken = FALSE
    /\ inputAge = Never /\ transmitAge = Never /\ attemptAge = Never
    /\ subs = [any |-> FALSE, unserved |-> FALSE]
    /\ portPc = "loop" /\ local = Idle /\ portLag = 0

-----------------------------------------------------------------------------
(* dmx_frame.cpp *)

\* Variant: the end is noticed only at its very moment.
OverdueJustNow == test.active /\ testTimeout /\ testAge = OverrideTimeout

\* updateDmxTestOverride(), which every reader calls first.
Overdue == test.active /\ testTimeout /\ testAge >= OverrideTimeout

ActiveNow == test.active /\ ~Overdue
EffectiveNow == IF ActiveNow THEN test.frame ELSE source

\* markChanged()
Outdate(changed, holders) == IF changed THEN Everybody ELSE holders

\* What a reader leaves behind.
OutdatedNow == Outdate(Overdue, outdated)

Expire ==
    /\ test' = [test EXCEPT !.active = ActiveNow]
    /\ testAge' = IF Overdue THEN 0 ELSE testAge
    /\ UNCHANGED <<source, testTimeout>>

Read == Expire /\ outdated' = OutdatedNow

\* setDmxFrame()
SetFrame(f) ==
    /\ source' = f
    /\ outdated' = Outdate(f # source, outdated)
    /\ UNCHANGED <<test, testAge, testTimeout>>

\* setDmxTestChannel(): the override begins as a copy of the source, f is what
\* one changed channel makes of it.
SetTest(f) ==
    /\ test' = [frame |-> f, active |-> TRUE]
    /\ testAge' = 0
    /\ outdated' = Outdate(Overdue \/ f # EffectiveNow, outdated)
    /\ UNCHANGED <<source, testTimeout>>

-----------------------------------------------------------------------------
(* The other tasks of loop(). *)

AtLoop == portPc = "loop" /\ UNCHANGED <<portPc, local, portLag>>

OnlyFrame == UNCHANGED <<portConfig, driverFrame, pending, taken, inputAge, sendVars>>

\* A receiver, or a failsafe, writes the frame.  In the input direction too: a
\* sACN source that ArtAddress left behind fails over to another one, a merge
\* mode is changed.
NetworkFrame(f) ==
    /\ AtLoop
    /\ SetFrame(f)
    /\ taken' = FALSE
    /\ UNCHANGED <<portConfig, driverFrame, pending, inputAge, sendVars>>

\* The test page moves a fader.  In the input direction the handler also sends
\* one ArtDmx at once, which leaves the times of updateDMX() alone.
TestChannel(f) == AtLoop /\ SetTest(f) /\ OnlyFrame

\* releaseDmxTestOverride()
ReleaseTest ==
    /\ AtLoop
    /\ test.active
    /\ test' = [test EXCEPT !.active = FALSE]
    /\ testAge' = 0
    /\ outdated' = Everybody
    /\ UNCHANGED <<source, testTimeout>>
    /\ OnlyFrame

\* setDmxTestOverrideTimeoutEnabled() starts the time again.
SetTestTimeout(enabled) ==
    /\ AtLoop
    /\ testTimeout' = enabled
    /\ testAge' = 0
    /\ UNCHANGED <<source, test, outdated>>
    /\ OnlyFrame

\* A status page, the WebSocket or a scene recording reads the frame.
ReadFrame == AtLoop /\ Read /\ OnlyFrame

\* The subscriber table changes (artnet.cpp): a new version.
SubscribersChange(any) ==
    /\ AtLoop
    /\ subs' = [any |-> any, unserved |-> TRUE]
    /\ UNCHANGED <<portConfig, frameVars, driverFrame, pending, taken,
                   inputAge, transmitAge, attemptAge>>

\* restartDMX(), with the subscribers cleared before it.
RestartPort ==
    /\ portUart' = portDirection'
    /\ pending' = FALSE /\ taken' = FALSE
    /\ inputAge' = Never /\ transmitAge' = Never /\ attemptAge' = Never
    /\ outdated' = outdated \cup {"driver"}
    /\ subs' = [any |-> FALSE, unserved |-> FALSE]

\* A new direction or protocol by web page that is applied: the subscribers
\* are cleared, the port is restarted for a new direction only.
Reconfigure(d, p) ==
    /\ AtLoop
    /\ d # portDirection \/ p # liveProtocol
    /\ portDirection' = d /\ liveProtocol' = p
    /\ IF d # portDirection
       THEN RestartPort
       ELSE /\ subs' = [any |-> FALSE, unserved |-> subs.any \/ subs.unserved]
            /\ UNCHANGED <<portUart, pending, taken, inputAge, transmitAge, attemptAge,
                           outdated>>
    /\ UNCHANGED <<source, test, testAge, testTimeout, driverFrame>>

\* setDirectionFromArtAddress() restarts the port for any direction.
AddressDirection(d) ==
    /\ AtLoop
    /\ portDirection' = d
    /\ RestartPort
    /\ UNCHANGED <<liveProtocol, source, test, testAge, testTimeout, driverFrame>>

\* A save that waits for a restart and an uploaded configuration change the
\* configuration in RAM and nothing else (web.cpp).
StoreWithoutRestart(d, p) ==
    /\ AtLoop
    /\ d # portDirection \/ p # liveProtocol
    /\ portDirection' = d /\ liveProtocol' = p
    /\ UNCHANGED <<portUart, frameVars, driverFrame, pending, taken, inputAge, sendVars>>

-----------------------------------------------------------------------------
(* The interrupt and the clock come at any point. *)

\* onDMXFrame(): the driver has a new frame.
FrameReceived(f) ==
    /\ portUart = "input"
    /\ pending' = TRUE
    /\ driverFrame' = f
    /\ UNCHANGED <<portConfig, frameVars, taken, inputAge, sendVars,
                   portPc, local, portLag>>

\* An age is kept as far as something tells it apart.
Older(age, limit) == IF age = Never \/ age = limit THEN age ELSE age + 1

PortTick ==
    /\ portLag < MaxLag
    /\ portLag' = portLag + 1
    /\ testAge' = IF test.active /\ testTimeout THEN Older(testAge, OverrideTimeout + MaxLag + 1)
                  ELSE testAge
    /\ inputAge' = Older(inputAge, InputTimeout)
    /\ transmitAge' = Older(transmitAge, KeepAlive)
    /\ attemptAge' = Older(attemptAge, KeepAlive + MaxLag + 1)
    /\ UNCHANGED <<portConfig, source, test, testTimeout, outdated,
                   driverFrame, pending, taken, subs, portPc, local>>

-----------------------------------------------------------------------------
(* updateDMX() *)

Reached(age, limit) == age = Never \/ age >= limit

\* It first looks for an override that ended, then at its direction.
UpdateBegin ==
    /\ portPc = "loop"
    /\ Read
    /\ local' = [Idle EXCEPT !.expired = Overdue]
    /\ portPc' = portDirection
    /\ UNCHANGED <<portConfig, driverFrame, pending, taken, inputAge, sendVars, portLag>>

\* updateDMXOutput(): the version is read before the frame is copied, so that
\* a change in between is copied again in the next pass.
ReadVersion ==
    /\ portPc = "output"
    /\ Expire
    /\ outdated' = OutdatedNow \ {"loop"}
    /\ portPc' = IF "driver" \in outdated' THEN "copy" ELSE "keepAlive"
    /\ UNCHANGED <<portConfig, driverFrame, pending, taken, inputAge, sendVars,
                   local, portLag>>

\* Variant: the frame is copied, and then the version is read.
CopyThenVersion ==
    /\ portPc = "copy"
    /\ Expire
    /\ outdated' = {}
    /\ driverFrame' = IF test.active THEN test.frame ELSE source
    /\ taken' = FALSE
    /\ portPc' = "keepAlive"
    /\ UNCHANGED <<portConfig, pending, inputAge, sendVars, local, portLag>>

CopyToDriver ==
    /\ portPc = "copy"
    /\ Expire
    /\ outdated' = IF "loop" \in OutdatedNow THEN OutdatedNow ELSE {}
    /\ driverFrame' = EffectiveNow
    /\ taken' = FALSE
    /\ portPc' = "keepAlive"
    /\ UNCHANGED <<portConfig, pending, inputAge, sendVars, local, portLag>>

\* processDMXInput(): the counter is cleared before the frame is copied.
TakePending ==
    /\ portPc = "input"
    /\ pending' = FALSE
    /\ portPc' = IF pending THEN "take" ELSE "keepAlive"
    /\ UNCHANGED <<portConfig, frameVars, driverFrame, taken, inputAge,
                   sendVars, local, portLag>>

\* transmitNetworkFrame() begins: the attempt is noted, then the frame is read.
BeginTransmit(back) ==
    /\ attemptAge' = 0
    /\ portPc' = "read"
    /\ local' = [local EXCEPT !.back = back]

TakeFrame ==
    /\ portPc = "take"
    /\ SetFrame(driverFrame)
    /\ taken' = TRUE
    /\ inputAge' = 0
    /\ IF \/ driverFrame # source
          \/ attemptAge = Never
          \/ transmitAge = Never /\ attemptAge >= KeepAlive
       THEN BeginTransmit("keepAlive")
       ELSE portPc' = "keepAlive" /\ UNCHANGED <<attemptAge, local>>
    /\ UNCHANGED <<portConfig, driverFrame, pending, transmitAge, subs,
                   portLag>>

\* sendArtNetFrame() asks for the length, then for channel after channel, and
\* each time the override may end.
ReadChannel ==
    /\ portPc = "read" /\ liveProtocol = "artnet"
    /\ Read
    /\ portPc' \in {"read", "write"}
    /\ UNCHANGED <<portConfig, driverFrame, pending, taken, inputAge, sendVars,
                   local, portLag>>

\* buildSacnDataPacket() copies the frame at once.
CopyFrame ==
    /\ portPc = "read" /\ liveProtocol = "sacn"
    /\ Read
    /\ portPc' = "write"
    /\ UNCHANGED <<portConfig, driverFrame, pending, taken, inputAge, sendVars,
                   local, portLag>>

\* The end of transmitNetworkFrame().
Transmitted(sent) ==
    /\ transmitAge' = IF ~sent THEN transmitAge
                      ELSE IF attemptAge > KeepAlive THEN KeepAlive ELSE attemptAge
    /\ subs' = [subs EXCEPT !.unserved = @ /\ ~sent]
    /\ portPc' = local.back
    /\ UNCHANGED <<portConfig, frameVars, driverFrame, pending, taken, inputAge,
                   attemptAge, local, portLag>>

\* The packet goes to every subscriber there is; it counts when one got it.
WriteArtNet ==
    /\ portPc = "write" /\ liveProtocol = "artnet"
    /\ \E sent \in BOOLEAN : (sent => subs.any) /\ Transmitted(sent)

WriteSacn ==
    /\ portPc = "write" /\ liveProtocol = "sacn"
    /\ \E sent \in BOOLEAN : Transmitted(sent)

\* Without a socket nothing is read.
NoSocket == portPc = "read" /\ Transmitted(FALSE)

InputActive == inputAge # Never /\ inputAge < InputTimeout

SubscriberDue ==
    /\ liveProtocol = "artnet"
    /\ subs.any /\ subs.unserved
    /\ Reached(attemptAge, Throttle)

\* Variant: only a live input is worth sending.
TransmitInputDue ==
    /\ portDirection = "input" /\ InputActive
    /\ SubscriberDue \/ (Reached(transmitAge, KeepAlive) /\ Reached(attemptAge, KeepAlive))

TransmitDue ==
    /\ portDirection = "input"
    /\ ActiveNow \/ local.expired \/ InputActive
    /\ \/ SubscriberDue
       \/ local.expired
       \/ Reached(transmitAge, KeepAlive) /\ Reached(attemptAge, KeepAlive)

\* Variant: the counter of received frames is cleared when all is done.
ClearPendingLast ==
    /\ portPc = "keepAlive"
    /\ Read
    /\ subs' = [subs EXCEPT !.unserved = @ /\ subs.any]
    /\ IF TransmitDue
       THEN BeginTransmit("end")
       ELSE portPc' = "end" /\ UNCHANGED <<attemptAge, local>>
    /\ pending' = FALSE
    /\ UNCHANGED <<portConfig, driverFrame, taken, inputAge, transmitAge,
                   portLag>>

\* Without subscribers there is no version to catch up with.
KeepAliveCheck ==
    /\ portPc = "keepAlive"
    /\ Read
    /\ subs' = [subs EXCEPT !.unserved = @ /\ subs.any]
    /\ IF TransmitDue
       THEN BeginTransmit("end")
       ELSE portPc' = "end" /\ UNCHANGED <<attemptAge, local>>
    /\ UNCHANGED <<portConfig, driverFrame, pending, taken, inputAge, transmitAge, portLag>>

UpdateEnd ==
    /\ portPc = "end"
    /\ portPc' = "loop"
    /\ local' = Idle
    /\ portLag' = 0
    /\ UNCHANGED <<portConfig, frameVars, driverFrame, pending, taken, inputAge, sendVars>>

-----------------------------------------------------------------------------

PortOthers ==
    \/ \E f \in Frames : NetworkFrame(f)
    \/ \E f \in Frames : TestChannel(f)
    \/ ReleaseTest
    \/ \E b \in BOOLEAN : SetTestTimeout(b)
    \/ ReadFrame
    \/ \E b \in BOOLEAN : SubscribersChange(b)
    \/ \E d \in {"output", "input"}, p \in {"artnet", "sacn"} :
          Reconfigure(d, p) \/ StoreWithoutRestart(d, p)
    \/ \E d \in {"output", "input"} : AddressDirection(d)

PortUpdate ==
    \/ UpdateBegin \/ ReadVersion \/ CopyToDriver \/ TakePending \/ TakeFrame
    \/ ReadChannel \/ CopyFrame \/ WriteArtNet \/ WriteSacn \/ NoSocket
    \/ KeepAliveCheck \/ UpdateEnd

PortNext ==
    \/ PortOthers
    \/ PortUpdate
    \/ \E f \in Frames : FrameReceived(f)
    \/ PortTick

PortSpec == PortInit /\ [][PortNext]_portVars

-----------------------------------------------------------------------------
(* Properties. *)

\* Types.
PortTypeOK ==
    /\ portDirection \in {"output", "input"} /\ liveProtocol \in {"artnet", "sacn"}
    /\ portUart \in {"output", "input"}
    /\ source \in Frames
    /\ test \in [frame : Frames, active : BOOLEAN]
    /\ testAge \in 0 .. OverrideTimeout + MaxLag + 1 /\ testTimeout \in BOOLEAN
    /\ outdated \subseteq Everybody
    /\ driverFrame \in Frames
    /\ pending \in BOOLEAN /\ taken \in BOOLEAN
    /\ inputAge \in 0 .. InputTimeout \cup {Never}
    /\ transmitAge \in 0 .. KeepAlive \cup {Never}
    /\ attemptAge \in 0 .. KeepAlive + MaxLag + 1 \cup {Never}
    /\ subs \in [any : BOOLEAN, unserved : BOOLEAN]
    /\ portPc \in {"loop", "output", "copy", "input", "take", "read", "write",
                   "keepAlive", "end"}
    /\ local \in [expired : BOOLEAN, back : {"loop", "keepAlive", "end"}]
    /\ portLag \in 0 .. MaxLag

\* A driver that sends and is thought up to date sends the frame as it is now,
\* override or source, whatever direction is configured meanwhile, although
\* both may change, and the override may end, between the two reads of
\* updateDMXOutput().
OutputShowsFrame ==
    (portUart = "output" /\ "driver" \notin outdated)
        => driverFrame = IF test.active THEN test.frame ELSE source

\* A frame received while the loop takes another one is not lost: between two
\* calls of updateDMX() the shared frame is the last one received, unless the
\* interrupt has announced a newer one or the frame of the node or of the
\* driver has been written from the network side since.
LastInputIsKept ==
    (portDirection = "input" /\ portPc = "loop" /\ taken /\ ~pending) => source = driverFrame

\* With a live input or a test, the node has tried within the keep-alive time
\* (within the throttle when a subscriber waits for its first frame) to send.
NetworkIsKeptAlive ==
    (portDirection = "input" /\ portPc = "end" /\ (test.active \/ InputActive))
        => /\ attemptAge # Never
           /\ attemptAge <= KeepAlive + MaxLag
           /\ (liveProtocol = "artnet" /\ subs.any /\ subs.unserved) => attemptAge <= Throttle + MaxLag

\* However many readers come first, no override outlives its time.
OverrideEnds ==
    (portPc = "end" /\ test.active /\ testTimeout) => testAge <= OverrideTimeout + MaxLag

=============================================================================
