--------------------------- MODULE DmxLine_proofs ----------------------------
(***************************************************************************)
(* TLAPS proofs about the DMX line of the node and its two ends: the port  *)
(* between the network and the line (DmxPort), the driver whose interrupts *)
(* send and receive packets (DmxDriver), and the test tool of the fixture  *)
(* (DmxTool).  For frames, packets, buffers and times of any size.         *)
(***************************************************************************)
EXTENDS DmxDriver, DmxPort, DmxTool, SequenceTheorems, TLAPS

-----------------------------------------------------------------------------
(* The port: the shared frame, its copies and the times between them *)

Ages(limit) == 0 .. limit \cup {Never}

\* Between "take" and the end of the copy the frame taken is on its way.
InputIsTaken == (portPc # "take" /\ taken /\ ~pending) => source = driverFrame

\* updateDMX() ends an override that is overdue before anything else.
OverrideIsRead ==
  (portPc # "loop" /\ test.active /\ testTimeout) => testAge <= OverrideTimeout + portLag

\* What was sent was tried, and no later.
SentWasTried ==
  transmitAge # Never =>
    /\ attemptAge # Never
    /\ attemptAge <= transmitAge \/ transmitAge = KeepAlive

\* A transmission under way began in this call.
TransmitIsFresh ==
  portPc \in {"read", "write"} => attemptAge # Never /\ attemptAge <= portLag

\* NetworkIsKeptAlive with the time updateDMX() has taken so far.
TriedInTime ==
  (portDirection = "input" /\ portPc = "end" /\ (test.active \/ InputActive)) =>
    /\ attemptAge # Never
    /\ attemptAge <= KeepAlive + portLag
    /\ (liveProtocol = "artnet" /\ subs.any /\ subs.unserved)
          => attemptAge <= Throttle + portLag

TimeInv == InputIsTaken /\ OverrideIsRead /\ SentWasTried /\ TransmitIsFresh /\ TriedInTime

\* PortTypeOK, the frame and the rest.
FrameTypes == /\ source \in Frames
              /\ test \in [frame : Frames, active : BOOLEAN]
              /\ testAge \in 0 .. OverrideTimeout + MaxLag + 1
              /\ testTimeout \in BOOLEAN
              /\ outdated \subseteq Everybody
              /\ driverFrame \in Frames

RestTypes == /\ portDirection \in {"output", "input"} /\ liveProtocol \in {"artnet", "sacn"}
             /\ portUart \in {"output", "input"}
             /\ pending \in BOOLEAN /\ taken \in BOOLEAN
             /\ inputAge \in Ages(InputTimeout) /\ transmitAge \in Ages(KeepAlive)
             /\ attemptAge \in Ages(KeepAlive + MaxLag + 1)
             /\ subs \in [any : BOOLEAN, unserved : BOOLEAN]
             /\ portPc \in {"loop", "output", "copy", "input", "take", "read", "write",
                            "keepAlive", "end"}
             /\ local \in [expired : BOOLEAN, back : {"loop", "keepAlive", "end"}]
             /\ portLag \in 0 .. MaxLag

PortInv == FrameTypes /\ RestTypes /\ OutputShowsFrame /\ TimeInv

LEMMA TypesSplit == PortTypeOK <=> FrameTypes /\ RestTypes
  BY Zenon DEF PortTypeOK, FrameTypes, RestTypes, Ages

-----------------------------------------------------------------------------
(* Constants and clocks *)

LEMMA Constants ==
  /\ OverrideTimeout \in Nat /\ OverrideTimeout > 0
  /\ KeepAlive \in Nat /\ InputTimeout \in Nat
  /\ Throttle \in Nat /\ Throttle > 0 /\ Throttle <= KeepAlive
  /\ MaxLag \in Nat /\ Never \notin Nat
  BY PortTimes

LEMMA OlderType ==
  ASSUME NEW limit \in Nat, NEW age \in Ages(limit)
  PROVE  /\ Older(age, limit) \in Ages(limit)
         /\ Older(age, limit) = Never <=> age = Never
         /\ age # Never => /\ age \in Nat /\ Older(age, limit) \in Nat
                           /\ age <= Older(age, limit)
                           /\ Older(age, limit) <= age + 1
                           /\ age < limit => Older(age, limit) = age + 1
                           /\ age = limit => Older(age, limit) = limit
  BY Constants DEF Older, Ages

LEMMA Numbers ==
  ASSUME FrameTypes, RestTypes
  PROVE  /\ testAge \in Nat /\ portLag \in Nat /\ portLag <= MaxLag
         /\ attemptAge # Never => attemptAge \in Nat /\ attemptAge <= KeepAlive + MaxLag + 1
         /\ transmitAge # Never => transmitAge \in Nat /\ transmitAge <= KeepAlive
         /\ inputAge # Never => inputAge \in Nat
  BY Constants DEF FrameTypes, RestTypes, Ages

-----------------------------------------------------------------------------
(* The frame *)

LEMMA OutdateType ==
  ASSUME NEW changed \in BOOLEAN, NEW holders \in SUBSET Everybody
  PROVE  /\ Outdate(changed, holders) \subseteq Everybody
         /\ holders \subseteq Outdate(changed, holders)
         /\ changed => Outdate(changed, holders) = Everybody
         /\ ~changed => Outdate(changed, holders) = holders
  BY DEF Outdate

\* Any reader: an override that ends is announced to every holder of a copy.
LEMMA ExpireEffect ==
  ASSUME FrameTypes, Expire
  PROVE  /\ source' = source /\ testTimeout' = testTimeout
         /\ test' \in [frame : Frames, active : BOOLEAN]
         /\ test'.frame = test.frame
         /\ test'.active => test.active
         /\ test'.active <=> ActiveNow
         /\ testAge' \in 0 .. OverrideTimeout + MaxLag + 1
         /\ (test'.active /\ testTimeout) => testAge' = testAge /\ testAge < OverrideTimeout
         /\ (test'.active /\ testTimeout') => testAge' < OverrideTimeout
         /\ ~Overdue => test'.active = test.active
         /\ ActiveNow <=> test.active /\ ~Overdue
  <1>1. ActiveNow \in BOOLEAN /\ Overdue \in BOOLEAN
    BY DEF ActiveNow, Overdue
  <1>2. source' = source /\ testTimeout' = testTimeout
    BY DEF Expire
  <1>3. test' = [test EXCEPT !.active = ActiveNow]
    BY DEF Expire
  <1>4. /\ test' \in [frame : Frames, active : BOOLEAN] /\ test'.frame = test.frame
        /\ test'.active <=> ActiveNow
    BY <1>1, <1>3 DEF FrameTypes
  <1>5. testAge' \in 0 .. OverrideTimeout + MaxLag + 1
    BY Constants DEF Expire, FrameTypes
  <1>6. ActiveNow <=> test.active /\ ~Overdue
    BY DEF ActiveNow
  <1>7. (test'.active /\ testTimeout) => testAge' = testAge /\ testAge < OverrideTimeout
    BY <1>4, <1>6, Constants DEF Expire, Overdue, FrameTypes
  <1>8. ~Overdue => test'.active = test.active
    BY <1>4, <1>6 DEF FrameTypes
  <1>9. (test'.active /\ testTimeout') => testAge' < OverrideTimeout
    <2>1. testTimeout' => testTimeout
      BY <1>2, Zenon
    <2> QED
      BY <1>7, <2>1, Constants DEF FrameTypes
  <1> QED
    BY <1>2, <1>4, <1>5, <1>6, <1>7, <1>8, <1>9

LEMMA ReadEffect ==
  ASSUME FrameTypes, OutputShowsFrame, Expire,
         outdated' \subseteq Everybody,
         "driver" \in OutdatedNow => "driver" \in outdated',
         driverFrame' = driverFrame, portUart' = portUart
  PROVE  FrameTypes' /\ OutputShowsFrame'
  <1>1. Overdue \in BOOLEAN
    BY DEF Overdue
  <1>2. "driver" \notin outdated' => ~Overdue /\ "driver" \notin outdated
    BY <1>1, OutdateType DEF OutdatedNow, FrameTypes, Everybody
  <1>3. FrameTypes'
    BY ExpireEffect DEF FrameTypes
  <1>4. OutputShowsFrame'
    BY <1>2, ExpireEffect DEF OutputShowsFrame
  <1> QED
    BY <1>3, <1>4

LEMMA SetFrameEffect ==
  ASSUME FrameTypes, OutputShowsFrame, NEW f \in Frames, SetFrame(f),
         driverFrame' = driverFrame, portUart' = portUart
  PROVE  FrameTypes' /\ OutputShowsFrame'
  <1>1. FrameTypes'
    BY DEF SetFrame, FrameTypes, Outdate
  <1>2. "driver" \notin outdated' => source' = source /\ "driver" \notin outdated
    BY DEF SetFrame, Outdate, Everybody
  <1>3. OutputShowsFrame'
    BY <1>2 DEF SetFrame, OutputShowsFrame
  <1> QED
    BY <1>1, <1>3

LEMMA SetTestEffect ==
  ASSUME FrameTypes, OutputShowsFrame, NEW f \in Frames, SetTest(f),
         driverFrame' = driverFrame, portUart' = portUart
  PROVE  FrameTypes' /\ OutputShowsFrame'
  <1>1. test' = [frame |-> f, active |-> TRUE]
    BY DEF SetTest
  <1>2. FrameTypes'
    BY <1>1, Constants DEF SetTest, FrameTypes, Outdate
  <1>3. "driver" \notin outdated' => ~Overdue /\ f = EffectiveNow /\ "driver" \notin outdated
    BY DEF SetTest, Outdate, Everybody
  <1>4. ~Overdue => EffectiveNow = IF test.active THEN test.frame ELSE source
    BY DEF EffectiveNow, ActiveNow
  <1>5. OutputShowsFrame'
    BY <1>1, <1>3, <1>4 DEF OutputShowsFrame
  <1> QED
    BY <1>2, <1>5

-----------------------------------------------------------------------------
(* The other tasks of the loop *)

\* The loop outside updateDMX() does not touch its times.
LEMMA LoopKeepsTimes ==
  ASSUME PortInv, AtLoop, UNCHANGED <<pending, transmitAge, attemptAge>>,
         driverFrame' = driverFrame,
         ~taken' \/ UNCHANGED <<taken, source>>
  PROVE  TimeInv'
  <1>1. TimeInv
    BY DEF PortInv
  <1>2. portPc' = "loop" /\ portPc = "loop"
    BY DEF AtLoop
  <1>3. InputIsTaken'
    BY <1>1, <1>2 DEF TimeInv, InputIsTaken
  <1>4. SentWasTried'
    BY <1>1 DEF TimeInv, SentWasTried
  <1> QED
    BY <1>2, <1>3, <1>4
    DEF TimeInv, OverrideIsRead, TransmitIsFresh, TriedInTime

\* A restart of the port, in whatever direction, begins with nothing.
LEMMA RestartKeepsInv ==
  ASSUME PortInv, AtLoop, RestartPort,
         portDirection' \in {"output", "input"}, liveProtocol' \in {"artnet", "sacn"},
         UNCHANGED <<source, test, testAge, testTimeout, driverFrame>>
  PROVE  PortInv'
  <1>t. FrameTypes /\ RestTypes
    BY DEF PortInv
  <1>1. /\ portPc' = "loop" /\ portPc = "loop" /\ local' = local /\ portLag' = portLag
    BY DEF AtLoop
  <1>2. /\ portUart' = portDirection'
        /\ pending' = FALSE /\ taken' = FALSE /\ inputAge' = Never /\ transmitAge' = Never
        /\ attemptAge' = Never /\ outdated' = outdated \cup {"driver"}
        /\ subs' = [any |-> FALSE, unserved |-> FALSE]
    BY DEF RestartPort
  <1>3. FrameTypes' /\ OutputShowsFrame'
    BY <1>t, <1>2 DEF FrameTypes, OutputShowsFrame, Everybody
  <1>4. RestTypes'
    BY <1>t, <1>1, <1>2 DEF RestTypes, Ages
  <1>5. TimeInv'
    BY <1>1, <1>2
    DEF TimeInv, InputIsTaken, OverrideIsRead, SentWasTried, TransmitIsFresh, TriedInTime
  <1> QED
    BY <1>3, <1>4, <1>5 DEF PortInv

LEMMA OthersKeepInv ==
  ASSUME PortInv, PortOthers
  PROVE  PortInv'
  <1>t. FrameTypes /\ RestTypes /\ OutputShowsFrame /\ TimeInv
    BY DEF PortInv
  <1>1. ASSUME NEW f \in Frames, NetworkFrame(f)
        PROVE  PortInv'
    <2>1. FrameTypes' /\ OutputShowsFrame'
      BY <1>1, <1>t, SetFrameEffect DEF NetworkFrame, portConfig
    <2>2. RestTypes'
      BY <1>1, <1>t DEF NetworkFrame, AtLoop, RestTypes, portConfig, sendVars
    <2>3. TimeInv'
      BY <1>1, LoopKeepsTimes DEF NetworkFrame, portConfig, sendVars
    <2> QED
      BY <2>1, <2>2, <2>3 DEF PortInv
  <1>2. ASSUME NEW f \in Frames, TestChannel(f)
        PROVE  PortInv'
    <2>1. FrameTypes' /\ OutputShowsFrame'
      BY <1>2, <1>t, SetTestEffect DEF TestChannel, OnlyFrame, portConfig
    <2>2. RestTypes'
      BY <1>2, <1>t DEF TestChannel, OnlyFrame, AtLoop, RestTypes, portConfig, sendVars
    <2>3. TimeInv'
      BY <1>2, LoopKeepsTimes DEF TestChannel, SetTest, OnlyFrame, portConfig, sendVars
    <2> QED
      BY <2>1, <2>2, <2>3 DEF PortInv
  <1>3. CASE ReleaseTest
    <2>1. FrameTypes'
      <3>1. test' \in [frame : Frames, active : BOOLEAN]
        BY <1>3, <1>t DEF ReleaseTest, FrameTypes
      <3>2. /\ testAge' \in 0 .. OverrideTimeout + MaxLag + 1
            /\ outdated' \subseteq Everybody
        BY <1>3, Constants DEF ReleaseTest
      <3>3. UNCHANGED <<source, testTimeout, driverFrame>>
        BY <1>3 DEF ReleaseTest, OnlyFrame, portConfig
      <3> QED
        BY <1>t, <3>1, <3>2, <3>3 DEF FrameTypes
    <2>2. OutputShowsFrame'
      BY <1>3 DEF ReleaseTest, OutputShowsFrame, Everybody
    <2>3. RestTypes'
      BY <1>3, <1>t DEF ReleaseTest, OnlyFrame, AtLoop, RestTypes, portConfig, sendVars
    <2>4. TimeInv'
      BY <1>3, LoopKeepsTimes DEF ReleaseTest, OnlyFrame, portConfig, sendVars
    <2> QED
      BY <2>1, <2>2, <2>3, <2>4 DEF PortInv
  <1>4. ASSUME NEW b \in BOOLEAN, SetTestTimeout(b)
        PROVE  PortInv'
    <2>0. testTimeout' \in BOOLEAN /\ testAge' \in 0 .. OverrideTimeout + MaxLag + 1
      BY <1>4, Constants DEF SetTestTimeout
    <2>1. FrameTypes'
      <3>1. UNCHANGED <<source, test, outdated, driverFrame>>
        BY <1>4 DEF SetTestTimeout, OnlyFrame, portConfig
      <3> QED
        BY <1>t, <2>0, <3>1 DEF FrameTypes
    <2>2. OutputShowsFrame'
      BY <1>4, <1>t DEF SetTestTimeout, OnlyFrame, portConfig, OutputShowsFrame
    <2>3. RestTypes'
      BY <1>4, <1>t DEF SetTestTimeout, OnlyFrame, AtLoop, RestTypes, portConfig, sendVars
    <2>4. TimeInv'
      BY <1>4, LoopKeepsTimes DEF SetTestTimeout, OnlyFrame, portConfig, sendVars
    <2> QED
      BY <2>1, <2>2, <2>3, <2>4 DEF PortInv
  <1>5. CASE ReadFrame
    <2>0. outdated' \subseteq Everybody
      BY <1>5, <1>t, OutdateType DEF ReadFrame, Read, OutdatedNow, Overdue, FrameTypes
    <2>1. FrameTypes' /\ OutputShowsFrame'
      BY <1>5, <1>t, <2>0, ReadEffect DEF ReadFrame, Read, OnlyFrame, portConfig
    <2>2. RestTypes'
      BY <1>5, <1>t DEF ReadFrame, OnlyFrame, AtLoop, RestTypes, portConfig, sendVars
    <2>3. TimeInv'
      BY <1>5, LoopKeepsTimes DEF ReadFrame, Read, Expire, OnlyFrame, portConfig, sendVars
    <2> QED
      BY <2>1, <2>2, <2>3 DEF PortInv
  <1>6. ASSUME NEW b \in BOOLEAN, SubscribersChange(b)
        PROVE  PortInv'
    <2>1. FrameTypes' /\ OutputShowsFrame'
      BY <1>6, <1>t DEF SubscribersChange, portConfig, frameVars, FrameTypes, OutputShowsFrame
    <2>2. RestTypes'
      BY <1>6, <1>t DEF SubscribersChange, portConfig, AtLoop, RestTypes
    <2>3. TimeInv'
      BY <1>6, LoopKeepsTimes DEF SubscribersChange, portConfig, frameVars
    <2> QED
      BY <2>1, <2>2, <2>3 DEF PortInv
  <1>7. ASSUME NEW d \in {"output", "input"}, NEW p \in {"artnet", "sacn"}, Reconfigure(d, p)
        PROVE  PortInv'
    <2>1. /\ portPc' = "loop" /\ portPc = "loop" /\ local' = local /\ portLag' = portLag
          /\ portDirection' = d /\ liveProtocol' = p /\ driverFrame' = driverFrame
          /\ source' = source /\ test' = test /\ testAge' = testAge
          /\ testTimeout' = testTimeout
      BY <1>7 DEF Reconfigure, AtLoop
    <2>2. CASE d # portDirection
      BY <1>7, <2>1, <2>2, RestartKeepsInv DEF Reconfigure, AtLoop
    <2>3. CASE d = portDirection
      <3>1. /\ UNCHANGED <<portUart, pending, taken, inputAge, transmitAge, attemptAge,
                           outdated>>
            /\ subs' = [any |-> FALSE, unserved |-> subs.any \/ subs.unserved]
        BY <1>7, <2>3 DEF Reconfigure
      <3>2. FrameTypes' /\ OutputShowsFrame'
        BY <1>t, <2>1, <2>3, <3>1 DEF FrameTypes, OutputShowsFrame
      <3>3. (subs.any \/ subs.unserved) \in BOOLEAN
        BY <1>t DEF RestTypes
      <3>4. subs' \in [any : BOOLEAN, unserved : BOOLEAN]
        BY <3>1, <3>3
      <3>5. RestTypes'
        BY <1>t, <2>1, <3>1, <3>4 DEF RestTypes
      <3>6. TimeInv'
        BY <1>t, <2>1, <2>3, <3>1
        DEF TimeInv, InputIsTaken, OverrideIsRead, SentWasTried, TransmitIsFresh, TriedInTime
      <3> QED
        BY <3>2, <3>5, <3>6 DEF PortInv
    <2> QED
      BY <2>2, <2>3
  <1>8. ASSUME NEW d \in {"output", "input"}, AddressDirection(d)
        PROVE  PortInv'
    BY <1>8, <1>t, RestartKeepsInv DEF AddressDirection, RestTypes
  <1>9. ASSUME NEW d \in {"output", "input"}, NEW p \in {"artnet", "sacn"},
               StoreWithoutRestart(d, p)
        PROVE  PortInv'
    <2>1. /\ portPc' = "loop" /\ portPc = "loop" /\ portDirection' = d /\ liveProtocol' = p
          /\ UNCHANGED <<portUart, source, test, testAge, testTimeout, outdated, driverFrame,
                         pending, taken, inputAge, transmitAge, attemptAge, subs, local,
                         portLag>>
      BY <1>9 DEF StoreWithoutRestart, AtLoop, frameVars, sendVars
    <2>2. FrameTypes' /\ RestTypes'
      BY <1>t, <2>1 DEF FrameTypes, RestTypes
    <2>3. OutputShowsFrame'
      BY <1>t, <2>1 DEF OutputShowsFrame
    <2>4. TimeInv'
      BY <1>t, <2>1
      DEF TimeInv, InputIsTaken, OverrideIsRead, SentWasTried, TransmitIsFresh, TriedInTime
    <2> QED
      BY <2>2, <2>3, <2>4 DEF PortInv
  <1> QED
    BY <1>1, <1>2, <1>3, <1>4, <1>5, <1>6, <1>7, <1>8, <1>9 DEF PortOthers

-----------------------------------------------------------------------------
(* The interrupt and the clock *)

LEMMA ReceiveKeepsInv ==
  ASSUME PortInv, NEW f \in Frames, FrameReceived(f)
  PROVE  PortInv'
  <1>t. FrameTypes /\ RestTypes /\ OutputShowsFrame /\ TimeInv
    BY DEF PortInv
  <1>1. /\ portUart = "input" /\ pending' = TRUE /\ driverFrame' = f
        /\ UNCHANGED <<portDirection, liveProtocol, portUart, source, test, testAge, testTimeout,
                       outdated, taken, inputAge, transmitAge, attemptAge, subs, portPc,
                       local, portLag>>
    BY DEF FrameReceived, portConfig, frameVars, sendVars
  <1>2. FrameTypes' /\ OutputShowsFrame' /\ RestTypes'
    BY <1>1, <1>t DEF FrameTypes, OutputShowsFrame, RestTypes
  <1>3. TimeInv'
    BY <1>1, <1>t
    DEF TimeInv, InputIsTaken, OverrideIsRead, SentWasTried, TransmitIsFresh, TriedInTime,
        InputActive
  <1> QED
    BY <1>2, <1>3 DEF PortInv

LEMMA TickKeepsInv ==
  ASSUME PortInv, PortTick
  PROVE  PortInv'
  <1>t. FrameTypes /\ RestTypes /\ OutputShowsFrame /\ TimeInv
    BY DEF PortInv
  <1>1. /\ portLag < MaxLag /\ portLag' = portLag + 1
        /\ UNCHANGED <<portDirection, liveProtocol, portUart, source, test, testTimeout, outdated,
                       driverFrame, pending, taken, subs, portPc, local>>
        /\ inputAge' = Older(inputAge, InputTimeout)
        /\ transmitAge' = Older(transmitAge, KeepAlive)
        /\ attemptAge' = Older(attemptAge, KeepAlive + MaxLag + 1)
    BY DEF PortTick, portConfig
  <1>n. /\ testAge \in Nat /\ portLag \in Nat /\ MaxLag \in Nat
        /\ OverrideTimeout + MaxLag + 1 \in Nat /\ KeepAlive + MaxLag + 1 \in Nat
    BY <1>t, Constants, Numbers
  <1>2. testAge' \in 0 .. OverrideTimeout + MaxLag + 1 /\ testAge' <= testAge + 1
    BY <1>t, <1>n, Constants DEF PortTick, Older, FrameTypes
  <1>3. /\ inputAge' \in Ages(InputTimeout) /\ transmitAge' \in Ages(KeepAlive)
        /\ attemptAge' \in Ages(KeepAlive + MaxLag + 1)
    BY <1>1, <1>t, <1>n, OlderType, Constants DEF RestTypes
  <1>4. FrameTypes' /\ OutputShowsFrame'
    BY <1>1, <1>2, <1>t DEF FrameTypes, OutputShowsFrame
  <1>5. RestTypes'
    BY <1>1, <1>3, <1>n, <1>t DEF RestTypes
  <1>6. InputIsTaken'
    BY <1>1, <1>t DEF TimeInv, InputIsTaken
  <1>7. OverrideIsRead'
    BY <1>1, <1>2, <1>n, <1>t, Constants DEF TimeInv, OverrideIsRead, FrameTypes
  <1>8. /\ attemptAge' # Never <=> attemptAge # Never
        /\ attemptAge # Never => /\ attemptAge \in Nat /\ attemptAge' \in Nat
                                 /\ attemptAge' <= attemptAge + 1
    BY <1>1, <1>t, <1>n, OlderType DEF RestTypes
  <1>9. SentWasTried'
    <2>1. /\ transmitAge' # Never <=> transmitAge # Never
          /\ transmitAge # Never => /\ transmitAge \in Nat /\ transmitAge <= KeepAlive
                                    /\ transmitAge < KeepAlive => transmitAge' = transmitAge + 1
                                    /\ transmitAge = KeepAlive => transmitAge' = KeepAlive
      BY <1>1, <1>t, OlderType, Constants, Numbers DEF RestTypes
    <2> QED
      BY <1>8, <1>t, <2>1, Constants DEF TimeInv, SentWasTried
  <1>10. TransmitIsFresh'
    BY <1>1, <1>8, <1>n, <1>t DEF TimeInv, TransmitIsFresh
  <1>11. TriedInTime'
    <2>1. InputActive' => InputActive
      <3>1. ASSUME inputAge # Never
            PROVE  inputAge \in Nat /\ inputAge' \in Nat /\ inputAge <= inputAge'
        BY <1>1, <1>t, <3>1, OlderType, Constants DEF RestTypes
      <3>2. inputAge' # Never => inputAge # Never
        BY <1>1 DEF Older
      <3> QED
        BY <3>1, <3>2, Constants DEF InputActive
    <2> QED
      BY <1>1, <1>8, <1>n, <1>t, <2>1, Constants DEF TimeInv, TriedInTime
  <1> QED
    BY <1>4, <1>5, <1>6, <1>7, <1>9, <1>10, <1>11 DEF PortInv, TimeInv

-----------------------------------------------------------------------------
(* updateDMX() *)

\* A step of updateDMX() that reads the frame.
LEMMA ReadingStep ==
  ASSUME PortInv, Read, driverFrame' = driverFrame, portUart' = portUart
  PROVE  /\ FrameTypes' /\ OutputShowsFrame'
         /\ source' = source
         /\ portLag' = portLag => OverrideIsRead'
  <1>t. FrameTypes /\ RestTypes /\ OutputShowsFrame
    BY DEF PortInv
  <1>1. outdated' \subseteq Everybody
    BY <1>t, OutdateType DEF Read, OutdatedNow, Overdue, FrameTypes
  <1>2. FrameTypes' /\ OutputShowsFrame'
    BY <1>1, <1>t, ReadEffect DEF Read
  <1>3. portLag' = portLag => OverrideIsRead'
    <2>1. (test'.active /\ testTimeout') => testAge' < OverrideTimeout
      BY <1>t, ExpireEffect, Zenon DEF Read
    <2>2. testAge' \in Nat
      BY <1>2, Constants DEF FrameTypes
    <2> QED
      BY <1>t, <2>1, <2>2, Numbers, Constants DEF OverrideIsRead
  <1> QED
    BY <1>2, <1>3, <1>t, ExpireEffect DEF Read

\* A step that leaves the frame alone.
LEMMA OtherStep ==
  ASSUME PortInv, UNCHANGED <<portUart, driverFrame, frameVars, portLag>>, portPc # "loop"
  PROVE  FrameTypes' /\ OutputShowsFrame' /\ OverrideIsRead'
  BY DEF PortInv, TimeInv, frameVars, FrameTypes, OutputShowsFrame, OverrideIsRead

\* A step that leaves the times alone and is neither in nor before a transmission.
LEMMA QuietStep ==
  ASSUME PortInv, UNCHANGED <<transmitAge, attemptAge>>,
         portPc' \notin {"read", "write", "end"}
  PROVE  SentWasTried' /\ TransmitIsFresh' /\ TriedInTime'
  BY DEF PortInv, TimeInv, SentWasTried, TransmitIsFresh, TriedInTime

LEMMA BeginKeepsInv ==
  ASSUME PortInv, UpdateBegin
  PROVE  PortInv'
  <1>t. FrameTypes /\ RestTypes /\ OutputShowsFrame /\ TimeInv
    BY DEF PortInv
  <1>1. /\ portPc = "loop" /\ portPc' = portDirection
        /\ UNCHANGED <<portDirection, liveProtocol, portUart, driverFrame, pending, taken, inputAge,
                       transmitAge, attemptAge, subs, portLag>>
    BY DEF UpdateBegin, portConfig, sendVars
  <1>2. FrameTypes' /\ OutputShowsFrame' /\ source' = source /\ OverrideIsRead'
    BY <1>1, ReadingStep DEF UpdateBegin
  <1>3. local' \in [expired : BOOLEAN, back : {"loop", "keepAlive", "end"}]
    <2>1. Overdue \in BOOLEAN
      BY DEF Overdue
    <2> QED
      BY <2>1 DEF UpdateBegin, Idle
  <1>4. RestTypes'
    BY <1>1, <1>3, <1>t DEF RestTypes
  <1>5. InputIsTaken'
    BY <1>1, <1>2, <1>t DEF TimeInv, InputIsTaken
  <1>6. SentWasTried' /\ TransmitIsFresh' /\ TriedInTime'
    BY <1>1, <1>t, QuietStep DEF RestTypes
  <1> QED
    BY <1>2, <1>4, <1>5, <1>6 DEF PortInv, TimeInv

LEMMA OutputKeepsInv ==
  ASSUME PortInv, ReadVersion \/ CopyToDriver
  PROVE  PortInv'
  <1>t. FrameTypes /\ RestTypes /\ OutputShowsFrame /\ TimeInv
    BY DEF PortInv
  <1>0. /\ portPc \in {"output", "copy"} /\ portPc' \in {"copy", "keepAlive"}
        /\ Expire
        /\ taken' = FALSE \/ UNCHANGED <<taken, driverFrame>>
        /\ UNCHANGED <<portDirection, liveProtocol, portUart, pending, inputAge,
                       transmitAge, attemptAge, subs, local, portLag>>
    BY DEF ReadVersion, CopyToDriver, portConfig, sendVars
  <1>1. FrameTypes' /\ OutputShowsFrame'
    <2>0. OutdatedNow \subseteq Everybody
      BY <1>t, OutdateType DEF OutdatedNow, Overdue, FrameTypes
    <2>1. CASE ReadVersion
      <3>1. /\ outdated' \subseteq Everybody
            /\ "driver" \in OutdatedNow => "driver" \in outdated'
        BY <2>0, <2>1 DEF ReadVersion
      <3> QED
        BY <1>0, <1>t, <2>1, <3>1, ReadEffect DEF ReadVersion
    <2>2. CASE CopyToDriver
      <3>1. outdated' \subseteq Everybody
        BY <2>0, <2>2 DEF CopyToDriver
      <3>2. driverFrame' = EffectiveNow
        BY <2>2 DEF CopyToDriver
      <3>3. EffectiveNow = IF test'.active THEN test'.frame ELSE source'
        BY <1>0, <1>t, ExpireEffect DEF EffectiveNow
      <3>4. driverFrame' \in Frames
        BY <1>t, <3>2 DEF EffectiveNow, FrameTypes
      <3>5. FrameTypes'
        BY <1>0, <1>t, <3>1, <3>4, ExpireEffect DEF FrameTypes
      <3> QED
        BY <3>2, <3>3, <3>5 DEF OutputShowsFrame
    <2> QED
      BY <2>1, <2>2
  <1>2. RestTypes'
    BY <1>0, <1>t DEF RestTypes
  <1>3. OverrideIsRead'
    <2>1. (test'.active /\ testTimeout') => testAge' < OverrideTimeout
      BY <1>0, <1>t, ExpireEffect, Zenon
    <2>2. testAge' \in Nat
      BY <1>1, Constants DEF FrameTypes
    <2> QED
      BY <1>0, <1>t, <2>1, <2>2, Numbers, Constants DEF OverrideIsRead
  <1>4. InputIsTaken'
    BY <1>0, <1>t, ExpireEffect DEF TimeInv, InputIsTaken
  <1>5. SentWasTried' /\ TransmitIsFresh' /\ TriedInTime'
    BY <1>0, QuietStep
  <1> QED
    BY <1>1, <1>2, <1>3, <1>4, <1>5 DEF PortInv, TimeInv

\* The counter is cleared before the frame is copied: a frame received in
\* between leaves it set again.
LEMMA InputKeepsInv ==
  ASSUME PortInv, TakePending \/ TakeFrame
  PROVE  PortInv'
  <1>t. FrameTypes /\ RestTypes /\ OutputShowsFrame /\ TimeInv
    BY DEF PortInv
  <1>1. CASE TakePending
    <2>1. /\ portPc = "input" /\ pending' = FALSE
          /\ portPc' = IF pending THEN "take" ELSE "keepAlive"
          /\ UNCHANGED <<portDirection, liveProtocol, portUart, frameVars, source,
                         driverFrame, taken, inputAge, transmitAge, attemptAge, subs, local, portLag>>
      BY <1>1 DEF TakePending, portConfig, sendVars, frameVars
    <2>2. FrameTypes' /\ OutputShowsFrame' /\ OverrideIsRead'
      BY <2>1, OtherStep
    <2>3. RestTypes'
      BY <2>1, <1>t DEF RestTypes
    <2>4. InputIsTaken'
      BY <2>1, <1>t DEF TimeInv, InputIsTaken
    <2>5. SentWasTried' /\ TransmitIsFresh' /\ TriedInTime'
      BY <2>1, QuietStep
    <2> QED
      BY <2>2, <2>3, <2>4, <2>5 DEF PortInv, TimeInv
  <1>2. CASE TakeFrame
    <2>1. /\ portPc = "take" /\ SetFrame(driverFrame) /\ inputAge' = 0 /\ taken' = TRUE
          /\ UNCHANGED <<portDirection, liveProtocol, portUart, driverFrame, pending, transmitAge,
                         subs, portLag>>
      BY <1>2 DEF TakeFrame, portConfig
    <2>2. \/ /\ attemptAge' = 0 /\ portPc' = "read"
             /\ local' = [local EXCEPT !.back = "keepAlive"]
          \/ portPc' = "keepAlive" /\ UNCHANGED <<attemptAge, local>>
      BY <1>2 DEF TakeFrame, BeginTransmit
    <2>3. FrameTypes' /\ OutputShowsFrame'
      BY <2>1, <1>t, SetFrameEffect DEF FrameTypes
    <2>4. local' \in [expired : BOOLEAN, back : {"loop", "keepAlive", "end"}]
      BY <2>2, <1>t DEF RestTypes
    <2>5. /\ attemptAge' \in Ages(KeepAlive + MaxLag + 1)
          /\ inputAge' \in Ages(InputTimeout)
      BY <2>1, <2>2, <1>t, Constants DEF RestTypes, Ages
    <2>6. RestTypes'
      BY <2>1, <2>2, <2>4, <2>5, <1>t DEF RestTypes
    <2>7. InputIsTaken' /\ OverrideIsRead'
      BY <2>1, <1>t DEF TimeInv, InputIsTaken, OverrideIsRead, SetFrame
    <2>8. SentWasTried' /\ TransmitIsFresh' /\ TriedInTime'
      BY <2>1, <2>2, <1>t, Numbers, Constants
      DEF TimeInv, SentWasTried, TransmitIsFresh, TriedInTime
    <2> QED
      BY <2>3, <2>6, <2>7, <2>8 DEF PortInv, TimeInv
  <1> QED
    BY <1>1, <1>2

LEMMA TransmittedKeepsInv ==
  ASSUME PortInv, NEW sent \in BOOLEAN, Transmitted(sent), portPc \in {"read", "write"}
  PROVE  PortInv'
  <1>t. FrameTypes /\ RestTypes /\ OutputShowsFrame /\ TimeInv
    BY DEF PortInv
  <1>1. /\ portPc' = local.back /\ subs'.any = subs.any
        /\ UNCHANGED <<portDirection, liveProtocol, portUart, frameVars, source, driverFrame, pending, taken,
                       inputAge, attemptAge, local, portLag>>
    BY <1>t DEF Transmitted, portConfig, frameVars, RestTypes
  <1>2. attemptAge \in Nat /\ attemptAge # Never /\ attemptAge <= portLag
    BY <1>t, Numbers DEF TimeInv, TransmitIsFresh
  <1>3. \/ transmitAge' = transmitAge
        \/ transmitAge' = KeepAlive /\ attemptAge > KeepAlive
        \/ transmitAge' = attemptAge /\ attemptAge <= KeepAlive
    BY <1>2, Constants DEF Transmitted
  <1>4. transmitAge' \in Ages(KeepAlive)
    BY <1>2, <1>3, <1>t, Constants DEF RestTypes, Ages
  <1>5. subs' \in [any : BOOLEAN, unserved : BOOLEAN]
    <2>1. (subs.unserved /\ ~sent) \in BOOLEAN
      OBVIOUS
    <2> QED
      BY <2>1, <1>t DEF Transmitted, RestTypes
  <1>6. local.back \in {"loop", "keepAlive", "end"}
    BY <1>t DEF RestTypes
  <1>7. RestTypes'
    BY <1>1, <1>4, <1>5, <1>6, <1>t DEF RestTypes
  <1>8. FrameTypes' /\ OutputShowsFrame' /\ OverrideIsRead'
    BY <1>1, OtherStep
  <1>9. InputIsTaken' /\ TransmitIsFresh'
    BY <1>1, <1>6, <1>t DEF TimeInv, InputIsTaken, TransmitIsFresh
  <1>10. SentWasTried'
    BY <1>1, <1>2, <1>3, <1>t, Constants DEF TimeInv, SentWasTried
  <1>11. TriedInTime'
    BY <1>1, <1>2, <1>t, Numbers, Constants DEF TriedInTime
  <1> QED
    BY <1>7, <1>8, <1>9, <1>10, <1>11 DEF PortInv, TimeInv

LEMMA TransmitKeepsInv ==
  ASSUME PortInv, ReadChannel \/ CopyFrame \/ WriteArtNet \/ WriteSacn \/ NoSocket
  PROVE  PortInv'
  <1>t. FrameTypes /\ RestTypes /\ OutputShowsFrame /\ TimeInv
    BY DEF PortInv
  <1>1. CASE ReadChannel \/ CopyFrame
    <2>1. /\ portPc = "read" /\ portPc' \in {"read", "write"} /\ Read
          /\ UNCHANGED <<portDirection, liveProtocol, portUart, driverFrame, pending, taken, inputAge,
                         transmitAge, attemptAge, subs, local, portLag>>
      BY <1>1 DEF ReadChannel, CopyFrame, portConfig, sendVars
    <2>2. FrameTypes' /\ OutputShowsFrame' /\ source' = source /\ OverrideIsRead'
      BY <2>1, ReadingStep
    <2>3. RestTypes'
      BY <2>1, <1>t DEF RestTypes
    <2>4. InputIsTaken' /\ SentWasTried' /\ TransmitIsFresh' /\ TriedInTime'
      BY <2>1, <2>2, <1>t
      DEF TimeInv, InputIsTaken, SentWasTried, TransmitIsFresh, TriedInTime
    <2> QED
      BY <2>2, <2>3, <2>4 DEF PortInv, TimeInv
  <1>2. CASE WriteArtNet \/ WriteSacn \/ NoSocket
    BY <1>2, TransmittedKeepsInv DEF WriteArtNet, WriteSacn, NoSocket
  <1> QED
    BY <1>1, <1>2

LEMMA CheckKeepsInv ==
  ASSUME PortInv, KeepAliveCheck
  PROVE  PortInv'
  <1>t. FrameTypes /\ RestTypes /\ OutputShowsFrame /\ TimeInv
    BY DEF PortInv
  <1>1. /\ portPc = "keepAlive" /\ Read
        /\ UNCHANGED <<portDirection, liveProtocol, portUart, driverFrame, pending, taken, inputAge,
                       transmitAge, portLag>>
        /\ subs' = [subs EXCEPT !.unserved = @ /\ subs.any]
    BY DEF KeepAliveCheck, portConfig
  <1>2. FrameTypes' /\ OutputShowsFrame' /\ source' = source /\ OverrideIsRead'
    BY <1>1, ReadingStep
  <1>3. /\ subs' \in [any : BOOLEAN, unserved : BOOLEAN] /\ subs'.any = subs.any
        /\ subs'.unserved => subs.unserved
    <2>1. (subs.unserved /\ subs.any) \in BOOLEAN
      OBVIOUS
    <2> QED
      BY <2>1, <1>1, <1>t DEF RestTypes
  <1>4. CASE TransmitDue
    <2>1. /\ attemptAge' = 0 /\ portPc' = "read"
          /\ local' = [local EXCEPT !.back = "end"]
      BY <1>4 DEF KeepAliveCheck, BeginTransmit
    <2>2. local' \in [expired : BOOLEAN, back : {"loop", "keepAlive", "end"}]
      BY <2>1, <1>t DEF RestTypes
    <2>3. attemptAge' \in Ages(KeepAlive + MaxLag + 1)
      BY <2>1, Constants DEF Ages
    <2>4. RestTypes'
      BY <1>1, <1>3, <2>1, <2>2, <2>3, <1>t DEF RestTypes
    <2>5. InputIsTaken'
      BY <1>1, <1>2, <2>1, <1>t DEF TimeInv, InputIsTaken
    <2>6. SentWasTried' /\ TransmitIsFresh' /\ TriedInTime'
      BY <1>1, <2>1, <1>t, Numbers, Constants
      DEF TimeInv, SentWasTried, TransmitIsFresh, TriedInTime
    <2> QED
      BY <1>2, <2>4, <2>5, <2>6 DEF PortInv, TimeInv
  <1>5. CASE ~TransmitDue
    <2>1. portPc' = "end" /\ UNCHANGED <<attemptAge, local>>
      BY <1>5 DEF KeepAliveCheck
    <2>2. RestTypes'
      BY <1>1, <1>3, <2>1, <1>t DEF RestTypes
    <2>3. InputIsTaken' /\ SentWasTried' /\ TransmitIsFresh'
      BY <1>1, <1>2, <2>1, <1>t DEF TimeInv, InputIsTaken, SentWasTried, TransmitIsFresh
    <2>4. TriedInTime'
      <3>1. SUFFICES ASSUME portDirection = "input", test'.active \/ InputActive
                     PROVE  /\ attemptAge # Never
                            /\ attemptAge <= KeepAlive + portLag
                            /\ (liveProtocol = "artnet" /\ subs.any /\ subs.unserved)
                                  => attemptAge <= Throttle + portLag
        BY <1>1, <1>3, <2>1 DEF TriedInTime, InputActive
      <3>2. ActiveNow \/ InputActive
        BY <1>1, <1>t, <3>1, ExpireEffect DEF Read
      <3>3. ~SubscriberDue /\ ~(Reached(transmitAge, KeepAlive) /\ Reached(attemptAge, KeepAlive))
        BY <1>5, <3>1, <3>2 DEF TransmitDue
      <3>4. attemptAge # Never /\ attemptAge < KeepAlive
        BY <3>3, <1>t, Numbers, Constants DEF Reached, TimeInv, SentWasTried
      <3>5. (liveProtocol = "artnet" /\ subs.any /\ subs.unserved) => attemptAge < Throttle
        BY <3>3, <3>4, <1>t, Numbers, Constants DEF SubscriberDue, Reached
      <3> QED
        BY <3>4, <3>5, <1>t, Numbers, Constants
    <2> QED
      BY <1>2, <2>2, <2>3, <2>4 DEF PortInv, TimeInv
  <1> QED
    BY <1>4, <1>5

LEMMA EndKeepsInv ==
  ASSUME PortInv, UpdateEnd
  PROVE  PortInv'
  <1>t. FrameTypes /\ RestTypes /\ OutputShowsFrame /\ TimeInv
    BY DEF PortInv
  <1>1. /\ portPc = "end" /\ portPc' = "loop" /\ local' = Idle /\ portLag' = 0
        /\ UNCHANGED <<portDirection, liveProtocol, portUart, source, test, testAge, testTimeout,
                       outdated, driverFrame, pending, taken, inputAge, transmitAge, attemptAge, subs>>
    BY DEF UpdateEnd, portConfig, frameVars, sendVars
  <1>2. FrameTypes' /\ OutputShowsFrame'
    BY <1>1, <1>t DEF FrameTypes, OutputShowsFrame
  <1>3. RestTypes'
    BY <1>1, <1>t, Constants DEF RestTypes, Idle
  <1>4. TimeInv'
    BY <1>1, <1>t
    DEF TimeInv, InputIsTaken, OverrideIsRead, SentWasTried, TransmitIsFresh, TriedInTime
  <1> QED
    BY <1>2, <1>3, <1>4 DEF PortInv

-----------------------------------------------------------------------------
(* The invariant *)

LEMMA PortInitInv == PortInit => PortInv
  <1> SUFFICES ASSUME PortInit
               PROVE  PortInv
    OBVIOUS
  <1>1. FrameTypes
    BY Constants DEF PortInit, FrameTypes
  <1>2. RestTypes
    <2>1. inputAge \in Ages(InputTimeout) /\ transmitAge \in Ages(KeepAlive)
          /\ attemptAge \in Ages(KeepAlive + MaxLag + 1)
      BY DEF PortInit, Ages
    <2>2. portUart \in {"output", "input"} /\ portLag \in 0 .. MaxLag
      BY Constants DEF PortInit
    <2>3. local \in [expired : BOOLEAN, back : {"loop", "keepAlive", "end"}]
      BY DEF PortInit, Idle
    <2>4. subs \in [any : BOOLEAN, unserved : BOOLEAN]
      BY DEF PortInit
    <2> QED
      BY <2>1, <2>2, <2>3, <2>4 DEF PortInit, RestTypes
  <1>3. OutputShowsFrame
    BY DEF PortInit, OutputShowsFrame, Everybody
  <1>4. TimeInv
    BY DEF PortInit, TimeInv, InputIsTaken, OverrideIsRead, SentWasTried, TransmitIsFresh,
           TriedInTime
  <1> QED
    BY <1>1, <1>2, <1>3, <1>4 DEF PortInv

LEMMA PortNextInv == PortInv /\ [PortNext]_portVars => PortInv'
  <1> SUFFICES ASSUME PortInv, [PortNext]_portVars
               PROVE  PortInv'
    OBVIOUS
  <1>1. CASE PortOthers
    BY <1>1, OthersKeepInv
  <1>2. CASE PortUpdate
    BY <1>2, BeginKeepsInv, OutputKeepsInv, InputKeepsInv, TransmitKeepsInv, CheckKeepsInv,
       EndKeepsInv DEF PortUpdate
  <1>3. ASSUME NEW f \in Frames, FrameReceived(f)
        PROVE  PortInv'
    BY <1>3, ReceiveKeepsInv
  <1>4. CASE PortTick
    BY <1>4, TickKeepsInv
  <1>5. CASE UNCHANGED portVars
    BY <1>5
    DEF portVars, portConfig, frameVars, sendVars, PortInv, FrameTypes, RestTypes, OutputShowsFrame,
        TimeInv, InputIsTaken, OverrideIsRead, SentWasTried, TransmitIsFresh, TriedInTime,
        InputActive
  <1> QED
    BY <1>1, <1>2, <1>3, <1>4, <1>5 DEF PortNext

\* The inductive invariant holds in every state of frame and port.
THEOREM PortInvariant == PortSpec => []PortInv
  BY PortInitInv, PortNextInv, PTL DEF PortSpec

\* Every variable of the port keeps its type; the ages stay within the bounds
\* of the model.
THEOREM PortTypes == PortSpec => []PortTypeOK
  <1>1. PortInv => PortTypeOK
    BY TypesSplit DEF PortInv
  <1> QED
    BY <1>1, PortInvariant, PTL

\* Writers and an override that ends between the two reads of
\* updateDMXOutput() never leave the driver with an old frame it takes for
\* the current one.
THEOREM DriverShowsFrame == PortSpec => []OutputShowsFrame
  <1>1. PortInv => OutputShowsFrame
    BY DEF PortInv
  <1> QED
    BY <1>1, PortInvariant, PTL

\* The receive interrupt may come at any point of processDMXInput(), and the
\* configured direction may change without the port: the last frame is in the
\* shared frame, or announced, or the network side has written since.
THEOREM InputIsKept == PortSpec => []LastInputIsKept
  <1>1. PortInv => LastInputIsKept
    BY DEF PortInv, TimeInv, InputIsTaken, LastInputIsKept
  <1> QED
    BY <1>1, PortInvariant, PTL

\* No override is older than its time plus the lag of the loop when
\* updateDMX() returns, whoever read the frame before.
THEOREM OverridesEnd == PortSpec => []OverrideEnds
  <1>1. PortInv => OverrideEnds
    BY Numbers, Constants DEF PortInv, TimeInv, OverrideIsRead, OverrideEnds
  <1> QED
    BY <1>1, PortInvariant, PTL

\* A live input or test is sent within the keep-alive time, and to a waiting
\* subscriber within the throttle, plus the lag of the loop.
THEOREM NetworkIsFed == PortSpec => []NetworkIsKeptAlive
  <1>1. PortInv => NetworkIsKeptAlive
    <2>1. SUFFICES ASSUME PortInv, portDirection = "input", portPc = "end",
                          test.active \/ InputActive
                   PROVE  /\ attemptAge # Never
                          /\ attemptAge <= KeepAlive + MaxLag
                          /\ (liveProtocol = "artnet" /\ subs.any /\ subs.unserved)
                                => attemptAge <= Throttle + MaxLag
      BY DEF NetworkIsKeptAlive
    <2> QED
      BY <2>1, Numbers, Constants DEF PortInv, TimeInv, TriedInTime
  <1> QED
    BY <1>1, PortInvariant, PTL

-----------------------------------------------------------------------------
(* The driver: packets, and what the receiver makes of them *)

Packets == [bytes : Seq(AllBytes), whole : BOOLEAN]
Receivers == [fifo : Seq(AllBytes), brk : BOOLEAN, idle : BOOLEAN,
              isr : {"none", "break", "idle", "bytes"}]

RxTypes ==
    /\ rx \in Receivers /\ packet \in Packets /\ before \in Packets
    /\ received \in Seq(AllBytes) /\ Len(received) <= MaxFrame
    /\ packetLength \in Nat
    /\ readState \in {"idle", "receiving"}
    /\ slots \in 1 .. MaxSlots

\* The packet whose bytes the receiver is reading: the one before a break
\* that has not been served.
Current == IF rx.brk THEN before ELSE packet

\* The bytes, in their order: those read, then those in the FIFO.
InOrder(read, fifo, bytes) ==
    /\ Len(bytes) = Len(read) + Len(fifo)
    /\ \A i \in 1 .. Len(read) : bytes[i] = read[i]
    /\ \A i \in 1 .. Len(fifo) : bytes[Len(read) + i] = fifo[i]

\* While a packet is being received, its buffer and the FIFO hold just what
\* the line has carried of it; and bytes behind a break that is not served
\* yet spoil their packet.
ReceiverInv ==
    /\ readState = "receiving" /\ Current.whole => InOrder(received, rx.fifo, Current.bytes)
    /\ rx.brk /\ packet.whole => packet.bytes = <<>>
    /\ rx.isr = "break" => rx.brk

LEMMA ZeroByte == 0 \in AllBytes
  BY DriverBytes DEF AllBytes

LEMMA QuietTypes ==
    /\ NoPacket \in Packets /\ NoPacket.whole /\ NoPacket.bytes = <<>>
    /\ QuietReceiver \in Receivers /\ QuietReceiver.fifo = <<>>
    /\ ~QuietReceiver.brk /\ QuietReceiver.isr = "none"
    /\ [bytes |-> <<>>, whole |-> FALSE] \in Packets
    /\ <<>> \in Seq(AllBytes) /\ Len(<<>>) = 0
  BY DEF NoPacket, Packets, QuietReceiver, Receivers

LEMMA SpoiledType ==
    ASSUME NEW p \in Packets
    PROVE  Spoiled(p) \in Packets /\ ~Spoiled(p).whole
  <1>1. [i \in DOMAIN p.bytes |-> 0] \in Seq(AllBytes)
    BY ZeroByte DEF Packets
  <1> QED
    BY <1>1 DEF Spoiled, Packets

\* What the firmware is given is a beginning of the packet.
LEMMA DeliverBeginning ==
    ASSUME RxTypes, DeliveredIsOnePacket,
           NEW rb \in Seq(AllBytes), Len(rb) <= MaxFrame, Deliver(rb),
           Current.whole => /\ Len(rb) <= Len(Current.bytes)
                            /\ \A i \in 1 .. Len(rb) : rb[i] = Current.bytes[i]
    PROVE  DeliveredIsOnePacket' /\ slots' \in 1 .. MaxSlots
  <1>1. CASE Keep(rb)
    <2>1. slots' = Len(rb) - 1 /\ delivered' = [bytes |-> rb, of |-> Current]
      BY <1>1 DEF Deliver, Current
    <2>2. Len(rb) \in Nat /\ rb[1] = 0 /\ Len(rb) > MinReceiveSlots
      BY <1>1 DEF Keep
    <2>3. slots' \in 1 .. MaxSlots
      BY <2>1, <2>2, DriverSizes DEF MaxFrame
    <2>4. delivered'.bytes = rb /\ delivered'.of = Current
      BY <2>1
    <2> QED
      BY <2>2, <2>3, <2>4 DEF DeliveredIsOnePacket
  <1>2. CASE ~Keep(rb)
    BY <1>2 DEF Deliver, DeliveredIsOnePacket, RxTypes
  <1> QED
    BY <1>1, <1>2

LEMMA ByteFromFifo ==
    ASSUME RxTypes, rx.fifo # <<>>
    PROVE  /\ Head(rx.fifo) \in AllBytes /\ Tail(rx.fifo) \in Seq(AllBytes)
           /\ Append(received, Head(rx.fifo)) \in Seq(AllBytes)
           /\ Len(Append(received, Head(rx.fifo))) = Len(received) + 1
           /\ \A bytes : InOrder(received, rx.fifo, bytes)
                  => /\ InOrder(Append(received, Head(rx.fifo)), Tail(rx.fifo), bytes)
                     /\ Len(received) + 1 <= Len(bytes)
                     /\ \A i \in 1 .. Len(received) + 1 :
                           Append(received, Head(rx.fifo))[i] = bytes[i]
  <1>1. rx.fifo \in Seq(AllBytes) /\ received \in Seq(AllBytes)
    BY DEF RxTypes, Receivers
  <1>2. /\ Len(rx.fifo) \in Nat \ {0} /\ Len(received) \in Nat
        /\ Head(rx.fifo) \in AllBytes /\ Head(rx.fifo) = rx.fifo[1]
        /\ Tail(rx.fifo) \in Seq(AllBytes) /\ Len(Tail(rx.fifo)) = Len(rx.fifo) - 1
        /\ \A i \in 1 .. Len(rx.fifo) - 1 : Tail(rx.fifo)[i] = rx.fifo[i + 1]
    BY <1>1
  <1>3. /\ Append(received, Head(rx.fifo)) \in Seq(AllBytes)
        /\ Len(Append(received, Head(rx.fifo))) = Len(received) + 1
        /\ \A i \in 1 .. Len(received) : Append(received, Head(rx.fifo))[i] = received[i]
        /\ Append(received, Head(rx.fifo))[Len(received) + 1] = rx.fifo[1]
    BY <1>1, <1>2
  <1>4. ASSUME NEW bytes, InOrder(received, rx.fifo, bytes)
        PROVE  /\ Len(received) + 1 <= Len(bytes)
               /\ \A i \in 1 .. Len(received) + 1 : Append(received, Head(rx.fifo))[i] = bytes[i]
               /\ InOrder(Append(received, Head(rx.fifo)), Tail(rx.fifo), bytes)
    <2>1. /\ Len(bytes) = Len(received) + Len(rx.fifo)
          /\ \A i \in 1 .. Len(received) : bytes[i] = received[i]
          /\ \A i \in 1 .. Len(rx.fifo) : bytes[Len(received) + i] = rx.fifo[i]
      BY <1>4 DEF InOrder
    <2>2. \A i \in 1 .. Len(received) + 1 : Append(received, Head(rx.fifo))[i] = bytes[i]
      BY <1>2, <1>3, <2>1
    <2>3. ASSUME NEW i \in 1 .. Len(rx.fifo) - 1
          PROVE  bytes[(Len(received) + 1) + i] = Tail(rx.fifo)[i]
      <3>1. i + 1 \in 1 .. Len(rx.fifo) /\ (Len(received) + 1) + i = Len(received) + (i + 1)
        BY <1>2
      <3> QED
        BY <1>2, <2>1, <3>1
    <2> DEFINE rb == Append(received, Head(rx.fifo))
               rest == Tail(rx.fifo)
    <2>0. Len(rb) = Len(received) + 1 /\ Len(rest) = Len(rx.fifo) - 1
      BY <1>2, <1>3
    <2> HIDE DEF rb, rest
    <2>4. /\ Len(rb) = Len(received) + 1 /\ Len(rest) = Len(rx.fifo) - 1
          /\ Len(bytes) = Len(rb) + Len(rest) /\ Len(received) + 1 <= Len(bytes)
      <3>1. /\ Len(received) \in Nat /\ Len(rx.fifo) \in Nat \ {0}
            /\ Len(bytes) = Len(received) + Len(rx.fifo)
        BY <1>2, <2>1
      <3>2. \A a \in Nat, b \in Nat \ {0} :
                a + b = (a + 1) + (b - 1) /\ a + 1 <= a + b
        OBVIOUS
      <3>3. /\ Len(received) + Len(rx.fifo) = (Len(received) + 1) + (Len(rx.fifo) - 1)
            /\ Len(received) + 1 <= Len(received) + Len(rx.fifo)
        BY <3>1, <3>2
      <3> QED
        BY <2>0, <3>1, <3>3
    <2>5. \A i \in 1 .. Len(rb) : bytes[i] = rb[i]
      BY <2>2, <2>4 DEF rb
    <2>6. \A i \in 1 .. Len(rest) : bytes[Len(rb) + i] = rest[i]
      BY <2>3, <2>4 DEF rest
    <2>7. InOrder(rb, rest, bytes)
      BY <2>4, <2>5, <2>6 DEF InOrder
    <2> QED
      BY <2>2, <2>4, <2>7 DEF rb, rest
  <1> QED
    BY <1>2, <1>3, <1>4

-----------------------------------------------------------------------------
(* The driver receives *)

ReceiverOK == RxTypes /\ ReceiverInv /\ DeliveredIsOnePacket

LEMMA ReceiverInit == DriverInit => ReceiverOK
  <1> SUFFICES ASSUME DriverInit PROVE ReceiverOK
    OBVIOUS
  <1>1. RxTypes
    BY QuietTypes, DriverSizes DEF DriverInit, RxTypes, MaxFrame
  <1>2. ReceiverInv
    BY QuietTypes DEF DriverInit, ReceiverInv
  <1>3. DeliveredIsOnePacket
    BY QuietTypes DEF DriverInit, DeliveredIsOnePacket, NothingDelivered
  <1> QED
    BY <1>1, <1>2, <1>3 DEF ReceiverOK

\* A handler that goes back to waiting for a break, or begins a packet, leaves
\* nothing to be related to the line.
LEMMA WaitingIsOK ==
    ASSUME rx' \in Receivers, packet' \in Packets, before' \in Packets,
           slots' \in 1 .. MaxSlots, DeliveredIsOnePacket',
           readState' = "idle", received' \in Seq(AllBytes), Len(received') <= MaxFrame,
           packetLength' \in Nat,
           rx'.brk /\ packet'.whole => packet'.bytes = <<>>,
           rx'.isr = "break" => rx'.brk
    PROVE  ReceiverOK'
  <1>1. RxTypes'
    BY DEF RxTypes
  <1>2. ReceiverInv'
    BY DEF ReceiverInv
  <1> QED
    BY <1>1, <1>2 DEF ReceiverOK

LEMMA MainKeepsReceiver ==
    ASSUME ReceiverOK, DriverMain
    PROVE  ReceiverOK'
  <1>t. RxTypes /\ ReceiverInv /\ DeliveredIsOnePacket
    BY DEF ReceiverOK
  <1>s. MaxSlots \in 1 .. MaxSlots /\ MaxFrame \in Nat
    BY DriverSizes DEF MaxFrame
  <1>1. CASE StopReceiver /\ slots' = slots
    <2>1. /\ rx' \in Receivers /\ packet' \in Packets /\ before' \in Packets
          /\ readState' = "idle" /\ received' \in Seq(AllBytes) /\ Len(received') <= MaxFrame
          /\ packetLength' \in Nat /\ ~rx'.brk /\ rx'.isr = "none"
      BY <1>1, <1>s, QuietTypes DEF StopReceiver
    <2>2. DeliveredIsOnePacket'
      BY <1>1 DEF StopReceiver, NothingDelivered, DeliveredIsOnePacket, NoPacket
    <2>3. slots' \in 1 .. MaxSlots
      BY <1>1, <1>t DEF RxTypes
    <2> QED
      BY <2>1, <2>2, <2>3, WaitingIsOK
  <1>2. CASE StartInput
    <2>1. /\ rx' \in Receivers /\ packet' \in Packets /\ before' \in Packets
          /\ readState' = "idle" /\ received' \in Seq(AllBytes) /\ Len(received') <= MaxFrame
          /\ packetLength' \in Nat /\ ~rx'.brk /\ rx'.isr = "none" /\ slots' \in 1 .. MaxSlots
      BY <1>2, <1>t, QuietTypes DEF StartInput, RxTypes
    <2>2. DeliveredIsOnePacket'
      BY <1>2, <1>t DEF StartInput, DeliveredIsOnePacket
    <2> QED
      BY <2>1, <2>2, WaitingIsOK
  <1>3. CASE DriverSetFrame
    <2>1. /\ rx' = rx /\ packet' = packet /\ before' = before /\ delivered' = delivered
          /\ readState' = readState /\ received' = received
          /\ packetLength' = packetLength /\ slots' \in 1 .. MaxSlots
      BY <1>3, <1>s DEF DriverSetFrame, rxVars, lineVars
    <2> QED
      BY <2>1, <1>t DEF ReceiverOK, RxTypes, ReceiverInv, DeliveredIsOnePacket, Current
  <1> QED
    BY <1>1, <1>2, <1>3 DEF DriverMain, StartOutput, DriverStop

\* An action that leaves the receiver alone.
LEMMA ReceiverStutter ==
    ASSUME ReceiverOK, UNCHANGED <<rxVars, lineVars, slots>>
    PROVE  ReceiverOK'
  BY DEF ReceiverOK, RxTypes, ReceiverInv, DeliveredIsOnePacket, Current, rxVars, lineVars

LEMMA TxKeepsReceiver ==
    ASSUME ReceiverOK, DriverTx
    PROVE  ReceiverOK'
  <1>1. UNCHANGED <<rxVars, lineVars, slots>>
    BY DEF DriverTx, UartTick, TxBreak, TxBreakSent, TxStart, TxData, TxIdle, TxInterrupt
  <1> QED
    BY <1>1, ReceiverStutter

\* An action that changes only the flags of the receiver.
LEMMA FlagsOnly ==
    ASSUME ReceiverOK, NEW r \in Receivers, rx' = r,
           r.fifo = rx.fifo, r.brk = rx.brk, r.isr = "break" => r.brk,
           UNCHANGED <<rxVars, packet, before, slots>>, DeliveredIsOnePacket'
    PROVE  ReceiverOK'
  <1>1. RxTypes'
    BY DEF ReceiverOK, RxTypes, rxVars
  <1>2. Current' = Current
    BY DEF Current
  <1>3. ReceiverInv'
    BY <1>2 DEF ReceiverOK, ReceiverInv, rxVars
  <1> QED
    BY <1>1, <1>3 DEF ReceiverOK

LEMMA RxInterruptKeepsReceiver ==
    ASSUME ReceiverOK, RxInterrupt
    PROVE  ReceiverOK'
  <1>1. rx \in Receivers
    BY DEF ReceiverOK, RxTypes
  <1> DEFINE flag == Flags
  <1>2. flag \in {"break", "idle", "bytes"} /\ (flag = "break" => rx.brk)
    BY DEF Flags
  <1>3. rx' = [rx EXCEPT !.isr = flag]
    BY DEF RxInterrupt
  <1> HIDE DEF flag
  <1>4. /\ rx' \in Receivers /\ rx'.fifo = rx.fifo /\ rx'.brk = rx.brk /\ rx'.isr = flag
    BY <1>1, <1>2, <1>3 DEF Receivers
  <1>5. DeliveredIsOnePacket'
    BY DEF RxInterrupt, DeliveredIsOnePacket, NothingDelivered, NoPacket
  <1>6. UNCHANGED <<rxVars, packet, before, slots>>
    BY DEF RxInterrupt
  <1> QED
    BY <1>2, <1>4, <1>5, <1>6, FlagsOnly

\* What is read of a packet is a beginning of it.
LEMMA ReadIsBeginning ==
    ASSUME ReceiverOK, readState = "receiving", Current.whole
    PROVE  /\ Len(received) <= Len(Current.bytes)
           /\ \A i \in 1 .. Len(received) : received[i] = Current.bytes[i]
  <1>1. InOrder(received, rx.fifo, Current.bytes)
    BY DEF ReceiverOK, ReceiverInv
  <1>2. Len(received) \in Nat /\ Len(rx.fifo) \in Nat
    BY DEF ReceiverOK, RxTypes, Receivers
  <1> QED
    BY <1>1, <1>2 DEF InOrder

LEMMA TakesByte ==
    ASSUME ReceiverOK, TakeByte
    PROVE  /\ rx' \in Receivers /\ rx'.fifo = Tail(rx.fifo)
           /\ rx'.brk = rx.brk /\ rx'.isr = rx.isr /\ Current' = Current
           /\ packet' = packet /\ before' = before
  <1>1. rx \in Receivers /\ Tail(rx.fifo) \in Seq(AllBytes)
    BY ByteFromFifo DEF ReceiverOK, RxTypes, TakeByte
  <1>2. rx' = [rx EXCEPT !.fifo = Tail(rx.fifo)] /\ packet' = packet /\ before' = before
    BY DEF TakeByte
  <1> DEFINE rest == Tail(rx.fifo)
  <1> HIDE DEF rest
  <1>3. rx' \in Receivers /\ rx'.fifo = rest /\ rx'.brk = rx.brk /\ rx'.isr = rx.isr
    BY <1>1, <1>2 DEF Receivers, rest
  <1> QED
    BY <1>2, <1>3 DEF Current, rest

LEMMA BytesAreNumbers == AllBytes \subseteq Nat
  BY DriverBytes DEF AllBytes

LEMMA ResetTypes ==
    ASSUME ResetFrame
    PROVE  /\ readState' = "idle" /\ received' \in Seq(AllBytes) /\ Len(received') <= MaxFrame
           /\ packetLength' \in Nat
  BY QuietTypes, DriverSizes DEF ResetFrame, MaxFrame

LEMMA RxByteKeepsReceiver ==
    ASSUME ReceiverOK, RxByte
    PROVE  ReceiverOK'
  <1> DEFINE c == Head(rx.fifo)
             rb == Append(received, c)
             len == LengthAfter(c)
  <1>t. RxTypes /\ ReceiverInv /\ DeliveredIsOnePacket
    BY DEF ReceiverOK
  <1>0. TakeByte /\ readState = "receiving" /\ rx.fifo # <<>>
    BY DEF RxByte, TakeByte
  <1>1. /\ rx' \in Receivers /\ rx'.fifo = Tail(rx.fifo)
        /\ rx'.brk = rx.brk /\ rx'.isr = rx.isr /\ Current' = Current
        /\ packet' = packet /\ before' = before
    BY <1>0, TakesByte
  <1>2. rb \in Seq(AllBytes) /\ Len(rb) = Len(received) + 1
    BY <1>t, <1>0, ByteFromFifo
  <1>3. Current.whole =>
            /\ InOrder(rb, Tail(rx.fifo), Current.bytes)
            /\ Len(rb) <= Len(Current.bytes)
            /\ \A i \in 1 .. Len(rb) : rb[i] = Current.bytes[i]
    BY <1>t, <1>0, ByteFromFifo DEF ReceiverInv
  <1>l. len \in Nat
    <2>1. c \in Nat
      BY <1>t, <1>0, ByteFromFifo, BytesAreNumbers
    <2>2. packetLength \in Nat
      BY <1>t DEF RxTypes
    <2> HIDE DEF c
    <2> QED
      BY <2>1, <2>2 DEF LengthAfter
  <1>4. \/ Deliver(received) /\ ResetFrame
        \/ Len(rb) <= MaxFrame /\ Deliver(rb) /\ ResetFrame
        \/ UNCHANGED <<slots, delivered>> /\ ResetFrame
        \/ /\ Len(rb) <= MaxFrame /\ received' = rb
           /\ packetLength' = len
           /\ UNCHANGED <<readState, slots, delivered>>
    <2>1. Len(rb) \in Nat /\ MaxFrame \in Nat
      BY <1>2, DriverSizes DEF MaxFrame
    <2> DEFINE full == Len(rb) > MaxFrame
               done == Len(rb) >= len
    <2>3. CASE full
      BY <2>1, <1>l, <2>3 DEF RxByte
    <2>4. CASE ~full /\ done
      BY <2>1, <1>l, <2>4 DEF RxByte
    <2>5. CASE ~full /\ ~done /\ Unrecognised
      BY <2>1, <1>l, <2>5 DEF RxByte
    <2>6. CASE ~full /\ ~done /\ ~Unrecognised
      BY <2>1, <1>l, <2>6 DEF RxByte
    <2> QED
      BY <2>3, <2>4, <2>5, <2>6
  <1> HIDE DEF c, rb, len
  <1>5. /\ rx'.isr = "break" => rx'.brk
        /\ rx'.brk /\ packet'.whole => packet'.bytes = <<>>
        /\ packet' \in Packets /\ before' \in Packets
    BY <1>1, <1>t DEF ReceiverInv, RxTypes
  <1>6. ASSUME NEW b \in Seq(AllBytes), Deliver(b), ResetFrame, Len(b) <= MaxFrame,
               Current.whole => /\ Len(b) <= Len(Current.bytes)
                                /\ \A i \in 1 .. Len(b) : b[i] = Current.bytes[i]
        PROVE  ReceiverOK'
    <2>1. DeliveredIsOnePacket' /\ slots' \in 1 .. MaxSlots
      BY <1>t, <1>6, DeliverBeginning
    <2> QED
      BY <1>1, <1>5, <1>6, <2>1, ResetTypes, WaitingIsOK
  <1>7. CASE Deliver(received) /\ ResetFrame
    BY <1>t, <1>0, <1>6, <1>7, ReadIsBeginning DEF RxTypes
  <1>8. CASE Len(rb) <= MaxFrame /\ Deliver(rb) /\ ResetFrame
    BY <1>2, <1>3, <1>6, <1>8
  <1>9. CASE UNCHANGED <<slots, delivered>> /\ ResetFrame
    <2>1. DeliveredIsOnePacket' /\ slots' \in 1 .. MaxSlots
      BY <1>t, <1>9 DEF DeliveredIsOnePacket, RxTypes
    <2> QED
      BY <1>1, <1>5, <1>9, <2>1, ResetTypes, WaitingIsOK
  <1>10. CASE Len(rb) <= MaxFrame /\ received' = rb /\ packetLength' = len
               /\ UNCHANGED <<readState, slots, delivered>>
    <2>2. RxTypes'
      BY <1>1, <1>2, <1>5, <1>t, <1>10, <1>l DEF RxTypes
    <2>3. ReceiverInv'
      BY <1>1, <1>3, <1>5, <1>10 DEF ReceiverInv
    <2>4. DeliveredIsOnePacket'
      BY <1>t, <1>10 DEF DeliveredIsOnePacket
    <2> QED
      BY <2>2, <2>3, <2>4 DEF ReceiverOK
  <1> QED
    BY <1>4, <1>7, <1>8, <1>9, <1>10

LEMMA RxSkipByteKeepsReceiver ==
    ASSUME ReceiverOK, RxSkipByte
    PROVE  ReceiverOK'
  <1>t. RxTypes /\ ReceiverInv /\ DeliveredIsOnePacket
    BY DEF ReceiverOK
  <1>1. /\ rx' \in Receivers /\ rx'.brk = rx.brk /\ rx'.isr = rx.isr
        /\ packet' = packet /\ before' = before
    BY TakesByte DEF RxSkipByte
  <1>2. /\ readState' = "idle" /\ received' = received /\ slots' = slots
        /\ delivered' = delivered /\ packetLength' = packetLength
    BY DEF RxSkipByte, rxVars
  <1>3. DeliveredIsOnePacket'
    BY <1>t, <1>2 DEF DeliveredIsOnePacket
  <1> QED
    BY <1>1, <1>2, <1>3, <1>t, WaitingIsOK DEF RxTypes, ReceiverInv

LEMMA RxEndBreakKeepsReceiver ==
    ASSUME ReceiverOK, RxEndBreak
    PROVE  ReceiverOK'
  <1>t. RxTypes /\ ReceiverInv /\ DeliveredIsOnePacket
    BY DEF ReceiverOK
  <1>1. /\ rx' = QuietReceiver /\ before' = NoPacket /\ packet' = packet
        /\ received' = <<>> /\ packetLength' = MaxFrame /\ readState' = "receiving"
    BY DEF RxEndBreak, RxEnd, BreakReceived
  <1>2. rx.brk
    BY <1>t DEF RxEndBreak, RxEnd, ReceiverInv
  <1>3. DeliveredIsOnePacket' /\ slots' \in 1 .. MaxSlots
    <2>1. CASE readState = "receiving" /\ Deliver(received)
      BY <1>t, <2>1, ReadIsBeginning, DeliverBeginning DEF RxTypes
    <2>2. CASE UNCHANGED <<slots, delivered>>
      BY <1>t, <2>2 DEF DeliveredIsOnePacket, RxTypes
    <2> QED
      BY <2>1, <2>2 DEF RxEndBreak, BreakReceived
  <1>4. RxTypes'
    BY <1>1, <1>3, <1>t, QuietTypes, DriverSizes DEF RxTypes, MaxFrame
  <1>5. Current' = packet
    BY <1>1, QuietTypes DEF Current
  <1>6. packet.whole => packet.bytes = <<>>
    BY <1>2, <1>t DEF ReceiverInv
  <1>7. ReceiverInv'
    BY <1>1, <1>5, <1>6, QuietTypes DEF ReceiverInv, InOrder
  <1> QED
    BY <1>3, <1>4, <1>7 DEF ReceiverOK

LEMMA RxEndIdleKeepsReceiver ==
    ASSUME ReceiverOK, RxEndIdle
    PROVE  ReceiverOK'
  <1>t. RxTypes /\ ReceiverInv /\ DeliveredIsOnePacket
    BY DEF ReceiverOK
  <1>1. /\ rx' \in Receivers /\ rx'.fifo = rx.fifo /\ rx'.brk = rx.brk /\ rx'.isr = "none"
        /\ packet' = packet /\ before' = before
    BY <1>t DEF RxEndIdle, RxEnd, RxTypes, Receivers
  <1>2. CASE readState = "receiving" /\ Deliver(received) /\ ResetFrame
    <2>1. DeliveredIsOnePacket' /\ slots' \in 1 .. MaxSlots
      BY <1>t, <1>2, ReadIsBeginning, DeliverBeginning DEF RxTypes
    <2> QED
      BY <1>1, <1>2, <1>t, <2>1, ResetTypes, WaitingIsOK DEF RxTypes, ReceiverInv
  <1>3. CASE UNCHANGED <<rxVars, slots, delivered>>
    <2>1. DeliveredIsOnePacket'
      BY <1>t, <1>3 DEF DeliveredIsOnePacket
    <2> QED
      BY <1>1, <1>3, <2>1, FlagsOnly
  <1> QED
    BY <1>2, <1>3 DEF RxEndIdle, ReceiveTimeout

LEMMA RxEndBytesKeepsReceiver ==
    ASSUME ReceiverOK, RxEndBytes
    PROVE  ReceiverOK'
  <1>1. /\ rx' \in Receivers /\ rx'.fifo = rx.fifo /\ rx'.brk = rx.brk /\ rx'.isr = "none"
    BY DEF ReceiverOK, RxEndBytes, RxTypes, Receivers
  <1>2. UNCHANGED <<rxVars, packet, before, slots>> /\ DeliveredIsOnePacket'
    BY DEF ReceiverOK, RxEndBytes, RxEnd, DeliveredIsOnePacket
  <1> QED
    BY <1>1, <1>2, FlagsOnly

LEMMA LineBreakKeepsReceiver ==
    ASSUME ReceiverOK, LineBreak
    PROVE  ReceiverOK'
  <1>t. RxTypes /\ ReceiverInv /\ DeliveredIsOnePacket
    BY DEF ReceiverOK
  <1>1. /\ rx' \in Receivers /\ rx'.fifo = rx.fifo /\ rx'.brk /\ rx'.isr = rx.isr
    BY <1>t DEF LineBreak, RxTypes, Receivers
  <1>2. /\ before' = (IF rx.brk /\ packet.bytes = <<>> THEN before ELSE packet)
        /\ packet' = NoPacket /\ UNCHANGED <<rxVars, slots, delivered>>
    BY DEF LineBreak, LineBusy
  <1>3. RxTypes'
    BY <1>1, <1>2, <1>t, QuietTypes DEF RxTypes, rxVars
  <1>4. Current'.whole => Current' = Current
    BY <1>1, <1>2, <1>t DEF Current, ReceiverInv
  <1>5. ReceiverInv'
    BY <1>1, <1>2, <1>4, <1>t, QuietTypes DEF ReceiverInv, rxVars
  <1>6. DeliveredIsOnePacket'
    BY <1>2, <1>t DEF DeliveredIsOnePacket
  <1> QED
    BY <1>3, <1>5, <1>6 DEF ReceiverOK

\* A byte that joins the FIFO and the packet keeps the order.
LEMMA OneMoreByte ==
    ASSUME NEW read \in Seq(AllBytes), NEW fifo \in Seq(AllBytes),
           NEW bytes \in Seq(AllBytes), NEW c \in AllBytes, InOrder(read, fifo, bytes)
    PROVE  InOrder(read, Append(fifo, c), Append(bytes, c))
  <1>1. /\ Len(bytes) = Len(read) + Len(fifo)
        /\ Len(read) \in Nat /\ Len(fifo) \in Nat
    BY DEF InOrder
  <1>2. /\ Len(Append(bytes, c)) = Len(bytes) + 1
        /\ Len(Append(fifo, c)) = Len(fifo) + 1
        /\ \A i \in 1 .. Len(bytes) : Append(bytes, c)[i] = bytes[i]
        /\ Append(bytes, c)[Len(bytes) + 1] = c
        /\ \A i \in 1 .. Len(fifo) : Append(fifo, c)[i] = fifo[i]
        /\ Append(fifo, c)[Len(fifo) + 1] = c
    OBVIOUS
  <1> DEFINE b == Append(bytes, c)
             f == Append(fifo, c)
  <1> HIDE DEF b, f
  <1>3. Len(b) = Len(read) + Len(f)
    BY <1>1, <1>2 DEF b, f
  <1>4. ASSUME NEW i \in 1 .. Len(read)
        PROVE  b[i] = read[i]
    BY <1>1, <1>2 DEF b, InOrder
  <1>5. ASSUME NEW i \in 1 .. Len(fifo) + 1
        PROVE  b[Len(read) + i] = f[i]
    <2>1. CASE i = Len(fifo) + 1
      <3>1. Len(read) + i = Len(bytes) + 1
        BY <1>1, <2>1
      <3> QED
        BY <1>2, <2>1, <3>1 DEF b, f
    <2>2. CASE i \in 1 .. Len(fifo)
      <3>1. Len(read) + i \in 1 .. Len(bytes)
        BY <1>1, <2>2
      <3>2. bytes[Len(read) + i] = fifo[i]
        BY <2>2 DEF InOrder
      <3> QED
        BY <1>2, <2>2, <3>1, <3>2 DEF b, f
    <2> QED
      BY <1>1, <2>1, <2>2
  <1>6. InOrder(read, f, b)
    BY <1>2, <1>3, <1>4, <1>5 DEF InOrder, f
  <1> QED
    BY <1>6 DEF b, f

\* A byte joins the FIFO and the packet, or it spoils what it touches.
LEMMA LineByteKeepsReceiver ==
    ASSUME ReceiverOK, NEW c \in AllBytes, LineByte(c)
    PROVE  ReceiverOK'
  <1>t. RxTypes /\ ReceiverInv /\ DeliveredIsOnePacket
    BY DEF ReceiverOK
  <1> DEFINE room == Len(rx.fifo) < FifoDepth
             longer == [packet EXCEPT !.bytes = Append(@, c)]
             fifo == IF room THEN Append(rx.fifo, c) ELSE rx.fifo
  <1>0. UNCHANGED <<rxVars, slots, delivered>>
    BY DEF LineByte, LineBusy
  <1>1. rx.fifo \in Seq(AllBytes) /\ packet.bytes \in Seq(AllBytes)
    BY <1>t DEF RxTypes, Receivers, Packets
  <1>2. fifo \in Seq(AllBytes) /\ Append(packet.bytes, c) \in Seq(AllBytes)
    BY <1>1
  <1>3. /\ longer \in Packets /\ longer.bytes = Append(packet.bytes, c)
        /\ longer.whole <=> packet.whole
    <2> DEFINE bytes == Append(packet.bytes, c)
    <2>1. bytes \in Seq(AllBytes) /\ packet \in Packets
      BY <1>2, <1>t DEF RxTypes
    <2> HIDE DEF bytes
    <2>2. longer = [packet EXCEPT !.bytes = bytes]
      BY DEF bytes
    <2>3. longer \in Packets /\ longer.bytes = bytes /\ (longer.whole <=> packet.whole)
      BY <2>1, <2>2 DEF Packets
    <2> QED
      BY <2>3 DEF bytes
  <1>4. packet' = IF packet.whole /\ ~rx.brk /\ room THEN longer ELSE Spoiled(longer)
    BY DEF LineByte
  <1>5. before' = IF rx.brk THEN Spoiled(before) ELSE before
    BY DEF LineByte
  <1>6. /\ rx' \in Receivers /\ rx'.fifo = fifo /\ (rx'.brk <=> rx.brk) /\ rx'.isr = rx.isr
    <2>1. rx' = [rx EXCEPT !.fifo = fifo]
      <3>1. rx \in Receivers
        BY <1>t DEF RxTypes
      <3>2. ~room => rx = [rx EXCEPT !.fifo = rx.fifo]
        BY <3>1 DEF Receivers
      <3>3. CASE room
        BY <3>3 DEF LineByte
      <3>4. CASE ~room
        BY <3>2, <3>4 DEF LineByte
      <3> QED
        BY <3>3, <3>4
    <2> HIDE DEF fifo
    <2> QED
      BY <1>t, <1>2, <2>1 DEF RxTypes, Receivers
  <1> HIDE DEF longer
  <1>7. Spoiled(longer) \in Packets /\ ~Spoiled(longer).whole
    BY <1>3, SpoiledType
  <1>8. Spoiled(before) \in Packets /\ ~Spoiled(before).whole
    BY <1>t, SpoiledType DEF RxTypes
  <1>9. RxTypes'
    BY <1>0, <1>3, <1>4, <1>5, <1>6, <1>7, <1>8, <1>t DEF RxTypes, rxVars
  <1>10. rx'.brk => ~packet'.whole /\ ~Current'.whole
    BY <1>4, <1>5, <1>6, <1>7, <1>8 DEF Current
  <1>11. ASSUME ~rx'.brk, Current'.whole, readState' = "receiving"
         PROVE  InOrder(received', rx'.fifo, Current'.bytes)
    <2>1. packet.whole /\ room /\ ~rx.brk /\ Current' = longer /\ Current = packet
      BY <1>4, <1>6, <1>7, <1>11 DEF Current
    <2>2. InOrder(received, rx.fifo, packet.bytes)
      BY <1>0, <1>11, <1>t, <2>1 DEF ReceiverInv, rxVars
    <2>3. InOrder(received, Append(rx.fifo, c), Append(packet.bytes, c))
      BY <1>1, <1>t, <2>2, OneMoreByte DEF RxTypes
    <2> QED
      BY <1>0, <1>3, <1>6, <2>1, <2>3 DEF rxVars
  <1>12. ReceiverInv'
    BY <1>6, <1>10, <1>11, <1>t DEF ReceiverInv
  <1>13. DeliveredIsOnePacket'
    BY <1>0, <1>t DEF DeliveredIsOnePacket
  <1> QED
    BY <1>9, <1>12, <1>13 DEF ReceiverOK

LEMMA LineIdleKeepsReceiver ==
    ASSUME ReceiverOK, LineIdle
    PROVE  ReceiverOK'
  <1>1. /\ rx' \in Receivers /\ rx'.fifo = rx.fifo /\ rx'.brk = rx.brk /\ rx'.isr = rx.isr
    BY DEF ReceiverOK, LineIdle, RxTypes, Receivers
  <1>2. UNCHANGED <<rxVars, packet, before, slots>> /\ DeliveredIsOnePacket'
    BY DEF ReceiverOK, LineIdle, LineBusy, DeliveredIsOnePacket
  <1> QED
    BY <1>1, <1>2, FlagsOnly DEF ReceiverOK, ReceiverInv

LEMMA ReceiverNext ==
    ASSUME ReceiverOK, [DriverNext]_drvVars
    PROVE  ReceiverOK'
  <1>1. CASE DriverMain
    BY <1>1, MainKeepsReceiver
  <1>2. CASE DriverTx
    BY <1>2, TxKeepsReceiver
  <1>3. CASE DriverRx
    BY <1>3, RxInterruptKeepsReceiver, RxSkipByteKeepsReceiver,
       RxByteKeepsReceiver, RxEndBreakKeepsReceiver, RxEndIdleKeepsReceiver,
       RxEndBytesKeepsReceiver DEF DriverRx
  <1>4. CASE LineBreak
    BY <1>4, LineBreakKeepsReceiver
  <1>5. ASSUME NEW c \in (IF packet.bytes = <<>> THEN StartCodes ELSE SlotBytes),
               LineByte(c)
        PROVE  ReceiverOK'
    <2>1. c \in AllBytes
      BY <1>5 DEF AllBytes
    <2> QED
      BY <1>5, <2>1, LineByteKeepsReceiver
  <1>6. CASE LineIdle
    BY <1>6, LineIdleKeepsReceiver
  <1>7. CASE UNCHANGED drvVars
    BY <1>7, ReceiverStutter DEF drvVars, rxVars, lineVars
  <1> QED
    BY <1>1, <1>2, <1>3, <1>4, <1>5, <1>6, <1>7 DEF DriverNext, DriverLine

\* A frame handed to the firmware is the beginning of one packet of the line,
\* whatever was started, stopped or late.
THEOREM FramesAreNotMixed == DriverSpec => []DeliveredIsOnePacket
  <1>1. ReceiverOK => DeliveredIsOnePacket
    BY DEF ReceiverOK
  <1>2. ReceiverOK /\ [DriverNext]_drvVars => ReceiverOK'
    BY ReceiverNext
  <1> QED
    BY <1>1, <1>2, ReceiverInit, PTL DEF DriverSpec

-----------------------------------------------------------------------------
(* The driver sends: the slots of a packet *)

\* The slots on the wire are in their order, and while slots are sent the next
\* one is one of the frame.
WireInv ==
    /\ wire \in Seq(Nat) /\ \A i \in 1 .. Len(wire) : wire[i] = i - 1
    /\ sendState = "data" =>
          drvStatus = "output" /\ Len(wire) = nextSend /\ nextSend \in 1 .. slots

LEMMA NextSlot ==
    ASSUME WireInv, Len(wire) = nextSend
    PROVE  /\ Append(wire, nextSend) \in Seq(Nat)
           /\ Len(Append(wire, nextSend)) = nextSend + 1
           /\ \A i \in 1 .. nextSend + 1 : Append(wire, nextSend)[i] = i - 1
  <1>1. wire \in Seq(Nat) /\ Len(wire) \in Nat
    BY DEF WireInv
  <1>2. /\ Append(wire, nextSend) \in Seq(Nat)
        /\ Len(Append(wire, nextSend)) = nextSend + 1
        /\ \A i \in 1 .. nextSend : Append(wire, nextSend)[i] = wire[i]
        /\ Append(wire, nextSend)[nextSend + 1] = nextSend
    BY <1>1
  <1> QED
    BY <1>1, <1>2 DEF WireInv

\* One step keeps the order on the wire, and the packet it ends is complete.
LEMMA WireNext ==
    ASSUME WireInv, ReceiverOK, [DriverNext]_drvVars
    PROVE  /\ WireInv'
           /\ drvStatus' = "output" /\ sendState = "data" /\ sendState' = "idle"
                 => Len(wire') = slots + 1
  <1>s. slots \in 1 .. MaxSlots
    BY DEF ReceiverOK, RxTypes
  <1>e. /\ <<>> \in Seq(Nat) /\ Len(<<>>) = 0
        /\ <<0>> \in Seq(Nat) /\ Len(<<0>>) = 1 /\ <<0>>[1] = 0
    OBVIOUS
  <1>1. CASE wire' = <<>> /\ sendState' # "data" /\ (sendState' # "idle" \/ drvStatus' # "output")
    BY <1>1, <1>e DEF WireInv
  <1>2. CASE UNCHANGED <<sendState, wire, nextSend, drvStatus, slots>>
    BY <1>2 DEF WireInv
  <1>3. CASE wire' = wire /\ sendState # "data" /\ sendState' # "data"
    BY <1>3 DEF WireInv
  <1>4. CASE StartOutput
    BY <1>4 DEF StartOutput, WireInv
  <1>5. CASE DriverSetFrame
    BY <1>5, <1>s, DriverSizes DEF DriverSetFrame, txVars, WireInv
  <1>6. CASE TxStart
    <2>1. /\ wire' = <<0>> /\ sendState = "start" /\ sendState' = "data" /\ nextSend' = 1
          /\ drvStatus' = "output" /\ slots' = slots
      BY <1>6 DEF TxStart, TxInterrupt
    <2>2. \A i \in 1 .. Len(<<0>>) : <<0>>[i] = i - 1
      BY <1>e
    <2>3. nextSend' \in 1 .. slots'
      BY <1>s, <2>1
    <2> QED
      BY <1>e, <2>1, <2>2, <2>3 DEF WireInv
  <1>7. CASE TxData
    <2>1. /\ wire' = Append(wire, nextSend) /\ nextSend' = nextSend + 1
          /\ sendState = "data" /\ drvStatus' = "output" /\ slots' = slots
      BY <1>7 DEF TxData, TxInterrupt
    <2>2. Len(wire) = nextSend /\ nextSend \in 1 .. slots
      BY <2>1 DEF WireInv
    <2>3. /\ wire' \in Seq(Nat) /\ Len(wire') = nextSend + 1
          /\ \A i \in 1 .. Len(wire') : wire'[i] = i - 1
      BY <2>1, <2>2, NextSlot
    <2>4. \/ sendState' = "idle" /\ nextSend + 1 > slots
          \/ sendState' = "data" /\ ~(nextSend + 1 > slots)
      BY <1>7, <2>1 DEF TxData, AfterSlot
    <2>5. sendState' = "data" => nextSend' \in 1 .. slots'
      BY <1>s, <2>1, <2>2, <2>4
    <2>6. sendState' = "idle" => Len(wire') = slots + 1
      BY <1>s, <2>2, <2>3, <2>4
    <2> QED
      BY <2>1, <2>3, <2>5, <2>6 DEF WireInv
  <1>8. CASE DriverRx \/ DriverLine
    <2>1. drvStatus = "input" /\ UNCHANGED <<drvStatus, txVars>>
      BY <1>8 DEF DriverRx, RxInterrupt, RxSkipByte, RxByte, RxEndBreak, RxEndIdle,
         RxEndBytes, RxEnd, TakeByte, DriverLine, LineBreak, LineByte, LineIdle, LineBusy
    <2> QED
      BY <1>3, <2>1 DEF txVars, WireInv
  <1>9. CASE StartInput \/ DriverStop \/ TxBreak
    BY <1>1, <1>9 DEF StartInput, DriverStop, TxBreak, StopTransmitter
  <1>10. CASE UartTick \/ UNCHANGED drvVars
    BY <1>2, <1>10 DEF UartTick, drvVars
  <1>11. CASE TxBreakSent \/ TxIdle
    BY <1>3, <1>11 DEF TxBreakSent, TxIdle
  <1> QED
    BY <1>4, <1>5, <1>6, <1>7, <1>8, <1>9, <1>10, <1>11
    DEF DriverNext, DriverMain, DriverTx

\* A packet that is sent is the start code and all the slots in their order.
THEOREM PacketsAreSentWhole == DriverSpec => PacketsAreWhole
  <1> DEFINE Inv == WireInv /\ ReceiverOK
  <1>1. DriverInit => Inv
    BY ReceiverInit DEF DriverInit, WireInv
  <1>2. Inv /\ [DriverNext]_drvVars => Inv'
    BY WireNext, ReceiverNext
  <1>3. Inv /\ [DriverNext]_drvVars =>
          [/\ \A i \in DOMAIN wire' : wire'[i] = i - 1
           /\ drvStatus' = "output" /\ sendState = "data" /\ sendState' = "idle"
                 => Len(wire') = slots + 1]_drvVars
    BY WireNext DEF WireInv
  <1> HIDE DEF Inv
  <1> QED
    BY <1>1, <1>2, <1>3, PTL DEF DriverSpec, PacketsAreWhole

-----------------------------------------------------------------------------
(* The driver sends: the baud rate *)

Transmitters == [baud : {"break", "data"}, held : BOOLEAN, shift : Nat, ticked : BOOLEAN]

\* What is left in the shifter, and the interrupts counted since, add up to at
\* most the time of a byte: the wait that follows it outlasts it.
WaitsFor(ticks) ==
    uart.shift = 0 \/ uart.shift + idleCount <= ticks + (IF uart.ticked THEN 0 ELSE 1)

BaudInv ==
    /\ uart \in Transmitters /\ idleCount \in Nat
    /\ drvStatus = "output" =>
        /\ sendState \in {"break", "breakSent", "start", "data", "idle"}
        /\ sendState \in {"break", "start"} => uart.shift = 0 /\ ~uart.held
        /\ sendState = "breakSent" =>
              uart.baud = "break" /\ ~uart.held /\ WaitsFor(BreakTicks)
        /\ sendState = "data" => uart.baud = "data" /\ uart.shift <= ByteTicks
        /\ sendState = "idle" =>
              /\ uart.baud = "data" /\ uart.shift <= ByteTicks
              /\ uart.held => idleCount = 0
              /\ ~uart.held => WaitsFor(ByteTicks)

LEMMA TickCounts ==
    /\ BreakTicks \in Nat \ {0} /\ ByteTicks \in Nat \ {0}
    /\ BreakSentWait \in Nat /\ DataEndWait \in Nat
    /\ BreakTicks <= BreakSentWait /\ ByteTicks <= DataEndWait
  BY DriverTiming

\* The fields after a byte is written, after a tick and after an interrupt.
LEMMA WriteFields ==
    ASSUME NEW u \in Transmitters, NEW baud \in {"break", "data"}
    PROVE  /\ Write(u, baud) \in Transmitters
           /\ Write(u, baud).baud = baud /\ ~Write(u, baud).ticked
           /\ u.shift = 0 => /\ Write(u, baud).shift = TicksAt(baud)
                             /\ Write(u, baud).held <=> u.held
           /\ u.shift # 0 => Write(u, baud).shift = u.shift /\ Write(u, baud).held
  <1>1. TicksAt(baud) \in Nat
    BY TickCounts DEF TicksAt
  <1>2. CASE u.shift = 0
    <2> DEFINE n == TicksAt(baud)
    <2> HIDE DEF n
    <2>1. Write(u, baud) = [u EXCEPT !.baud = baud, !.shift = n, !.ticked = FALSE]
      BY <1>2 DEF Write, n
    <2>2. n \in Nat
      BY <1>1 DEF n
    <2>3. /\ Write(u, baud) \in Transmitters /\ Write(u, baud).baud = baud
          /\ ~Write(u, baud).ticked /\ Write(u, baud).shift = n
          /\ Write(u, baud).held <=> u.held
      BY <2>1, <2>2 DEF Transmitters
    <2> QED
      BY <1>2, <2>3 DEF n
  <1>3. CASE u.shift # 0
    BY <1>3 DEF Write, Transmitters
  <1> QED
    BY <1>2, <1>3

LEMMA TickFields ==
    ASSUME uart \in Transmitters, UartTick
    PROVE  /\ uart' \in Transmitters /\ uart'.baud = uart.baud /\ uart'.ticked
           /\ uart.shift = 0 => uart'.shift = 0 /\ (uart'.held <=> uart.held)
           /\ uart.shift # 0 /\ ~uart.held => uart'.shift = uart.shift - 1 /\ ~uart'.held
           /\ uart.held => \/ uart'.held /\ uart'.shift <= uart.shift
                           \/ ~uart'.held /\ uart'.shift = TicksAt(uart.baud)
  <1>1. TicksAt(uart.baud) \in Nat /\ uart.shift \in Nat /\ uart.held \in BOOLEAN
    BY TickCounts DEF TicksAt, Transmitters
  <1>2. CASE uart.shift = 1 /\ uart.held
    <2> DEFINE n == TicksAt(uart.baud)
    <2> HIDE DEF n
    <2>1. uart' = [uart EXCEPT !.shift = n, !.held = FALSE, !.ticked = TRUE] /\ n \in Nat
      BY <1>1, <1>2 DEF UartTick, n
    <2>2. /\ uart' \in Transmitters /\ uart'.baud = uart.baud /\ uart'.ticked
          /\ ~uart'.held /\ uart'.shift = n
      BY <2>1 DEF Transmitters
    <2> QED
      BY <1>2, <2>2 DEF n
  <1>3. CASE ~(uart.shift = 1 /\ uart.held)
    <2> DEFINE n == IF uart.shift = 0 THEN 0 ELSE uart.shift - 1
    <2>1. n \in Nat /\ (uart.shift = 0 => n = 0) /\ (uart.shift # 0 => n = uart.shift - 1)
          /\ n <= uart.shift
      BY <1>1
    <2>2. uart' = [uart EXCEPT !.shift = n, !.ticked = TRUE]
      BY <1>3 DEF UartTick
    <2> HIDE DEF n
    <2>3. /\ uart' \in Transmitters /\ uart'.baud = uart.baud /\ uart'.ticked
          /\ (uart'.held <=> uart.held) /\ uart'.shift = n
      BY <2>1, <2>2 DEF Transmitters
    <2> QED
      BY <2>1, <2>3
  <1> QED
    BY <1>2, <1>3

\* One step keeps the waits, and changes the rate only of an empty shifter.
LEMMA BaudNext ==
    ASSUME BaudInv, [DriverNext]_drvVars
    PROVE  /\ BaudInv'
           /\ drvStatus = "output" /\ drvStatus' = "output" /\ uart'.baud # uart.baud
                 => uart.shift = 0 /\ ~uart.held
  <1>t. uart \in Transmitters /\ idleCount \in Nat
    BY DEF BaudInv
  <1>f. /\ uart.shift \in Nat /\ uart.held \in BOOLEAN /\ uart.ticked \in BOOLEAN
        /\ uart.baud \in {"break", "data"}
    BY <1>t DEF Transmitters
  <1>k. TicksAt("break") = BreakTicks /\ TicksAt("data") = ByteTicks
    BY DEF TicksAt
  <1>q. /\ QuietTransmitter \in Transmitters
        /\ [QuietTransmitter EXCEPT !.baud = "break"] \in Transmitters
        /\ [QuietTransmitter EXCEPT !.baud = "break"].shift = 0
        /\ ~[QuietTransmitter EXCEPT !.baud = "break"].held
    BY DEF QuietTransmitter, Transmitters
  <1>1. CASE StartOutput
    BY <1>1, <1>q DEF StartOutput, BaudInv
  <1>2. CASE StartInput \/ DriverStop
    BY <1>2, <1>q DEF StartInput, DriverStop, StopTransmitter, BaudInv
  <1>3. CASE UNCHANGED <<drvStatus, txVars>>
    BY <1>3, <1>t DEF BaudInv, WaitsFor, txVars
  <1>4. CASE UartTick
    <2>1. UNCHANGED <<drvStatus, sendState, idleCount>>
      BY <1>4 DEF UartTick
    <2>2. /\ uart' \in Transmitters /\ uart'.baud = uart.baud /\ uart'.ticked
          /\ uart.shift = 0 => uart'.shift = 0 /\ (uart'.held <=> uart.held)
          /\ uart.shift # 0 /\ ~uart.held => uart'.shift = uart.shift - 1 /\ ~uart'.held
          /\ uart.held => \/ uart'.held /\ uart'.shift <= uart.shift
                          \/ ~uart'.held /\ uart'.shift = TicksAt(uart.baud)
      BY <1>4, <1>t, TickFields
    <2>3. ASSUME drvStatus = "output", sendState \in {"break", "start"}
          PROVE  uart'.shift = 0 /\ ~uart'.held
      BY <2>2, <2>3 DEF BaudInv
    <2>4. ASSUME drvStatus = "output", sendState = "breakSent"
          PROVE  uart'.baud = "break" /\ ~uart'.held /\ WaitsFor(BreakTicks)'
      BY <1>t, <1>f, <2>1, <2>2, <2>4, TickCounts DEF BaudInv, WaitsFor
    <2>5. ASSUME drvStatus = "output", sendState \in {"data", "idle"}
          PROVE  uart'.baud = "data" /\ uart'.shift <= ByteTicks
      <3>1. uart'.shift \in Nat
        BY <2>2 DEF Transmitters
      <3> QED
        BY <1>f, <1>k, <2>2, <2>5, <3>1, TickCounts DEF BaudInv
    <2>6. ASSUME drvStatus = "output", sendState = "idle"
          PROVE  /\ uart'.held => idleCount' = 0
                 /\ ~uart'.held => WaitsFor(ByteTicks)'
      BY <1>t, <1>f, <1>k, <2>1, <2>2, <2>6, TickCounts DEF BaudInv, WaitsFor
    <2> QED
      BY <1>t, <2>1, <2>2, <2>3, <2>4, <2>5, <2>6 DEF BaudInv
  <1>5. ASSUME TxInterrupt
        PROVE  drvStatus = "output" /\ drvStatus' = "output" /\ ~uart.held /\ uart.ticked
    BY <1>5 DEF TxInterrupt
  <1>6. CASE TxBreak
    <2>1. /\ uart' = Write(uart, "break") /\ sendState = "break"
          /\ sendState' = "breakSent" /\ idleCount' = 0
          /\ drvStatus = "output" /\ drvStatus' = "output"
      BY <1>5, <1>6 DEF TxBreak
    <2>2. uart.shift = 0 /\ ~uart.held
      BY <2>1 DEF BaudInv
    <2>3. /\ uart' \in Transmitters /\ uart'.baud = "break" /\ ~uart'.held
          /\ uart'.shift = BreakTicks /\ ~uart'.ticked
      BY <1>t, <1>k, <2>1, <2>2, WriteFields
    <2> QED
      BY <2>1, <2>2, <2>3, TickCounts DEF BaudInv, WaitsFor
  <1>7. ASSUME uart' = [uart EXCEPT !.ticked = FALSE]
        PROVE  /\ uart' \in Transmitters /\ uart'.baud = uart.baud /\ (uart'.held <=> uart.held)
               /\ uart'.shift = uart.shift /\ ~uart'.ticked
    BY <1>7, <1>t DEF Transmitters
  <1>8. CASE TxBreakSent
    <2>1. /\ sendState = "breakSent" /\ idleCount' = idleCount + 1
          /\ sendState' = IF idleCount + 1 > BreakSentWait THEN "start" ELSE "breakSent"
          /\ drvStatus = "output" /\ drvStatus' = "output" /\ ~uart.held /\ uart.ticked
      BY <1>5, <1>8 DEF TxBreakSent
    <2>2. /\ uart' \in Transmitters /\ uart'.baud = uart.baud /\ ~uart'.held
          /\ uart'.shift = uart.shift /\ ~uart'.ticked
      BY <1>7, <1>8, <2>1 DEF TxBreakSent
    <2>3. uart.baud = "break" /\ (uart.shift = 0 \/ uart.shift + idleCount <= BreakTicks)
      BY <1>t, <1>f, <2>1, TickCounts DEF BaudInv, WaitsFor
    <2>4. sendState' = "start" => uart.shift = 0
      BY <1>t, <1>f, <2>1, <2>3, TickCounts
    <2>5. WaitsFor(BreakTicks)'
      BY <1>t, <1>f, <2>1, <2>2, <2>3, TickCounts DEF WaitsFor
    <2> QED
      BY <1>t, <2>1, <2>2, <2>3, <2>4, <2>5 DEF BaudInv
  <1>9. CASE TxStart
    <2>1. /\ uart' = Write(uart, "data") /\ sendState = "start" /\ sendState' = "data"
          /\ idleCount' = idleCount /\ drvStatus = "output" /\ drvStatus' = "output"
      BY <1>5, <1>9 DEF TxStart
    <2>2. uart.shift = 0 /\ ~uart.held
      BY <2>1 DEF BaudInv
    <2>3. /\ uart' \in Transmitters /\ uart'.baud = "data" /\ uart'.shift = ByteTicks
      BY <1>t, <1>k, <2>1, <2>2, WriteFields
    <2> QED
      BY <1>t, <2>1, <2>2, <2>3, TickCounts DEF BaudInv
  <1>10. CASE TxData
    <2>1. /\ uart' = Write(uart, uart.baud) /\ sendState = "data"
          /\ drvStatus = "output" /\ drvStatus' = "output" /\ ~uart.held
          /\ \/ sendState' = "idle" /\ idleCount' = 0
             \/ sendState' = "data" /\ idleCount' = idleCount
      BY <1>5, <1>10 DEF TxData, AfterSlot
    <2>2. uart.baud = "data" /\ uart.shift <= ByteTicks
      BY <2>1 DEF BaudInv
    <2>3. /\ uart' \in Transmitters /\ uart'.baud = "data" /\ ~uart'.ticked
          /\ uart'.shift = ByteTicks \/ uart'.shift = uart.shift
      BY <1>t, <1>k, <2>1, <2>2, WriteFields
    <2>4. uart'.shift <= ByteTicks
      BY <1>f, <2>2, <2>3, TickCounts
    <2>5. idleCount' = 0 => WaitsFor(ByteTicks)'
      BY <1>f, <2>3, <2>4, TickCounts DEF WaitsFor
    <2> QED
      BY <1>t, <2>1, <2>2, <2>3, <2>4, <2>5 DEF BaudInv
  <1>11. CASE TxIdle
    <2>1. /\ sendState = "idle" /\ idleCount' = idleCount + 1
          /\ sendState' = IF idleCount + 1 > DataEndWait THEN "break" ELSE "idle"
          /\ drvStatus = "output" /\ drvStatus' = "output" /\ ~uart.held /\ uart.ticked
      BY <1>5, <1>11 DEF TxIdle
    <2>2. /\ uart' \in Transmitters /\ uart'.baud = uart.baud /\ ~uart'.held
          /\ uart'.shift = uart.shift /\ ~uart'.ticked
      BY <1>7, <1>11, <2>1 DEF TxIdle
    <2>3. /\ uart.baud = "data" /\ uart.shift <= ByteTicks
          /\ uart.shift = 0 \/ uart.shift + idleCount <= ByteTicks
      BY <1>t, <1>f, <2>1, TickCounts DEF BaudInv, WaitsFor
    <2>4. sendState' = "break" => uart.shift = 0
      BY <1>t, <1>f, <2>1, <2>3, TickCounts
    <2>5. WaitsFor(ByteTicks)'
      BY <1>t, <1>f, <2>1, <2>2, <2>3, TickCounts DEF WaitsFor
    <2> QED
      BY <1>t, <2>1, <2>2, <2>3, <2>4, <2>5 DEF BaudInv
  <1>12. CASE DriverRx \/ DriverLine \/ DriverSetFrame \/ UNCHANGED drvVars
    <2>1. UNCHANGED <<drvStatus, txVars>>
      BY <1>12 DEF DriverRx, RxInterrupt, RxSkipByte, RxByte, RxEndBreak, RxEndIdle,
         RxEndBytes, RxEnd, TakeByte, DriverLine, LineBreak, LineByte, LineIdle, LineBusy,
         DriverSetFrame, drvVars, txVars
    <2> QED
      BY <1>3, <2>1
  <1> QED
    BY <1>1, <1>2, <1>4, <1>6, <1>8, <1>9, <1>10, <1>11, <1>12
    DEF DriverNext, DriverMain, DriverTx

\* The baud rate changes only when the last byte has left the shifter.
THEOREM BaudWaitsForTheShifter == DriverSpec => BaudIsStableWhileSending
  <1>1. DriverInit => BaudInv
    BY DEF DriverInit, BaudInv, QuietTransmitter, Transmitters
  <1>2. BaudInv /\ [DriverNext]_drvVars => BaudInv'
    BY BaudNext
  <1>3. BaudInv /\ [DriverNext]_drvVars =>
          [drvStatus = "output" /\ drvStatus' = "output" /\ uart'.baud # uart.baud
              => uart.shift = 0 /\ ~uart.held]_drvVars
    BY BaudNext
  <1> QED
    BY <1>1, <1>2, <1>3, PTL DEF DriverSpec, BaudIsStableWhileSending

-----------------------------------------------------------------------------
(* The driver: types *)

SendTypes ==
    /\ drvStatus \in {"disabled", "output", "input"}
    /\ sendState \in {"break", "breakSent", "start", "data", "idle"}
    /\ nextSend \in 0 .. MaxSlots + 1
    /\ Len(rx.fifo) <= FifoDepth

DriverInv == SendTypes /\ ReceiverOK /\ WireInv /\ BaudInv

\* What one step does to the FIFO.
LEMMA FifoNext ==
    ASSUME ReceiverOK, Len(rx.fifo) <= FifoDepth, [DriverNext]_drvVars
    PROVE  Len(rx'.fifo) <= FifoDepth
  <1>t. rx \in Receivers /\ rx.fifo \in Seq(AllBytes) /\ Len(rx.fifo) \in Nat /\ FifoDepth \in Nat
    BY DriverSizes DEF ReceiverOK, RxTypes, Receivers
  <1>1. CASE rx' = QuietReceiver
    BY <1>1, <1>t, QuietTypes
  <1>2. CASE rx'.fifo = rx.fifo
    BY <1>2
  <1>3. CASE TakeByte
    <2>1. rx.fifo # <<>> /\ rx'.fifo = Tail(rx.fifo)
      BY <1>3, <1>t, TakesByte DEF TakeByte
    <2>2. Len(Tail(rx.fifo)) = Len(rx.fifo) - 1
      BY <1>t, <2>1
    <2> QED
      BY <1>t, <2>1, <2>2
  <1>4. ASSUME NEW c \in (IF packet.bytes = <<>> THEN StartCodes ELSE SlotBytes),
               LineByte(c)
        PROVE  Len(rx'.fifo) <= FifoDepth
    <2>1. c \in AllBytes
      BY DEF AllBytes
    <2>2. CASE Len(rx.fifo) < FifoDepth
      <3>1. rx' = [rx EXCEPT !.fifo = Append(@, c)]
        BY <1>4, <2>2 DEF LineByte
      <3>2. rx'.fifo = Append(rx.fifo, c)
        BY <1>t, <3>1 DEF Receivers
      <3>3. Len(Append(rx.fifo, c)) = Len(rx.fifo) + 1
        BY <1>t, <2>1
      <3> QED
        BY <1>t, <2>2, <3>2, <3>3
    <2>3. CASE ~(Len(rx.fifo) < FifoDepth)
      BY <1>2, <1>4, <2>3 DEF LineByte
    <2> QED
      BY <2>2, <2>3
  <1>5. CASE DriverTx \/ DriverSetFrame \/ StartOutput \/ StartInput \/ DriverStop
    BY <1>1, <1>2, <1>5 DEF DriverTx, UartTick, TxBreak, TxBreakSent, TxStart, TxData, TxIdle,
       TxInterrupt, DriverSetFrame, lineVars, StartOutput, StartInput, DriverStop, StopReceiver
  <1>6. CASE RxInterrupt \/ LineBreak \/ LineIdle \/ RxEndIdle \/ RxEndBytes \/ UNCHANGED drvVars
    BY <1>2, <1>6, <1>t DEF RxInterrupt, LineBreak, LineIdle, RxEndIdle, RxEndBytes, drvVars,
       Receivers
  <1>7. CASE RxEndBreak
    BY <1>1, <1>7 DEF RxEndBreak
  <1>8. CASE RxByte \/ RxSkipByte
    BY <1>3, <1>8 DEF RxByte, RxSkipByte
  <1> QED
    BY <1>4, <1>5, <1>6, <1>7, <1>8 DEF DriverNext, DriverMain, DriverRx, DriverLine

LEMMA SendTypesNext ==
    ASSUME DriverInv, [DriverNext]_drvVars
    PROVE  SendTypes'
  <1>t. SendTypes /\ ReceiverOK /\ WireInv /\ MaxSlots \in Nat
    BY DriverSizes DEF DriverInv
  <1>1. Len(rx'.fifo) <= FifoDepth
    BY <1>t, FifoNext DEF SendTypes
  <1>2. CASE DriverMain
    BY <1>1, <1>2, <1>t DEF SendTypes, DriverMain, StartOutput, StartInput, DriverStop,
       DriverSetFrame, StopTransmitter, txVars
  <1>3. CASE TxData
    <2>1. nextSend \in 1 .. slots /\ slots \in 1 .. MaxSlots /\ nextSend' = nextSend + 1
      BY <1>3, <1>t DEF TxData, WireInv, ReceiverOK, RxTypes
    <2> QED
      BY <1>1, <1>3, <1>t, <2>1 DEF SendTypes, TxData, TxInterrupt, AfterSlot
  <1>4. CASE TxBreak \/ TxBreakSent \/ TxStart \/ TxIdle \/ UartTick
    BY <1>1, <1>4, <1>t DEF SendTypes, TxBreak, TxBreakSent, TxStart, TxIdle, UartTick, TxInterrupt
  <1>5. CASE DriverRx \/ DriverLine \/ UNCHANGED drvVars
    <2>1. UNCHANGED <<drvStatus, txVars>>
      BY <1>5 DEF DriverRx, RxInterrupt, RxSkipByte, RxByte, RxEndBreak, RxEndIdle,
         RxEndBytes, RxEnd, TakeByte, DriverLine, LineBreak, LineByte, LineIdle, LineBusy,
         drvVars, txVars
    <2> QED
      BY <1>1, <1>t, <2>1 DEF SendTypes, txVars
  <1> QED
    BY <1>2, <1>3, <1>4, <1>5 DEF DriverNext, DriverTx

\* Types of the driver: in particular the interrupt never writes a slot behind
\* the buffer, and neither FIFO nor buffer overflows.
THEOREM DriverTypes == DriverSpec => []DriverTypeOK
  <1>1. DriverInit => DriverInv
    BY ReceiverInit, QuietTypes, DriverSizes
    DEF DriverInit, DriverInv, SendTypes, WireInv, BaudInv, QuietTransmitter, Transmitters
  <1>2. DriverInv /\ [DriverNext]_drvVars => DriverInv'
    BY SendTypesNext, ReceiverNext, WireNext, BaudNext DEF DriverInv
  <1>3. DriverInv => DriverTypeOK
    BY DEF DriverInv, SendTypes, ReceiverOK, RxTypes, Receivers, BaudInv, Transmitters,
       DriverTypeOK
  <1> QED
    BY <1>1, <1>2, <1>3, PTL DEF DriverSpec

-----------------------------------------------------------------------------
(* The tool: modes and pins *)

Tools == [mode : {"rx", "tx", "idle"}, serial : {"rx", "tx", "off"},
          direction : {"released", "receive", "transmit"}, sending : BOOLEAN]

\* The sender owns the pins of t.
Owns(t) == /\ (t.serial = "tx" \/ t.direction = "transmit") => t.mode = "tx"
           /\ t.sending => t.serial = "tx" /\ t.direction = "transmit"

ModeInv == tool \in Tools /\ Owns(tool)

LEMMA ReleasedFields ==
  ASSUME NEW t \in Tools
  PROVE  /\ Released(t) \in Tools
         /\ Released(t).serial = "off" /\ Released(t).direction = "released"
         /\ Released(t).mode = t.mode /\ Released(t).sending = t.sending
  BY DEF Released, Tools

LEMMA ForReceiveFields ==
  ASSUME NEW t \in Tools
  PROVE  /\ ForReceive(t) \in Tools
         /\ ForReceive(t).serial = "rx" /\ ForReceive(t).direction = "receive"
  <1>1. Released(t) \in Tools
    BY ReleasedFields
  <1> QED
    BY <1>1 DEF ForReceive, Tools

LEMMA ForTransmitFields ==
  ASSUME NEW t \in Tools
  PROVE  /\ ForTransmit(t) \in Tools
         /\ ForTransmit(t).serial = "tx" /\ ForTransmit(t).direction = "transmit"
         /\ ForTransmit(t).mode = t.mode
  <1>1. Released(t) \in Tools /\ Released(t).mode = t.mode
    BY ReleasedFields
  <1> QED
    BY <1>1 DEF ForTransmit, Tools

\* The modes may be entered from any state of the pins.
LEMMA ModesOwn ==
  ASSUME NEW t \in Tools
  PROVE  /\ EnterRx(t) \in Tools /\ Owns(EnterRx(t))
         /\ EnterIdle(t) \in Tools /\ Owns(EnterIdle(t))
         /\ EnterTx(t) \in Tools /\ Owns(EnterTx(t))
         /\ EnterTx(t).mode = "tx" /\ EnterTx(t).serial = "tx"
         /\ EnterTx(t).direction = "transmit"
         /\ AfterNoise(t) \in Tools /\ Owns(AfterNoise(t))
  <1>1. EnterRx(t) \in Tools /\ Owns(EnterRx(t))
    <2>1. PICK r \in Tools : r = ForReceive(t) /\ r.serial = "rx" /\ r.direction = "receive"
      BY ForReceiveFields
    <2>2. EnterRx(t) = [r EXCEPT !.mode = "rx", !.sending = FALSE]
      BY <2>1 DEF EnterRx
    <2> QED
      BY <2>1, <2>2 DEF Tools, Owns
  <1>2. EnterIdle(t) \in Tools /\ Owns(EnterIdle(t))
    <2>1. PICK r \in Tools : r = Released(t) /\ r.serial = "off" /\ r.direction = "released"
      BY ReleasedFields
    <2>2. EnterIdle(t) = [r EXCEPT !.mode = "idle", !.sending = FALSE]
      BY <2>1 DEF EnterIdle
    <2> QED
      BY <2>1, <2>2 DEF Tools, Owns
  <1>3. /\ EnterTx(t) \in Tools /\ Owns(EnterTx(t))
        /\ EnterTx(t).mode = "tx" /\ EnterTx(t).serial = "tx"
        /\ EnterTx(t).direction = "transmit"
    <2>1. PICK r \in Tools : r = ForTransmit(t) /\ r.serial = "tx" /\ r.direction = "transmit"
      BY ForTransmitFields
    <2>2. EnterTx(t) = [r EXCEPT !.mode = "tx"]
      BY <2>1 DEF EnterTx
    <2> QED
      BY <2>1, <2>2 DEF Tools, Owns
  <1>4. AfterNoise(t) \in Tools /\ Owns(AfterNoise(t))
    <2>1. PICK r \in Tools : r = Released(t) /\ r.serial = "off" /\ r.direction = "released"
      BY ReleasedFields
    <2>2. AfterNoise(t) = [r EXCEPT !.sending = FALSE]
      BY <2>1 DEF AfterNoise
    <2> QED
      BY <2>1, <2>2 DEF Tools, Owns
  <1> QED
    BY <1>1, <1>2, <1>3, <1>4

LEMMA FrameSentFields ==
  ASSUME NEW t \in Tools
  PROVE  /\ FrameSent(t) \in Tools /\ FrameSent(t).serial = "tx"
         /\ FrameSent(t).mode = t.mode /\ FrameSent(t).direction = t.direction
         /\ FrameSent(t).sending = t.sending
  BY DEF FrameSent, Tools

LEMMA ModeInitInv == ToolInit => ModeInv
  BY DEF ToolInit, ModeInv, Tools, Owns

\* One command, poll or change of the line keeps the pins with the mode.
LEMMA ModeNextInv == ModeInv /\ [ToolNext]_toolVars => ModeInv'
  <1> SUFFICES ASSUME ModeInv, [ToolNext]_toolVars
               PROVE  ModeInv'
    OBVIOUS
  <1>t. tool \in Tools /\ Owns(tool)
    BY DEF ModeInv
  <1>u. UNCHANGED tool => ModeInv'
    BY <1>t DEF ModeInv
  <1>1. CASE RxCommand
    BY <1>1, <1>t, ModesOwn DEF RxCommand, ModeInv
  <1>2. CASE TxCommand
    BY <1>2, <1>t, ModesOwn DEF TxCommand, Reconfigured, ModeInv
  <1>3. CASE IdleCommand
    BY <1>3, <1>t, ModesOwn DEF IdleCommand, Reconfigured, ModeInv
  <1>4. CASE StartCommand
    <2>1. PICK r \in Tools : /\ r = EnterTx(tool) /\ r.mode = "tx" /\ r.serial = "tx"
                             /\ r.direction = "transmit"
      BY <1>t, ModesOwn
    <2>2. tool' = [r EXCEPT !.sending = TRUE]
      BY <1>4, <2>1 DEF StartCommand, Reconfigured
    <2> QED
      BY <2>1, <2>2 DEF ModeInv, Tools, Owns
  <1>5. CASE SendCommand
    <2>1. FrameSent(EnterTx(tool)) \in Tools
      BY <1>t, ModesOwn, FrameSentFields
    <2> QED
      BY <1>5, <2>1, ModesOwn DEF SendCommand, Reconfigured, ModeInv
  <1>6. CASE TimingCommand
    <2>1. tool' = ForTransmit(tool) /\ tool.mode = "tx"
      BY <1>6 DEF TimingCommand, Reconfigured
    <2> QED
      BY <1>t, <2>1, ForTransmitFields DEF ModeInv, Owns
  <1>7. CASE NoiseCommand
    BY <1>7, <1>t, ModesOwn DEF NoiseCommand, Reconfigured, ModeInv
  <1>8. CASE PollTx
    <2>1. tool' = FrameSent(tool) /\ tool.mode = "tx" /\ tool.sending
      BY <1>8 DEF PollTx
    <2> QED
      BY <1>t, <2>1, FrameSentFields DEF ModeInv, Owns
  <1>9. CASE StartWait
    <2>1. tool' = tool \/ tool' = EnterRx(tool)
      BY <1>9 DEF StartWait
    <2> QED
      BY <1>t, <1>u, <2>1, ModesOwn DEF ModeInv
  <1>10. CASE LoopPoll \/ WaitPoll \/ WaitTimeout
    BY <1>10, <1>u DEF LoopPoll, WaitPoll, WaitTimeout, Poll
  <1>11. CASE LineMark \/ LineSlot \/ LineLow \/ DmxEdgeIsr
    BY <1>11, <1>u DEF LineMark, LineSlot, LineLow, DmxEdgeIsr, Passes
  <1>12. CASE UNCHANGED toolVars
    BY <1>12, <1>u DEF toolVars
  <1> QED
    BY <1>1, <1>2, <1>3, <1>4, <1>5, <1>6, <1>7, <1>8, <1>9, <1>10, <1>11, <1>12
    DEF ToolNext

\* The tool drives the line of the node under test only in its transmit mode,
\* and its sender never runs on released pins, after any commands.
THEOREM SenderOwns == ToolSpec => []SenderOwnsThePins
  <1>1. ModeInv => SenderOwnsThePins
    BY DEF ModeInv, Owns, SenderOwnsThePins
  <1> QED
    BY <1>1, ModeInitInv, ModeNextInv, PTL DEF ToolSpec

-----------------------------------------------------------------------------
(* The tool: what a wait sees *)

Buffers == {s \in Seq(LineBytes) : Len(s) <= ToolCapacity}
WaitStates == [on : BOOLEAN, polled : BOOLEAN, lag : 0 .. ToolLag]
Analyzers == [on : BOOLEAN, begun : BOOLEAN, bytes : Buffers, quiet : 0 .. ToolIdle]

LineTypes ==
    /\ uartFifo \in Seq(LineBytes)
    /\ analyzer \in Analyzers
    /\ waiting \in WaitStates
    /\ dmxLine \in [low : 0 .. ToolBreak, packet : {0, 1}, next : 0 .. ToolPacket]

InWait == waiting.on /\ waiting.polled

\* From the first poll of a wait on the UART buffer holds the last bytes of
\* the packet on the line, and is empty again before a break ends.
HoldsLatest ==
    /\ Listening \/ (~edgeBreak /\ uartFifo = <<>> /\ ~analyzer.begun)
    /\ Len(uartFifo) <= waiting.lag
    /\ dmxLine.low > 0 => uartFifo = <<>> \/ dmxLine.low + Len(uartFifo) <= waiting.lag
    /\ Len(uartFifo) <= dmxLine.next
    /\ edgeBreak => Len(uartFifo) = dmxLine.next
    /\ \A i \in 1 .. Len(uartFifo) :
          uartFifo[i] = <<dmxLine.packet, (dmxLine.next - Len(uartFifo)) + (i - 1)>>

\* The first bytes of packet p.
Front(bytes, p) == \A i \in 1 .. Len(bytes) : bytes[i] = <<p, i - 1>>

\* A frame begun in the wait is the front of a packet: of the one on the line,
\* which the UART buffer continues, unless the break behind it is not taken yet.
FrameIsFront ==
    analyzer.begun =>
      /\ analyzer.on
      /\ edgeBreak => \E p \in {0, 1} : Front(analyzer.bytes, p)
      /\ ~edgeBreak =>
            /\ Front(analyzer.bytes, dmxLine.packet)
            /\ \/ Len(analyzer.bytes) = ToolCapacity
               \/ Len(analyzer.bytes) + Len(uartFifo) = dmxLine.next

WaitInv ==
    /\ LineTypes
    /\ waiting.on /\ ~waiting.polled => ~analyzer.begun
    /\ InWait => HoldsLatest /\ FrameIsFront
    /\ WaitSeesOnePacket

LEMMA FrontIsOnePacket ==
    ASSUME NEW bytes \in Seq(LineBytes), NEW p \in {0, 1}, Front(bytes, p)
    PROVE  OnePacket(bytes)
  <1>1. DOMAIN bytes = 1 .. Len(bytes)
    OBVIOUS
  <1> QED
    BY <1>1 DEF Front, OnePacket

LEMMA NoFrameType == /\ NoFrame \in Analyzers /\ ~NoFrame.begun /\ ~NoFrame.on
                     /\ NoFrame.bytes = <<>> /\ <<>> \in Buffers
  BY ToolAssumption DEF NoFrame, Analyzers, Buffers

LEMMA LagFields ==
    ASSUME NEW w \in WaitStates, NEW n \in 0 .. ToolLag
    PROVE  /\ [w EXCEPT !.lag = n] \in WaitStates /\ [w EXCEPT !.lag = n].lag = n
           /\ [w EXCEPT !.lag = n].on = w.on /\ [w EXCEPT !.lag = n].polled = w.polled
  <1> DEFINE o == w.on
             p == w.polled
  <1>1. o \in BOOLEAN /\ p \in BOOLEAN
    BY DEF WaitStates
  <1>2. w = [on |-> o, polled |-> p, lag |-> w.lag]
    BY DEF WaitStates
  <1> HIDE DEF o, p
  <1>3. [w EXCEPT !.lag = n] = [on |-> o, polled |-> p, lag |-> n]
    BY <1>2
  <1>4. /\ [w EXCEPT !.lag = n] \in WaitStates /\ [w EXCEPT !.lag = n].lag = n
        /\ [w EXCEPT !.lag = n].on = o /\ [w EXCEPT !.lag = n].polled = p
    BY <1>1, <1>3 DEF WaitStates
  <1> QED
    BY <1>4 DEF o, p

LEMMA PolledFields ==
    ASSUME NEW w \in WaitStates, NEW v, v = [w EXCEPT !.polled = TRUE, !.lag = 0]
    PROVE  v \in WaitStates /\ v.polled /\ v.lag = 0
  <1> DEFINE o == w.on
  <1>1. o \in BOOLEAN /\ 0 \in 0 .. ToolLag
    BY ToolAssumption DEF WaitStates
  <1>2. v = [on |-> o, polled |-> TRUE, lag |-> 0]
    BY DEF WaitStates
  <1> HIDE DEF o
  <1>3. v \in WaitStates
    BY <1>1, <1>2 DEF WaitStates
  <1>4. v.polled /\ v.lag = 0
    BY <1>2
  <1> QED
    BY <1>3, <1>4

LEMMA NewWaits ==
    /\ NotWaiting \in WaitStates /\ ~NotWaiting.on
    /\ [on |-> TRUE, polled |-> FALSE, lag |-> 0] \in WaitStates
    /\ 0 \in 0 .. ToolLag
  BY ToolAssumption DEF WaitStates, NotWaiting

LEMMA Minimum ==
    ASSUME NEW a \in Nat, NEW b \in Nat
    PROVE  Min2(a, b) \in Nat /\ Min2(a, b) <= a /\ Min2(a, b) <= b
           /\ (Min2(a, b) = a \/ Min2(a, b) = b)
  BY DEF Min2

\* A frame takes the bytes of the UART buffer in their order, as many as fit.
LEMMA TakenBytes ==
    ASSUME uartFifo \in Seq(LineBytes), NEW a \in Analyzers
    PROVE  /\ TakeBytes(a) \in Analyzers
           /\ TakeBytes(a).on = a.on /\ TakeBytes(a).begun = a.begun
           /\ a.on =>
                /\ Len(TakeBytes(a).bytes) = Min2(Len(a.bytes) + Len(uartFifo), ToolCapacity)
                /\ \A i \in 1 .. Len(TakeBytes(a).bytes) :
                      TakeBytes(a).bytes[i] = IF i <= Len(a.bytes) THEN a.bytes[i]
                                              ELSE uartFifo[i - Len(a.bytes)]
  <1>a. /\ a.bytes \in Seq(LineBytes) /\ Len(a.bytes) \in Nat /\ Len(a.bytes) <= ToolCapacity
        /\ Len(uartFifo) \in Nat /\ ToolCapacity \in Nat
    BY ToolAssumption DEF Analyzers, Buffers
  <1>1. CASE ~a.on
    BY <1>1 DEF TakeBytes
  <1>2. CASE a.on /\ uartFifo = <<>>
    <2>1. TakeBytes(a) = a /\ Len(uartFifo) = 0
      BY <1>2 DEF TakeBytes
    <2>2. Min2(Len(a.bytes) + Len(uartFifo), ToolCapacity) = Len(a.bytes)
      BY <1>a, <2>1 DEF Min2
    <2> QED
      BY <2>1, <2>2
  <1>3. CASE a.on /\ uartFifo # <<>>
    <2> DEFINE all == a.bytes \o uartFifo
               n == Min2(Len(a.bytes) + Len(uartFifo), ToolCapacity)
               kept == SubSeq(all, 1, n)
    <2>1. TakeBytes(a) = [a EXCEPT !.quiet = 0, !.bytes = kept]
      BY <1>3 DEF TakeBytes
    <2>2. /\ all \in Seq(LineBytes) /\ Len(all) = Len(a.bytes) + Len(uartFifo)
          /\ \A i \in 1 .. Len(a.bytes) + Len(uartFifo) :
                all[i] = IF i <= Len(a.bytes) THEN a.bytes[i] ELSE uartFifo[i - Len(a.bytes)]
      BY <1>a, ConcatProperties
    <2>3. n \in Nat /\ n <= ToolCapacity /\ n <= Len(a.bytes) + Len(uartFifo)
      BY <1>a DEF Min2
    <2>4. \A i \in 1 .. n : all[i] \in LineBytes
      BY <2>2, <2>3
    <2> HIDE DEF all, n
    <2>5. /\ kept \in Seq(LineBytes) /\ Len(kept) = (IF 1 <= n THEN n - 1 + 1 ELSE 0)
          /\ \A i \in 1 .. n - 1 + 1 : kept[i] = all[1 + i - 1]
      BY <2>3, <2>4, SubSeqProperties
    <2>6. Len(kept) = n /\ \A i \in 1 .. n : kept[i] = all[i]
      BY <2>3, <2>5
    <2> HIDE DEF kept
    <2>b. kept \in Buffers
      BY <2>3, <2>5, <2>6 DEF Buffers
    <2>7. /\ TakeBytes(a) \in Analyzers /\ TakeBytes(a).bytes = kept
          /\ TakeBytes(a).on = a.on /\ TakeBytes(a).begun = a.begun
      <3> DEFINE o == a.on
                 g == a.begun
                 q == a.quiet
      <3>1. o \in BOOLEAN /\ g \in BOOLEAN /\ q \in 0 .. ToolIdle /\ 0 \in 0 .. ToolIdle
        BY ToolAssumption DEF Analyzers
      <3>2. a = [on |-> o, begun |-> g, bytes |-> a.bytes, quiet |-> q]
        BY DEF Analyzers
      <3>3. TakeBytes(a) = [on |-> o, begun |-> g, bytes |-> kept, quiet |-> 0]
        BY <2>1, <3>2
      <3> HIDE DEF o, g, q
      <3>4. /\ TakeBytes(a) \in Analyzers /\ TakeBytes(a).bytes = kept
            /\ TakeBytes(a).on = o /\ TakeBytes(a).begun = g
        BY <2>b, <3>1, <3>3 DEF Analyzers
      <3> QED
        BY <3>4 DEF o, g
    <2>8. \A i \in 1 .. n : kept[i] = IF i <= Len(a.bytes) THEN a.bytes[i]
                                      ELSE uartFifo[i - Len(a.bytes)]
      BY <1>a, <2>2, <2>3, <2>6
    <2> QED
      BY <2>6, <2>7, <2>8 DEF n
  <1> QED
    BY <1>1, <1>2, <1>3

\* A poll in a wait: a frame begun in it is the front of the packet on the
\* line, as far as it has been sent or fits.
LEMMA PolledFrame ==
    ASSUME WaitInv
    PROVE  /\ Polled \in Analyzers
           /\ waiting.on /\ Polled.begun =>
                /\ InWait /\ Listening /\ Polled.on /\ Front(Polled.bytes, dmxLine.packet)
                /\ Len(Polled.bytes) = ToolCapacity \/ Len(Polled.bytes) = dmxLine.next
  <1>t. LineTypes
    BY DEF WaitInv
  <1>n. /\ Len(uartFifo) \in Nat /\ dmxLine.next \in Nat /\ ToolCapacity \in Nat
        /\ waiting.on \in BOOLEAN /\ waiting.polled \in BOOLEAN /\ analyzer.begun \in BOOLEAN
    BY <1>t, ToolAssumption DEF LineTypes, Analyzers, Buffers, WaitStates
  <1> DEFINE a == TakeBreak(analyzer)
             b == waiting.on /\ waiting.polled
             front == [NoFrame EXCEPT !.on = TRUE, !.begun = b]
  <1>b. b \in BOOLEAN /\ (b <=> InWait)
    BY <1>n DEF InWait
  <1> HIDE DEF b
  <1>f. /\ front \in Analyzers /\ front.on /\ front.bytes = <<>>
        /\ front.begun = b
    BY <1>b, NoFrameType DEF Analyzers, NoFrame
  <1>e. edgeBreak => a = front
    BY DEF TakeBreak, b
  <1>h. ~edgeBreak => a = analyzer
    BY DEF TakeBreak
  <1>2. Polled = TakeBytes(a)
    BY DEF Polled
  <1> HIDE DEF a, front
  <1>1. a \in Analyzers
    BY <1>t, <1>f, <1>e, <1>h DEF LineTypes
  <1>3. /\ Polled \in Analyzers /\ Polled.on = a.on /\ Polled.begun = a.begun
        /\ a.on =>
             /\ Len(Polled.bytes) = Min2(Len(a.bytes) + Len(uartFifo), ToolCapacity)
             /\ \A i \in 1 .. Len(Polled.bytes) :
                   Polled.bytes[i] = IF i <= Len(a.bytes) THEN a.bytes[i]
                                     ELSE uartFifo[i - Len(a.bytes)]
    BY <1>t, <1>1, <1>2, TakenBytes DEF LineTypes
  <1>4. ASSUME waiting.on, Polled.begun
        PROVE  /\ InWait /\ Listening /\ Polled.on /\ Front(Polled.bytes, dmxLine.packet)
               /\ Len(Polled.bytes) = ToolCapacity \/ Len(Polled.bytes) = dmxLine.next
    <2>0. a.begun
      BY <1>3, <1>4
    <2>1. InWait
      BY <1>4, <1>n, <2>0, <1>b, <1>e, <1>h, <1>f DEF WaitInv, InWait
    <2>2. HoldsLatest /\ FrameIsFront
      BY <2>1 DEF WaitInv
    <2>3. Listening
      BY <2>0, <2>2, <1>h DEF HoldsLatest
    <2> DEFINE m == Len(a.bytes)
               k == Len(uartFifo)
    <2>4. /\ a.on /\ m \in Nat /\ m <= ToolCapacity /\ Front(a.bytes, dmxLine.packet)
          /\ m = ToolCapacity \/ m + k = dmxLine.next
      <3>1. CASE edgeBreak
        <4>1. a.on /\ a.bytes = <<>> /\ Len(<<>>) = 0 /\ k = dmxLine.next
          BY <3>1, <1>e, <1>f, <2>2 DEF HoldsLatest
        <4> QED
          BY <4>1, <1>n DEF Front
      <3>2. CASE ~edgeBreak
        BY <3>2, <1>h, <1>1, <2>0, <2>2 DEF FrameIsFront, Analyzers, Buffers
      <3> QED
        BY <3>1, <3>2
    <2>5. Len(Polled.bytes) = Min2(m + k, ToolCapacity)
      BY <1>3, <2>4
    <2>6. Len(Polled.bytes) = ToolCapacity \/ Len(Polled.bytes) = dmxLine.next
      BY <1>n, <2>4, <2>5 DEF Min2
    <2>7. Len(Polled.bytes) \in Nat /\ Len(Polled.bytes) <= m + k /\ (m = ToolCapacity => Len(Polled.bytes) = m)
      BY <1>n, <2>4, <2>5 DEF Min2
    <2>8. ASSUME NEW i \in 1 .. Len(Polled.bytes)
          PROVE  Polled.bytes[i] = <<dmxLine.packet, i - 1>>
      <3>1. CASE i <= m
        BY <1>3, <2>4, <2>7, <3>1 DEF Front
      <3>2. CASE ~(i <= m)
        <4>1. i - m \in 1 .. k /\ m + k = dmxLine.next
          BY <1>n, <2>4, <2>7, <3>2
        <4>2. uartFifo[i - m] = <<dmxLine.packet, (dmxLine.next - k) + ((i - m) - 1)>>
          BY <2>2, <4>1 DEF HoldsLatest
        <4>3. (dmxLine.next - k) + ((i - m) - 1) = i - 1
          BY <1>n, <2>4, <4>1
        <4> QED
          BY <1>3, <2>4, <3>2, <4>2, <4>3
      <3> QED
        BY <3>1, <3>2
    <2>9. Front(Polled.bytes, dmxLine.packet)
      BY <2>8 DEF Front
    <2> QED
      BY <1>3, <2>1, <2>3, <2>4, <2>6, <2>9
  <1> QED
    BY <1>3, <1>4

LEMMA WaitInit == ToolInit => WaitInv
  <1> SUFFICES ASSUME ToolInit PROVE WaitInv
    OBVIOUS
  <1>1. dmxLine \in [low : 0 .. ToolBreak, packet : {0, 1}, next : 0 .. ToolPacket]
    BY ToolAssumption DEF ToolInit
  <1>2. LineTypes
    BY <1>1, NoFrameType, NewWaits DEF ToolInit, LineTypes
  <1> QED
    BY <1>2, NewWaits DEF ToolInit, WaitInv, InWait, WaitSeesOnePacket

\* A poll finishes no mixture.
LEMMA PollFinishes ==
    ASSUME WaitInv, Poll
    PROVE  WaitSeesOnePacket'
  <1>1. ASSUME analyzer.begun, waiting.on, analyzer.bytes \in Seq(LineBytes)
        PROVE  OnePacket(analyzer.bytes)
    <2>1. FrameIsFront /\ dmxLine.packet \in {0, 1}
      BY <1>1 DEF WaitInv, InWait, LineTypes
    <2>2. \E p \in {0, 1} : Front(analyzer.bytes, p)
      BY <1>1, <2>1 DEF FrameIsFront
    <2> QED
      BY <1>1, <2>2, FrontIsOnePacket
  <1>2. ASSUME Polled.begun, waiting.on
        PROVE  OnePacket(Polled.bytes)
    <2>1. /\ Front(Polled.bytes, dmxLine.packet) /\ dmxLine.packet \in {0, 1}
          /\ Polled.bytes \in Seq(LineBytes)
      BY <1>2, PolledFrame DEF WaitInv, LineTypes, Analyzers, Buffers
    <2> QED
      BY <2>1, FrontIsOnePacket
  <1>3. analyzer.bytes \in Seq(LineBytes) /\ WaitSeesOnePacket
    BY DEF WaitInv, LineTypes, Analyzers, Buffers
  <1>4. \/ waitedFor' = waitedFor
        \/ Finish(analyzer)
        \/ Finish(Polled)
    BY DEF Poll
  <1> QED
    BY <1>1, <1>2, <1>3, <1>4 DEF Finish, WaitSeesOnePacket

\* What the frame is after a poll.
LEMMA PollKeeps ==
    ASSUME WaitInv, Poll, waiting' \in WaitStates,
           waiting'.on => waiting.on /\ waiting'.polled /\ waiting'.lag = 0
    PROVE  WaitInv'
  <1>t. LineTypes
    BY DEF WaitInv
  <1>1. /\ analyzer' = NoFrame \/ analyzer' = Polled
        /\ ~edgeBreak' /\ uartFifo' = <<>> /\ tool' = tool /\ dmxLine' = dmxLine
    BY DEF Poll
  <1>2. LineTypes'
    BY <1>t, <1>1, NoFrameType, PolledFrame DEF LineTypes
  <1>3. WaitSeesOnePacket'
    BY PollFinishes
  <1>4. ASSUME InWait'
        PROVE  HoldsLatest' /\ FrameIsFront'
    <2>1. waiting.on /\ waiting'.lag = 0
      BY <1>4 DEF InWait
    <2>2. Len(<<>>) = 0 /\ dmxLine.next \in Nat
      BY <1>t DEF LineTypes
    <2>3. analyzer'.begun =>
            /\ Listening /\ analyzer'.on /\ Front(analyzer'.bytes, dmxLine.packet)
            /\ Len(analyzer'.bytes) = ToolCapacity \/ Len(analyzer'.bytes) = dmxLine.next
      BY <1>1, <2>1, NoFrameType, PolledFrame
    <2>4. Len(analyzer'.bytes) \in Nat
      BY <1>2 DEF LineTypes, Analyzers, Buffers
    <2>5. Listening' <=> Listening
      BY <1>1 DEF Listening
    <2>6. HoldsLatest'
      BY <1>1, <2>1, <2>2, <2>3, <2>5 DEF HoldsLatest
    <2>7. FrameIsFront'
      BY <1>1, <2>2, <2>3, <2>4 DEF FrameIsFront, Front
    <2> QED
      BY <2>6, <2>7
  <1>5. waiting'.on /\ ~waiting'.polled => ~analyzer'.begun
    OBVIOUS
  <1> QED
    BY <1>2, <1>3, <1>4, <1>5 DEF WaitInv

\* Out of a wait, and before its first poll, only the types are to be kept.
LEMMA OutOfWait ==
    ASSUME WaitInv, LineTypes', ~InWait', waiting'.on => ~analyzer'.begun,
           waitedFor' = waitedFor
    PROVE  WaitInv'
  BY DEF WaitInv, WaitSeesOnePacket

LEMMA CommandKeepsWait ==
    ASSUME WaitInv, ~waiting.on, waiting' = waiting, dmxLine' = dmxLine,
           uartFifo' = <<>> \/ uartFifo' = uartFifo,
           analyzer' = NoFrame \/ analyzer' = analyzer,
           waitedFor' = waitedFor
    PROVE  WaitInv'
  <1>1. LineTypes
    BY DEF WaitInv
  <1>2. <<>> \in Seq(LineBytes)
    OBVIOUS
  <1>3. LineTypes'
    <2>1. uartFifo' \in Seq(LineBytes)
      BY <1>1, <1>2 DEF LineTypes
    <2>2. analyzer' \in Analyzers
      BY <1>1, NoFrameType DEF LineTypes
    <2> QED
      BY <1>1, <2>1, <2>2 DEF LineTypes
  <1> QED
    BY <1>3, OutOfWait DEF InWait

\* Time passes.
LEMMA PassesFields ==
    ASSUME LineTypes, Passes
    PROVE  /\ waiting' \in WaitStates
           /\ waiting'.on = waiting.on /\ waiting'.polled = waiting.polled
           /\ waiting.on => waiting'.lag = waiting.lag + 1 /\ waiting.lag < ToolLag
           /\ analyzer' \in Analyzers
           /\ (analyzer'.on <=> analyzer.on) /\ (analyzer'.begun <=> analyzer.begun)
           /\ analyzer'.bytes = analyzer.bytes
           /\ tool' = tool /\ waitedFor' = waitedFor
  <1>t. waiting \in WaitStates
    BY DEF LineTypes
  <1>1. waiting.lag \in Nat /\ analyzer.quiet \in Nat /\ ToolLag \in Nat /\ ToolIdle \in Nat
    BY <1>t, ToolAssumption DEF LineTypes, Analyzers, WaitStates
  <1>2. ASSUME waiting.on
        PROVE  /\ waiting' \in WaitStates
               /\ waiting'.on = waiting.on /\ waiting'.polled = waiting.polled
               /\ waiting'.lag = waiting.lag + 1 /\ waiting.lag < ToolLag
    <2> DEFINE n == waiting.lag + 1
    <2>1. waiting' = [waiting EXCEPT !.lag = n] /\ n \in 0 .. ToolLag /\ waiting.lag < ToolLag
      BY <1>1, <1>2 DEF Passes
    <2> HIDE DEF n
    <2>2. PICK v \in WaitStates : /\ v = [waiting EXCEPT !.lag = n] /\ v.on = waiting.on
                            /\ v.polled = waiting.polled /\ v.lag = n
      BY <1>t, <2>1, LagFields
    <2>3. waiting' = v
      BY <2>1, <2>2
    <2> QED
      BY <2>1, <2>2, <2>3 DEF n
  <1>3. ASSUME ~waiting.on
        PROVE  waiting' = waiting
    BY <1>3 DEF Passes
  <1>4. /\ analyzer' \in Analyzers
        /\ (analyzer'.on <=> analyzer.on) /\ (analyzer'.begun <=> analyzer.begun)
        /\ analyzer'.bytes = analyzer.bytes
    <2>1. CASE ~analyzer.on
      BY <2>1 DEF Passes, LineTypes
    <2>2. CASE analyzer.on
      <3> DEFINE q == Min2(analyzer.quiet + 1, ToolIdle)
      <3>1. analyzer' = [analyzer EXCEPT !.quiet = q] /\ q \in 0 .. ToolIdle
        BY <1>1, <2>2, Minimum DEF Passes
      <3> HIDE DEF q
      <3> QED
        BY <3>1 DEF LineTypes, Analyzers
    <2> QED
      BY <2>1, <2>2
  <1>5. tool' = tool /\ waitedFor' = waitedFor
    BY DEF Passes
  <1>6. /\ waiting' \in WaitStates
        /\ waiting'.on = waiting.on /\ waiting'.polled = waiting.polled
        /\ waiting.on => waiting'.lag = waiting.lag + 1 /\ waiting.lag < ToolLag
    <2>1. CASE waiting.on
      BY <2>1, <1>2
    <2>2. CASE ~waiting.on
      BY <1>t, <2>2, <1>3
    <2> QED
      BY <2>1, <2>2
  <1> QED
    BY <1>4, <1>5, <1>6

\* Ticks without a byte.
LEMMA QuietTickKeepsWait ==
    ASSUME WaitInv, LineMark \/ LineLow
    PROVE  WaitInv'
  <1>t. LineTypes
    BY DEF WaitInv
  <1>p. Passes /\ uartFifo' = uartFifo /\ edgeBreak' = edgeBreak
    BY DEF LineMark, LineLow
  <1>1. /\ waiting' \in WaitStates
        /\ waiting'.on = waiting.on /\ waiting'.polled = waiting.polled
        /\ waiting.on => waiting'.lag = waiting.lag + 1 /\ waiting.lag < ToolLag
        /\ analyzer' \in Analyzers
        /\ (analyzer'.on <=> analyzer.on) /\ (analyzer'.begun <=> analyzer.begun)
        /\ analyzer'.bytes = analyzer.bytes
        /\ tool' = tool /\ waitedFor' = waitedFor
    BY <1>t, <1>p, PassesFields
  <1>2. /\ dmxLine' \in [low : 0 .. ToolBreak, packet : {0, 1}, next : 0 .. ToolPacket]
        /\ dmxLine'.packet = dmxLine.packet /\ dmxLine'.next = dmxLine.next
        /\ dmxLine'.low = 0 \/ dmxLine'.low = dmxLine.low + 1
    <2>0. dmxLine.low \in Nat /\ ToolBreak \in Nat
      BY <1>t, ToolAssumption DEF LineTypes
    <2>1. CASE LineMark
      BY <1>t, <2>1 DEF LineMark, LineTypes
    <2>2. CASE LineLow
      <3> DEFINE n == dmxLine.low + 1
      <3>1. dmxLine' = [dmxLine EXCEPT !.low = n] /\ n \in 0 .. ToolBreak
        BY <2>0, <2>2 DEF LineLow
      <3> HIDE DEF n
      <3>2. /\ dmxLine' \in [low : 0 .. ToolBreak, packet : {0, 1}, next : 0 .. ToolPacket]
            /\ dmxLine'.packet = dmxLine.packet /\ dmxLine'.next = dmxLine.next
            /\ dmxLine'.low = n
        BY <1>t, <3>1 DEF LineTypes
      <3> QED
        BY <3>2 DEF n
    <2> QED
      BY <2>1, <2>2
  <1>3. LineTypes'
    BY <1>t, <1>p, <1>1, <1>2 DEF LineTypes
  <1>4. CASE ~InWait
    BY <1>1, <1>3, <1>4, OutOfWait DEF WaitInv, InWait
  <1>5. CASE InWait
    <2>1. HoldsLatest /\ FrameIsFront /\ waiting.on
      BY <1>5 DEF WaitInv, InWait
    <2>2. Listening' <=> Listening
      BY <1>1 DEF Listening
    <2>3. waiting.lag \in Nat /\ dmxLine.low \in Nat /\ Len(uartFifo) \in Nat
      BY <1>t, ToolAssumption DEF LineTypes, WaitStates
    <2>4. dmxLine'.low > 0 => uartFifo = <<>> \/ dmxLine'.low + Len(uartFifo) <= waiting'.lag
      BY <1>1, <1>2, <2>1, <2>3 DEF HoldsLatest
    <2>5. Len(uartFifo) <= waiting'.lag
      BY <1>1, <2>1, <2>3 DEF HoldsLatest
    <2>6. HoldsLatest'
      BY <1>p, <1>1, <1>2, <2>1, <2>2, <2>4, <2>5 DEF HoldsLatest
    <2>7. FrameIsFront'
      BY <1>p, <1>1, <1>2, <2>1 DEF FrameIsFront, Front
    <2>8. waiting'.polled
      BY <1>1, <1>5 DEF InWait
    <2> QED
      BY <1>1, <1>3, <2>6, <2>7, <2>8 DEF WaitInv, WaitSeesOnePacket
  <1> QED
    BY <1>4, <1>5

\* A slot: in a wait the UART buffer has room for it.
LEMMA SlotKeepsWait ==
    ASSUME WaitInv, LineSlot
    PROVE  WaitInv'
  <1>t. LineTypes
    BY DEF WaitInv
  <1>p. Passes /\ edgeBreak' = edgeBreak /\ dmxLine.low = 0 /\ dmxLine.next < ToolPacket
    BY DEF LineSlot
  <1>1. /\ waiting' \in WaitStates
        /\ waiting'.on = waiting.on /\ waiting'.polled = waiting.polled
        /\ waiting.on => waiting'.lag = waiting.lag + 1 /\ waiting.lag < ToolLag
        /\ analyzer' \in Analyzers
        /\ (analyzer'.on <=> analyzer.on) /\ (analyzer'.begun <=> analyzer.begun)
        /\ analyzer'.bytes = analyzer.bytes
        /\ tool' = tool /\ waitedFor' = waitedFor
    BY <1>t, <1>p, PassesFields
  <1>n. /\ waiting.lag \in Nat /\ dmxLine.next \in Nat /\ Len(uartFifo) \in Nat
        /\ dmxLine.packet \in {0, 1} /\ ToolPacket \in Nat /\ uartFifo \in Seq(LineBytes)
        /\ Len(analyzer.bytes) \in Nat
        /\ ToolLag \in Nat /\ ToolFifo \in Nat
    BY <1>t, ToolAssumption DEF LineTypes, Analyzers, Buffers, WaitStates
  <1> DEFINE byte == <<dmxLine.packet, dmxLine.next>>
  <1>b. byte \in LineBytes
    BY <1>n, <1>p DEF LineBytes
  <1>2. /\ dmxLine' \in [low : 0 .. ToolBreak, packet : {0, 1}, next : 0 .. ToolPacket]
        /\ dmxLine'.packet = dmxLine.packet /\ dmxLine'.next = dmxLine.next + 1
        /\ dmxLine'.low = 0
    <2> DEFINE n == dmxLine.next + 1
    <2>1. dmxLine' = [dmxLine EXCEPT !.next = n] /\ n \in 0 .. ToolPacket
      BY <1>n, <1>p DEF LineSlot
    <2> HIDE DEF n
    <2>2. /\ dmxLine' \in [low : 0 .. ToolBreak, packet : {0, 1}, next : 0 .. ToolPacket]
          /\ dmxLine'.packet = dmxLine.packet /\ dmxLine'.next = n
          /\ dmxLine'.low = 0
      BY <1>t, <1>p, <2>1 DEF LineTypes
    <2> QED
      BY <2>2 DEF n
  <1>3. /\ uartFifo' \in Seq(LineBytes)
        /\ uartFifo' = IF Listening /\ Len(uartFifo) < ToolFifo
                       THEN Append(uartFifo, byte) ELSE uartFifo
    BY <1>n, <1>b DEF LineSlot
  <1>4. LineTypes'
    BY <1>1, <1>2, <1>3 DEF LineTypes
  <1>5. CASE ~InWait
    BY <1>1, <1>4, <1>5, OutOfWait DEF WaitInv, InWait
  <1>6. CASE InWait
    <2>1. HoldsLatest /\ FrameIsFront /\ waiting.on
      BY <1>6 DEF WaitInv, InWait
    <2>2. Listening' <=> Listening
      BY <1>1 DEF Listening
    <2>3. Len(uartFifo) < ToolFifo
      BY <1>n, <1>1, <2>1, ToolPace DEF HoldsLatest
    <2>8. waiting'.polled
      BY <1>1, <1>6 DEF InWait
    <2>9. HoldsLatest' /\ FrameIsFront'
      <3>1. CASE ~Listening
        <4>1. ~edgeBreak /\ uartFifo = <<>> /\ ~analyzer.begun /\ uartFifo' = <<>> /\ Len(<<>>) = 0
          BY <3>1, <1>3, <2>1 DEF HoldsLatest
        <4>2. HoldsLatest'
          BY <4>1, <1>p, <1>n, <1>1, <1>2, <2>1 DEF HoldsLatest
        <4> QED
          BY <4>1, <4>2, <1>1 DEF FrameIsFront
      <3>2. CASE Listening
        <4>1. /\ uartFifo' = Append(uartFifo, byte) /\ Len(uartFifo') = Len(uartFifo) + 1
              /\ \A i \in 1 .. Len(uartFifo) : uartFifo'[i] = uartFifo[i]
              /\ uartFifo'[Len(uartFifo) + 1] = byte
          BY <3>2, <1>n, <1>b, <1>3, <2>3
        <4>2. /\ Len(uartFifo) <= waiting.lag /\ Len(uartFifo) <= dmxLine.next
              /\ edgeBreak => Len(uartFifo) = dmxLine.next
              /\ \A i \in 1 .. Len(uartFifo) :
                    uartFifo[i] = <<dmxLine.packet, (dmxLine.next - Len(uartFifo)) + (i - 1)>>
          BY <2>1 DEF HoldsLatest
        <4>3. ASSUME NEW i \in 1 .. Len(uartFifo) + 1
              PROVE  uartFifo'[i] = <<dmxLine.packet, ((dmxLine.next + 1) - (Len(uartFifo) + 1)) + (i - 1)>>
          <5>1. (dmxLine.next + 1) - (Len(uartFifo) + 1) = dmxLine.next - Len(uartFifo)
            BY <1>n
          <5>2. CASE i <= Len(uartFifo)
            BY <1>n, <4>1, <4>2, <5>1, <5>2
          <5>3. CASE i = Len(uartFifo) + 1
            <6>1. (dmxLine.next - Len(uartFifo)) + (i - 1) = dmxLine.next
              BY <1>n, <5>3
            <6> QED
              BY <4>1, <5>1, <5>3, <6>1
          <5> QED
            BY <1>n, <5>2, <5>3
        <4>4. /\ Len(uartFifo') <= waiting'.lag /\ Len(uartFifo') <= dmxLine'.next
              /\ edgeBreak' => Len(uartFifo') = dmxLine'.next
          BY <1>p, <1>n, <1>1, <1>2, <2>1, <4>1, <4>2
        <4>5. HoldsLatest'
          BY <3>2, <2>2, <1>2, <4>1, <4>3, <4>4 DEF HoldsLatest
        <4>6. FrameIsFront'
          <5>1. Len(analyzer.bytes) + Len(uartFifo) = dmxLine.next
                   => Len(analyzer.bytes) + Len(uartFifo') = dmxLine'.next
            <6> DEFINE a == Len(analyzer.bytes)
                       b == Len(uartFifo)
                       c == dmxLine.next
            <6>1. a \in Nat /\ b \in Nat /\ c \in Nat
              BY <1>n
            <6>2. Len(uartFifo') = b + 1 /\ dmxLine'.next = c + 1
              BY <1>2, <4>1
            <6> HIDE DEF a, b, c
            <6>3. a + b = c => a + (b + 1) = c + 1
              BY <6>1
            <6> QED
              BY <6>2, <6>3 DEF a, b, c
          <5> QED
            BY <1>p, <1>1, <1>2, <2>1, <5>1 DEF FrameIsFront, Front
        <4> QED
          BY <4>5, <4>6
      <3> QED
        BY <3>1, <3>2
    <2> QED
      BY <1>1, <1>4, <2>8, <2>9 DEF WaitInv, WaitSeesOnePacket
  <1> QED
    BY <1>5, <1>6

\* The end of a break: the wait has emptied the UART buffer during it.
LEMMA EdgeKeepsWait ==
    ASSUME WaitInv, DmxEdgeIsr
    PROVE  WaitInv'
  <1>t. LineTypes
    BY DEF WaitInv
  <1>1. /\ dmxLine.low = ToolBreak
        /\ dmxLine' = [low |-> 0, packet |-> 1 - dmxLine.packet, next |-> 0]
        /\ edgeBreak' = (edgeBreak \/ Listening)
        /\ UNCHANGED <<tool, uartFifo, analyzer, waiting, waitedFor>>
    BY DEF DmxEdgeIsr
  <1>2. LineTypes'
    <2>1. 1 - dmxLine.packet \in {0, 1} /\ 0 \in 0 .. ToolBreak /\ 0 \in 0 .. ToolPacket
      BY <1>t, ToolAssumption DEF LineTypes
    <2> QED
      BY <1>t, <1>1, <2>1 DEF LineTypes
  <1>3. CASE ~InWait
    BY <1>1, <1>2, <1>3, OutOfWait DEF WaitInv, InWait
  <1>4. CASE InWait
    <2>1. HoldsLatest /\ FrameIsFront /\ dmxLine.packet \in {0, 1}
      BY <1>t, <1>4 DEF WaitInv, LineTypes
    <2>2. uartFifo = <<>>
      <3>1. /\ waiting.lag \in Nat /\ waiting.lag <= ToolLag /\ Len(uartFifo) \in Nat
            /\ uartFifo # <<>> => Len(uartFifo) > 0
            /\ ToolBreak \in Nat /\ ToolBreak > 0 /\ ToolLag \in Nat
        BY <1>t, ToolAssumption DEF LineTypes, WaitStates
      <3>2. uartFifo = <<>> \/ ToolBreak + Len(uartFifo) <= waiting.lag
        BY <1>1, <2>1, <3>1 DEF HoldsLatest
      <3> QED
        BY <3>1, <3>2, ToolPace
    <2>3. HoldsLatest'
      <3>1. Len(<<>>) = 0 /\ waiting.lag \in Nat /\ 0 <= waiting.lag
        BY <1>t, ToolAssumption DEF LineTypes, WaitStates
      <3>2. (Listening' <=> Listening) /\ (edgeBreak' <=> edgeBreak \/ Listening)
        BY <1>1 DEF Listening
      <3>3. dmxLine'.low = 0 /\ dmxLine'.next = 0
        BY <1>1
      <3>4. /\ uartFifo' = <<>> /\ waiting' = waiting
            /\ (analyzer'.begun <=> analyzer.begun)
        BY <1>1, <2>2
      <3>5. Listening \/ (~edgeBreak /\ ~analyzer.begun)
        BY <2>1 DEF HoldsLatest
      <3>6. Listening' \/ (~edgeBreak' /\ uartFifo' = <<>> /\ ~analyzer'.begun)
        BY <3>2, <3>4, <3>5
      <3> QED
        BY <3>1, <3>3, <3>4, <3>6 DEF HoldsLatest
    <2>4. FrameIsFront'
      <3>1. CASE ~Listening
        BY <1>1, <2>1, <3>1 DEF HoldsLatest, FrameIsFront
      <3>2. CASE Listening
        BY <1>1, <2>1, <3>2 DEF FrameIsFront, Front
      <3> QED
        BY <3>1, <3>2
    <2> QED
      BY <1>1, <1>2, <1>4, <2>3, <2>4 DEF WaitInv, InWait, WaitSeesOnePacket
  <1> QED
    BY <1>3, <1>4

LEMMA WaitNext == WaitInv /\ [ToolNext]_toolVars => WaitInv'
  <1> SUFFICES ASSUME WaitInv, [ToolNext]_toolVars
               PROVE  WaitInv'
    OBVIOUS
  <1>t. LineTypes
    BY DEF WaitInv
  <1>1. CASE RxCommand
    BY <1>1, CommandKeepsWait DEF RxCommand, Command
  <1>2. CASE TxCommand \/ IdleCommand \/ StartCommand \/ SendCommand \/ TimingCommand
             \/ NoiseCommand
    BY <1>2, CommandKeepsWait DEF TxCommand, IdleCommand, StartCommand, SendCommand,
       TimingCommand, NoiseCommand, Reconfigured, Command
  <1>3. CASE PollTx
    BY <1>3, CommandKeepsWait DEF PollTx, notToolVars
  <1>4. CASE LoopPoll
    BY <1>4, <1>t, PollKeeps DEF LoopPoll, LineTypes
  <1>5. CASE StartWait
    <2>1. /\ waiting' = [on |-> TRUE, polled |-> FALSE, lag |-> 0]
          /\ uartFifo' = <<>> \/ uartFifo' = uartFifo
          /\ analyzer' = NoFrame \/ analyzer' = [analyzer EXCEPT !.begun = FALSE]
          /\ dmxLine' = dmxLine /\ waitedFor' = waitedFor
      BY <1>5 DEF StartWait
    <2>2. analyzer' \in Analyzers /\ ~analyzer'.begun
      BY <1>t, <2>1, NoFrameType DEF LineTypes, Analyzers
    <2>3. LineTypes' /\ ~InWait'
      <3>1. waiting' \in WaitStates /\ ~waiting'.polled
        BY <2>1, NewWaits
      <3>2. uartFifo' \in Seq(LineBytes)
        <4>1. <<>> \in Seq(LineBytes) /\ uartFifo \in Seq(LineBytes)
          BY <1>t DEF LineTypes
        <4> QED
          BY <2>1, <4>1
      <3> QED
        BY <1>t, <2>1, <2>2, <3>1, <3>2 DEF LineTypes, InWait
    <2> QED
      BY <2>1, <2>2, <2>3, OutOfWait
  <1>6. CASE WaitPoll
    <2>1. Poll /\ waiting.on
      BY <1>6 DEF WaitPoll
    <2>a. waiting \in WaitStates
      BY <1>t DEF LineTypes
    <2>b. \/ waiting' = [waiting EXCEPT !.polled = TRUE, !.lag = 0]
          \/ waiting' = NotWaiting
      BY <1>6 DEF WaitPoll
    <2>2. waiting' \in WaitStates /\ (waiting'.on => waiting'.polled /\ waiting'.lag = 0)
      <3>1. CASE waiting' = [waiting EXCEPT !.polled = TRUE, !.lag = 0]
        <4> DEFINE v == [waiting EXCEPT !.polled = TRUE, !.lag = 0]
        <4>1. v \in WaitStates /\ v.polled /\ v.lag = 0
          BY <2>a, PolledFields
        <4> HIDE DEF v
        <4>2. waiting' = v
          BY <3>1 DEF v
        <4> QED
          BY <4>1, <4>2
      <3>2. CASE waiting' = NotWaiting
        BY <3>2, NewWaits
      <3> QED
        BY <2>b, <3>1, <3>2
    <2> QED
      BY <2>1, <2>2, PollKeeps
  <1>7. CASE WaitTimeout
    <2>1. /\ waiting' = NotWaiting /\ waitedFor' = waitedFor
          /\ UNCHANGED <<uartFifo, analyzer, dmxLine>>
      BY <1>7 DEF WaitTimeout
    <2>2. LineTypes' /\ ~InWait' /\ ~waiting'.on
      <3>1. waiting' \in WaitStates /\ ~waiting'.on
        BY <2>1, NewWaits
      <3> QED
        BY <1>t, <2>1, <3>1 DEF LineTypes, InWait
    <2> QED
      BY <2>1, <2>2, OutOfWait
  <1>8. CASE LineMark \/ LineLow
    BY <1>8, QuietTickKeepsWait
  <1>9. CASE LineSlot
    BY <1>9, SlotKeepsWait
  <1>10. CASE DmxEdgeIsr
    BY <1>10, EdgeKeepsWait
  <1>11. CASE UNCHANGED toolVars
    <2>1. /\ waiting' = waiting /\ analyzer' = analyzer /\ uartFifo' = uartFifo
          /\ dmxLine' = dmxLine /\ tool' = tool /\ edgeBreak' = edgeBreak
          /\ waitedFor' = waitedFor
      BY <1>11 DEF toolVars
    <2> QED
      BY <2>1 DEF WaitInv, LineTypes, InWait, HoldsLatest, FrameIsFront, Front, Listening,
         WaitSeesOnePacket
  <1> QED
    BY <1>1, <1>2, <1>3, <1>4, <1>5, <1>6, <1>7, <1>8, <1>9, <1>10, <1>11 DEF ToolNext

\* Whatever the loop missed before the wait command, a frame whose break is
\* taken within the wait holds bytes of one packet only, none missing: for any
\* packets, buffers and breaks, if the wait polls in time (ToolPace).
THEOREM WaitsSeeOnePacket == ToolSpec => []WaitSeesOnePacket
  <1>1. WaitInv => WaitSeesOnePacket
    BY DEF WaitInv
  <1> QED
    BY <1>1, WaitInit, WaitNext, PTL DEF ToolSpec

-----------------------------------------------------------------------------
(* The tool: types *)

Verdicts == {"nothing", "one packet", "a mixture"}

ToolRest == edgeBreak \in BOOLEAN /\ Len(uartFifo) <= ToolFifo /\ waitedFor \in Verdicts

LEMMA ToolRestNext ==
    ASSUME LineTypes, ToolRest, [ToolNext]_toolVars
    PROVE  ToolRest'
  <1>t. uartFifo \in Seq(LineBytes) /\ Len(uartFifo) \in Nat /\ ToolFifo \in Nat
    BY ToolAssumption DEF LineTypes
  <1>e. <<>> \in Seq(LineBytes) /\ Len(<<>>) = 0
    OBVIOUS
  <1>1. CASE /\ edgeBreak' = edgeBreak /\ uartFifo' \in {<<>>, uartFifo}
             /\ waitedFor' = waitedFor
    <2>1. Len(uartFifo') <= ToolFifo
      BY <1>1, <1>t, <1>e DEF ToolRest
    <2>2. edgeBreak' \in BOOLEAN
      BY <1>1, Zenon DEF ToolRest
    <2> QED
      BY <1>1, <2>1, <2>2 DEF ToolRest
  <1>2. CASE Poll
    <2>1. edgeBreak' \in BOOLEAN /\ uartFifo' = <<>>
      BY <1>2, Zenon DEF Poll
    <2>2. waitedFor' \in Verdicts
      <3>1. waitedFor \in Verdicts
        BY DEF ToolRest
      <3>2. ASSUME NEW a, Finish(a)
            PROVE  waitedFor' \in Verdicts
        <4>1. waitedFor' = waitedFor \/ waitedFor' \in Verdicts
          BY <3>2, Zenon DEF Finish, Verdicts
        <4> QED
          BY <3>1, <4>1
      <3>3. Finish(analyzer) \/ Finish(Polled) \/ waitedFor' = waitedFor
        BY <1>2, Zenon DEF Poll
      <3> QED
        BY <3>1, <3>2, <3>3
    <2>3. Len(uartFifo') <= ToolFifo
      BY <1>t, <1>e, <2>1
    <2> QED
      BY <2>1, <2>2, <2>3 DEF ToolRest
  <1>3. CASE LineSlot
    <2>1. UNCHANGED <<edgeBreak, waitedFor>>
      BY <1>3 DEF LineSlot, Passes
    <2> DEFINE byte == <<dmxLine.packet, dmxLine.next>>
    <2>2. byte \in LineBytes
      BY <1>3, ToolAssumption DEF LineSlot, LineTypes, LineBytes
    <2> HIDE DEF byte
    <2>3. Len(Append(uartFifo, byte)) = Len(uartFifo) + 1
      BY <1>t, <2>2
    <2>4. \/ uartFifo' = Append(uartFifo, byte) /\ Len(uartFifo) < ToolFifo
          \/ uartFifo' = uartFifo
      BY <1>3 DEF LineSlot, byte
    <2> QED
      BY <1>t, <2>1, <2>3, <2>4 DEF ToolRest
  <1>4. CASE DmxEdgeIsr
    <2>1. edgeBreak' \in BOOLEAN
      BY <1>4, Zenon DEF DmxEdgeIsr
    <2> QED
      BY <1>4, <2>1 DEF DmxEdgeIsr, ToolRest
  <1>5. CASE LineMark \/ LineLow \/ WaitTimeout \/ PollTx \/ UNCHANGED toolVars
    BY <1>1, <1>5 DEF LineMark, LineLow, WaitTimeout, PollTx, Passes, toolVars, notToolVars
  <1>6. CASE RxCommand \/ TxCommand \/ IdleCommand \/ StartCommand \/ SendCommand
             \/ TimingCommand \/ NoiseCommand \/ StartWait
    BY <1>1, <1>6 DEF RxCommand, TxCommand, IdleCommand, StartCommand, SendCommand,
       TimingCommand, NoiseCommand, StartWait, Reconfigured
  <1> QED
    BY <1>2, <1>3, <1>4, <1>5, <1>6 DEF ToolNext, LoopPoll, WaitPoll

\* Types of the tool: no buffer grows beyond its size, whatever the line sends.
THEOREM ToolTypes == ToolSpec => []ToolTypeOK
  <1> DEFINE Inv == ModeInv /\ WaitInv /\ ToolRest
  <1>1. ToolInit => Inv
    <2>1. ASSUME ToolInit
          PROVE  ToolRest
      <3>1. waitedFor \in Verdicts
        BY <2>1, Zenon DEF ToolInit, Verdicts
      <3>2. edgeBreak \in BOOLEAN /\ uartFifo = <<>>
        BY <2>1, Zenon DEF ToolInit
      <3>3. Len(uartFifo) <= ToolFifo
        BY <3>2, ToolAssumption, QuietTypes
      <3> QED
        BY <3>1, <3>2, <3>3 DEF ToolRest
    <2> QED
      BY <2>1, ModeInitInv, WaitInit
  <1>2. Inv /\ [ToolNext]_toolVars => Inv'
    BY ModeNextInv, WaitNext, ToolRestNext DEF WaitInv
  <1>3. Inv => ToolTypeOK
    <2> SUFFICES ASSUME Inv
                 PROVE  ToolTypeOK
      OBVIOUS
    <2>1. analyzer.bytes \in Buffers /\ analyzer.on \in BOOLEAN /\ analyzer.begun \in BOOLEAN
          /\ analyzer.quiet \in 0 .. ToolIdle
      BY DEF WaitInv, LineTypes, Analyzers
    <2>2. analyzer.bytes \in Seq(LineBytes) /\ Len(analyzer.bytes) <= ToolCapacity
      BY <2>1 DEF Buffers
    <2> QED
      BY <2>1, <2>2, Zenon
      DEF ModeInv, Tools, WaitInv, LineTypes, WaitStates, ToolRest, Verdicts, ToolTypeOK
  <1> HIDE DEF Inv
  <1> QED
    BY <1>1, <1>2, <1>3, PTL DEF ToolSpec

=============================================================================
