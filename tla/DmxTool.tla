------------------------------- MODULE DmxTool -------------------------------
(***************************************************************************)
(* The RP2040 test tool of the hardware-in-the-loop fixture                *)
(* (rp2040_dmx_tool.ino): its modes and the pins they drive, the DMX       *)
(* analyzer, in which an edge interrupt flags breaks that the main loop    *)
(* takes before it reads the UART buffer, and the "wait" command, which    *)
(* polls the analyzer by itself until a frame matches.                     *)
(*                                                                         *)
(* One tick is the time of one slot.  A byte is named by its packet and    *)
(* its place in it; packets are numbered modulo 2.  The mark after break   *)
(* is shorter than a tick.  Pulse times, statistics, the display, the      *)
(* auxiliary pins and the pace of the sender are left out.                 *)
(***************************************************************************)
EXTENDS Integers, Sequences

CONSTANTS
  ToolPacket,    \* bytes of a packet on the line, the start code included
  ToolCapacity,  \* DMX_MAX_PACKET_BYTES
  ToolFifo,      \* DMX_UART_RX_BUFFER_SIZE
  ToolBreak,     \* ticks of a break, RX_BREAK_MIN_US or longer
  ToolIdle,      \* RX_FRAME_IDLE_US
  ToolLag        \* bound: ticks between two polls of the wait command

ASSUME ToolAssumption ==
  /\ ToolPacket \in Nat \ {0} /\ ToolCapacity \in Nat \ {0}
  /\ ToolFifo \in Nat \ {0} /\ ToolBreak \in Nat \ {0}
  /\ ToolIdle \in Nat \ {0} /\ ToolLag \in Nat

\* The wait command polls without a pause: it misses neither the gap between
\* two packets nor a byte.
ASSUME ToolPace == ToolLag <= ToolBreak /\ ToolLag <= ToolFifo

VARIABLES
  tool,      \* mode, UART, direction pin and txEnabled
  edgeBreak, \* edgeBreakDetected, set by the interrupt
  uartFifo,  \* bytes Serial1 has received and nobody has read
  analyzer,  \* the frame being received
  waiting,   \* the wait command: running, polled once, ticks since a poll
  dmxLine,   \* the line: ticks it has been low, packet, next byte (external)
  waitedFor   \* history: what the last frame begun and ended within a wait was
              \* made of

toolVars == <<tool, edgeBreak, uartFifo, analyzer, waiting, dmxLine, waitedFor>>
notToolVars == <<edgeBreak, uartFifo, analyzer, waiting, dmxLine, waitedFor>>

LineBytes == {0, 1} \X (0..(ToolPacket - 1))

ToolTypeOK ==
  /\ tool \in [mode : {"rx", "tx", "idle"}, serial : {"rx", "tx", "off"},
               direction : {"released", "receive", "transmit"},
               sending : BOOLEAN]
  /\ edgeBreak \in BOOLEAN
  /\ uartFifo \in Seq(LineBytes) /\ Len(uartFifo) <= ToolFifo
  /\ analyzer.on \in BOOLEAN /\ analyzer.begun \in BOOLEAN
  /\ analyzer.bytes \in Seq(LineBytes) /\ Len(analyzer.bytes) <= ToolCapacity
  /\ analyzer.quiet \in 0..ToolIdle
  /\ waiting \in [on : BOOLEAN, polled : BOOLEAN, lag : 0..ToolLag]
  /\ dmxLine \in [low : 0..ToolBreak, packet : {0, 1}, next : 0..ToolPacket]
  /\ waitedFor \in {"nothing", "one packet", "a mixture"}

NoFrame == [on |-> FALSE, begun |-> FALSE, bytes |-> <<>>, quiet |-> 0]
NotWaiting == [on |-> FALSE, polled |-> FALSE, lag |-> 0]

ToolInit ==
  /\ tool = [mode |-> "idle", serial |-> "off", direction |-> "released",
             sending |-> FALSE]
  /\ edgeBreak = FALSE /\ uartFifo = <<>> /\ analyzer = NoFrame
  /\ waiting = NotWaiting /\ waitedFor = "nothing"
  /\ dmxLine \in [low : {0}, packet : {0}, next : 0..ToolPacket]

---------------------------------------------------------------------------
(* Pins and modes                                                          *)

\* releaseDmxPins(): the edge interrupt is detached, the UART ended, and
\* with it the bytes nobody read are gone.  The break flag stays.
Released(t) == [t EXCEPT !.serial = "off", !.direction = "released"]
ForReceive(t) == [Released(t) EXCEPT !.serial = "rx", !.direction = "receive"]
ForTransmit(t) == [Released(t) EXCEPT !.serial = "tx", !.direction = "transmit"]

Listening == tool.serial = "rx"

EnterRx(t) == [ForReceive(t) EXCEPT !.mode = "rx", !.sending = FALSE]
EnterTx(t) == [ForTransmit(t) EXCEPT !.mode = "tx"]
EnterIdle(t) == [Released(t) EXCEPT !.mode = "idle", !.sending = FALSE]

\* Commands are read between two passes of the loop, never within a wait.
Command == ~waiting.on

\* enterRxMode() also forgets the frame in progress.
RxCommand ==
  /\ Command /\ tool' = EnterRx(tool)
  /\ uartFifo' = <<>> /\ analyzer' = NoFrame
  /\ UNCHANGED <<edgeBreak, waiting, dmxLine, waitedFor>>

Reconfigured(t) == /\ Command /\ tool' = t /\ uartFifo' = <<>>
                   /\ UNCHANGED <<edgeBreak, analyzer, waiting, dmxLine, waitedFor>>

TxCommand == Reconfigured(EnterTx(tool))
IdleCommand == Reconfigured(EnterIdle(tool))
StartCommand == Reconfigured([EnterTx(tool) EXCEPT !.sending = TRUE])

\* sendDmxFrame(): begins the UART again, leaves the direction pin alone.
FrameSent(t) == [t EXCEPT !.serial = "tx"]

\* One frame: the transmit mode, the frame and the idle mode in one command.
SendCommand == Reconfigured(EnterIdle(FrameSent(EnterTx(tool))))

\* "set timing" and "baud" configure the UART again in the transmit mode.
TimingCommand == tool.mode = "tx" /\ Reconfigured(ForTransmit(tool))

\* Variant: the sender is not stopped.
NoiseWhileSending(t) == Released(t)

\* sendLineNoise(): drives the line at random and releases it.  The mode
\* stays, also the receive mode, which is deaf from then on.
AfterNoise(t) == [Released(t) EXCEPT !.sending = FALSE]

NoiseCommand == Reconfigured(AfterNoise(tool))

\* pollTx(), when the next frame is due.
PollTx ==
  /\ ~waiting.on /\ tool.sending /\ tool.mode = "tx"
  /\ tool' = FrameSent(tool)
  /\ UNCHANGED notToolVars

---------------------------------------------------------------------------
(* The analyzer                                                            *)

\* The bytes are a beginning of one packet, none missing and none repeated.
OnePacket(bytes) ==
  \E p \in {0, 1} : \A i \in DOMAIN bytes : bytes[i] = <<p, i - 1>>

Min2(a, b) == IF a < b THEN a ELSE b

\* startAnalyzerFrameFromBreak()
TakeBreak(a) ==
  IF edgeBreak
  THEN [NoFrame EXCEPT !.on = TRUE, !.begun = waiting.on /\ waiting.polled]
  ELSE a

\* pollDmxRxBytes(): bytes outside a frame are dropped, and so are those
\* past the end of the buffer.
TakeBytes(a) ==
  IF ~a.on \/ uartFifo = <<>> THEN a
  ELSE [a EXCEPT !.quiet = 0,
          !.bytes = SubSeq(@ \o uartFifo, 1,
                           Min2(Len(@) + Len(uartFifo), ToolCapacity))]

\* Variant: the bytes are read before the break is taken.
PolledBytesFirst == TakeBreak(TakeBytes(analyzer))

\* The frame after one poll, before the idle gap is looked at.
Polled == TakeBytes(TakeBreak(analyzer))

EndsAtBreak == edgeBreak /\ analyzer.on /\ analyzer.bytes # <<>>
EndsAtGap == Polled.on /\ Polled.bytes # <<>> /\ Polled.quiet = ToolIdle

\* finishAnalyzerFrame(), at the break of the next packet or after a gap.
Finish(a) == waitedFor' = IF ~(a.begun /\ waiting.on) THEN waitedFor
                         ELSE IF OnePacket(a.bytes) THEN "one packet"
                         ELSE "a mixture"

Poll ==
  /\ analyzer' = IF EndsAtGap THEN NoFrame ELSE Polled
  /\ edgeBreak' = FALSE /\ uartFifo' = <<>>
  /\ CASE EndsAtBreak -> Finish(analyzer)
       [] ~EndsAtBreak /\ EndsAtGap -> Finish(Polled)
       [] OTHER -> UNCHANGED waitedFor
  /\ UNCHANGED <<tool, dmxLine>>

\* loop(), in the receive mode only.
LoopPoll == ~waiting.on /\ tool.mode = "rx" /\ Poll /\ UNCHANGED waiting

---------------------------------------------------------------------------
(* The wait command                                                        *)

\* handleJsonWait(): enters the receive mode unless that is the mode already.
\* A frame in progress was not begun within this wait.
StartWait ==
  /\ Command
  /\ waiting' = [on |-> TRUE, polled |-> FALSE, lag |-> 0]
  /\ IF tool.mode = "rx"
     THEN analyzer' = [analyzer EXCEPT !.begun = FALSE] /\ UNCHANGED <<tool, uartFifo>>
     ELSE tool' = EnterRx(tool) /\ uartFifo' = <<>> /\ analyzer' = NoFrame
  /\ UNCHANGED <<edgeBreak, dmxLine, waitedFor>>

\* A frame that has just been finished may be the one waited for.
WaitPoll ==
  /\ waiting.on /\ Poll
  /\ \/ waiting' = [waiting EXCEPT !.polled = TRUE, !.lag = 0]
     \/ (EndsAtBreak \/ EndsAtGap) /\ waiting' = NotWaiting

WaitTimeout ==
  /\ waiting.on /\ waiting' = NotWaiting
  /\ UNCHANGED <<tool, edgeBreak, uartFifo, analyzer, dmxLine, waitedFor>>

---------------------------------------------------------------------------
(* The line                                                                *)

\* Time passes: between two polls of a wait a bounded one.
Passes ==
  /\ waiting.on => waiting.lag < ToolLag
  /\ waiting' = IF waiting.on THEN [waiting EXCEPT !.lag = @ + 1] ELSE waiting
  /\ analyzer' = IF ~analyzer.on THEN analyzer
                 ELSE [analyzer EXCEPT !.quiet = Min2(@ + 1, ToolIdle)]
  /\ UNCHANGED <<tool, waitedFor>>

LineMark == /\ dmxLine.low = 0 /\ Passes
            /\ UNCHANGED <<edgeBreak, uartFifo, dmxLine>>

\* A slot of the packet is complete; the UART drops it when its buffer is full.
LineSlot ==
  /\ dmxLine.low = 0 /\ dmxLine.next < ToolPacket /\ Passes
  /\ dmxLine' = [dmxLine EXCEPT !.next = @ + 1]
  /\ uartFifo' = IF Listening /\ Len(uartFifo) < ToolFifo
                 THEN Append(uartFifo, <<dmxLine.packet, dmxLine.next>>) ELSE uartFifo
  /\ UNCHANGED edgeBreak

\* The line stays low.  At its end the interrupt dmxEdgeIsr() flags a break.
LineLow ==
  /\ dmxLine.low < ToolBreak /\ Passes
  /\ dmxLine' = [dmxLine EXCEPT !.low = @ + 1]
  /\ UNCHANGED <<edgeBreak, uartFifo>>

DmxEdgeIsr ==
  /\ dmxLine.low = ToolBreak
  /\ dmxLine' = [low |-> 0, packet |-> 1 - dmxLine.packet, next |-> 0]
  /\ edgeBreak' = (edgeBreak \/ Listening)
  /\ UNCHANGED <<tool, uartFifo, analyzer, waiting, waitedFor>>

ToolNext ==
  \/ RxCommand
  \/ TxCommand
  \/ IdleCommand
  \/ StartCommand
  \/ SendCommand
  \/ TimingCommand
  \/ NoiseCommand
  \/ PollTx
  \/ LoopPoll
  \/ StartWait
  \/ WaitPoll
  \/ WaitTimeout
  \/ LineMark
  \/ LineSlot
  \/ LineLow
  \/ DmxEdgeIsr

ToolSpec == ToolInit /\ [][ToolNext]_toolVars

---------------------------------------------------------------------------
(* Properties                                                              *)

\* A frame whose break is taken within a wait is made of the bytes of one
\* packet in their order, none of the packet before and none missing from
\* its front, whatever the loop missed before the command ("until a newly
\* received DMX frame matches", rp2040_dmx_tool/README.md).  It holds for
\* frames that begin after the first poll of the wait; the first one may mix
\* what the UART buffer still held.
WaitSeesOnePacket == waitedFor # "a mixture"

\* The tool drives the line only in the transmit mode, and its sender never
\* runs on pins that are released: not after noise, which leaves the mode as
\* it is, nor after any other sequence of commands.
SenderOwnsThePins ==
  /\ (tool.serial = "tx" \/ tool.direction = "transmit") => tool.mode = "tx"
  /\ tool.sending => tool.serial = "tx" /\ tool.direction = "transmit"

=============================================================================
