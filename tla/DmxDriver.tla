------------------------------ MODULE DmxDriver ------------------------------
(***************************************************************************)
(* The DMX driver of the node (class LX8266DMX): one UART, driven from     *)
(* interrupts.  In output, an interrupt per empty transmit FIFO walks      *)
(* through break, start code and slots and changes the baud rate between   *)
(* them.  In input, an interrupt drains the receive FIFO and then looks at *)
(* the break and idle flags.  The main program starts, stops and exchanges *)
(* frames; it never runs inside an interrupt.                              *)
(*                                                                         *)
(* RDM transactions are not part of the model: the firmware never calls    *)
(* startRDM(), and _rdm_read_handled stays 0.                              *)
(***************************************************************************)
EXTENDS Naturals, Sequences

CONSTANTS
    MaxSlots,         \* DMX_MAX_SLOTS; a packet has one more byte
    MinReceiveSlots,  \* DMX_MIN_RECEIVE_SLOTS
    DataEndWait,      \* interrupts waited for after the last slot
    BreakSentWait,    \* interrupts waited for after the break
    ByteTicks,        \* time a byte needs at the data rate, in interrupts
    BreakTicks,       \* and at the break rate
    FifoDepth,        \* bytes the receive FIFO holds
    StartCodes,       \* start codes on the line: 0 is DMX
    SlotBytes,        \* slot values on the line
    RdmStart          \* RDM_START_CODE

ASSUME DriverSizes ==
    /\ MaxSlots \in Nat \ {0}
    /\ MinReceiveSlots \in 1 .. MaxSlots
    /\ FifoDepth \in Nat \ {0}

\* The waits outlast the byte that is being sent when they begin, which may
\* be joined by one that waits in the FIFO.
ASSUME DriverTiming ==
    /\ DataEndWait \in Nat /\ BreakSentWait \in Nat
    /\ ByteTicks \in 1 .. DataEndWait
    /\ BreakTicks \in 1 .. BreakSentWait

ASSUME DriverBytes ==
    /\ StartCodes \subseteq Nat /\ SlotBytes \subseteq Nat
    /\ 0 \in StartCodes /\ 0 \in SlotBytes
    /\ RdmStart \in StartCodes \ {0}

\* What a stopped or idle half of the driver has left over is never read again
\* and is kept at its initial value.
VARIABLES
    drvStatus,     \* _interrupt_status: "disabled", "output" or "input"
    sendState,     \* _dmx_send_state
    readState,     \* _dmx_read_state: "idle" or "receiving"
    idleCount,     \* _idle_count
    nextSend,      \* _next_send_slot
    packetLength,  \* _packet_length
    slots,         \* _slots
    received,      \* _receivedData up to _next_read_slot
    uart,          \* transmitter: baud rate, held byte, ticks left in the shifter
    rx,            \* receiver: FIFO, break and idle flags, interrupt in service
    packet,        \* the packet on the line since the last break
    before,        \* the packet that break ended
    delivered,     \* what the receive callback was given last, and its packet
    wire           \* slot indices written since the driver's own last break

drvVars == <<drvStatus, sendState, readState, idleCount, nextSend,
             packetLength, slots, received, uart, rx, packet, before,
             delivered, wire>>

txVars == <<sendState, idleCount, nextSend, uart, wire>>
rxVars == <<readState, packetLength, received>>
lineVars == <<rx, packet, before, delivered>>

MaxFrame == MaxSlots + 1
AllBytes == StartCodes \cup SlotBytes

\* A packet on the line and whether the receiver could see it undisturbed.
NoPacket == [bytes |-> <<>>, whole |-> TRUE]
QuietReceiver == [fifo |-> <<>>, brk |-> FALSE, idle |-> FALSE, isr |-> "none"]
QuietTransmitter == [baud |-> "data", held |-> FALSE, shift |-> 0, ticked |-> TRUE]
NothingDelivered == [bytes |-> <<>>, of |-> NoPacket]

DriverInit ==
    /\ drvStatus = "disabled"
    /\ sendState = "idle" /\ readState = "idle"
    /\ idleCount = 0 /\ nextSend = 0
    /\ packetLength = MaxFrame
    /\ slots = MaxSlots
    /\ received = <<>>
    /\ uart = QuietTransmitter
    /\ rx = QuietReceiver
    /\ packet = NoPacket /\ before = NoPacket
    /\ delivered = NothingDelivered
    /\ wire = <<>>

-----------------------------------------------------------------------------
(* The main program.  Interrupts preempt it, so it never sees one in service. *)

MainRuns == rx.isr = "none"

\* stop(): interrupts off.
StopReceiver ==
    /\ readState' = "idle" /\ packetLength' = MaxFrame /\ received' = <<>>
    /\ rx' = QuietReceiver /\ packet' = NoPacket /\ before' = NoPacket
    /\ delivered' = NothingDelivered

StopTransmitter ==
    /\ sendState' = "idle" /\ idleCount' = 0 /\ nextSend' = 0
    /\ uart' = QuietTransmitter /\ wire' = <<>>

DriverStop ==
    /\ MainRuns
    /\ drvStatus # "disabled"
    /\ drvStatus' = "disabled"
    /\ StopReceiver /\ StopTransmitter
    /\ UNCHANGED <<slots>>

\* startOutput(): input is stopped first; a running output goes on.
\* uart_init_tx() flushes the transmit FIFO.
StartOutput ==
    /\ MainRuns
    /\ drvStatus # "output"
    /\ drvStatus' = "output"
    /\ sendState' = "break"
    /\ idleCount' = 0
    /\ uart' = [QuietTransmitter EXCEPT !.baud = "break"]
    /\ StopReceiver
    /\ UNCHANGED <<nextSend, wire, slots>>

\* startInput(): output is stopped first.  uart_init_rx() flushes the receive
\* FIFO and clears the flags; the packet then on the line is met in its middle.
StartInput ==
    /\ MainRuns
    /\ drvStatus # "input"
    /\ drvStatus' = "input"
    /\ StopTransmitter
    /\ readState' = "idle"
    /\ rx' = QuietReceiver
    /\ packet' = [bytes |-> <<>>, whole |-> FALSE]
    /\ UNCHANGED <<packetLength, received, delivered, before, slots>>

\* setFrame() with a whole frame, as the firmware calls it, with interrupts
\* disabled: the frame has all slots and the null start code.
DriverSetFrame ==
    /\ MainRuns
    /\ drvStatus = "output"
    /\ slots' = MaxSlots
    /\ UNCHANGED <<drvStatus, txVars, rxVars, lineVars>>

-----------------------------------------------------------------------------
(* Output: the transmitter and its interrupt. *)

TicksAt(baud) == IF baud = "break" THEN BreakTicks ELSE ByteTicks

\* USF(0) = x.  A byte goes to the shifter if that is free, else it is held.
Write(u, baud) ==
    IF u.shift = 0
    THEN [u EXCEPT !.baud = baud, !.shift = TicksAt(baud), !.ticked = FALSE]
    ELSE [u EXCEPT !.baud = baud, !.held = TRUE, !.ticked = FALSE]

\* Time passes for the shifter; a held byte follows the one that left.
UartTick ==
    /\ uart.shift > 0 \/ ~uart.ticked
    /\ uart' =
        IF uart.shift = 1 /\ uart.held
        THEN [uart EXCEPT !.shift = TicksAt(uart.baud), !.held = FALSE, !.ticked = TRUE]
        ELSE [uart EXCEPT !.shift = IF @ = 0 THEN 0 ELSE @ - 1, !.ticked = TRUE]
    /\ UNCHANGED <<drvStatus, sendState, idleCount, nextSend, wire, slots,
                   rxVars, lineVars>>

\* The FIFO-empty interrupt comes over and over while nothing is held.
TxInterrupt ==
    /\ drvStatus = "output"
    /\ ~uart.held
    /\ uart.ticked
    /\ UNCHANGED <<drvStatus, slots, rxVars, lineVars>>

TxBreak ==
    /\ TxInterrupt
    /\ sendState = "break"
    /\ uart' = Write(uart, "break")
    /\ sendState' = "breakSent"
    /\ idleCount' = 0
    /\ wire' = <<>>
    /\ UNCHANGED nextSend

TxBreakSent ==
    /\ TxInterrupt
    /\ sendState = "breakSent"
    /\ idleCount' = idleCount + 1
    /\ sendState' = IF idleCount + 1 > BreakSentWait THEN "start" ELSE "breakSent"
    /\ uart' = [uart EXCEPT !.ticked = FALSE]
    /\ UNCHANGED <<nextSend, wire>>

TxStart ==
    /\ TxInterrupt
    /\ sendState = "start"
    /\ uart' = Write(uart, "data")
    /\ nextSend' = 1
    /\ wire' = <<0>>
    /\ sendState' = "data"
    /\ UNCHANGED idleCount

\* Variant: the idle count goes on from the break.
AfterSlotStillCounting ==
    sendState' = (IF nextSend + 1 > slots THEN "idle" ELSE "data") /\ UNCHANGED idleCount

\* Variant: the last slot is left out.
AfterSlotBeforeLast ==
    IF nextSend + 1 >= slots
    THEN sendState' = "idle" /\ idleCount' = 0
    ELSE UNCHANGED <<sendState, idleCount>>

\* The slot after the last one ends the packet; the idle count starts again.
AfterSlot ==
    IF nextSend + 1 > slots
    THEN sendState' = "idle" /\ idleCount' = 0
    ELSE UNCHANGED <<sendState, idleCount>>

TxData ==
    /\ TxInterrupt
    /\ sendState = "data"
    /\ uart' = Write(uart, uart.baud)
    /\ nextSend' = nextSend + 1
    /\ wire' = Append(wire, nextSend)
    /\ AfterSlot

TxIdle ==
    /\ TxInterrupt
    /\ sendState = "idle"
    /\ idleCount' = idleCount + 1
    /\ sendState' = IF idleCount + 1 > DataEndWait THEN "break" ELSE "idle"
    /\ uart' = [uart EXCEPT !.ticked = FALSE]
    /\ UNCHANGED <<nextSend, wire>>

-----------------------------------------------------------------------------
(* Input: the line, which does not wait for anybody. *)

LineBusy ==
    /\ drvStatus = "input"
    /\ UNCHANGED <<drvStatus, txVars, rxVars, slots, delivered>>

\* Nothing is promised of a packet that was disturbed; only its length is kept.
Spoiled(p) == [bytes |-> [i \in DOMAIN p.bytes |-> 0], whole |-> FALSE]

\* A break ends one packet and begins the next.
LineBreak ==
    /\ LineBusy
    /\ rx' = [rx EXCEPT !.brk = TRUE]
    /\ before' = IF rx.brk /\ packet.bytes = <<>> THEN before ELSE packet
    /\ packet' = NoPacket

\* A byte.  If the break before it has not been served yet, the receiver takes
\* it for a byte of the packet before; if the FIFO is full it is lost.
LineByte(c) ==
    /\ LineBusy
    /\ Len(packet.bytes) <= MaxFrame
    /\ rx' = IF Len(rx.fifo) < FifoDepth THEN [rx EXCEPT !.fifo = Append(@, c)] ELSE rx
    /\ LET longer == [packet EXCEPT !.bytes = Append(@, c)]
       IN packet' = IF packet.whole /\ ~rx.brk /\ Len(rx.fifo) < FifoDepth
                    THEN longer ELSE Spoiled(longer)
    /\ before' = IF rx.brk THEN Spoiled(before) ELSE before

\* The line was silent for DMX_RX_TIMEOUT_THRESHOLD bit times.
LineIdle ==
    /\ LineBusy
    /\ rx.fifo = <<>>
    /\ ~rx.idle
    /\ packet.bytes # <<>>
    /\ rx' = [rx EXCEPT !.idle = TRUE]
    /\ UNCHANGED <<packet, before>>

-----------------------------------------------------------------------------
(* Input: the interrupt.  The flags are read first, then the FIFO is drained, *)
(* then the flags read are acted on and cleared.                              *)

Flags == IF rx.brk THEN "break" ELSE IF rx.idle THEN "idle" ELSE "bytes"

RxInterrupt ==
    /\ drvStatus = "input"
    /\ rx.isr = "none"
    /\ rx.fifo # <<>> \/ rx.brk \/ rx.idle
    /\ rx' = [rx EXCEPT !.isr = Flags]
    /\ delivered' = NothingDelivered
    /\ UNCHANGED <<drvStatus, txVars, rxVars, packet, before, slots>>

\* packetComplete() with the buffer rb: only a packet with the null start code
\* and more than the minimum is kept and handed to the callback.  An RDM packet
\* goes to a buffer nobody reads.
Keep(rb) == rb[1] = 0 /\ Len(rb) > MinReceiveSlots

Deliver(rb) ==
    IF Keep(rb)
    THEN /\ slots' = Len(rb) - 1
         /\ delivered' = [bytes |-> rb, of |-> IF rx.brk THEN before ELSE packet]
    ELSE UNCHANGED <<slots, delivered>>

\* resetFrame(): wait for the next break.
ResetFrame == readState' = "idle" /\ received' = <<>> /\ packetLength' = MaxFrame

\* What the third byte, the length of an RDM packet, does to the expected length.
LengthAfter(c) ==
    IF Len(received) = 2 /\ received[1] = RdmStart THEN c + 2 ELSE packetLength

\* A start code that is neither DMX nor RDM: the rest is ignored.
Unrecognised == Len(received) = 2 /\ received[1] \notin {0, RdmStart}

\* byteReceived() within the loop that drains the FIFO.
TakeByte ==
    /\ drvStatus = "input"
    /\ rx.isr # "none"
    /\ rx.fifo # <<>>
    /\ rx' = [rx EXCEPT !.fifo = Tail(@)]
    /\ UNCHANGED <<drvStatus, txVars, packet, before>>

RxSkipByte ==
    /\ TakeByte
    /\ readState = "idle"
    /\ UNCHANGED <<rxVars, slots, delivered>>

RxByte ==
    /\ TakeByte
    /\ readState = "receiving"
    /\ LET c == Head(rx.fifo)
           rb == Append(received, c)
       IN CASE Len(rb) > MaxFrame -> Deliver(received) /\ ResetFrame
            [] Len(rb) <= MaxFrame /\ Len(rb) >= LengthAfter(c) -> Deliver(rb) /\ ResetFrame
            [] Len(rb) <= MaxFrame /\ Len(rb) < LengthAfter(c) /\ Unrecognised
                  -> ResetFrame /\ UNCHANGED <<slots, delivered>>
            [] OTHER ->
                  /\ received' = rb
                  /\ packetLength' = LengthAfter(c)
                  /\ UNCHANGED <<readState, slots, delivered>>

\* Variant: the buffer goes on where the packet before ended.
BreakContinues ==
    /\ UNCHANGED <<slots, delivered, received>>
    /\ readState' = "receiving"
    /\ packetLength' = MaxFrame

\* breakReceived(): a DMX packet in progress is complete; a new one begins.
BreakReceived ==
    /\ IF readState = "receiving" /\ Len(received) > 1 /\ received[1] = 0
       THEN Deliver(received)
       ELSE UNCHANGED <<slots, delivered>>
    /\ readState' = "receiving"
    /\ received' = <<>>
    /\ packetLength' = MaxFrame

\* receiveTimeout(): a packet in progress is complete if it has enough bytes.
ReceiveTimeout ==
    IF readState = "receiving" /\ Len(received) > MinReceiveSlots
    THEN Deliver(received) /\ ResetFrame
    ELSE UNCHANGED <<rxVars, slots, delivered>>

\* U0IC = status: only the flags that were read are cleared.  Where both were
\* set the break is the one that is served.
RxEnd(flag) ==
    /\ drvStatus = "input"
    /\ rx.isr = flag
    /\ rx.fifo = <<>>
    /\ UNCHANGED <<drvStatus, txVars, packet>>

RxEndBreak ==
    /\ RxEnd("break")
    /\ BreakReceived
    /\ rx' = QuietReceiver
    /\ before' = NoPacket

RxEndIdle ==
    /\ RxEnd("idle")
    /\ ReceiveTimeout
    /\ rx' = [rx EXCEPT !.isr = "none", !.idle = FALSE]
    /\ UNCHANGED before

RxEndBytes ==
    /\ RxEnd("bytes")
    /\ rx' = [rx EXCEPT !.isr = "none"]
    /\ UNCHANGED <<rxVars, before, slots, delivered>>

-----------------------------------------------------------------------------

DriverMain == StartOutput \/ StartInput \/ DriverStop \/ DriverSetFrame
DriverTx == UartTick \/ TxBreak \/ TxBreakSent \/ TxStart \/ TxData \/ TxIdle
DriverRx == RxInterrupt \/ RxSkipByte \/ RxByte \/ RxEndBreak \/ RxEndIdle \/ RxEndBytes
DriverLine ==
    \/ LineBreak
    \/ \E c \in (IF packet.bytes = <<>> THEN StartCodes ELSE SlotBytes) : LineByte(c)
    \/ LineIdle

DriverNext == DriverMain \/ DriverTx \/ DriverRx \/ DriverLine

DriverSpec == DriverInit /\ [][DriverNext]_drvVars

-----------------------------------------------------------------------------
(* Properties. *)

\* Types.
DriverTypeOK ==
    /\ drvStatus \in {"disabled", "output", "input"}
    /\ sendState \in {"break", "breakSent", "start", "data", "idle"}
    /\ readState \in {"idle", "receiving"}
    /\ idleCount \in Nat
    /\ nextSend \in 0 .. MaxSlots + 1
    /\ packetLength \in Nat
    /\ slots \in 1 .. MaxSlots
    /\ received \in Seq(AllBytes) /\ Len(received) <= MaxFrame
    /\ uart \in [baud : {"break", "data"}, held : BOOLEAN, shift : Nat, ticked : BOOLEAN]
    /\ rx.fifo \in Seq(AllBytes) /\ Len(rx.fifo) <= FifoDepth
    /\ rx.isr \in {"none", "break", "idle", "bytes"}

\* A frame handed to the firmware is the beginning of one packet of the line
\* with the null start code, although packets with others arrive in between:
\* bytes of two packets are never mixed, whatever was stopped, restarted,
\* cut short by an idle line or by a break, as long as the receiver could see
\* that packet undisturbed; and an interrupt that came late across a break
\* spoils no packet but the two it lies between (packetComplete(),
\* breakReceived(), byteReceived()).
DeliveredIsOnePacket ==
    delivered.of.whole =>
        /\ delivered.bytes = <<>> \/ delivered.bytes[1] = 0
        /\ Len(delivered.bytes) <= Len(delivered.of.bytes)
        /\ \A i \in DOMAIN delivered.bytes : delivered.bytes[i] = delivered.of.bytes[i]

\* The interrupt changes the baud rate only when the last byte has left the
\* shifter: neither the end of the packet nor the break is sent at the wrong
\* rate (the waits of txEmptyInterruptHandler()).
BaudIsStableWhileSending ==
    [][drvStatus = "output" /\ drvStatus' = "output" /\ uart'.baud # uart.baud
          => uart.shift = 0 /\ ~uart.held]_drvVars

\* A packet on its way out is the start code and the slots in their order, and
\* it ends after exactly as many slots as the frame has (no slot is skipped and
\* none beyond the buffer is read), even when the frame grows while it is sent.
PacketsAreWhole ==
    [][/\ \A i \in DOMAIN wire' : wire'[i] = i - 1
       /\ drvStatus' = "output" /\ sendState = "data" /\ sendState' = "idle"
             => Len(wire') = slots + 1]_drvVars

=============================================================================
