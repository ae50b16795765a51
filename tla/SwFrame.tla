------------------------------ MODULE SwFrame ------------------------------
(***************************************************************************)
(* One direction of the serial line of uart/sw_serial.h: sw_write drives   *)
(* the line one slot after the other, sw_rx_handler samples it without     *)
(* any signal but the edge that starts it. Both time their steps by        *)
(* counting CPU cycles (WaitBitTime), so what the receiver hears depends   *)
(* on the interrupt's latency, on the cycles the loops add to every wait   *)
(* and on the numbers sw_open computes.                                    *)
(*                                                                         *)
(* "The first byte will wrong, after normal" (line 82): the first handler  *)
(* is later than the others, as what it calls is still to be loaded from   *)
(* flash (getCycleCount, line 74, has no IRAM_ATTR). The receiver is open  *)
(* before the sender here, so that the byte it gets wrong is the 0x00 of   *)
(* the sender's sw_open (line 228, "Initialization uart link").            *)
(*                                                                         *)
(* Time is in cycles and jumps to the next event: the end of the sender's  *)
(* slot or the receiver's next sample (txLeft and rxLeft cycles away).     *)
(***************************************************************************)
EXTENDS Integers

CONSTANTS
    CpuFreq,   \* esp_clk_cpu_freq()
    BaudRates, \* possible parameters of sw_open, the same at both ends
    Inverses,  \* possible parameters of sw_new, the same at both ends
    Values,    \* the bytes that are sent
    FirstLatency, \* possible cycles from the first edge to the handler's first wait
    Latency,   \* the same for every other edge
    TxExtra,   \* possible cycles a slot of sw_write lasts beyond bitTime
    RxExtra,   \* possible cycles a wait of the handler lasts beyond its time
    Gaps       \* possible pauses between two sw_write, in cycles

ASSUME FrameAssumption ==
    /\ CpuFreq \in Nat /\ BaudRates \subseteq Nat \ {0}
    /\ Inverses \subseteq BOOLEAN
    /\ Values \subseteq 0 .. 255
    /\ FirstLatency \subseteq Nat
    /\ Latency \subseteq Nat /\ TxExtra \subseteq Nat /\ RxExtra \subseteq Nat
    /\ TxExtra # {} /\ RxExtra # {}
    /\ Gaps \subseteq Nat

\* sw_open, lines 202-221. 115200 has numbers of its own, found with an
\* oscilloscope; every other rate has those of 9600.
BitTime(rate) == CpuFreq \div rate
StartTime(rate) == IF rate = 115200 THEN BitTime(rate) \div 256 ELSE BitTime(rate) \div 9
EndTime(rate) ==
    IF rate = 115200 THEN (BitTime(rate) * 127) \div 256 ELSE (BitTime(rate) * 8) \div 9

\* What the waits need of the interrupts and the loops: the eight data samples
\* drift neither over the start of their bits nor over the end. (It says nothing
\* of the stop bit.)
ASSUME TimingAssumption ==
    \A rate \in BaudRates, lat \in Latency :
        /\ \A d \in TxExtra : 8 * d < lat + StartTime(rate)
        /\ \A e \in RxExtra : lat + StartTime(rate) + 8 * e < BitTime(rate)

\* The first interrupt comes after the pulse of line 165, and its handler is back
\* before a second frame can start.
ASSUME FirstAssumption ==
    \A rate \in BaudRates, lat \in FirstLatency :
        /\ \A d \in TxExtra : d < lat + StartTime(rate)
        /\ \A e \in RxExtra :
              lat + StartTime(rate) + EndTime(rate) + 9 * e < 2 * BitTime(rate)

VARIABLES
    baudRate, inverse,  \* of both open objects
    phase,    \* the sender: "closed", "opening" with the byte of its sw_open, "open"
    line,     \* the level of the wire
    slot,     \* sw_write's position: 0 start bit, 1..8 data, 9 stop bit, 10 idle
    shift,    \* sw_write's local `byte', shifted right slot by slot
    txLeft,   \* cycles to the end of the slot
    rxPc,     \* the handler's next sample, "idle" outside the handler
    rxBit,    \* data bits sampled
    rec,      \* the handler's local `rec'
    rxLeft,   \* cycles to the next sample
    latency,  \* history: how late the handler last started
    sent,     \* the argument of the last sw_write
    got,      \* the last byte the handler passed to the ring
    heard     \* the last byte sent was passed to the ring

bitTime == BitTime(baudRate)
rx_start_time == StartTime(baudRate)
\* Mutant: two bits until the stop bit is looked at.
rx_end_time_Late == 2 * bitTime
rx_end_time == EndTime(baudRate)

txVars == <<phase, line, slot, shift, txLeft, sent>>
rxVars == <<rxPc, rxBit, rec, rxLeft, latency, got, heard>>
vars == <<baudRate, inverse, txVars, rxVars>>

TypeOK ==
    /\ baudRate \in BaudRates /\ inverse \in Inverses
    /\ phase \in {"closed", "opening", "open"}
    /\ line \in {0, 1} /\ slot \in 0 .. 10 /\ shift \in 0 .. 255
    /\ txLeft \in Nat /\ rxLeft \in Nat
    /\ rxPc \in {"idle", "start", "bits", "stop"} /\ rxBit \in 0 .. 8
    /\ rec \in 0 .. 255 /\ sent \in 0 .. 255 /\ got \in 0 .. 255
    /\ heard \in BOOLEAN /\ latency \in Latency \cup FirstLatency

\* ~byte, for a uint8_t.
Not8(b) == 255 - b

\* sw_new leaves the line at !inverse (line 51), and the handler is enabled.
Init ==
    /\ baudRate \in BaudRates /\ inverse \in Inverses
    /\ phase = "closed"
    /\ line = IF inverse THEN 0 ELSE 1
    /\ slot = 10 /\ shift = 0 /\ txLeft = 0
    /\ rxPc = "idle" /\ rxBit = 0 /\ rec = 0 /\ rxLeft = 0
    /\ latency \in Latency
    /\ sent = 0 /\ got = 0 /\ heard = TRUE

\* What the receiver does when the line goes through the levels from, to after
\* `elapsed' cycles. sw_enableRx asks for the rising edge when invert is set
\* and for the falling one otherwise (line 139); an edge during the handler
\* is forgotten when the handler returns (lines 128-131).
Edge(from, to) == IF inverse THEN from = 0 /\ to = 1 ELSE from = 1 /\ to = 0

LineGoes(edge, elapsed) ==
    IF rxPc = "idle" /\ edge
    THEN /\ rxPc' = "start"
         /\ latency' \in IF phase' = "opening" THEN FirstLatency ELSE Latency
         /\ rxLeft' = latency' + rx_start_time
    ELSE /\ rxPc' = rxPc /\ latency' = latency
         /\ rxLeft' = IF rxPc = "idle" THEN 0 ELSE rxLeft - elapsed

-----------------------------------------------------------------------------
(* sw_write.                                                               *)

\* Lines 155-165: the byte is inverted, the line goes to 1 and to 0.
TxStart(b, gap) ==
    /\ slot = 10
    /\ rxPc # "idle" => gap <= rxLeft
    /\ slot' = 0
    /\ shift' = IF inverse THEN Not8(b) ELSE b
    /\ line' = 0
    /\ \E d \in TxExtra : txLeft' = bitTime + d
    /\ LineGoes(Edge(line, 1) \/ Edge(1, 0), gap)
    /\ sent' = b
    /\ heard' = FALSE
    /\ UNCHANGED <<rxBit, rec, got>>

\* The sender's sw_open, line 228, and what is sent after it.
SwOpen(gap) ==
    /\ phase = "closed" /\ phase' = "opening"
    /\ TxStart(0, gap)

SwWrite(b, gap) ==
    /\ phase # "closed" /\ phase' = "open"
    /\ TxStart(b, gap)

\* The sender's event is the next one.
TxDue == slot < 10 /\ (rxPc # "idle" => txLeft <= rxLeft)

\* Lines 167-175: the data bits, least significant first, and line 178: the
\* stop bit, 1 in both modes.
TxBit ==
    /\ TxDue /\ slot < 9
    /\ phase' = phase
    /\ slot' = slot + 1
    /\ line' = IF slot < 8 THEN shift % 2 ELSE 1
    /\ shift' = IF slot < 8 THEN shift \div 2 ELSE shift
    /\ \E d \in TxExtra : txLeft' = bitTime + d
    /\ LineGoes(Edge(line, line'), txLeft)
    /\ UNCHANGED <<sent, rxBit, rec, got, heard>>

\* The stop bit is over: sw_write returns and the line stays.
TxEnd ==
    /\ TxDue /\ slot = 9
    /\ phase' = phase
    /\ slot' = 10
    /\ txLeft' = 0
    /\ LineGoes(FALSE, txLeft)
    /\ UNCHANGED <<line, shift, sent, rxBit, rec, got, heard>>

-----------------------------------------------------------------------------
(* sw_rx_handler.                                                          *)

\* The receiver's event is the next one.
RxDue == rxPc # "idle" /\ (slot < 10 => rxLeft <= txLeft)

\* The sender is rxLeft cycles closer to the end of its slot.
TxWaits ==
    /\ txLeft' = IF slot < 10 THEN txLeft - rxLeft ELSE 0
    /\ UNCHANGED <<phase, line, slot, shift, sent>>

Wait(cycles) == \E e \in RxExtra : rxLeft' = cycles + e

\* Mutant: one bit and a half to the first sample, as if the handler started
\* at the edge.
RxStart_OneAndHalf ==
    /\ RxDue /\ rxPc = "start"
    /\ IF line = 0 THEN rxPc' = "bits" /\ Wait((3 * bitTime) \div 2)
                   ELSE rxPc' = "idle" /\ rxLeft' = 0
    /\ rxBit' = 0
    /\ rec' = 0
    /\ TxWaits /\ UNCHANGED <<latency, got, heard>>

\* Line 97: the start bit is still there, or the handler returns.
RxStart ==
    /\ RxDue /\ rxPc = "start"
    /\ IF line = 0 THEN rxPc' = "bits" /\ Wait(bitTime)
                   ELSE rxPc' = "idle" /\ rxLeft' = 0
    /\ rxBit' = 0
    /\ rec' = 0
    /\ TxWaits /\ UNCHANGED <<latency, got, heard>>

\* Mutant: the loop takes nine bits.
RxBit_Nine ==
    /\ RxDue /\ rxPc = "bits"
    /\ rec' = rec \div 2 + IF line = 1 THEN 128 ELSE 0
    /\ rxBit' = rxBit + 1
    /\ IF rxBit = 8 THEN rxPc' = "stop" /\ Wait(rx_end_time)
                    ELSE rxPc' = "bits" /\ Wait(bitTime)
    /\ TxWaits /\ UNCHANGED <<latency, got, heard>>

\* Mutant: the sample is put on top before the shift.
RxBit_ShiftLast ==
    /\ RxDue /\ rxPc = "bits"
    /\ rec' = (rec + IF line = 1 THEN 128 ELSE 0) \div 2
    /\ rxBit' = rxBit + 1
    /\ IF rxBit = 7 THEN rxPc' = "stop" /\ Wait(rx_end_time)
                    ELSE rxPc' = "bits" /\ Wait(bitTime)
    /\ TxWaits /\ UNCHANGED <<latency, got, heard>>

\* Lines 99-109: rec >>= 1, and the sampled level on top.
RxBit ==
    /\ RxDue /\ rxPc = "bits"
    /\ rec' = rec \div 2 + IF line = 1 THEN 128 ELSE 0
    /\ rxBit' = rxBit + 1
    /\ IF rxBit = 7 THEN rxPc' = "stop" /\ Wait(rx_end_time)
                    ELSE rxPc' = "bits" /\ Wait(bitTime)
    /\ TxWaits /\ UNCHANGED <<latency, got, heard>>

\* Lines 110-117: with a stop bit of 1 the byte goes to the ring.
RxStop ==
    /\ RxDue /\ rxPc = "stop"
    /\ rxPc' = "idle" /\ rxLeft' = 0
    /\ IF line = 1
       THEN got' = (IF inverse THEN Not8(rec) ELSE rec) /\ heard' = TRUE
       ELSE UNCHANGED <<got, heard>>
    /\ TxWaits /\ UNCHANGED <<latency, rxBit, rec>>

-----------------------------------------------------------------------------

Next ==
    /\ \/ \E gap \in Gaps : SwOpen(gap)
       \/ \E b \in Values, gap \in Gaps : SwWrite(b, gap)
       \/ TxBit \/ TxEnd
       \/ RxStart \/ RxBit \/ RxStop
    /\ UNCHANGED <<baudRate, inverse>>

Spec == Init /\ [][Next]_vars

-----------------------------------------------------------------------------
(* Properties.                                                             *)

\* "After normal" (line 82): from the second byte on, whatever the handler stores
\* is the byte sw_write was called with. Samples that drift over nine bit times
\* never take a neighbour's level, and the late handler of the first byte, which
\* may well store a wrong one, takes nothing from the second.
NoGarble == heard /\ phase # "opening" => got = sent

\* The latencies the waits of lines 207-219 are made for: the stop sample comes
\* after the start of the stop bit.
Calibrated(lat) == \A d \in TxExtra : bitTime + 9 * d < lat + rx_start_time + rx_end_time

\* No frame starts while the handler is still in the one before, with no pause
\* between the frames, and from the second one on a frame whose handler started in
\* time is stored by then. (An inverted line ends every frame at the level that
\* shows no edge: lines 92-93 leave what that takes to the caller.)
EveryFrameHeard ==
    [][slot = 10 /\ slot' = 0
        => /\ rxPc = "idle"
           /\ ~inverse /\ phase # "opening" /\ Calibrated(latency) => heard]_vars

\* From the second frame on, the k-th data sample is taken in the sender's k-th
\* data slot, however the latency and the loops' extra cycles add up.
SampleInSlot ==
    [][phase = "open" /\ rxPc = "bits" /\ rxBit' = rxBit + 1 => slot = rxBit + 1]_vars
=============================================================================
