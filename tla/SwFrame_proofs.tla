--------------------------- MODULE SwFrame_proofs ---------------------------
(***************************************************************************)
(* The frames of the serial line, for every clock, rate, byte and pause,   *)
(* and every latency and overshoot of the loops that TimingAssumption and, *)
(* for the first frame, FirstAssumption admit.                             *)
(***************************************************************************)
EXTENDS SwFrame, TLAPS

\* The data samples are numbered as the slots they belong to: 0 is the look at the
\* start bit, 9 the one at the stop bit.
Sample == CASE rxPc = "start" -> 0 [] rxPc = "bits" -> rxBit + 1 [] OTHER -> 9

\* The handler is in a frame, not at an edge inside one, and in no late one.
InFrame ==
    /\ phase # "opening"
    /\ rxPc \in {"bits", "stop"} \/ (rxPc = "start" /\ slot = 0)

\* How far into its slot a sample is due, when no loop takes longer than its time.
Lead == latency + rx_start_time + IF rxPc = "stop" THEN rx_end_time - bitTime ELSE 0

\* The sample is due in its slot or in the one before, and this far from the slot's
\* end: the sender's slots last at most D longer than a bit, the waits at most E.
Drift(D, E) ==
    InFrame =>
        /\ slot \in {Sample - 1, Sample}
        /\ slot = Sample - 1 =>
             /\ Lead - Sample * D <= rxLeft - txLeft
             /\ rxLeft - txLeft <= Lead + Sample * E
        /\ slot = Sample =>
             /\ Lead - bitTime - (Sample + 1) * D <= rxLeft - txLeft
             /\ rxLeft - txLeft <= Lead - bitTime + Sample * E

Bounds(D, E) ==
    /\ D \in Nat /\ \A d \in TxExtra : d <= D
    /\ E \in Nat /\ \A e \in RxExtra : e <= E

DriftInv == \A D, E \in Nat : Bounds(D, E) => Drift(D, E)

\* A handler that is in no frame looks at the line once, finds no start bit, and
\* does so before the slot ends. Only an inverted line has edges for that.
Spurious ==
    /\ rxPc = "start" /\ phase # "opening"
          => slot < 10 /\ rxLeft < txLeft /\ (slot # 0 => line = 1 /\ inverse)
    /\ slot = 10 => rxPc = "idle"
    /\ ~inverse /\ rxPc = "idle" /\ phase # "opening" => slot \in {8, 9, 10}

\* The late handler is that of the first frame.
Punctual == rxPc # "idle" => latency \in IF phase = "opening" THEN FirstLatency ELSE Latency

\* The first frame: its only edge is that of the start bit, where the handler is
\* called, and whose slot ends before the handler's first data sample.
FirstFrame ==
    /\ phase = "closed" => slot = 10 /\ line = IF inverse THEN 0 ELSE 1
    /\ phase = "opening" =>
         /\ sent = 0
         /\ slot = 0 => rxPc \in {"start", "bits"}
         /\ slot = 0 /\ rxPc = "start" => txLeft < rxLeft + bitTime
         /\ slot = 0 /\ rxPc = "bits" => txLeft < rxLeft

\* How long the handler takes from here to its end, at most, with waits that last
\* at most E longer than they should.
ToCome(E) ==
    rxLeft + CASE rxPc = "start" -> 8 * bitTime + rx_end_time + 9 * E
               [] rxPc = "bits" -> (7 - rxBit) * bitTime + rx_end_time + (8 - rxBit) * E
               [] OTHER -> 0

\* The late handler is back before the first frame is over.
BackInv ==
    \A E \in Nat :
        /\ \A e \in RxExtra : e <= E
        /\ latency + rx_start_time + rx_end_time + 9 * E < 2 * bitTime
        /\ phase = "opening" /\ rxPc # "idle"
        => ToCome(E) < txLeft + (9 - slot) * bitTime

\* 2^i.
Pow == [i \in 0 .. 8 |->
    CASE i = 0 -> 1 [] i = 1 -> 2 [] i = 2 -> 4 [] i = 3 -> 8 [] i = 4 -> 16
      [] i = 5 -> 32 [] i = 6 -> 64 [] i = 7 -> 128 [] OTHER -> 256]

\* The levels of a frame's data bits, as a number.
Payload == IF inverse THEN Not8(sent) ELSE sent

\* The line has the level of the slot, and what is still to be sent is in `shift'.
Sending ==
    /\ slot \in 0 .. 8 => shift = Payload \div Pow[slot]
    /\ slot = 0 => line = 0
    /\ slot \in 1 .. 8 => line = (Payload \div Pow[slot - 1]) % 2
    /\ slot = 9 => line = 1
    /\ slot = 10 => line = 1 \/ inverse

\* What the handler has sampled is on top of `rec'.
Receiving ==
    /\ rxPc = "bits" => rxBit \in 0 .. 7
    /\ rxPc = "bits" /\ phase # "opening" => rec = (Payload % Pow[rxBit]) * Pow[8 - rxBit]
    /\ rxPc = "stop" /\ phase # "opening" => rec = Payload

\* Without an inversion every later frame with a calibrated latency is heard.
Hearing ==
    ~inverse /\ Calibrated(latency) /\ rxPc = "idle" /\ phase # "opening"
        => slot \in {9, 10} /\ heard

Rest ==
    /\ TypeOK /\ Spurious /\ Punctual /\ FirstFrame
    /\ Sending /\ Receiving /\ Hearing /\ NoGarble

IInv == Rest /\ DriftInv /\ BackInv

-----------------------------------------------------------------------------

(* Arithmetic.                                                             *)

LEMMA Times ==
    ASSUME NEW D \in Nat, NEW n \in 0 .. 9
    PROVE  /\ n * D \in Nat /\ n * D <= 9 * D /\ (n + 1) * D = n * D + D
           /\ n <= 8 => n * D <= 8 * D
<1>1. n \in {0, 1, 2, 3, 4, 5, 6, 7, 8, 9}
  BY SMT
<1>2. CASE n = 0
  BY <1>2, SMT
<1>3. CASE n = 1
  BY <1>3, SMT
<1>4. CASE n = 2
  BY <1>4, SMT
<1>5. CASE n = 3
  BY <1>5, SMT
<1>6. CASE n = 4
  BY <1>6, SMT
<1>7. CASE n = 5
  BY <1>7, SMT
<1>8. CASE n = 6
  BY <1>8, SMT
<1>9. CASE n = 7
  BY <1>9, SMT
<1>10. CASE n = 8
  BY <1>10, SMT
<1>11. CASE n = 9
  BY <1>11, SMT
<1> QED BY <1>1, <1>2, <1>3, <1>4, <1>5, <1>6, <1>7, <1>8, <1>9, <1>10, <1>11

LEMMA QuotientIsNat == \A a \in Nat, b \in Nat \ {0} : a \div b \in Nat
  BY SMT

\* The numbers of sw_open, for one rate.
LEMMA Numbers ==
    ASSUME NEW rate \in BaudRates
    PROVE  /\ BitTime(rate) \in Nat /\ StartTime(rate) \in Nat /\ EndTime(rate) \in Nat
           /\ 9 * StartTime(rate) <= BitTime(rate)
           /\ \/ 9 * (StartTime(rate) + 1) > BitTime(rate)
              \/ 256 * EndTime(rate) <= 127 * BitTime(rate)
           /\ 9 * EndTime(rate) <= 8 * BitTime(rate)
<1>1. BitTime(rate) \in Nat
  BY FrameAssumption, QuotientIsNat DEF BitTime
<1>2. DEFINE T == BitTime(rate)
<1> HIDE DEF T
<1>3. \A t \in Nat :
        /\ t \div 256 \in Nat /\ t \div 9 \in Nat
        /\ (t * 127) \div 256 \in Nat /\ (t * 8) \div 9 \in Nat
        /\ 9 * (t \div 256) <= t /\ 9 * (t \div 9) <= t /\ 9 * (t \div 9 + 1) > t
        /\ 256 * ((t * 127) \div 256) <= 127 * t /\ 9 * ((t * 127) \div 256) <= 8 * t
        /\ 9 * ((t * 8) \div 9) <= 8 * t
  BY SMT
<1> QED BY <1>1, <1>3 DEF StartTime, EndTime

\* The largest overshoots that TimingAssumption admits at a rate and a latency.
LEMMA Largest ==
    ASSUME NEW rate \in BaudRates, NEW lat \in Latency
    PROVE  \E D, E \in Nat :
             /\ Bounds(D, E)
             /\ 8 * D < lat + StartTime(rate)
             /\ lat + StartTime(rate) + 8 * E < BitTime(rate)
             /\ EndTime(rate) + E <= BitTime(rate)
<1> DEFINE L == lat + StartTime(rate)
           T == BitTime(rate)
           D == (L - 1) \div 8
           E == (T - L - 1) \div 8
<1>1. /\ L \in Nat /\ T \in Nat /\ TxExtra \subseteq Nat /\ RxExtra \subseteq Nat
      /\ TxExtra # {} /\ RxExtra # {}
      /\ \A d \in TxExtra : 8 * d < L
      /\ \A e \in RxExtra : L + 8 * e < T
  BY Numbers, FrameAssumption, TimingAssumption
<1>2. 0 < L /\ L < T
  <2>1. PICK d \in TxExtra, e \in RxExtra : 8 * d < L /\ L + 8 * e < T /\ d \in Nat /\ e \in Nat
    BY <1>1
  <2> QED BY <2>1, <1>1
<1> HIDE DEF L, T
<1>3. /\ D \in Nat /\ 8 * D < L /\ \A d \in Nat : 8 * d < L => d <= D
      /\ E \in Nat /\ L + 8 * E < T /\ \A e \in Nat : L + 8 * e < T => e <= E
  BY <1>1, <1>2
<1> HIDE DEF D, E
<1>4. Bounds(D, E)
  BY <1>1, <1>3 DEF Bounds
<1>5. EndTime(rate) + E <= T
  <2>1. /\ 9 * (StartTime(rate) + 1) > T \/ 256 * EndTime(rate) <= 127 * T
        /\ 9 * EndTime(rate) <= 8 * T
        /\ StartTime(rate) <= L /\ StartTime(rate) \in Nat /\ EndTime(rate) \in Nat
    BY Numbers, FrameAssumption DEF L, T
  <2> QED BY <2>1, <1>1, <1>3
<1> QED BY <1>3, <1>4, <1>5 DEF L, T

\* The largest overshoot that FirstAssumption admits.
LEMMA LargestFirst ==
    ASSUME NEW rate \in BaudRates, NEW lat \in FirstLatency
    PROVE  \E E \in Nat :
             /\ \A e \in RxExtra : e <= E
             /\ lat + StartTime(rate) + EndTime(rate) + 9 * E < 2 * BitTime(rate)
<1> DEFINE L == lat + StartTime(rate) + EndTime(rate)
           T == 2 * BitTime(rate)
           E == (T - L - 1) \div 9
<1>1. /\ L \in Nat /\ T \in Nat /\ RxExtra \subseteq Nat /\ RxExtra # {}
      /\ \A e \in RxExtra : L + 9 * e < T
  BY Numbers, FrameAssumption, FirstAssumption
<1> HIDE DEF L, T
<1>2. L < T
  <2>1. PICK e \in RxExtra : L + 9 * e < T /\ e \in Nat
    BY <1>1
  <2> QED BY <2>1, <1>1
<1>3. E \in Nat /\ L + 9 * E < T /\ \A e \in Nat : L + 9 * e < T => e <= E
  BY <1>1, <1>2
<1> QED BY <1>1, <1>3 DEF L, T

-----------------------------------------------------------------------------
(* The bits of a byte.                                                     *)

LEMMA Powers ==
    /\ Pow[0] = 1 /\ Pow[1] = 2 /\ Pow[2] = 4 /\ Pow[3] = 8 /\ Pow[4] = 16
    /\ Pow[5] = 32 /\ Pow[6] = 64 /\ Pow[7] = 128 /\ Pow[8] = 256
  BY DEF Pow

LEMMA ShiftStep ==
    ASSUME NEW p \in 0 .. 255, NEW s \in 0 .. 7
    PROVE  (p \div Pow[s]) \div 2 = p \div Pow[s + 1]
<1>1. s \in {0, 1, 2, 3, 4, 5, 6, 7}
  BY SMT
<1>2. CASE s = 0
  <2>1. Pow[s] = 1 /\ Pow[s + 1] = 2
    BY <1>2, Powers
  <2> QED BY <2>1
<1>3. CASE s = 1
  <2>1. Pow[s] = 2 /\ Pow[s + 1] = 4
    BY <1>3, Powers
  <2> QED BY <2>1
<1>4. CASE s = 2
  <2>1. Pow[s] = 4 /\ Pow[s + 1] = 8
    BY <1>4, Powers
  <2> QED BY <2>1
<1>5. CASE s = 3
  <2>1. Pow[s] = 8 /\ Pow[s + 1] = 16
    BY <1>5, Powers
  <2> QED BY <2>1
<1>6. CASE s = 4
  <2>1. Pow[s] = 16 /\ Pow[s + 1] = 32
    BY <1>6, Powers
  <2> QED BY <2>1
<1>7. CASE s = 5
  <2>1. Pow[s] = 32 /\ Pow[s + 1] = 64
    BY <1>7, Powers
  <2> QED BY <2>1
<1>8. CASE s = 6
  <2>1. Pow[s] = 64 /\ Pow[s + 1] = 128
    BY <1>8, Powers
  <2> QED BY <2>1
<1>9. CASE s = 7
  <2>1. Pow[s] = 128 /\ Pow[s + 1] = 256
    BY <1>9, Powers
  <2> QED BY <2>1
<1> QED BY <1>1, <1>2, <1>3, <1>4, <1>5, <1>6, <1>7, <1>8, <1>9

LEMMA SampleStep ==
    ASSUME NEW p \in 0 .. 255, NEW k \in 0 .. 7
    PROVE  /\ ((p % Pow[k]) * Pow[8 - k]) \div 2 + (IF (p \div Pow[k]) % 2 = 1 THEN 128 ELSE 0)
                = (p % Pow[k + 1]) * Pow[8 - (k + 1)]
           /\ (p % Pow[k + 1]) * Pow[8 - (k + 1)] \in 0 .. 255
           /\ k = 7 => (p % Pow[k + 1]) * Pow[8 - (k + 1)] = p
<1> DEFINE r == (p % Pow[k]) * Pow[8 - k]
<1>1. k \in {0, 1, 2, 3, 4, 5, 6, 7}
  BY SMT
<1>2. CASE k = 0
  <2>1. Pow[k] = 1 /\ Pow[8 - k] = 256 /\ Pow[k + 1] = 2 /\ Pow[8 - (k + 1)] = 128
    BY <1>2, Powers
  <2>2. /\ p % 2 = (p % 1) + 1 * ((p \div 1) % 2)
        /\ p % 1 \in 0 .. 0 /\ (p \div 1) % 2 \in {0, 1}
    OBVIOUS
  <2> QED BY <2>1, <2>2, <1>2
<1>3. CASE k = 1
  <2>1. Pow[k] = 2 /\ Pow[8 - k] = 128 /\ Pow[k + 1] = 4 /\ Pow[8 - (k + 1)] = 64
    BY <1>3, Powers
  <2>2. /\ p % 4 = (p % 2) + 2 * ((p \div 2) % 2)
        /\ p % 2 \in 0 .. 1 /\ (p \div 2) % 2 \in {0, 1}
    OBVIOUS
  <2> QED BY <2>1, <2>2, <1>3
<1>4. CASE k = 2
  <2>1. Pow[k] = 4 /\ Pow[8 - k] = 64 /\ Pow[k + 1] = 8 /\ Pow[8 - (k + 1)] = 32
    BY <1>4, Powers
  <2>2. /\ p % 8 = (p % 4) + 4 * ((p \div 4) % 2)
        /\ p % 4 \in 0 .. 3 /\ (p \div 4) % 2 \in {0, 1}
    OBVIOUS
  <2> QED BY <2>1, <2>2, <1>4
<1>5. CASE k = 3
  <2>1. Pow[k] = 8 /\ Pow[8 - k] = 32 /\ Pow[k + 1] = 16 /\ Pow[8 - (k + 1)] = 16
    BY <1>5, Powers
  <2>2. /\ p % 16 = (p % 8) + 8 * ((p \div 8) % 2)
        /\ p % 8 \in 0 .. 7 /\ (p \div 8) % 2 \in {0, 1}
    OBVIOUS
  <2> QED BY <2>1, <2>2, <1>5
<1>6. CASE k = 4
  <2>1. Pow[k] = 16 /\ Pow[8 - k] = 16 /\ Pow[k + 1] = 32 /\ Pow[8 - (k + 1)] = 8
    BY <1>6, Powers
  <2>2. /\ p % 32 = (p % 16) + 16 * ((p \div 16) % 2)
        /\ p % 16 \in 0 .. 15 /\ (p \div 16) % 2 \in {0, 1}
    OBVIOUS
  <2> QED BY <2>1, <2>2, <1>6
<1>7. CASE k = 5
  <2>1. Pow[k] = 32 /\ Pow[8 - k] = 8 /\ Pow[k + 1] = 64 /\ Pow[8 - (k + 1)] = 4
    BY <1>7, Powers
  <2>2. /\ p % 64 = (p % 32) + 32 * ((p \div 32) % 2)
        /\ p % 32 \in 0 .. 31 /\ (p \div 32) % 2 \in {0, 1}
    OBVIOUS
  <2> QED BY <2>1, <2>2, <1>7
<1>8. CASE k = 6
  <2>1. Pow[k] = 64 /\ Pow[8 - k] = 4 /\ Pow[k + 1] = 128 /\ Pow[8 - (k + 1)] = 2
    BY <1>8, Powers
  <2>2. /\ p % 128 = (p % 64) + 64 * ((p \div 64) % 2)
        /\ p % 64 \in 0 .. 63 /\ (p \div 64) % 2 \in {0, 1}
    OBVIOUS
  <2> QED BY <2>1, <2>2, <1>8
<1>9. CASE k = 7
  <2>1. Pow[k] = 128 /\ Pow[8 - k] = 2 /\ Pow[k + 1] = 256 /\ Pow[8 - (k + 1)] = 1
    BY <1>9, Powers
  <2>2. /\ p % 256 = (p % 128) + 128 * ((p \div 128) % 2)
        /\ p % 128 \in 0 .. 127 /\ (p \div 128) % 2 \in {0, 1}
    OBVIOUS
  <2>3. p % 256 = p
    OBVIOUS
  <2>4. r = (p % 128) * 2 /\ r \div 2 = p % 128
    BY <2>1, <2>2
  <2> QED BY <2>1, <2>2, <2>3, <2>4
<1> QED BY <1>1, <1>2, <1>3, <1>4, <1>5, <1>6, <1>7, <1>8, <1>9

LEMMA PayloadIsByte == TypeOK => Payload \in 0 .. 255
  BY DEF TypeOK, Payload, Not8

-----------------------------------------------------------------------------
(* Whose turn it is.                                                       *)

\* The numbers of the open object.
LEMMA Opened ==
    ASSUME TypeOK
    PROVE  /\ bitTime \in Nat /\ rx_start_time \in Nat /\ rx_end_time \in Nat
           /\ latency \in Nat /\ rxLeft \in Int /\ txLeft \in Int
           /\ bitTime > 0
           /\ \A lat \in Latency : lat + rx_start_time < bitTime
  <1>1. \A lat \in Latency : lat \in Nat /\ lat + rx_start_time < bitTime
    <2>1. SUFFICES ASSUME NEW lat \in Latency PROVE lat \in Nat /\ lat + rx_start_time < bitTime
      OBVIOUS
    <2>2. PICK e \in RxExtra :
               /\ e \in Nat /\ lat \in Nat
               /\ lat + StartTime(baudRate) + 8 * e < BitTime(baudRate)
      BY FrameAssumption, TimingAssumption DEF TypeOK
    <2> QED BY <2>2, Numbers DEF TypeOK, bitTime, rx_start_time
  <1>2. latency \in Nat /\ rxLeft \in Int /\ txLeft \in Int
    BY FrameAssumption DEF TypeOK
  <1>3. bitTime \in Nat /\ rx_start_time \in Nat /\ rx_end_time \in Nat
    BY Numbers DEF TypeOK, bitTime, rx_start_time, rx_end_time
  <1>4. bitTime > 0
    <2>1. PICK d \in TxExtra, e \in RxExtra : d \in Nat /\ e \in Nat
      BY FrameAssumption
    <2>2. CASE latency \in Latency
      BY <1>1, <1>2, <1>3, <2>2
    <2>3. CASE latency \in FirstLatency
      <3>1. latency + rx_start_time + rx_end_time + 9 * e < 2 * bitTime
        BY <2>1, <2>3, FirstAssumption DEF TypeOK, bitTime, rx_start_time, rx_end_time
      <3> QED BY <1>2, <1>3, <2>1, <3>1
    <2> QED BY <2>2, <2>3 DEF TypeOK
  <1> QED BY <1>1, <1>2, <1>3, <1>4

\* A sample that is due in its slot comes before the slot's end, and one of a data
\* bit that is due in the next slot after it.
LEMMA Turns ==
    ASSUME IInv, InFrame
    PROVE  /\ Sample \in 0 .. 9
           /\ slot = Sample => rxLeft < txLeft
           /\ slot = Sample - 1 /\ Sample <= 8 => txLeft < rxLeft
<1>1. PICK D, E \in Nat :
         /\ Bounds(D, E)
         /\ 8 * D < latency + rx_start_time
         /\ latency + rx_start_time + 8 * E < bitTime
         /\ rx_end_time + E <= bitTime
  BY Largest DEF IInv, Rest, TypeOK, Punctual, InFrame, bitTime, rx_start_time, rx_end_time
<1>2. Drift(D, E)
  BY <1>1 DEF IInv, DriftInv
<1>3. Sample \in 0 .. 9 /\ (Sample <= 8 <=> rxPc # "stop")
  BY DEF InFrame, Sample, IInv, Rest, Receiving
<1>4. /\ bitTime \in Nat /\ rx_start_time \in Nat /\ rx_end_time \in Nat
      /\ latency \in Nat /\ rxLeft \in Int /\ txLeft \in Int
  BY Opened DEF IInv, Rest
<1> DEFINE n == Sample
<1>5. /\ n * D \in Nat /\ (n <= 8 => n * D <= 8 * D)
      /\ n * E \in Nat /\ n * E <= 9 * E /\ (n <= 8 => n * E <= 8 * E)
  BY <1>3, Times
<1>6. ASSUME slot = n PROVE rxLeft < txLeft
  <2>1. rxLeft - txLeft <= Lead - bitTime + n * E
    BY <1>2, <1>6 DEF Drift
  <2>2. CASE n <= 8
    BY <2>1, <2>2, <1>1, <1>3, <1>4, <1>5 DEF Lead
  <2>3. CASE n > 8
    BY <2>1, <2>3, <1>1, <1>3, <1>4, <1>5 DEF Lead
  <2> QED BY <2>2, <2>3, <1>3
<1>7. ASSUME slot = n - 1, n <= 8 PROVE txLeft < rxLeft
  <2>1. Lead - n * D <= rxLeft - txLeft
    BY <1>2, <1>7 DEF Drift
  <2> QED BY <2>1, <1>7, <1>1, <1>3, <1>4, <1>5 DEF Lead
<1> QED BY <1>3, <1>6, <1>7

\* With a calibrated latency, so does the stop bit's.
LEMMA StopTurn ==
    ASSUME IInv, Calibrated(latency), rxPc = "stop", slot = 8, InFrame
    PROVE  txLeft < rxLeft
<1>1. PICK E \in Nat : \A e \in RxExtra : e <= E
  BY Largest DEF IInv, Rest, TypeOK, Punctual, InFrame, Bounds
<1> DEFINE M == latency + rx_start_time + rx_end_time - bitTime
           D == (M - 1) \div 9
<1>2. /\ bitTime \in Nat /\ rx_start_time \in Nat /\ rx_end_time \in Nat
      /\ latency \in Nat /\ rxLeft \in Int /\ txLeft \in Int
  BY Opened DEF IInv, Rest
<1>3. \A d \in TxExtra : d \in Nat /\ 9 * d < M
  BY <1>2, FrameAssumption DEF Calibrated
<1>4. M \in Nat /\ 0 < M
  <2>1. PICK d \in TxExtra : d \in Nat /\ 9 * d < M
    BY <1>3, FrameAssumption
  <2> QED BY <2>1, <1>2
<1>5. Lead = M /\ Sample = 9 /\ InFrame
  BY <1>2 DEF Lead, Sample
<1> HIDE DEF M
<1>6. D \in Nat /\ 9 * D < M /\ \A d \in Nat : 9 * d < M => d <= D
  BY <1>4
<1> HIDE DEF D
<1>7. Drift(D, E)
  BY <1>1, <1>3, <1>6 DEF IInv, DriftInv, Bounds
<1>8. M - 9 * D <= rxLeft - txLeft
  BY <1>5, <1>7 DEF Drift
<1> QED BY <1>2, <1>4, <1>6, <1>8

-----------------------------------------------------------------------------
(* The late handler of the first frame.                                    *)

LEMMA ToComeIs ==
    ASSUME IInv, rxPc # "idle", NEW E \in Nat
    PROVE  ToCome(E) \in Int /\ rxLeft <= ToCome(E)
<1>1. /\ bitTime \in Nat /\ rx_end_time \in Nat /\ rxLeft \in Nat
      /\ rxPc \in {"start", "bits", "stop"}
  BY Opened DEF IInv, Rest, TypeOK
<1>2. CASE rxPc = "bits"
  <2>1. 7 - rxBit \in 0 .. 9 /\ 8 - rxBit \in 0 .. 9
    BY <1>2 DEF IInv, Rest, Receiving
  <2>2. (7 - rxBit) * bitTime \in Nat /\ (8 - rxBit) * E \in Nat
    BY <1>1, <2>1, Times
  <2> QED BY <1>1, <1>2, <2>2 DEF ToCome
<1>3. CASE rxPc = "start"
  BY <1>1, <1>3 DEF ToCome
<1>4. CASE rxPc = "stop"
  BY <1>1, <1>4 DEF ToCome
<1> QED BY <1>1, <1>2, <1>3, <1>4

LEMMA Returning ==
    ASSUME IInv, phase = "opening", rxPc # "idle"
    PROVE  \E E \in Nat : ToCome(E) < txLeft + (9 - slot) * bitTime /\ rxLeft <= ToCome(E)
<1>1. PICK E \in Nat :
         /\ \A e \in RxExtra : e <= E
         /\ latency + rx_start_time + rx_end_time + 9 * E < 2 * bitTime
  BY LargestFirst DEF IInv, Rest, TypeOK, Punctual, bitTime, rx_start_time, rx_end_time
<1> QED BY <1>1, ToComeIs DEF IInv, BackInv

\* The byte of sw_open is eight times the level of the start bit or, inverted, the
\* other one.
LEMMA OpenLine ==
    ASSUME IInv, phase = "opening", slot \in 1 .. 8
    PROVE  line = IF inverse THEN 1 ELSE 0
<1>1. sent = 0 /\ line = (Payload \div Pow[slot - 1]) % 2
  BY DEF IInv, Rest, FirstFrame, Sending
<1>2. Payload = IF inverse THEN 255 ELSE 0
  BY <1>1 DEF Payload, Not8
<1>3. Pow[slot - 1] \in {1, 2, 4, 8, 16, 32, 64, 128}
  <2>1. slot - 1 \in {0, 1, 2, 3, 4, 5, 6, 7}
    OBVIOUS
  <2> QED BY <2>1, Powers
<1>4. \A p \in {1, 2, 4, 8, 16, 32, 64, 128} : (0 \div p) % 2 = 0 /\ (255 \div p) % 2 = 1
  OBVIOUS
<1> QED BY <1>1, <1>2, <1>3, <1>4

-----------------------------------------------------------------------------
(* The steps.                                                              *)

LEMMA Fixed ==
    ASSUME UNCHANGED <<baudRate, inverse>>
    PROVE  UNCHANGED <<bitTime, rx_start_time, rx_end_time>>
  BY DEF bitTime, rx_start_time, rx_end_time

\* An idle handler that an edge calls has not looked yet.
LEMMA Called ==
    ASSUME IInv, NEW edge, NEW elapsed, LineGoes(edge, elapsed), rxPc = "idle"
    PROVE  \/ /\ edge /\ rxPc' = "start"
              /\ latency' \in IF phase' = "opening" THEN FirstLatency ELSE Latency
              /\ rxLeft' = latency' + rx_start_time
           \/ ~edge /\ rxPc' = "idle" /\ latency' = latency /\ rxLeft' = 0
  BY DEF LineGoes

LEMMA SwWriteSafe ==
    ASSUME IInv, NEW b \in Values, NEW gap \in Gaps, SwWrite(b, gap),
           UNCHANGED <<baudRate, inverse>>
    PROVE  IInv'
<1>1. /\ slot = 10 /\ slot' = 0 /\ rxPc = "idle" /\ line' = 0 /\ sent' = b /\ heard' = FALSE
      /\ shift' = (IF inverse THEN Not8(b) ELSE b) /\ UNCHANGED <<rxBit, rec, got>>
      /\ phase' = "open" /\ TxStart(b, gap)
  BY DEF SwWrite, TxStart, IInv, Rest, Spurious
<1>2. PICK d \in TxExtra : txLeft' = bitTime + d
  BY <1>1 DEF TxStart
<1>3. \/ /\ rxPc' = "start" /\ latency' \in Latency /\ rxLeft' = latency' + rx_start_time
      \/ /\ inverse /\ rxPc' = "idle" /\ latency' = latency /\ rxLeft' = 0
  <2>1. LineGoes(Edge(line, 1) \/ Edge(1, 0), gap)
    BY <1>1 DEF TxStart
  <2>2. ~inverse => Edge(1, 0)
    BY DEF Edge
  <2> QED BY <1>1, <2>1, <2>2, Called
<1>4. /\ b \in 0 .. 255 /\ d \in Nat /\ bitTime \in Nat /\ rx_start_time \in Nat
      /\ \A lat \in Latency : lat \in Nat /\ lat + rx_start_time < bitTime
  BY FrameAssumption, Opened DEF IInv, Rest
<1>5. rxLeft' \in Nat /\ txLeft' \in Nat /\ latency' \in Latency \cup FirstLatency
      /\ (rxPc' = "start" => latency' \in Latency /\ rxLeft' < txLeft')
  BY <1>2, <1>3, <1>4 DEF IInv, Rest, TypeOK
<1>6. Payload' = shift' /\ shift' \in 0 .. 255
  BY <1>1, <1>4 DEF Payload, Not8
<1>7. TypeOK'
  <2>1. heard' \in BOOLEAN
    BY <1>1, Zenon
  <2>2. line' \in {0, 1} /\ slot' \in 0 .. 10 /\ rxPc' \in {"idle", "start", "bits", "stop"}
    BY <1>1, <1>3
  <2>3. UNCHANGED <<rxBit, rec, got, baudRate, inverse>> /\ sent' \in 0 .. 255
    BY <1>1, <1>4
  <2> QED BY <2>1, <2>2, <2>3, <1>1, <1>5, <1>6 DEF IInv, Rest, TypeOK
<1>8. Spurious' /\ Punctual' /\ FirstFrame' /\ BackInv'
  BY <1>1, <1>3, <1>5 DEF Spurious, Punctual, FirstFrame, BackInv
<1>9. Sending'
  <2>1. Payload' \div Pow[0] = shift'
    <3>1. \A p \in 0 .. 255 : p \div 1 = p
      OBVIOUS
    <3> QED BY <3>1, <1>6, Powers
  <2> QED BY <1>1, <2>1 DEF Sending
<1>10. Receiving' /\ Hearing' /\ NoGarble'
  BY <1>1, <1>3 DEF Receiving, Hearing, NoGarble
<1>11. DriftInv'
  <2> SUFFICES ASSUME NEW D \in Nat, NEW E \in Nat, Bounds(D, E), InFrame' PROVE Drift(D, E)'
    BY DEF DriftInv, Drift, Bounds
  <2>1. rxPc' = "start" /\ Sample' = 0 /\ slot' = 0
    BY <1>1, <1>3 DEF InFrame, Sample
  <2>2. Lead' = latency' + rx_start_time /\ bitTime' = bitTime
    BY <2>1, <1>4, <1>5, Fixed DEF Lead
  <2>3. d <= D /\ rxLeft' = latency' + rx_start_time
    BY <2>1, <1>3 DEF Bounds
  <2> HIDE DEF Bounds
  <2>4. /\ Lead' - bitTime - D <= rxLeft' - txLeft'
        /\ rxLeft' - txLeft' <= Lead' - bitTime
    BY <1>2, <1>4, <1>5, <2>2, <2>3
  <2>5. 0 * D = 0 /\ (0 + 1) * D = D /\ 0 * E = 0 /\ 0 # 0 - 1
    OBVIOUS
  <2>6. /\ Lead' - bitTime' - (Sample' + 1) * D <= rxLeft' - txLeft'
        /\ rxLeft' - txLeft' <= Lead' - bitTime' + Sample' * E
    BY <1>4, <1>5, <2>1, <2>2, <2>4, <2>5
  <2> QED BY <2>1, <2>5, <2>6 DEF Drift
<1> QED BY <1>7, <1>8, <1>9, <1>10, <1>11 DEF IInv, Rest

\* The line goes on to the next bit: between two samples of a frame, or at an edge
\* that calls the handler in vain, or unseen.
LEMMA TxBitSafe == 
    ASSUME IInv, TxBit, phase # "opening", UNCHANGED <<baudRate, inverse>>
    PROVE  IInv'
<1>1. /\ slot \in 0 .. 8 /\ slot' = slot + 1
      /\ (rxPc # "idle" => txLeft <= rxLeft)
      /\ line' = (IF slot < 8 THEN shift % 2 ELSE 1)
      /\ shift' = (IF slot < 8 THEN shift \div 2 ELSE shift)
      /\ UNCHANGED <<phase, sent, rxBit, rec, got, heard>>
  BY DEF TxBit, TxDue, IInv, Rest, TypeOK
<1>2. PICK d \in TxExtra : txLeft' = bitTime + d
  BY DEF TxBit
<1>3. /\ d \in Nat /\ bitTime \in Nat /\ rx_start_time \in Nat
      /\ \A lat \in Latency : lat \in Nat /\ lat + rx_start_time < bitTime
      /\ rxLeft \in Nat /\ txLeft \in Nat
  BY FrameAssumption, Opened DEF IInv, Rest, TypeOK
<1>4. rxPc # "start"
  BY <1>1, <1>3 DEF IInv, Rest, Spurious
<1>5. ASSUME rxPc # "idle"
      PROVE  /\ slot = Sample - 1 /\ InFrame /\ UNCHANGED <<rxPc, latency>>
             /\ rxLeft' = rxLeft - txLeft /\ txLeft <= rxLeft
  <2>1. InFrame
    BY <1>4, <1>5 DEF InFrame, IInv, Rest, TypeOK
  <2>2. slot # Sample
    BY <2>1, <1>1, <1>3, <1>5, Turns
  <2>3. PICK D, E \in Nat : Bounds(D, E)
    BY <2>1, Largest DEF IInv, Rest, TypeOK, Punctual, InFrame
  <2>4. slot = Sample - 1
    BY <2>1, <2>2, <2>3 DEF IInv, DriftInv, Drift
  <2> QED BY <2>1, <2>4, <1>1, <1>5 DEF TxBit, LineGoes
<1>6. ASSUME rxPc = "idle"
      PROVE  \/ /\ inverse /\ line' = 1 /\ rxPc' = "start" /\ latency' \in Latency
                /\ rxLeft' = latency' + rx_start_time
             \/ rxPc' = "idle" /\ latency' = latency /\ rxLeft' = 0
  <2>1. LineGoes(Edge(line, line'), txLeft)
    BY DEF TxBit
  <2>2. Edge(line, line') => inverse /\ line' = 1
    BY <1>1, <1>6 DEF Edge, IInv, Rest, Spurious
  <2> QED BY <2>1, <2>2, <1>1, <1>6, Called
<1>7. /\ rxLeft' \in Nat /\ txLeft' \in Nat /\ latency' \in Latency \cup FirstLatency
      /\ Punctual'
      /\ rxPc' = "start" => rxLeft' < txLeft' /\ line' = 1 /\ inverse
      /\ rxPc' \in {rxPc, "start"}
  <2>1. CASE rxPc = "idle"
    BY <2>1, <1>1, <1>2, <1>3, <1>6 DEF IInv, Rest, TypeOK, Punctual
  <2>2. CASE rxPc # "idle"
    BY <2>2, <1>1, <1>2, <1>3, <1>4, <1>5 DEF IInv, Rest, TypeOK, Punctual
  <2> QED BY <2>1, <2>2
<1>8. shift' \in 0 .. 255 /\ line' \in {0, 1}
  BY <1>1 DEF IInv, Rest, TypeOK
<1>9. TypeOK'
  BY <1>1, <1>7, <1>8 DEF IInv, Rest, TypeOK
<1>10. Spurious' /\ Punctual' /\ FirstFrame' /\ BackInv'
  BY <1>1, <1>5, <1>7, <1>4 DEF IInv, Rest, Spurious, InFrame, FirstFrame, BackInv
<1>11. Sending'
  <2>1. Payload' = Payload /\ Payload \in 0 .. 255
    BY <1>1, PayloadIsByte DEF Payload, IInv, Rest
  <2>2. CASE slot < 8
    <3>1. slot \in 0 .. 7 /\ slot' \in 1 .. 8 /\ slot' - 1 = slot
      BY <1>1, <2>2
    <3>2. shift = Payload \div Pow[slot]
      BY <1>1 DEF IInv, Rest, Sending
    <3>3. shift' = Payload \div Pow[slot'] /\ line' = (Payload \div Pow[slot' - 1]) % 2
      BY <3>1, <3>2, <2>1, <2>2, <1>1, ShiftStep
    <3> QED BY <2>1, <3>1, <3>3 DEF Sending
  <2>3. CASE slot = 8
    BY <2>3, <1>1 DEF Sending
  <2> QED BY <2>2, <2>3, <1>1
<1>12. Receiving' /\ NoGarble'
  BY <1>1, <1>5, <1>7 DEF IInv, Rest, Receiving, NoGarble, Payload
<1>13. Hearing'
  BY <1>1, <1>4, <1>5, <1>6, <1>7, Fixed DEF IInv, Rest, Hearing, Calibrated
<1>14. DriftInv'
  <2> SUFFICES ASSUME NEW D \in Nat, NEW E \in Nat, Bounds(D, E), InFrame' PROVE Drift(D, E)'
    BY DEF DriftInv, Drift, Bounds
  <2>1. rxPc # "idle" /\ rxPc' = rxPc
    BY <1>1, <1>5, <1>6 DEF InFrame
  <2>2. Sample' = Sample /\ slot' = Sample /\ Sample \in 0 .. 9
    BY <2>1, <1>1, <1>5, Turns DEF Sample
  <2>3. Lead' = Lead /\ Lead \in Int /\ bitTime' = bitTime
    BY <2>1, <1>5, Fixed, Opened DEF Lead, IInv, Rest
  <2>4. d <= D
    BY DEF Bounds
  <2>5. Drift(D, E)
    BY DEF IInv, DriftInv
  <2>6. /\ Lead - Sample * D <= rxLeft - txLeft
        /\ rxLeft - txLeft <= Lead + Sample * E
    BY <2>1, <1>5, <2>5 DEF Drift
  <2>7. /\ (Sample + 1) * D = Sample * D + D /\ Sample * D \in Nat /\ Sample * E \in Nat
    BY <2>2, Times
  <2>8. /\ Lead - bitTime - (Sample + 1) * D <= rxLeft' - txLeft'
        /\ rxLeft' - txLeft' <= Lead - bitTime + Sample * E
    BY <2>1, <2>3, <2>4, <2>6, <2>7, <1>2, <1>3, <1>5
  <2> QED BY <2>2, <2>3, <2>8 DEF Drift
<1> QED BY <1>9, <1>10, <1>11, <1>12, <1>13, <1>14 DEF IInv, Rest

LEMMA TxEndSafe == ASSUME IInv, TxEnd, UNCHANGED <<baudRate, inverse>> PROVE IInv'
<1>1. /\ slot = 9 /\ slot' = 10 /\ txLeft' = 0 /\ (rxPc # "idle" => txLeft <= rxLeft)
      /\ UNCHANGED <<phase, line, shift, sent, rxBit, rec, got, heard>>
  BY DEF TxEnd, TxDue
<1>2. rxPc = "idle"
  <2>1. SUFFICES ASSUME rxPc # "idle" PROVE FALSE
    OBVIOUS
  <2>2. txLeft \in Nat /\ rxLeft \in Nat
    BY DEF IInv, Rest, TypeOK
  <2>3. CASE phase # "opening"
    <3>1. InFrame
      BY <1>1, <2>1, <2>2, <2>3 DEF InFrame, IInv, Rest, TypeOK, Spurious
    <3>2. PICK D, E \in Nat : Bounds(D, E)
      BY <3>1, Largest DEF IInv, Rest, TypeOK, Punctual, InFrame
    <3>3. slot \in {Sample - 1, Sample} /\ Sample \in 0 .. 9
      BY <3>1, <3>2, Turns DEF IInv, DriftInv, Drift
    <3>4. slot = Sample
      BY <1>1, <3>3
    <3> QED BY <1>1, <2>1, <2>2, <3>1, <3>4, Turns
  <2>4. CASE phase = "opening"
    <3>1. PICK E \in Nat : ToCome(E) < txLeft + (9 - slot) * bitTime /\ rxLeft <= ToCome(E)
      BY <2>1, <2>4, Returning
    <3>2. (9 - slot) * bitTime = 0 /\ ToCome(E) \in Int
      BY <1>1, <2>1, Opened, ToComeIs DEF IInv, Rest
    <3> QED BY <1>1, <2>1, <2>2, <3>1, <3>2
  <2> QED BY <2>3, <2>4
<1>3. rxPc' = "idle" /\ rxLeft' = 0 /\ latency' = latency
  BY <1>2 DEF TxEnd, LineGoes
<1>4. TypeOK'
  BY <1>1, <1>3 DEF IInv, Rest, TypeOK
<1>5. Spurious' /\ Punctual' /\ FirstFrame' /\ BackInv'
  BY <1>1, <1>3 DEF Spurious, Punctual, FirstFrame, BackInv, IInv, Rest
<1>6. Sending' /\ Receiving' /\ NoGarble'
  BY <1>1, <1>3 DEF IInv, Rest, Sending, Receiving, NoGarble
<1>7. Hearing'
  BY <1>1, <1>2, <1>3, Fixed DEF IInv, Rest, Hearing, Calibrated
<1>8. DriftInv'
  BY <1>3 DEF DriftInv, Drift, InFrame
<1> QED BY <1>4, <1>5, <1>6, <1>7, <1>8 DEF IInv, Rest

\* A sample that is due is taken in its slot, but for one of the stop bit with a
\* latency that is not calibrated.
LEMMA SampleTurn ==
    ASSUME IInv, InFrame, RxDue
    PROVE  /\ Sample \in 0 .. 9 /\ slot < 10 /\ rxLeft <= txLeft
           /\ slot = Sample \/ (rxPc = "stop" /\ slot = 8 /\ ~Calibrated(latency))
<1>1. PICK D, E \in Nat : Bounds(D, E)
  BY Largest DEF IInv, Rest, TypeOK, Punctual, InFrame
<1>2. slot \in {Sample - 1, Sample} /\ Sample \in 0 .. 9
  BY <1>1, Turns DEF IInv, DriftInv, Drift
<1>3. slot < 10 /\ rxLeft <= txLeft /\ txLeft \in Nat /\ rxLeft \in Nat
  BY <1>2 DEF RxDue, IInv, Rest, TypeOK
<1>4. ASSUME slot # Sample PROVE rxPc = "stop" /\ slot = 8 /\ ~Calibrated(latency)
  <2>1. slot = Sample - 1 /\ Sample > 8
    BY <1>2, <1>3, <1>4, Turns
  <2>2. rxPc = "stop"
    BY <2>1 DEF Sample, InFrame, IInv, Rest, Receiving
  <2> QED BY <2>1, <2>2, <1>2, <1>3, StopTurn
<1> QED BY <1>2, <1>3, <1>4

\* The sender's part while the receiver takes a sample.
LEMMA SendingKept ==
    ASSUME IInv, RxDue, slot < 10, TxWaits, UNCHANGED inverse
    PROVE  Sending' /\ txLeft' = txLeft - rxLeft /\ txLeft' \in Nat
  BY DEF IInv, Rest, TypeOK, Sending, RxDue, TxWaits, Payload

\* The look at the start bit: a frame is entered, or the edge was in vain.
LEMMA RxStartSafe == 
    ASSUME IInv, RxStart, phase # "opening", UNCHANGED <<baudRate, inverse>>
    PROVE  IInv'
<1>1. /\ rxPc = "start" /\ rxBit' = 0 /\ rec' = 0
      /\ UNCHANGED <<latency, got, heard, phase, line, slot, shift, sent>>
      /\ TxWaits /\ RxDue
  BY DEF RxStart, TxWaits
<1>2. slot < 10 /\ rxLeft < txLeft /\ (slot # 0 => line = 1 /\ inverse) /\ slot \in 0 .. 10
  BY <1>1 DEF IInv, Rest, Spurious, TypeOK
<1>3. Sending' /\ txLeft' = txLeft - rxLeft /\ txLeft' \in Nat /\ txLeft \in Nat /\ rxLeft \in Nat
  BY <1>1, <1>2, SendingKept DEF IInv, Rest, TypeOK
<1>4. \/ /\ line = 0 /\ slot = 0 /\ rxPc' = "bits"
         /\ \E e \in RxExtra : rxLeft' = bitTime + e
      \/ line = 1 /\ slot # 0 /\ inverse /\ rxPc' = "idle" /\ rxLeft' = 0
  BY <1>1, <1>2 DEF RxStart, Wait, IInv, Rest, TypeOK, Sending
<1>5. bitTime \in Nat /\ RxExtra \subseteq Nat
  BY Opened, FrameAssumption DEF IInv, Rest
<1>6. TypeOK'
  <2>1. rxLeft' \in Nat /\ rxPc' \in {"idle", "start", "bits", "stop"}
    BY <1>4, <1>5
  <2>2. rxBit' \in 0 .. 8 /\ rec' \in 0 .. 255
    BY <1>1
  <2> QED BY <1>1, <1>3, <2>1, <2>2 DEF IInv, Rest, TypeOK
<1>7. Spurious' /\ Hearing' /\ NoGarble' /\ Punctual' /\ FirstFrame' /\ BackInv'
  BY <1>1, <1>2, <1>4 DEF Spurious, Hearing, NoGarble, Punctual, FirstFrame, BackInv, IInv, Rest
<1>8. Receiving'
  <2>1. \A p \in 0 .. 255 : (p % 1) * 256 = 0
    <3>1. \A p \in 0 .. 255 : p % 1 = 0
      OBVIOUS
    <3> QED BY <3>1
  <2>2. Payload' = Payload /\ Payload \in 0 .. 255
    BY <1>1, PayloadIsByte DEF Payload, IInv, Rest
  <2>3. rec' = (Payload' % Pow[0]) * Pow[8]
    BY <1>1, <2>1, <2>2, Powers
  <2> QED BY <1>1, <1>4, <2>3 DEF Receiving
<1>9. DriftInv'
  <2> SUFFICES ASSUME NEW D \in Nat, NEW E \in Nat, Bounds(D, E), InFrame' PROVE Drift(D, E)'
    BY DEF DriftInv, Drift, Bounds
  <2>1. rxPc' = "bits" /\ slot' = 0 /\ slot = 0 /\ Sample = 0 /\ Sample' = 1 /\ InFrame
    BY <1>1, <1>4 DEF InFrame, Sample
  <2>2. PICK e \in RxExtra : rxLeft' = bitTime + e
    BY <1>4, <2>1
  <2>3. Lead' = Lead /\ Lead \in Int /\ bitTime' = bitTime
    BY <1>1, <2>1, Fixed, Opened DEF Lead, IInv, Rest
  <2>4. e <= E /\ e \in Nat
    BY <1>5 DEF Bounds
  <2>5. /\ 0 * D = 0 /\ (0 + 1) * D = D /\ 0 * E = 0 /\ 1 * D = D /\ 1 * E = E
        /\ 0 # 0 - 1 /\ 0 = 1 - 1 /\ 0 # 1
    OBVIOUS
  <2>6. /\ Lead - bitTime - D <= rxLeft - txLeft
        /\ rxLeft - txLeft <= Lead - bitTime
    <3>1. Drift(D, E)
      BY DEF IInv, DriftInv
    <3>2. /\ Lead - bitTime - (Sample + 1) * D <= rxLeft - txLeft
          /\ rxLeft - txLeft <= Lead - bitTime + Sample * E
      BY <2>1, <3>1 DEF Drift
    <3> QED BY <2>1, <2>3, <2>5, <3>2, <1>5
  <2>7. Lead - D <= rxLeft' - txLeft' /\ rxLeft' - txLeft' <= Lead + E
    BY <1>3, <1>5, <2>2, <2>3, <2>4, <2>6
  <2>8. /\ Lead' - Sample' * D <= rxLeft' - txLeft'
        /\ rxLeft' - txLeft' <= Lead' + Sample' * E
    BY <2>1, <2>3, <2>5, <2>7
  <2> QED BY <2>1, <2>5, <2>8 DEF Drift
<1> QED BY <1>3, <1>6, <1>7, <1>8, <1>9 DEF IInv, Rest

LEMMA RxBitSafe == 
    ASSUME IInv, RxBit, phase # "opening", UNCHANGED <<baudRate, inverse>>
    PROVE  IInv'
<1> DEFINE W == IF rxBit = 7 THEN rx_end_time ELSE bitTime
<1>1. /\ rxPc = "bits" /\ RxDue /\ TxWaits /\ rxBit' = rxBit + 1
      /\ rec' = rec \div 2 + (IF line = 1 THEN 128 ELSE 0)
      /\ rxPc' = (IF rxBit = 7 THEN "stop" ELSE "bits")
      /\ UNCHANGED <<latency, got, heard, phase, line, slot, shift, sent>>
  BY DEF RxBit, TxWaits
<1>2. PICK e \in RxExtra : rxLeft' = W + e
  BY DEF RxBit, Wait
<1>3. /\ rxBit \in 0 .. 7 /\ Sample = rxBit + 1 /\ slot = Sample /\ InFrame
  <2>1. InFrame /\ rxBit \in 0 .. 7 /\ Sample = rxBit + 1
    BY <1>1 DEF InFrame, Sample, IInv, Rest, Receiving
  <2> QED BY <1>1, <2>1, SampleTurn
<1>4. /\ bitTime \in Nat /\ rx_start_time \in Nat /\ rx_end_time \in Nat /\ e \in Nat
      /\ W \in Nat /\ latency \in Nat
  BY Opened, FrameAssumption DEF IInv, Rest
<1>5. Sending' /\ txLeft' = txLeft - rxLeft /\ txLeft' \in Nat /\ txLeft \in Nat /\ rxLeft \in Nat
  BY <1>1, <1>3, SendingKept DEF IInv, Rest, TypeOK
<1>6. Payload' = Payload /\ Payload \in 0 .. 255
  BY <1>1, PayloadIsByte DEF Payload, IInv, Rest
<1>7. /\ rec' = (Payload % Pow[rxBit + 1]) * Pow[8 - (rxBit + 1)] /\ rec' \in 0 .. 255
      /\ rxBit = 7 => rec' = Payload
  <2>1. rec = (Payload % Pow[rxBit]) * Pow[8 - rxBit]
    BY <1>1 DEF IInv, Rest, Receiving
  <2>2. line = (Payload \div Pow[rxBit]) % 2
    <3>1. slot \in 1 .. 8 /\ slot - 1 = rxBit
      BY <1>3
    <3> QED BY <3>1 DEF IInv, Rest, Sending
  <2>3. rxBit \in 0 .. 7
    BY <1>3
  <2> DEFINE next == (Payload % Pow[rxBit + 1]) * Pow[8 - (rxBit + 1)]
  <2>4. /\ ((Payload % Pow[rxBit]) * Pow[8 - rxBit]) \div 2
               + (IF (Payload \div Pow[rxBit]) % 2 = 1 THEN 128 ELSE 0) = next
        /\ next \in 0 .. 255 /\ (rxBit = 7 => next = Payload)
    BY <1>6, <2>3, SampleStep
  <2> HIDE DEF next
  <2>5. rec' = next
    BY <1>1, <2>1, <2>2, <2>4, Zenon
  <2> QED BY <2>4, <2>5 DEF next
<1>8. TypeOK'
  <2>1. rxLeft' \in Nat /\ rxPc' \in {"idle", "start", "bits", "stop"} /\ rxBit' \in 0 .. 8
    BY <1>1, <1>2, <1>3, <1>4
  <2> QED BY <1>1, <1>5, <1>7, <2>1 DEF IInv, Rest, TypeOK
<1>9. Spurious' /\ Hearing' /\ NoGarble' /\ Punctual' /\ FirstFrame' /\ BackInv'
  BY <1>1, <1>3 DEF Spurious, Hearing, NoGarble, Punctual, FirstFrame, BackInv, IInv, Rest
<1>10. Receiving'
  <2>1. rxPc' = "bits" => rxBit' \in 0 .. 7
    BY <1>1, <1>3
  <2> QED BY <1>1, <1>6, <1>7, <2>1 DEF Receiving
<1>11. DriftInv'
  <2> SUFFICES ASSUME NEW D \in Nat, NEW E \in Nat, Bounds(D, E), InFrame' PROVE Drift(D, E)'
    BY DEF DriftInv, Drift, Bounds
  <2>1. Sample' = Sample + 1 /\ slot' = Sample /\ Sample \in 1 .. 8
    BY <1>1, <1>3 DEF Sample
  <2>2. Lead' = Lead + W - bitTime /\ Lead \in Int /\ bitTime' = bitTime
    BY <1>1, <1>4, Fixed DEF Lead
  <2>3. e <= E
    BY DEF Bounds
  <2>4. /\ Lead - bitTime - (Sample + 1) * D <= rxLeft - txLeft
        /\ rxLeft - txLeft <= Lead - bitTime + Sample * E
    BY <1>3 DEF Drift, IInv, DriftInv
  <2>5. /\ (Sample + 1) * D \in Nat /\ (Sample + 1) * E = Sample * E + E /\ Sample * E \in Nat
    <3>1. Sample + 1 \in 0 .. 9 /\ Sample \in 0 .. 9
      BY <2>1
    <3> QED BY <3>1, Times
  <2> HIDE DEF W
  <2>6. /\ Lead' - (Sample + 1) * D <= rxLeft' - txLeft'
        /\ rxLeft' - txLeft' <= Lead' + (Sample + 1) * E
    BY <1>2, <1>4, <1>5, <2>2, <2>3, <2>4, <2>5
  <2>7. slot' = Sample' - 1 /\ slot' # Sample'
    BY <2>1
  <2> QED BY <2>1, <2>6, <2>7 DEF Drift
<1> QED BY <1>5, <1>8, <1>9, <1>10, <1>11 DEF IInv, Rest

LEMMA RxStopSafe == 
    ASSUME IInv, RxStop, phase # "opening", UNCHANGED <<baudRate, inverse>>
    PROVE  IInv'
<1>1. /\ rxPc = "stop" /\ RxDue /\ TxWaits /\ rxPc' = "idle" /\ rxLeft' = 0
      /\ UNCHANGED <<latency, rxBit, rec, phase, line, slot, shift, sent>>
      /\ IF line = 1
         THEN got' = (IF inverse THEN Not8(rec) ELSE rec) /\ heard' = TRUE
         ELSE UNCHANGED <<got, heard>>
  BY DEF RxStop, TxWaits
<1>2. Sample = 9 /\ InFrame
  BY <1>1 DEF Sample, InFrame
<1>3. slot \in {8, 9} /\ (Calibrated(latency) => slot = 9)
  BY <1>1, <1>2, SampleTurn
<1>4. Sending' /\ txLeft' = txLeft - rxLeft /\ txLeft' \in Nat
  BY <1>1, <1>3, SendingKept
<1>5. (IF inverse THEN Not8(rec) ELSE rec) = sent
  BY <1>1 DEF IInv, Rest, TypeOK, Receiving, Payload, Not8
<1>6. TypeOK'
  <2>1. got' \in 0 .. 255
    BY <1>1, <1>5 DEF IInv, Rest, TypeOK
  <2>2. heard' \in BOOLEAN
    BY <1>1, Zenon DEF IInv, Rest, TypeOK
  <2>3. rxPc' \in {"idle", "start", "bits", "stop"}
    BY <1>1
  <2> QED BY <1>1, <1>4, <2>1, <2>2, <2>3 DEF IInv, Rest, TypeOK
<1>7. Spurious' /\ Receiving' /\ Punctual' /\ FirstFrame' /\ BackInv'
  BY <1>1, <1>3 DEF Spurious, Receiving, Punctual, FirstFrame, BackInv, IInv, Rest
<1>8. NoGarble'
  BY <1>1, <1>5 DEF IInv, Rest, NoGarble
<1>9. Hearing'
  <2>1. slot = 9 => heard'
    BY <1>1 DEF IInv, Rest, Sending
  <2> QED BY <1>1, <1>3, <2>1, Fixed DEF Hearing, Calibrated
<1>10. DriftInv'
  BY <1>1 DEF DriftInv, Drift, InFrame
<1> QED BY <1>4, <1>6, <1>7, <1>8, <1>9, <1>10 DEF IInv, Rest

-----------------------------------------------------------------------------
(* The steps of the first frame.                                           *)

LEMMA SwOpenSafe ==
    ASSUME IInv, NEW gap \in Gaps, SwOpen(gap), UNCHANGED <<baudRate, inverse>>
    PROVE  IInv'
<1>1. /\ slot = 10 /\ slot' = 0 /\ rxPc = "idle" /\ line' = 0 /\ sent' = 0 /\ heard' = FALSE
      /\ shift' = (IF inverse THEN Not8(0) ELSE 0) /\ UNCHANGED <<rxBit, rec, got>>
      /\ phase = "closed" /\ phase' = "opening" /\ TxStart(0, gap)
  BY DEF SwOpen, TxStart, IInv, Rest, Spurious
<1>2. PICK d \in TxExtra : txLeft' = bitTime + d
  BY <1>1 DEF TxStart
<1>3. rxPc' = "start" /\ latency' \in FirstLatency /\ rxLeft' = latency' + rx_start_time
  <2>1. LineGoes(Edge(line, 1) \/ Edge(1, 0), gap)
    BY <1>1 DEF TxStart
  <2>2. Edge(line, 1) \/ Edge(1, 0)
    BY <1>1 DEF Edge, IInv, Rest, FirstFrame
  <2> QED BY <1>1, <2>1, <2>2 DEF LineGoes
<1>4. /\ d \in Nat /\ bitTime \in Nat /\ rx_start_time \in Nat /\ rx_end_time \in Nat
      /\ \A lat \in FirstLatency : lat \in Nat /\ d < lat + rx_start_time
  BY FrameAssumption, FirstAssumption, Opened DEF IInv, Rest, TypeOK, rx_start_time
<1>5. rxLeft' \in Nat /\ txLeft' \in Nat /\ txLeft' < rxLeft' + bitTime
  BY <1>2, <1>3, <1>4
<1>6. Payload' = shift' /\ shift' \in 0 .. 255
  BY <1>1 DEF Payload, Not8
<1>7. TypeOK'
  <2>1. heard' \in BOOLEAN
    BY <1>1, Zenon
  <2>2. /\ line' \in {0, 1} /\ slot' \in 0 .. 10 /\ rxPc' \in {"idle", "start", "bits", "stop"}
        /\ phase' \in {"closed", "opening", "open"} /\ latency' \in Latency \cup FirstLatency
    BY <1>1, <1>3
  <2>3. UNCHANGED <<rxBit, rec, got, baudRate, inverse>> /\ sent' \in 0 .. 255
    BY <1>1
  <2> QED BY <2>1, <2>2, <2>3, <1>5, <1>6 DEF IInv, Rest, TypeOK
<1>8. Spurious' /\ Punctual' /\ Receiving' /\ Hearing' /\ NoGarble' /\ DriftInv'
  BY <1>1, <1>3 DEF Spurious, Punctual, Receiving, Hearing, NoGarble, DriftInv, Drift, InFrame
<1>9. FirstFrame'
  BY <1>1, <1>3, <1>5, Fixed DEF FirstFrame
<1>10. Sending'
  <2>1. Payload' \div Pow[0] = shift'
    <3>1. \A p \in 0 .. 255 : p \div 1 = p
      OBVIOUS
    <3> QED BY <3>1, <1>6, Powers
  <2> QED BY <1>1, <2>1 DEF Sending
<1>11. BackInv'
  <2> SUFFICES ASSUME NEW E \in Nat,
                      latency' + rx_start_time' + rx_end_time' + 9 * E < 2 * bitTime'
               PROVE  ToCome(E)' < txLeft' + (9 - slot') * bitTime'
    BY DEF BackInv
  <2>1. ToCome(E)' = rxLeft' + 8 * bitTime + rx_end_time + 9 * E
    BY <1>3, <1>4, <1>5, Fixed DEF ToCome
  <2>2. (9 - slot') * bitTime' = 9 * bitTime
    BY <1>1, Fixed
  <2>3. rxLeft' + 8 * bitTime + rx_end_time + 9 * E < txLeft' + 9 * bitTime
    BY <1>2, <1>3, <1>4, Fixed
  <2> QED BY <2>1, <2>2, <2>3
<1> QED BY <1>7, <1>8, <1>9, <1>10, <1>11 DEF IInv, Rest

\* The line goes on in the first frame: to the handler, there is no edge.
LEMMA TxBitFirst ==
    ASSUME IInv, TxBit, phase = "opening", UNCHANGED <<baudRate, inverse>>
    PROVE  IInv'
<1>1. /\ slot \in 0 .. 8 /\ slot' = slot + 1
      /\ (rxPc # "idle" => txLeft <= rxLeft)
      /\ line' = (IF slot < 8 THEN shift % 2 ELSE 1)
      /\ shift' = (IF slot < 8 THEN shift \div 2 ELSE shift)
      /\ UNCHANGED <<phase, sent, rxBit, rec, got, heard>>
  BY DEF TxBit, TxDue, IInv, Rest, TypeOK
<1>2. PICK d \in TxExtra : txLeft' = bitTime + d
  BY DEF TxBit
<1>3. d \in Nat /\ bitTime \in Nat /\ rxLeft \in Nat /\ txLeft \in Nat /\ latency \in Nat
  BY FrameAssumption, Opened DEF IInv, Rest, TypeOK
<1>4. ASSUME rxPc = "idle" PROVE ~Edge(line, line')
  <2>1. slot # 0
    BY <1>4 DEF IInv, Rest, FirstFrame
  <2>2. line = IF inverse THEN 1 ELSE 0
    BY <1>1, <2>1, OpenLine
  <2> QED BY <2>2 DEF Edge
<1>5. /\ UNCHANGED <<rxPc, latency>>
      /\ rxLeft' = (IF rxPc = "idle" THEN 0 ELSE rxLeft - txLeft)
  BY <1>4 DEF TxBit, LineGoes
<1>6. rxLeft' \in Nat /\ txLeft' \in Nat
  BY <1>1, <1>2, <1>3, <1>5
<1>7. TypeOK'
  <2>1. shift' \in 0 .. 255 /\ line' \in {0, 1} /\ slot' \in 0 .. 10
    BY <1>1 DEF IInv, Rest, TypeOK
  <2> QED BY <1>1, <1>5, <1>6, <2>1 DEF IInv, Rest, TypeOK
<1>8. Spurious' /\ Punctual' /\ FirstFrame' /\ Hearing' /\ NoGarble'
  BY <1>1, <1>5 DEF IInv, Rest, Spurious, Punctual, FirstFrame, Hearing, NoGarble
<1>9. Receiving' /\ DriftInv'
  BY <1>1, <1>5 DEF IInv, Rest, Receiving, DriftInv, Drift, InFrame
<1>10. Sending'
  <2>1. Payload' = Payload /\ Payload \in 0 .. 255
    BY <1>1, PayloadIsByte DEF Payload, IInv, Rest
  <2>2. CASE slot < 8
    <3>1. slot \in 0 .. 7 /\ slot' \in 1 .. 8 /\ slot' - 1 = slot
      BY <1>1, <2>2
    <3>2. shift = Payload \div Pow[slot]
      BY <1>1 DEF IInv, Rest, Sending
    <3>3. shift' = Payload \div Pow[slot'] /\ line' = (Payload \div Pow[slot' - 1]) % 2
      BY <3>1, <3>2, <2>1, <2>2, <1>1, ShiftStep
    <3> QED BY <2>1, <3>1, <3>3 DEF Sending
  <2>3. CASE slot = 8
    BY <2>3, <1>1 DEF Sending
  <2> QED BY <2>2, <2>3, <1>1
<1>11. BackInv'
  <2> SUFFICES ASSUME NEW E \in Nat, \A e \in RxExtra : e <= E,
                      latency' + rx_start_time' + rx_end_time' + 9 * E < 2 * bitTime',
                      rxPc' # "idle"
               PROVE  ToCome(E)' < txLeft' + (9 - slot') * bitTime'
    BY DEF BackInv
  <2>1. ToCome(E) < txLeft + (9 - slot) * bitTime /\ ToCome(E) \in Int
    BY <1>5, Fixed, ToComeIs DEF IInv, BackInv
  <2>2. ToCome(E)' = ToCome(E) - txLeft
    <3>1. UNCHANGED <<rxPc, rxBit, bitTime, rx_end_time>> /\ rxLeft' = rxLeft - txLeft
      BY <1>1, <1>5, Fixed
    <3> DEFINE c == CASE rxPc = "start" -> 8 * bitTime + rx_end_time + 9 * E
                      [] rxPc = "bits" -> (7 - rxBit) * bitTime + rx_end_time + (8 - rxBit) * E
                      [] OTHER -> 0
    <3>2. ToCome(E) = rxLeft + c /\ ToCome(E)' = rxLeft' + c
      BY <3>1 DEF ToCome
    <3>3. c \in Int
      <4>1. rxBit \in 0 .. 8 /\ bitTime \in Nat /\ rx_end_time \in Nat
        BY Opened DEF IInv, Rest, TypeOK
      <4> QED BY <4>1
    <3> HIDE DEF c
    <3> QED BY <1>3, <3>1, <3>2, <3>3
  <2>3. (9 - slot) * bitTime = (9 - slot') * bitTime + bitTime /\ (9 - slot') * bitTime \in Nat
    <3>1. 9 - slot' \in 0 .. 9 /\ 9 - slot = (9 - slot') + 1
      BY <1>1
    <3> QED BY <1>3, <3>1, Times
  <2> QED BY <1>2, <1>3, <2>1, <2>2, <2>3, Fixed
<1> QED BY <1>7, <1>8, <1>9, <1>10, <1>11 DEF IInv, Rest

\* A step of the late handler: what is to come gets less by the time that passed.
LEMMA FirstSample ==
    ASSUME IInv, RxDue, phase = "opening", TxWaits, UNCHANGED <<latency, got, heard>>,
           UNCHANGED <<baudRate, inverse>>, rxLeft' \in Nat, rec' \in 0 .. 255,
           rxBit' \in 0 .. 8, rxPc' \in {"idle", "bits", "stop"},
           rxPc' = "bits" => rxBit' \in 0 .. 7,
           slot = 0 => rxPc' = "bits" /\ rxPc = "start" /\ bitTime <= rxLeft',
           \A E \in Nat : (\A e \in RxExtra : e <= E) /\ rxPc' # "idle"
               => ToCome(E)' <= ToCome(E) - rxLeft /\ ToCome(E)' \in Int
    PROVE  IInv'
<1>1. /\ slot \in 0 .. 9 /\ rxPc # "idle" /\ rxLeft <= txLeft
      /\ UNCHANGED <<phase, line, slot, shift, sent>>
  BY DEF RxDue, TxWaits, IInv, Rest, Spurious, TypeOK
<1>2. /\ Sending' /\ txLeft' = txLeft - rxLeft /\ txLeft' \in Nat
      /\ txLeft \in Nat /\ rxLeft \in Nat /\ bitTime \in Nat
  BY <1>1, SendingKept, Opened DEF IInv, Rest, TypeOK
<1>3. TypeOK'
  BY <1>1, <1>2 DEF IInv, Rest, TypeOK
<1>4. Spurious' /\ Punctual' /\ Receiving' /\ Hearing' /\ NoGarble' /\ DriftInv'
  BY <1>1 DEF IInv, Rest, Spurious, Punctual, Receiving, Hearing, NoGarble, DriftInv, Drift,
              InFrame
<1>5. FirstFrame'
  BY <1>1, <1>2 DEF IInv, Rest, FirstFrame
<1>6. BackInv'
  <2> SUFFICES ASSUME NEW E \in Nat, \A e \in RxExtra : e <= E,
                      latency' + rx_start_time' + rx_end_time' + 9 * E < 2 * bitTime',
                      rxPc' # "idle"
               PROVE  ToCome(E)' < txLeft' + (9 - slot') * bitTime'
    BY DEF BackInv
  <2>1. ToCome(E) < txLeft + (9 - slot) * bitTime /\ ToCome(E) \in Int
    BY <1>1, Fixed, ToComeIs DEF IInv, BackInv
  <2>2. ToCome(E)' <= ToCome(E) - rxLeft /\ ToCome(E)' \in Int
    OBVIOUS
  <2>3. (9 - slot') * bitTime' = (9 - slot) * bitTime /\ (9 - slot) * bitTime \in Nat
    <3>1. 9 - slot \in 0 .. 9
      BY <1>1
    <3> QED BY <1>1, <1>2, <3>1, Fixed, Times
  <2> QED BY <1>2, <2>1, <2>2, <2>3
<1> QED BY <1>2, <1>3, <1>4, <1>5, <1>6 DEF IInv, Rest

LEMMA RxStartFirst ==
    ASSUME IInv, RxStart, phase = "opening", UNCHANGED <<baudRate, inverse>>
    PROVE  IInv'
<1>1. /\ rxPc = "start" /\ rxBit' = 0 /\ rec' = 0
      /\ UNCHANGED <<latency, got, heard>> /\ TxWaits /\ RxDue
  BY DEF RxStart
<1>2. \/ line = 0 /\ rxPc' = "bits" /\ \E e \in RxExtra : rxLeft' = bitTime + e
      \/ line # 0 /\ rxPc' = "idle" /\ rxLeft' = 0
  BY DEF RxStart, Wait
<1>3. bitTime \in Nat /\ rx_end_time \in Nat /\ rxLeft \in Nat /\ RxExtra \subseteq Nat
  BY Opened, FrameAssumption DEF IInv, Rest, TypeOK
<1>4. rxLeft' \in Nat /\ rxPc' \in {"idle", "bits", "stop"}
  BY <1>2, <1>3
<1>5. slot = 0 => rxPc' = "bits" /\ bitTime <= rxLeft'
  BY <1>2, <1>3 DEF IInv, Rest, Sending
<1>6. ASSUME NEW E \in Nat, \A e \in RxExtra : e <= E, rxPc' # "idle"
      PROVE  ToCome(E)' <= ToCome(E) - rxLeft /\ ToCome(E)' \in Int
  <2>1. PICK e \in RxExtra : rxLeft' = bitTime + e
    BY <1>2, <1>6
  <2>2. rxPc' = "bits" /\ e <= E /\ e \in Nat
    BY <1>2, <1>3, <1>6
  <2>3. ToCome(E)' = rxLeft' + 7 * bitTime + rx_end_time + 8 * E
    BY <1>1, <1>3, <1>4, <2>2, Fixed DEF ToCome
  <2>4. ToCome(E) = rxLeft + 8 * bitTime + rx_end_time + 9 * E
    BY <1>1, <1>3 DEF ToCome
  <2> QED BY <1>3, <2>1, <2>2, <2>3, <2>4
<1> QED BY <1>1, <1>4, <1>5, <1>6, FirstSample

LEMMA RxBitFirst ==
    ASSUME IInv, RxBit, phase = "opening", UNCHANGED <<baudRate, inverse>>
    PROVE  IInv'
<1> DEFINE W == IF rxBit = 7 THEN rx_end_time ELSE bitTime
<1>1. /\ rxPc = "bits" /\ RxDue /\ TxWaits /\ rxBit' = rxBit + 1
      /\ rec' = rec \div 2 + (IF line = 1 THEN 128 ELSE 0)
      /\ rxPc' = (IF rxBit = 7 THEN "stop" ELSE "bits")
      /\ UNCHANGED <<latency, got, heard>>
  BY DEF RxBit
<1>2. PICK e \in RxExtra : rxLeft' = W + e
  BY DEF RxBit, Wait
<1>3. /\ bitTime \in Nat /\ rx_end_time \in Nat /\ rxLeft \in Nat /\ e \in Nat /\ W \in Nat
      /\ rxBit \in 0 .. 7 /\ rec \in 0 .. 255 /\ txLeft \in Nat
  BY <1>1, Opened, FrameAssumption DEF IInv, Rest, TypeOK, Receiving
<1>4. /\ rec' \in 0 .. 255 /\ rxLeft' \in Nat /\ rxBit' \in 0 .. 8
      /\ rxPc' \in {"idle", "bits", "stop"} /\ (rxPc' = "bits" => rxBit' \in 0 .. 7)
  BY <1>1, <1>2, <1>3
<1>5. slot # 0
  BY <1>1, <1>3 DEF RxDue, IInv, Rest, FirstFrame
<1>6. ASSUME NEW E \in Nat, \A e2 \in RxExtra : e2 <= E
      PROVE  ToCome(E)' <= ToCome(E) - rxLeft /\ ToCome(E)' \in Int
  <2>1. e <= E
    BY <1>6
  <2>2. ToCome(E) = rxLeft + (7 - rxBit) * bitTime + rx_end_time + (8 - rxBit) * E
    BY <1>1, <1>3 DEF ToCome
  <2>3. CASE rxBit = 7
    <3>1. ToCome(E)' = rx_end_time + e
      BY <1>1, <1>2, <1>3, <2>3 DEF ToCome
    <3>2. ToCome(E) = rxLeft + rx_end_time + E
      BY <1>3, <2>2, <2>3
    <3> QED BY <1>3, <2>1, <3>1, <3>2
  <2>4. CASE rxBit # 7
    <3> DEFINE k == 7 - rxBit'
    <3>1. k \in 0 .. 6 /\ 7 - rxBit = k + 1 /\ 8 - rxBit = k + 2 /\ 8 - rxBit' = k + 1
      BY <1>1, <1>3, <2>4
    <3> HIDE DEF k
    <3>2. /\ k * bitTime \in Nat /\ (k + 1) * bitTime = k * bitTime + bitTime
          /\ (k + 1) * E \in Nat /\ (k + 2) * E = (k + 1) * E + E
      <4>1. k \in 0 .. 9 /\ k + 1 \in 0 .. 9 /\ (k + 1) + 1 = k + 2
        BY <3>1
      <4> QED BY <1>3, <4>1, Times
    <3>3. ToCome(E)' = rxLeft' + k * bitTime + rx_end_time + (k + 1) * E
      BY <1>1, <1>3, <1>4, <2>4, <3>1, <3>2, Fixed DEF ToCome, k
    <3>4. ToCome(E) = rxLeft + (k + 1) * bitTime + rx_end_time + (k + 2) * E
      BY <2>2, <3>1
    <3> QED BY <1>2, <1>3, <2>1, <2>4, <3>2, <3>3, <3>4
  <2> QED BY <2>3, <2>4
<1> QED BY <1>1, <1>4, <1>5, <1>6, FirstSample

LEMMA RxStopFirst ==
    ASSUME IInv, RxStop, phase = "opening", UNCHANGED <<baudRate, inverse>>
    PROVE  IInv'
<1>1. /\ rxPc = "stop" /\ RxDue /\ TxWaits /\ rxPc' = "idle" /\ rxLeft' = 0
      /\ UNCHANGED <<latency, rxBit, rec>>
      /\ IF line = 1
         THEN got' = (IF inverse THEN Not8(rec) ELSE rec) /\ heard' = TRUE
         ELSE UNCHANGED <<got, heard>>
  BY DEF RxStop
<1>2. /\ slot \in 1 .. 9 /\ rxLeft <= txLeft
      /\ UNCHANGED <<phase, line, slot, shift, sent>>
  BY <1>1 DEF RxDue, TxWaits, IInv, Rest, Spurious, FirstFrame, TypeOK
<1>3. Sending' /\ txLeft' \in Nat
  BY <1>1, <1>2, SendingKept
<1>4. TypeOK'
  <2>1. got' \in 0 .. 255
    BY <1>1 DEF IInv, Rest, TypeOK, Not8
  <2>2. heard' \in BOOLEAN
    BY <1>1, Zenon DEF IInv, Rest, TypeOK
  <2>3. rxPc' \in {"idle", "start", "bits", "stop"}
    BY <1>1
  <2> QED BY <1>1, <1>2, <1>3, <2>1, <2>2, <2>3 DEF IInv, Rest, TypeOK
<1>5. Spurious' /\ Punctual' /\ FirstFrame' /\ Receiving' /\ Hearing' /\ NoGarble'
  BY <1>1, <1>2 DEF IInv, Rest, Spurious, Punctual, FirstFrame, Receiving, Hearing, NoGarble
<1>6. DriftInv' /\ BackInv'
  BY <1>1, <1>2 DEF DriftInv, Drift, InFrame, BackInv
<1> QED BY <1>3, <1>4, <1>5, <1>6 DEF IInv, Rest

-----------------------------------------------------------------------------

LEMMA InitSafe == Init => IInv
<1> SUFFICES ASSUME Init PROVE IInv
  OBVIOUS
<1>1. inverse \in BOOLEAN
  BY FrameAssumption DEF Init
<1>2. TypeOK
  BY DEF Init, TypeOK
<1>3. Spurious /\ Receiving /\ Hearing /\ NoGarble /\ DriftInv /\ BackInv
  BY DEF Init, Spurious, Receiving, Hearing, NoGarble, DriftInv, Drift, InFrame, BackInv
<1>4. Sending /\ Punctual /\ FirstFrame
  BY <1>1 DEF Init, Sending, Punctual, FirstFrame
<1> QED BY <1>2, <1>3, <1>4 DEF IInv, Rest

LEMMA StutterSafe == ASSUME IInv, UNCHANGED vars PROVE IInv'
<1>1. UNCHANGED <<bitTime, rx_start_time, rx_end_time>>
  BY Fixed DEF vars
<1> USE <1>1 DEF vars, txVars, rxVars
<1>2. TypeOK' /\ Spurious' /\ NoGarble' /\ Punctual' /\ FirstFrame'
  BY DEF IInv, Rest, TypeOK, Spurious, NoGarble, Punctual, FirstFrame
<1>3. Sending' /\ Receiving' /\ Hearing'
  BY DEF IInv, Rest, Sending, Receiving, Hearing, Payload, Calibrated
<1>4. Sample' = Sample /\ Lead' = Lead /\ (InFrame' <=> InFrame)
  BY DEF Sample, Lead, InFrame
<1>5. DriftInv'
  BY <1>4 DEF IInv, DriftInv, Drift, Bounds
<1>6. BackInv'
  BY DEF IInv, BackInv, ToCome
<1> QED BY <1>2, <1>3, <1>5, <1>6 DEF IInv, Rest

\* What keeps sender and receiver of a frame together, whatever both lose.
THEOREM Invariance == Spec => []IInv
<1>1. IInv /\ [Next]_vars => IInv'
  <2> SUFFICES ASSUME IInv, [Next]_vars PROVE IInv'
    OBVIOUS
  <2> QED
    BY StutterSafe, SwOpenSafe, SwWriteSafe, TxBitSafe, TxBitFirst, TxEndSafe,
       RxStartSafe, RxStartFirst, RxBitSafe, RxBitFirst, RxStopSafe, RxStopFirst
    DEF Next
<1> QED BY InitSafe, <1>1, PTL DEF Spec

\* The slots, the cycle counts and the bytes are of their types: neither side's
\* cycle count runs below zero.
THEOREM TypeCorrect == Spec => []TypeOK
<1>1. IInv => TypeOK
  BY DEF IInv, Rest
<1> QED BY Invariance, <1>1, PTL

\* "The first byte will wrong, after normal" (line 82): what the handler passes to
\* the ring (line 117) is what sw_write was called with, from the second byte on.
THEOREM BytesAreRight == Spec => []NoGarble
<1>1. IInv => NoGarble
  BY DEF IInv, Rest
<1> QED BY Invariance, <1>1, PTL

\* Each of the samples of lines 99-109 falls into its own bit, from the second byte
\* on.
THEOREM SamplesAreInSlot == Spec => SampleInSlot
<1>1. IInv /\ [Next]_vars =>
        [phase = "open" /\ rxPc = "bits" /\ rxBit' = rxBit + 1 => slot = rxBit + 1]_vars
  <2> SUFFICES ASSUME IInv, Next, phase = "open", rxPc = "bits", rxBit' = rxBit + 1
               PROVE  slot = rxBit + 1
    OBVIOUS
  <2>1. InFrame /\ Sample = rxBit + 1 /\ rxBit \in 0 .. 7
    BY DEF InFrame, Sample, IInv, Rest, Receiving
  <2>2. rxBit' # rxBit /\ rxPc # "start"
    BY <2>1
  <2>3. (\E gap \in Gaps : SwOpen(gap)) \/ (\E b \in Values, gap \in Gaps : SwWrite(b, gap))
            \/ TxBit \/ TxEnd \/ RxStart \/ RxStop => rxBit' = rxBit \/ rxPc = "start"
    BY DEF SwOpen, SwWrite, TxStart, TxBit, TxEnd, RxStart, RxStop
  <2>4. RxBit
    BY <2>2, <2>3 DEF Next
  <2> QED BY <2>1, <2>4, SampleTurn DEF RxBit
<1> QED BY Invariance, <1>1, PTL DEF Spec, SampleInSlot

\* Without a pause, and whatever both sides' loops lose, no frame starts while the
\* handler is in the one before, and none but the first that started in the
\* calibrated time is missed.
THEOREM FramesAreHeard == Spec => EveryFrameHeard
<1>1. IInv /\ [Next]_vars =>
        [slot = 10 /\ slot' = 0
            => /\ rxPc = "idle"
               /\ ~inverse /\ phase # "opening" /\ Calibrated(latency) => heard]_vars
  BY DEF IInv, Rest, Spurious, Hearing
<1> QED BY Invariance, <1>1, PTL DEF Spec, EveryFrameHeard
=============================================================================
