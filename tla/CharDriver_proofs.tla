------------------------- MODULE CharDriver_proofs -------------------------
(***************************************************************************)
(* The pins that the LED's unlocked stores carry along are kept, for every *)
(* set of writers and every interleaving with the button; and with one     *)
(* writer the LED is what the operations make of it in some order.         *)
(***************************************************************************)
EXTENDS CharDriver, FiniteSetTheorems, TLAPS

Others == {8, 9}

\* The writers' and the worker's variables are functions of the writers, and sets.
Shape ==
    /\ wPc \in [Writers -> {"idle", "copy", "compare", "on", "off", "store"}]
    /\ wTmp \in [Writers -> SUBSET Pins]
    /\ reg \subseteq Pins /\ initTmp \subseteq Pins /\ workTmp \subseteq Pins
    /\ early \in BOOLEAN

\* The button and its work come after init.
WorkIsLate == "irq" \in registered \/ queued \/ workPc # "idle" => life = "live"

\* Unless a writer came early, none is there before init has returned, ...
WritersAreLate == \A w \in Writers : wPc[w] # "idle" => life = "live"

\* ... init turns on one pin after the other, ...
InitProgress ==
    /\ life \in {"pin9", "pin9s", "pin10", "pin10s", "irq", "live"} => 8 \in reg
    /\ life \in {"pin10", "pin10s", "irq", "live"} => 9 \in reg
    /\ life \in {"pin9s", "pin10s"} => 8 \in initTmp
    /\ life = "pin10s" => 9 \in initTmp

\* ... and every word loaded to be stored again has both pins.
LoadedWords ==
    /\ \A w \in Writers : wPc[w] \in {"on", "off"} => Others \subseteq wTmp[w]
    /\ workPc \in {"clearStore", "setStore"} => Others \subseteq workTmp

PinsInv ==
    /\ Shape /\ WorkIsLate
    /\ ~early => WritersAreLate /\ InitProgress /\ LoadedWords

-----------------------------------------------------------------------------

LEMMA InitSafe == Init => PinsInv
BY DEF Init, PinsInv, Shape, WorkIsLate, WritersAreLate, InitProgress, LoadedWords

LEMMA InitStepSafe ==
    ASSUME PinsInv, InitRegister \/ InitLoad \/ InitStore \/ InitIrq
    PROVE  PinsInv'
<1>1. /\ UNCHANGED <<wPc, wTmp, early, queued, workPc, workTmp>>
      /\ life \in InitSteps /\ life # "live"
  BY DEF InitRegister, InitLoad, InitStore, InitIrq, Register, InitGoes, writerVars, workerVars,
         InitSteps
<1>2. "irq" \notin registered /\ ~queued /\ workPc = "idle"
  BY <1>1 DEF PinsInv, WorkIsLate
<1>3. Shape'
  <2>1. /\ reg' \in {reg, initTmp \cup {8}, initTmp \cup {9}, initTmp \cup {10}}
        /\ initTmp' \in {initTmp, reg}
    BY DEF InitRegister, InitLoad, InitStore, InitIrq, Register, InitGoes
  <2>2. reg' \subseteq Pins /\ initTmp' \subseteq Pins
    BY <2>1 DEF PinsInv, Shape, Pins
  <2> QED
    BY <1>1, <2>2 DEF PinsInv, Shape
<1>4. WorkIsLate'
  BY <1>1, <1>2 DEF WorkIsLate, InitRegister, InitLoad, InitStore, InitIrq, Register, InitGoes
<1>5. ASSUME ~early PROVE WritersAreLate' /\ InitProgress' /\ LoadedWords'
  <2>1. \A w \in Writers : wPc[w] = "idle"
    BY <1>1, <1>5 DEF PinsInv, WritersAreLate
  <2>2. WritersAreLate' /\ LoadedWords'
    BY <1>1, <1>2, <2>1 DEF WritersAreLate, LoadedWords
  <2>3. InitProgress'
    BY <1>5 DEF PinsInv, InitProgress, InitRegister, InitLoad, InitStore, InitIrq, Register,
                InitGoes
  <2> QED BY <2>2, <2>3
<1> QED BY <1>1, <1>3, <1>4, <1>5 DEF PinsInv

LEMMA WriteSafe ==
    ASSUME PinsInv, NEW w \in Writers, Write(w)
    PROVE  PinsInv'
<1>1. UNCHANGED <<life, initTmp, registered, queued, workPc, workTmp>>
  BY DEF Write, WriteBegin, WriteCopy, WriteInvalid, WriteLoad, WriteStore, WriterGoes, initVars,
         workerVars
<1>2. /\ \A v \in Writers \ {w} : wPc'[v] = wPc[v] /\ wTmp'[v] = wTmp[v]
      /\ early => early'
  BY DEF Write, WriteBegin, WriteCopy, WriteInvalid, WriteLoad, WriteStore, WriterGoes, PinsInv,
         Shape
<1>3. CASE \E text \in Texts : WriteBegin(w, text)
  <2>1. UNCHANGED <<reg, wTmp>> /\ early' = (early \/ life # "live")
        /\ wPc' = [wPc EXCEPT ![w] = "copy"]
    BY <1>3 DEF WriteBegin, WriterGoes
  <2>2. Shape'
    BY <1>1, <2>1 DEF PinsInv, Shape
  <2>3. WorkIsLate'
    BY <1>1 DEF PinsInv, WorkIsLate
  <2>4. ASSUME ~early' PROVE WritersAreLate' /\ InitProgress' /\ LoadedWords'
    <3>1. ~early /\ life = "live"
      BY <2>1, <2>4
    <3> QED
      BY <1>1, <2>1, <3>1 DEF PinsInv, Shape, WritersAreLate, InitProgress, LoadedWords
  <2> QED BY <2>2, <2>3, <2>4 DEF PinsInv
<1>4. CASE WriteCopy(w) \/ WriteInvalid(w) \/ WriteLoad(w) \/ WriteStore(w)
  <2>1. /\ early' = early /\ wPc[w] # "idle"
        /\ wPc' = [wPc EXCEPT ![w] = wPc'[w]]
        /\ wPc'[w] \in {"idle", "compare", "on", "off"}
    BY <1>4 DEF WriteCopy, WriteInvalid, WriteLoad, WriteStore, WriterGoes, PinsInv, Shape
  <2>2. /\ reg' \in {reg, wTmp[w] \cup {10}, wTmp[w] \ {10}}
        /\ wTmp' \in {wTmp, [wTmp EXCEPT ![w] = reg]}
    BY <1>4 DEF WriteCopy, WriteInvalid, WriteLoad, WriteStore
  <2>3. Shape'
    <3>1. reg' \subseteq Pins /\ wTmp' \in [Writers -> SUBSET Pins]
      BY <2>2 DEF PinsInv, Shape, Pins
    <3> QED
      BY <1>1, <2>1, <3>1 DEF PinsInv, Shape
  <2>4. WorkIsLate'
    BY <1>1 DEF PinsInv, WorkIsLate
  <2>5. ASSUME ~early PROVE WritersAreLate' /\ InitProgress' /\ LoadedWords'
    <3>1. life = "live" /\ Others \subseteq reg
      BY <2>1, <2>5 DEF PinsInv, WritersAreLate, InitProgress, Others
    <3>2. Others \subseteq reg'
      BY <1>4, <2>5, <3>1 DEF WriteCopy, WriteInvalid, WriteLoad, WriteStore, WriterGoes, PinsInv,
                              LoadedWords, Others
    <3>3. wPc'[w] \in {"on", "off"} => Others \subseteq wTmp'[w]
      BY <1>4, <2>1, <3>1 DEF WriteCopy, WriteInvalid, WriteLoad, WriteStore, WriterGoes, PinsInv,
                              Shape
    <3> QED
      BY <1>1, <1>2, <2>5, <3>1, <3>2, <3>3
      DEF PinsInv, WritersAreLate, InitProgress, LoadedWords, Others
  <2> QED BY <2>1, <2>3, <2>4, <2>5 DEF PinsInv
<1> QED BY <1>3, <1>4 DEF Write

LEMMA WorkSafe ==
    ASSUME PinsInv, Interrupt \/ WorkBegin \/ WorkLoad \/ WorkClear \/ WorkSet
    PROVE  PinsInv'
<1>1. UNCHANGED <<life, initTmp, registered, wPc, wTmp, early>> /\ life = "live"
  BY DEF Interrupt, WorkBegin, WorkLoad, WorkClear, WorkSet, WorkGoes, initVars, writerVars,
         PinsInv, WorkIsLate
<1>2. reg' \in {reg, workTmp, workTmp \ {10}, workTmp \cup {10}}
  BY DEF Interrupt, WorkBegin, WorkLoad, WorkClear, WorkSet
<1>3. Shape'
  <2>1. workTmp' \in {workTmp, reg}
    BY DEF Interrupt, WorkBegin, WorkLoad, WorkClear, WorkSet, workerVars
  <2>2. reg' \subseteq Pins /\ workTmp' \subseteq Pins
    BY <1>2, <2>1 DEF PinsInv, Shape, Pins
  <2> QED
    BY <1>1, <2>2 DEF PinsInv, Shape
<1>4. WorkIsLate'
  BY <1>1 DEF WorkIsLate
<1>5. ASSUME ~early PROVE WritersAreLate' /\ InitProgress' /\ LoadedWords'
  <2>1. Others \subseteq reg
    BY <1>1, <1>5 DEF PinsInv, InitProgress, Others
  <2>2. Others \subseteq reg'
    BY <1>5, <2>1 DEF Interrupt, WorkBegin, WorkLoad, WorkClear, WorkSet, WorkGoes, PinsInv,
                      LoadedWords, Others
  <2>3. workPc' \in {"clearStore", "setStore"} => Others \subseteq workTmp'
    BY <1>5, <2>1 DEF Interrupt, WorkBegin, WorkLoad, WorkClear, WorkSet, WorkGoes, PinsInv,
                      LoadedWords, workerVars
  <2> QED
    BY <1>1, <1>5, <2>2, <2>3 DEF PinsInv, WritersAreLate, InitProgress, LoadedWords, Others
<1> QED BY <1>1, <1>3, <1>4, <1>5 DEF PinsInv

\* The pins' invariant, for every set of writers.
THEOREM Invariance == Spec => []PinsInv
<1>1. PinsInv /\ [Next]_vars => PinsInv'
  <2> SUFFICES ASSUME PinsInv, [Next]_vars PROVE PinsInv'
    OBVIOUS
  <2>1. CASE UNCHANGED vars
    BY <2>1 DEF vars, initVars, writerVars, workerVars, PinsInv, Shape, WorkIsLate,
                WritersAreLate, InitProgress, LoadedWords
  <2>2. CASE Next
    BY <2>2, InitStepSafe, WriteSafe, WorkSafe DEF Next
  <2> QED BY <2>1, <2>2
<1> QED BY InitSafe, <1>1, PTL DEF Spec

\* Lines 141-144 of simpleDriver.c turn on two pins that no load and store of the
\* writers, of the worker or of init loses.
THEOREM PinsAreKept == Spec => []OtherPinsKept
<1>1. PinsInv => OtherPinsKept
  BY DEF PinsInv, InitProgress, OtherPinsKept
<1> QED BY Invariance, <1>1, PTL

-----------------------------------------------------------------------------
(* The LED: what the operations give in some order, for one writer.        *)

\* One process writes at a time; two share the buffer that each compares.
OneWriter == \A v, w \in Writers : v = w
Actors == Writers \cup {"work"}

Orders(actors) == [done : SUBSET actors, led : BOOLEAN]

\* Whatever has taken effect, one more of the running operations may have.
Closed(os, ops) ==
    \A o \in os : \A a \in DOMAIN ops \ o.done :
        [done |-> o.done \cup {a}, led |-> Effect(ops[a], o.led)] \in os

\* An operation turns the LED on or off.
LEMMA EffectIsLed ==
    ASSUME NEW op, NEW led \in BOOLEAN
    PROVE  Effect(op, led) \in BOOLEAN
<1>1. CASE op = "on" BY <1>1, Zenon DEF Effect
<1>2. CASE op = "off" BY <1>2, Zenon DEF Effect
<1>3. CASE op = "toggle" BY <1>3, Zenon DEF Effect
<1>4. CASE op \notin {"on", "off", "toggle"} BY <1>4, Zenon DEF Effect
<1> QED BY <1>1, <1>2, <1>3, <1>4

\* One round adds what one more operation makes of each order.
LEMMA Extended ==
    ASSUME NEW ops, NEW os, os \subseteq Orders(DOMAIN ops)
    PROVE  /\ os \subseteq Extend(os, ops) /\ Extend(os, ops) \subseteq Orders(DOMAIN ops)
           /\ \A o \in os : \A a \in DOMAIN ops \ o.done :
                  [done |-> o.done \cup {a}, led |-> Effect(ops[a], o.led)] \in Extend(os, ops)
           /\ \A o \in Extend(os, ops) \ os : \E p \in os, a \in DOMAIN ops :
                  a \notin p.done /\ o = [done |-> p.done \cup {a}, led |-> Effect(ops[a], p.led)]
<1>1. os \subseteq Extend(os, ops)
  BY Zenon DEF Extend
<1>2. ASSUME NEW o \in os, NEW a \in DOMAIN ops \ o.done
      PROVE  [done |-> o.done \cup {a}, led |-> Effect(ops[a], o.led)] \in Extend(os, ops)
  <2> DEFINE next == [done |-> o.done \cup {a}, led |-> Effect(ops[a], o.led)]
             More(p) == {[done |-> p.done \cup {b}, led |-> Effect(ops[b], p.led)] :
                            b \in DOMAIN ops \ p.done}
  <2>1. next \in More(o)
    OBVIOUS
  <2>2. Extend(os, ops) = os \cup UNION {More(p) : p \in os}
    BY Zenon DEF Extend
  <2>3. More(o) \in {More(p) : p \in os}
    OBVIOUS
  <2> HIDE DEF next, More
  <2>4. next \in Extend(os, ops)
    BY <2>1, <2>2, <2>3
  <2> QED
    BY <2>4 DEF next
<1>3. ASSUME NEW o \in Extend(os, ops) \ os
      PROVE  \E p \in os, a \in DOMAIN ops :
                 a \notin p.done /\ o = [done |-> p.done \cup {a}, led |-> Effect(ops[a], p.led)]
  BY <1>3, Zenon DEF Extend
<1>4. Extend(os, ops) \subseteq Orders(DOMAIN ops)
  <2> SUFFICES ASSUME NEW o \in Extend(os, ops) \ os PROVE o \in Orders(DOMAIN ops)
    OBVIOUS
  <2>1. PICK p \in os, a \in DOMAIN ops :
                 a \notin p.done /\ o = [done |-> p.done \cup {a}, led |-> Effect(ops[a], p.led)]
    BY <1>3
  <2>2. p.done \subseteq DOMAIN ops /\ p.led \in BOOLEAN
    BY DEF Orders
  <2>3. Effect(ops[a], p.led) \in BOOLEAN
    BY <2>2, EffectIsLed
  <2> QED
    BY <2>1, <2>2, <2>3 DEF Orders
<1> QED BY <1>1, <1>2, <1>3, <1>4

\* The rounds of Starts, for as many operations as one writer and the worker have.
LEMMA Rounds ==
    ASSUME NEW ops, Starts(ops)
    PROVE  /\ Cardinality(DOMAIN ops) = 1 => orders' = Extend(orders, ops)
           /\ Cardinality(DOMAIN ops) = 2 => orders' = Extend(Extend(orders, ops), ops)
<1> DEFINE F(f) == [n \in 0 .. Cardinality(DOMAIN ops) |->
                       IF n = 0 THEN orders ELSE Extend(f[n - 1], ops)]
           round == CHOOSE f : f = F(f)
           g == [n \in 0 .. Cardinality(DOMAIN ops) |->
                    IF n = 0 THEN orders
                    ELSE IF n = 1 THEN Extend(orders, ops) ELSE Extend(Extend(orders, ops), ops)]
<1>1. ASSUME Cardinality(DOMAIN ops) \in {1, 2} PROVE g = F(g)
  BY <1>1, Z3
<1>2. ASSUME Cardinality(DOMAIN ops) \in {1, 2} PROVE round = F(round)
  BY <1>1, <1>2, Zenon
<1>3. orders' = round[Cardinality(DOMAIN ops)]
  BY Zenon DEF Starts
<1> HIDE DEF round
<1>4. ASSUME Cardinality(DOMAIN ops) \in {1, 2}
      PROVE  /\ round[0] = orders /\ round[1] = Extend(orders, ops)
             /\ Cardinality(DOMAIN ops) = 2 => round[2] = Extend(round[1], ops)
  <2>1. round[0] = orders /\ round[1] = Extend(round[0], ops)
    BY <1>2, <1>4
  <2>2. Cardinality(DOMAIN ops) = 2 => round[2] = Extend(round[1], ops)
    BY <1>2, <1>4
  <2> QED BY <2>1, <2>2
<1> QED BY <1>3, <1>4

\* After the start of an operation every order of the running ones is there.
LEMMA StartCloses ==
    ASSUME OneWriter, NEW ops, Starts(ops), DOMAIN ops \subseteq Actors, DOMAIN ops # {},
           orders \subseteq Orders(DOMAIN ops)
    PROVE  /\ orders \subseteq orders' /\ orders' \subseteq Orders(DOMAIN ops)
           /\ Closed(orders', ops)
<1> DEFINE one == Extend(orders, ops)
           two == Extend(one, ops)
<1>1. orders \subseteq one /\ one \subseteq Orders(DOMAIN ops)
  BY Extended
<1>2. one \subseteq two /\ two \subseteq Orders(DOMAIN ops)
  BY <1>1, Extended
<1> DEFINE From(o, os) == \E p \in os, a \in DOMAIN ops :
              a \notin p.done /\ o = [done |-> p.done \cup {a}, led |-> Effect(ops[a], p.led)]
<1>6. \A o \in one \ orders : From(o, orders)
  BY Extended
<1>7. \A o \in two \ one : From(o, one)
  BY <1>1, Extended
<1>3. CASE \E a \in Actors : DOMAIN ops = {a}
  <2>1. Cardinality(DOMAIN ops) = 1
    BY <1>3, FS_Singleton
  <2>2. orders' = one
    BY <2>1, Rounds
  <2>3. ASSUME NEW o \in one, NEW a \in DOMAIN ops \ o.done
        PROVE  [done |-> o.done \cup {a}, led |-> Effect(ops[a], o.led)] \in one
    <3>1. o \in orders
      BY <1>3, <2>3, Extended
    <3> QED BY <3>1, Extended
  <2> QED
    BY <1>1, <2>2, <2>3 DEF Closed
<1>4. CASE \E a, b \in Actors : a # b /\ DOMAIN ops = {a, b}
  <2>1. PICK a, b \in Actors : a # b /\ DOMAIN ops = {a, b}
    BY <1>4
  <2>2. Cardinality(DOMAIN ops) = 2
    <3>1. IsFiniteSet({a}) /\ Cardinality({a}) = 1 /\ b \notin {a}
      BY <2>1, FS_Singleton
    <3>2. Cardinality({a} \cup {b}) = 2
      BY <3>1, FS_AddElement
    <3>3. DOMAIN ops = {a} \cup {b}
      BY <2>1
    <3> QED
      BY <3>2, <3>3
  <2>3. orders' = two
    BY <2>2, Rounds
  <2>4. ASSUME NEW o \in two, NEW c \in DOMAIN ops \ o.done
        PROVE  [done |-> o.done \cup {c}, led |-> Effect(ops[c], o.led)] \in two
    <3>1. o \in one
      <4>1. SUFFICES ASSUME o \in two \ one PROVE FALSE
        BY <2>4
      <4>2. PICK p \in one, d \in DOMAIN ops :
                d \notin p.done /\ o = [done |-> p.done \cup {d}, led |-> Effect(ops[d], p.led)]
        BY <1>7, <4>1
      <4>3. p \notin orders
        BY <4>1, <4>2, Extended, Zenon
      <4>4. PICK q \in orders, e \in DOMAIN ops :
                e \notin q.done /\ p = [done |-> q.done \cup {e}, led |-> Effect(ops[e], q.led)]
        BY <1>6, <4>3
      <4>5. p.done = q.done \cup {e} /\ o.done = p.done \cup {d}
        BY <4>2, <4>4
      <4> QED BY <2>1, <2>4, <4>2, <4>5
    <3> QED BY <1>1, <3>1, Extended
  <2> QED
    BY <1>1, <1>2, <2>3, <2>4 DEF Closed
<1>5. (\E a \in Actors : DOMAIN ops = {a}) \/ \E a, b \in Actors : a # b /\ DOMAIN ops = {a, b}
  <2>1. CASE "work" \notin DOMAIN ops
    <3>1. PICK w \in Writers : w \in DOMAIN ops
      BY <2>1 DEF Actors
    <3>2. DOMAIN ops = {w} /\ w \in Actors
      BY <2>1, <3>1 DEF OneWriter, Actors
    <3> QED BY <3>2
  <2>2. CASE "work" \in DOMAIN ops
    <3>1. CASE DOMAIN ops = {"work"}
      BY <3>1 DEF Actors
    <3>2. CASE DOMAIN ops # {"work"}
      <4>1. PICK w \in Writers : w \in DOMAIN ops /\ w # "work"
        BY <2>2, <3>2 DEF Actors
      <4>2. DOMAIN ops = {w, "work"} /\ w \in Actors /\ "work" \in Actors
        BY <2>2, <4>1 DEF OneWriter, Actors
      <4> QED BY <4>1, <4>2
    <3> QED BY <3>1, <3>2
  <2> QED BY <2>1, <2>2
<1> QED BY <1>3, <1>4, <1>5

-----------------------------------------------------------------------------

\* The running operations, as Starts has them.
OpsNow == [a \in Running |-> OpOf(a)]

\* In one of the orders, `done' have taken effect and given `led'.
Possible(done, led) == [done |-> done, led |-> led] \in orders

OrdersInv == orders \subseteq Orders(Running) /\ Closed(orders, OpsNow)

\* A start (dev_write, workQueueFunc) adds orders and takes none away.
LEMMA Beginning ==
    ASSUME OneWriter, OrdersInv, NEW a \in Actors, NEW op, Starts(OpsWith(a, op)),
           Running' = Running \cup {a}, OpsNow' = OpsWith(a, op)
    PROVE  OrdersInv' /\ orders \subseteq orders'
<1>1. Running \subseteq Actors
  BY DEF Running, Actors
<1>2. DOMAIN OpsWith(a, op) = Running \cup {a}
  BY DEF OpsWith
<1>3. orders \subseteq Orders(DOMAIN OpsWith(a, op))
  BY <1>2 DEF OrdersInv, Orders
<1>4. /\ orders \subseteq orders' /\ orders' \subseteq Orders(DOMAIN OpsWith(a, op))
      /\ Closed(orders', OpsWith(a, op))
  BY <1>1, <1>2, <1>3, StartCloses
<1> QED
  BY <1>2, <1>4 DEF OrdersInv

\* What has taken effect in an order is in it once more.
LEMMA OneMore ==
    ASSUME OrdersInv, NEW done, NEW led, Possible(done, led), NEW a \in Running, a \notin done
    PROVE  Possible(done \cup {a}, Effect(OpOf(a), led))
<1> DEFINE o == [done |-> done, led |-> led]
<1>1. o \in orders /\ o.done = done /\ o.led = led
  BY DEF Possible
<1>2. a \in DOMAIN OpsNow \ o.done /\ OpsNow[a] = OpOf(a)
  BY <1>1 DEF OpsNow
<1> HIDE DEF o
<1>3. [done |-> o.done \cup {a}, led |-> Effect(OpsNow[a], o.led)] \in orders
  BY <1>1, <1>2 DEF OrdersInv, Closed
<1> QED
  BY <1>1, <1>2, <1>3 DEF Possible

\* An end keeps the orders in which the operation has taken effect.
LEMMA Ending ==
    ASSUME OrdersInv, NEW a \in Running, Ends(a), Running' = Running \ {a},
           \A b \in Running' : OpOf(b)' = OpOf(b)
    PROVE  /\ OrdersInv'
           /\ \A done \in SUBSET Running', led \in BOOLEAN :
                  Possible(done \cup {a}, led) => Possible(done, led)'
<1>1. \A o \in orders : a \in o.done =>
          [done |-> o.done \ {a}, led |-> o.led] \in orders'
  <2> SUFFICES ASSUME NEW o \in orders, a \in o.done
               PROVE  [done |-> o.done \ {a}, led |-> o.led] \in orders'
    OBVIOUS
  <2>1. [o EXCEPT !.done = @ \ {a}] = [done |-> o.done \ {a}, led |-> o.led]
    <3>1. o \in [done : SUBSET Running, led : BOOLEAN]
      BY DEF OrdersInv, Orders
    <3> QED
      BY <3>1
  <2>2. [o EXCEPT !.done = @ \ {a}] \in orders'
    BY DEF Ends
  <2> QED BY <2>1, <2>2
<1>2. \A q \in orders' : \E o \in orders :
          a \in o.done /\ q = [done |-> o.done \ {a}, led |-> o.led]
  <2> SUFFICES ASSUME NEW q \in orders'
               PROVE  \E o \in orders : a \in o.done /\ q = [done |-> o.done \ {a}, led |-> o.led]
    OBVIOUS
  <2>1. PICK o \in orders : a \in o.done /\ q = [o EXCEPT !.done = @ \ {a}]
    BY DEF Ends
  <2>2. q = [done |-> o.done \ {a}, led |-> o.led]
    BY <2>1 DEF OrdersInv, Orders
  <2> QED BY <2>1, <2>2
<1>3. orders' \subseteq Orders(Running')
  <2> SUFFICES ASSUME NEW q \in orders' PROVE q \in Orders(Running')
    OBVIOUS
  <2>1. PICK o \in orders : a \in o.done /\ q = [done |-> o.done \ {a}, led |-> o.led]
    BY <1>2
  <2>2. o.done \subseteq Running /\ o.led \in BOOLEAN
    BY DEF OrdersInv, Orders
  <2> QED
    BY <2>1, <2>2 DEF Orders
<1>4. Closed(orders', OpsNow')
  <2> SUFFICES ASSUME NEW q \in orders', NEW b \in Running', b \notin q.done
               PROVE  [done |-> q.done \cup {b}, led |-> Effect(OpsNow'[b], q.led)] \in orders'
    BY DEF Closed, OpsNow
  <2>1. PICK o \in orders : a \in o.done /\ q = [done |-> o.done \ {a}, led |-> o.led]
    BY <1>2
  <2>2. b \in Running /\ b \notin o.done /\ b # a /\ OpsNow'[b] = OpsNow[b]
    BY <2>1 DEF OpsNow
  <2> DEFINE p == [done |-> o.done \cup {b}, led |-> Effect(OpsNow[b], o.led)]
  <2>3. p \in orders
    BY <2>2 DEF OrdersInv, Closed, OpsNow
  <2>4. p.done = o.done \cup {b} /\ p.led = Effect(OpsNow[b], o.led)
    OBVIOUS
  <2> HIDE DEF p
  <2>5. [done |-> p.done \ {a}, led |-> p.led] \in orders'
    BY <1>1, <2>1, <2>3, <2>4
  <2>6. p.done \ {a} = q.done \cup {b} /\ q.led = o.led
    BY <2>1, <2>2, <2>4
  <2> QED
    BY <2>2, <2>4, <2>5, <2>6
<1>5. ASSUME NEW done \in SUBSET Running', NEW led \in BOOLEAN, Possible(done \cup {a}, led)
      PROVE  Possible(done, led)'
  <2> DEFINE o == [done |-> done \cup {a}, led |-> led]
  <2>1. o \in orders /\ o.done = done \cup {a} /\ o.led = led
    BY <1>5 DEF Possible
  <2> HIDE DEF o
  <2>2. [done |-> o.done \ {a}, led |-> o.led] \in orders'
    BY <1>1, <2>1
  <2>3. o.done \ {a} = done
    BY <2>1
  <2> QED
    BY <2>1, <2>2, <2>3 DEF Possible
<1> QED BY <1>3, <1>4, <1>5 DEF OrdersInv

-----------------------------------------------------------------------------

\* What the only writer compares and stores is its own text.
TextInv ==
    /\ message \in [text : Texts \cup {"none"}, dirty : BOOLEAN]
    /\ wText \in [Writers -> Texts \cup {"none"}]
    /\ \A w \in Writers : wPc[w] = "compare" => message.text = wText[w]
    /\ \A w \in Writers : wPc[w] \in {"on", "off"} => wText[w] = wPc[w]
    /\ status \in BOOLEAN
    /\ workPc \in {"idle", "clear", "clearStore", "set", "setStore"}

\* The LED once the worker has ended, if nobody stores before it.
Final ==
    IF workPc \in {"clear", "clearStore"} THEN status
    ELSE IF workPc = "set" THEN status \/ 10 \in reg
    ELSE IF workPc = "setStore" THEN status \/ 10 \in workTmp
    ELSE 10 \in reg

AtWork == IF workPc = "idle" THEN {} ELSE {"work"}

\* Nobody need have taken effect yet; and what the worker is about to make of the
\* LED is one of the orders, unless a writer is about to store.
Witness ==
    /\ \E led \in BOOLEAN : Possible({}, led)
    /\ (\A w \in Writers : wPc[w] \notin {"on", "off"}) => Possible(AtWork, Final)

\* The invariant: the buffer is the writer's, and the LED one that an order gives.
LinInv ==
    /\ PinsInv /\ TextInv
    /\ ~early /\ life = "live" => OrdersInv /\ (~message.dirty => Witness)

\* The worker leaves the LED on or off.
LEMMA FinalIsLed ==
    ASSUME TextInv, TextInv'
    PROVE  Final \in BOOLEAN /\ Final' \in BOOLEAN
<1>1. status \in BOOLEAN /\ status' \in BOOLEAN
  BY DEF TextInv
<1>2. /\ (status \/ 10 \in reg) \in BOOLEAN /\ (status \/ 10 \in workTmp) \in BOOLEAN
      /\ (10 \in reg) \in BOOLEAN
  OBVIOUS
<1>3. /\ (status' \/ 10 \in reg') \in BOOLEAN /\ (status' \/ 10 \in workTmp') \in BOOLEAN
      /\ (10 \in reg') \in BOOLEAN
  OBVIOUS
<1> QED BY <1>1, <1>2, <1>3, Zenon DEF Final

\* Nothing is live before init.
LEMMA LinInitSafe == Init => LinInv
<1> SUFFICES ASSUME Init PROVE LinInv
  OBVIOUS
<1>1. TextInv
  <2>1. message \in [text : Texts \cup {"none"}, dirty : BOOLEAN] /\ status \in BOOLEAN
    BY DEF Init
  <2> QED BY <2>1 DEF Init, TextInv
<1>2. life # "live"
  BY DEF Init
<1> QED BY <1>1, <1>2, InitSafe DEF LinInv

\* Steps that leave the operations, and what they work with, alone.
LEMMA OrdersKept ==
    ASSUME OrdersInv, UNCHANGED <<orders, Running>>, \A a \in Running : OpOf(a)' = OpOf(a)
    PROVE  OrdersInv' /\ \A done, led : Possible(done, led) => Possible(done, led)'
<1>1. OpsNow' = OpsNow
  BY DEF OpsNow
<1> QED BY <1>1 DEF OrdersInv, Possible

\* The last step of init begins the history with the LED as it is.
LEMMA InitStepLin ==
    ASSUME LinInv, InitRegister \/ InitLoad \/ InitStore \/ InitIrq
    PROVE  LinInv'
<1>1. UNCHANGED <<message, wPc, wTmp, wText, queued, workPc, workTmp, status, early>>
      /\ life # "live"
  BY DEF InitRegister, InitLoad, InitStore, InitIrq, Register, InitGoes, writerVars, workerVars
<1>2. PinsInv' /\ TextInv'
  BY <1>1, InitStepSafe DEF LinInv, TextInv
<1>3. ASSUME ~early, life' = "live" PROVE OrdersInv' /\ Witness'
  <2>1. orders' = {[done |-> {}, led |-> 10 \in reg]} /\ reg' = reg
    BY <1>3 DEF InitRegister, InitLoad, InitStore, InitIrq, Register, InitGoes
  <2>2. workPc = "idle" /\ \A w \in Writers : wPc[w] = "idle"
    BY <1>1, <1>3 DEF LinInv, PinsInv, WorkIsLate, WritersAreLate
  <2>3. Running' = {}
    BY <1>1, <2>2 DEF Running
  <2>4. AtWork' = {} /\ Final' = (10 \in reg)
    BY <1>1, <2>1, <2>2 DEF AtWork, Final
  <2>5. [done |-> {}, led |-> 10 \in reg] \in Orders({})
    BY DEF Orders
  <2>6. OrdersInv'
    BY <2>1, <2>3, <2>5 DEF OrdersInv, Closed, OpsNow
  <2>7. \E led \in BOOLEAN : Possible({}, led)'
    <3>1. (10 \in reg) \in BOOLEAN
      OBVIOUS
    <3>2. [done |-> {}, led |-> 10 \in reg] \in orders'
      BY <2>1
    <3> QED
      BY <3>1, <3>2, Zenon DEF Possible
  <2>8. Possible(AtWork, Final)'
    BY <2>1, <2>4 DEF Possible
  <2> QED BY <2>6, <2>7, <2>8 DEF Witness
<1> QED BY <1>1, <1>2, <1>3 DEF LinInv

\* The steps of a writer that do not end its operation.
LEMMA WriteGoesLin ==
    ASSUME OneWriter, LinInv, NEW w \in Writers,
           (\E text \in Texts : WriteBegin(w, text)) \/ WriteCopy(w) \/ WriteLoad(w)
    PROVE  LinInv'
<1>0. /\ wPc \in [Writers -> {"idle", "copy", "compare", "on", "off", "store"}]
      /\ "work" \notin Writers
  BY DriverAssumption DEF DriverAssumption, LinInv, PinsInv, Shape
<1>1. UNCHANGED <<reg, life, workPc, workTmp, status>> /\ PinsInv'
  BY WriteSafe DEF Write, WriteBegin, WriteCopy, WriteLoad, WriterGoes, initVars, workerVars,
                   LinInv
<1>2. UNCHANGED <<AtWork, Final>>
  BY <1>1 DEF AtWork, Final
<1>3. CASE \E text \in Texts : WriteBegin(w, text)
  <2>1. PICK text \in Texts : WriteBegin(w, text)
    BY <1>3
  <2>2. /\ wPc[w] = "idle" /\ wPc' = [wPc EXCEPT ![w] = "copy"]
        /\ wText' = [wText EXCEPT ![w] = text] /\ message' = message
        /\ early' = (early \/ life # "live") /\ Starts(OpsWith(w, text))
    BY <2>1 DEF WriteBegin, WriterGoes
  <2>3. TextInv'
    BY <1>0, <1>1, <2>2 DEF LinInv, TextInv
  <2>4. Running' = Running \cup {w} /\ w \in Actors /\ w \notin Running
    BY <1>0, <1>1, <2>2 DEF Running, Actors
  <2>5. OpsNow' = OpsWith(w, text)
    <3>1. OpOf(w)' = text
      BY <1>0, <2>2 DEF OpOf, LinInv, TextInv
    <3>2. \A b \in Running : OpOf(b)' = OpOf(b)
      BY <1>0, <2>2, <2>4 DEF OpOf, LinInv, TextInv, Running
    <3> QED
      BY <2>4, <3>1, <3>2 DEF OpsNow, OpsWith
  <2>6. ASSUME ~early', life' = "live" PROVE OrdersInv' /\ (~message.dirty => Witness)'
    <3>1. OrdersInv /\ (~message.dirty => Witness)
      BY <1>1, <2>2, <2>6 DEF LinInv
    <3>2. OrdersInv' /\ orders \subseteq orders'
      BY <2>2, <2>4, <2>5, <3>1, Beginning
    <3>3. \A v \in Writers : wPc[v] \notin {"on", "off"}
      BY <2>2 DEF OneWriter
    <3>4. ASSUME Witness PROVE Witness'
      BY <1>2, <3>2, <3>3, <3>4 DEF Witness, Possible
    <3> QED BY <2>2, <3>1, <3>2, <3>4
  <2> QED BY <1>1, <2>3, <2>6 DEF LinInv
<1>4. CASE WriteCopy(w) \/ WriteLoad(w)
  <2>1. /\ wPc[w] \in {"copy", "compare"} /\ wPc' = [wPc EXCEPT ![w] = wPc'[w]]
        /\ wPc'[w] # "idle" /\ UNCHANGED <<wText, orders, early>>
    BY <1>0, <1>4 DEF WriteCopy, WriteLoad, WriterGoes
  <2>5. message.dirty => message'.dirty
    <3>1. CASE WriteCopy(w)
      <4>1. message'.dirty = (message.dirty \/ wText[w] = "long")
        BY <3>1 DEF WriteCopy
      <4> QED BY <4>1, Zenon
    <3>2. CASE WriteLoad(w)
      BY <3>2 DEF WriteLoad
    <3> QED BY <1>4, <3>1, <3>2
  <2>2. TextInv'
    <3>1. CASE WriteCopy(w)
      <4>1. message' = [text |-> wText[w], dirty |-> message.dirty \/ wText[w] = "long"]
        BY <3>1 DEF WriteCopy
      <4>2. (message.dirty \/ wText[w] = "long") \in BOOLEAN
        BY Zenon
      <4>3. message' \in [text : Texts \cup {"none"}, dirty : BOOLEAN] /\ message'.text = wText[w]
        BY <4>1, <4>2 DEF LinInv, TextInv
      <4>4. wPc' = [wPc EXCEPT ![w] = "compare"]
        BY <3>1 DEF WriteCopy, WriterGoes
      <4> QED
        BY <1>0, <1>1, <2>1, <4>3, <4>4 DEF LinInv, TextInv, OneWriter
    <3>2. CASE WriteLoad(w)
      <4>1. message' = message /\ wPc[w] = "compare" /\ wPc' = [wPc EXCEPT ![w] = message.text]
        BY <3>2 DEF WriteLoad, WriterGoes
      <4> QED
        BY <1>0, <1>1, <2>1, <4>1 DEF LinInv, TextInv, OneWriter
    <3> QED BY <1>4, <3>1, <3>2
  <2>3. Running' = Running /\ \A a \in Running : OpOf(a)' = OpOf(a)
    BY <1>0, <1>1, <2>1 DEF Running, OpOf
  <2>4. ASSUME ~early', life' = "live" PROVE OrdersInv' /\ (~message.dirty => Witness)'
    <3>1. OrdersInv /\ (~message.dirty => Witness)
      BY <1>1, <2>1, <2>4 DEF LinInv
    <3>2. OrdersInv'
      BY <2>1, <2>3, <3>1, OrdersKept
    <3>3. \A v \in Writers : wPc[v] \notin {"on", "off"}
      BY <2>1 DEF OneWriter
    <3>4. ASSUME Witness PROVE Witness'
      BY <1>2, <2>1, <3>3, <3>4 DEF Witness, Possible
    <3> QED BY <2>1, <2>5, <3>1, <3>2, <3>4
  <2> QED BY <1>1, <2>1, <2>2, <2>4 DEF LinInv
<1> QED BY <1>3, <1>4

\* The end of a write: in one of the orders it has taken effect with what it stores,
\* and with a worker still running either value of the LED can come out.
LEMMA WriteEndsLin ==
    ASSUME OneWriter, LinInv, NEW w \in Writers, WriteInvalid(w) \/ WriteStore(w)
    PROVE  LinInv'
<1>0. /\ wPc \in [Writers -> {"idle", "copy", "compare", "on", "off", "store"}]
      /\ "work" \notin Writers
  BY DriverAssumption DEF DriverAssumption, LinInv, PinsInv, Shape
<1>1. /\ UNCHANGED <<life, workPc, workTmp, status, wText, message, early>> /\ PinsInv'
      /\ wPc[w] \in {"compare", "on", "off"} /\ wPc' = [wPc EXCEPT ![w] = "idle"] /\ Ends(w)
  BY WriteSafe DEF Write, WriteInvalid, WriteStore, WriterGoes, initVars, workerVars, LinInv
<1>2. TextInv'
  BY <1>0, <1>1 DEF LinInv, TextInv
<1>3. w \in Running /\ Running' = Running \ {w} /\ \A b \in Running' : OpOf(b)' = OpOf(b)
  BY <1>0, <1>1 DEF Running, OpOf
<1>4. AtWork' = AtWork /\ AtWork \subseteq Running' /\ w \notin AtWork
  BY <1>0, <1>1, <1>3 DEF AtWork, Running
<1>5. OpOf(w) = wText[w]
  BY <1>0 DEF OpOf
<1>6. ASSUME ~early, life = "live" PROVE OrdersInv'
  BY <1>1, <1>3, <1>6, Ending DEF LinInv
<1>7. ASSUME ~early, life = "live", ~message.dirty PROVE Witness'
  <2>1. OrdersInv /\ Witness
    BY <1>7 DEF LinInv
  <2>2. \A done \in SUBSET Running', led \in BOOLEAN :
            Possible(done \cup {w}, led) => Possible(done, led)'
    BY <1>1, <1>3, <2>1, Ending
  <2>3. PICK led \in BOOLEAN : Possible({}, led)
    BY <2>1 DEF Witness
  <2>4. Possible({} \cup {w}, Effect(OpOf(w), led))
    BY <1>3, <2>1, <2>3, OneMore
  <2>5. \E after \in BOOLEAN : Possible({}, after)'
    <3>1. PICK after \in BOOLEAN : after = Effect(OpOf(w), led)
      BY EffectIsLed
    <3> QED
      BY <2>2, <2>4, <3>1
  <2>6. CASE WriteInvalid(w)
    <3>1. wText[w] \notin {"on", "off"} /\ wText[w] # "toggle" /\ wPc[w] = "compare"
      BY <1>7, <2>6, DriverAssumption DEF WriteInvalid, WriterGoes, LinInv, TextInv,
                                          DriverAssumption
    <3>2. Effect(OpOf(w), Final) = Final
      BY <1>5, <3>1, Zenon DEF Effect
    <3>3. Final' = Final /\ Final \in BOOLEAN
      BY <1>1, <1>2, <2>6, FinalIsLed DEF WriteInvalid, Final, LinInv
    <3>4. Possible(AtWork, Final)
      BY <2>1, <3>1 DEF Witness, OneWriter
    <3>5. Possible(AtWork \cup {w}, Final)
      BY <1>3, <1>4, <2>1, <3>2, <3>4, OneMore
    <3>6. Possible(AtWork, Final)'
      BY <1>4, <2>2, <3>3, <3>5
    <3> QED
      BY <2>5, <3>6 DEF Witness
  <2>7. CASE WriteStore(w)
    <3>1. PICK on \in BOOLEAN :
              /\ Effect(OpOf(w), TRUE) = on /\ Effect(OpOf(w), FALSE) = on
              /\ (10 \in reg') = on
      <4>1. wText[w] = wPc[w]
        BY <2>7 DEF WriteStore, WriterGoes, LinInv, TextInv
      <4>2. CASE wPc[w] = "on"
        <5>1. 10 \in reg'
          BY <2>7, <4>2 DEF WriteStore, WriterGoes
        <5>2. Effect(OpOf(w), TRUE) = TRUE /\ Effect(OpOf(w), FALSE) = TRUE
          BY <1>5, <4>1, <4>2, Zenon DEF Effect
        <5>3. (10 \in reg') = TRUE
          BY <5>1
        <5> QED BY <5>2, <5>3, Zenon
      <4>3. CASE wPc[w] = "off"
        <5>1. 10 \notin reg'
          BY <2>7, <4>3 DEF WriteStore, WriterGoes
        <5>2. Effect(OpOf(w), TRUE) = FALSE /\ Effect(OpOf(w), FALSE) = FALSE
          BY <1>5, <4>1, <4>3, Zenon DEF Effect
        <5>3. (10 \in reg') = FALSE
          BY <5>1
        <5> QED BY <5>2, <5>3, Zenon
      <4> QED BY <2>7, <4>2, <4>3 DEF WriteStore, WriterGoes
    <3>2. \A x \in BOOLEAN : Effect(OpOf(w), x) = on
      BY <3>1
    <3>3. Possible({} \cup {w}, on)
      BY <2>3, <2>4, <3>2
    <3>4. CASE workPc = "idle"
      <4>1. AtWork' = {} /\ Final' = (10 \in reg')
        BY <1>1, <3>4 DEF AtWork, Final
      <4>2. Possible({}, on)'
        BY <2>2, <3>3
      <4>3. Possible(AtWork, Final)'
        BY <3>1, <4>1, <4>2
      <4> QED
        BY <4>2, <4>3 DEF Witness
    <3>5. CASE workPc # "idle"
      <4>1. AtWork' = {"work"} /\ "work" \in Running /\ OpOf("work") = "toggle"
        BY <1>1, <3>5 DEF AtWork, Running, OpOf
      <4>2. \A x : Effect("toggle", x) = ~x
        BY Zenon DEF Effect
      <4>3. Possible({} \cup {w} \cup {"work"}, ~on)
        BY <1>0, <2>1, <3>3, <4>1, <4>2, OneMore
      <4>9. PICK other \in BOOLEAN : other = ~led
        OBVIOUS
      <4>4. Possible({} \cup {"work"}, other)
        BY <2>1, <2>3, <4>1, <4>2, <4>9, OneMore
      <4>5. Possible({} \cup {"work"} \cup {w}, on)
        BY <1>0, <1>3, <2>1, <3>2, <4>4, OneMore
      <4>6. Possible({"work"}, on)' /\ Possible({"work"}, ~on)'
        <5>1. {} \cup {w} \cup {"work"} = {"work"} \cup {w} /\ {} \cup {"work"} = {"work"}
          OBVIOUS
        <5>2. {"work"} \in SUBSET Running'
          BY <1>0, <1>3, <4>1
        <5> QED
          BY <2>2, <4>3, <4>5, <5>1, <5>2
      <4>7. Final' \in BOOLEAN
        BY <1>2, FinalIsLed DEF LinInv
      <4>8. Possible(AtWork, Final)'
        BY <4>1, <4>6, <4>7
      <4> QED
        BY <2>5, <4>8 DEF Witness
    <3> QED BY <3>4, <3>5
  <2> QED BY <1>7, <2>6, <2>7
<1> QED BY <1>1, <1>2, <1>6, <1>7 DEF LinInv

\* The worker: it takes effect where it would have read the LED, or after a writer
\* it has overlapped.
LEMMA WorkLin ==
    ASSUME OneWriter, LinInv, Interrupt \/ WorkBegin \/ WorkLoad \/ WorkClear \/ WorkSet
    PROVE  LinInv'
<1>0. "work" \notin Writers
  BY DriverAssumption DEF DriverAssumption
<1>1. UNCHANGED <<life, message, wPc, wText, early>> /\ PinsInv'
  BY WorkSafe DEF Interrupt, WorkBegin, WorkLoad, WorkClear, WorkSet, WorkGoes, initVars,
                  writerVars, LinInv
<1>2. TextInv'
  <2>1. workPc' \in {"idle", "clear", "clearStore", "set", "setStore"}
    BY DEF Interrupt, WorkBegin, WorkLoad, WorkClear, WorkSet, WorkGoes, workerVars, LinInv,
           TextInv
  <2>2. status' = status \/ status' = (10 \notin reg)
    BY DEF Interrupt, WorkBegin, WorkLoad, WorkClear, WorkSet, workerVars
  <2>3. (10 \notin reg) \in BOOLEAN
    OBVIOUS
  <2>4. status' \in BOOLEAN
    BY <2>2, <2>3, Zenon DEF LinInv, TextInv
  <2> QED
    BY <1>1, <2>1, <2>4 DEF LinInv, TextInv
<1>3. \A a \in Actors : OpOf(a)' = OpOf(a)
  BY <1>1 DEF OpOf
<1>4. Running \subseteq Actors /\ OpOf("work") = "toggle" /\ "work" \in Actors
  BY DEF Running, Actors, OpOf
<1>5. \A x : Effect("toggle", x) = ~x
  BY Zenon DEF Effect
<1> SUFFICES ASSUME ~early, life = "live"
             PROVE  OrdersInv' /\ (~message.dirty => Witness)'
  BY <1>1, <1>2 DEF LinInv
<1>6. OrdersInv /\ (~message.dirty => Witness)
  BY DEF LinInv
<1>7. CASE Interrupt \/ WorkLoad \/ WorkClear
  <2>1. orders' = orders /\ Running' = Running /\ AtWork' = AtWork
    BY <1>1, <1>7 DEF Interrupt, WorkLoad, WorkClear, WorkGoes, workerVars, Running, AtWork
  <2>2. Final' = Final
    <3>1. CASE Interrupt
      BY <3>1 DEF Interrupt, workerVars, Final
    <3>2. CASE WorkLoad
      BY <3>2, Zenon DEF WorkLoad, WorkGoes, Final
    <3>3. CASE WorkClear
      <4>1. 10 \notin reg' /\ workPc = "clearStore" /\ workPc' = "set" /\ status' = status
        BY <3>3 DEF WorkClear, WorkGoes
      <4>2. (status \/ 10 \in reg') = status
        BY <4>1, Zenon DEF LinInv, TextInv
      <4> QED
        BY <4>1, <4>2, Zenon DEF Final
    <3> QED BY <1>7, <3>1, <3>2, <3>3
  <2>3. OrdersInv'
    BY <1>3, <1>4, <1>6, <2>1, OrdersKept
  <2>4. ASSUME Witness PROVE Witness'
    BY <1>1, <2>1, <2>2, <2>4 DEF Witness, Possible
  <2> QED BY <1>1, <1>6, <2>3, <2>4
<1>8. CASE WorkBegin
  <2>1. /\ workPc = "idle" /\ workPc' = "clear" /\ status' = (10 \notin reg) /\ reg' = reg
        /\ Starts(OpsWith("work", "toggle"))
    BY <1>8 DEF WorkBegin, WorkGoes
  <2>2. Running' = Running \cup {"work"} /\ "work" \notin Running
    BY <1>0, <1>1, <2>1 DEF Running
  <2>3. OpsNow' = OpsWith("work", "toggle")
    BY <1>3, <1>4, <2>2 DEF OpsNow, OpsWith
  <2>4. OrdersInv' /\ orders \subseteq orders'
    BY <1>4, <1>6, <2>1, <2>2, <2>3, Beginning
  <2>5. ASSUME Witness PROVE Witness'
    <3>1. \E led \in BOOLEAN : Possible({}, led)'
      BY <2>4, <2>5 DEF Witness, Possible
    <3>2. ASSUME \A w \in Writers : wPc[w] \notin {"on", "off"}
          PROVE  Possible(AtWork, Final)'
      <4>1. AtWork = {} /\ AtWork' = {"work"} /\ Final = (10 \in reg) /\ Final' = (10 \notin reg)
        BY <2>1 DEF AtWork, Final
      <4>2. PICK led \in BOOLEAN : led = (10 \in reg)
        <5>1. (10 \in reg) \in BOOLEAN
          OBVIOUS
        <5> QED BY <5>1, Zenon
      <4>3. Possible({}, led)
        BY <2>5, <3>2, <4>1, <4>2 DEF Witness
      <4>4. [done |-> {}, led |-> led] \in orders'
        BY <2>4, <4>3 DEF Possible
      <4>5. [done |-> {} \cup {"work"}, led |-> ~led] \in orders'
        <5> DEFINE o == [done |-> {}, led |-> led]
        <5>1. o \in orders' /\ o.done = {} /\ o.led = led
          BY <4>4
        <5>2. "work" \in DOMAIN OpsNow' \ o.done /\ OpsNow'["work"] = "toggle"
          BY <2>2, <2>3, <5>1 DEF OpsWith
        <5> HIDE DEF o
        <5>3. [done |-> o.done \cup {"work"}, led |-> Effect(OpsNow'["work"], o.led)] \in orders'
          BY <2>4, <5>1, <5>2 DEF OrdersInv, Closed
        <5> QED
          BY <1>5, <5>1, <5>2, <5>3
      <4>6. (~led) = (10 \notin reg)
        BY <4>2
      <4>7. {} \cup {"work"} = {"work"}
        OBVIOUS
      <4> QED
        BY <4>1, <4>5, <4>6, <4>7 DEF Possible
    <3> QED
      BY <1>1, <3>1, <3>2 DEF Witness
  <2> QED BY <1>1, <1>6, <2>4, <2>5
<1>9. CASE WorkSet
  <2>1. /\ workPc = "setStore" /\ workPc' = "idle" /\ Ends("work")
        /\ reg' = IF status THEN workTmp \cup {10} ELSE workTmp
    BY <1>9 DEF WorkSet, WorkGoes
  <2>2. "work" \in Running /\ Running' = Running \ {"work"}
    BY <1>0, <1>1, <2>1 DEF Running
  <2>3. \A b \in Running' : OpOf(b)' = OpOf(b)
    BY <1>3, <1>4, <2>2
  <2>4. /\ OrdersInv'
        /\ \A done \in SUBSET Running', led \in BOOLEAN :
               Possible(done \cup {"work"}, led) => Possible(done, led)'
    BY <1>6, <2>1, <2>2, <2>3, Ending
  <2>5. ASSUME Witness PROVE Witness'
    <3>1. \E after \in BOOLEAN : Possible({}, after)'
      <4>1. PICK led \in BOOLEAN : Possible({}, led)
        BY <2>5 DEF Witness
      <4>2. PICK after \in BOOLEAN : after = ~led
        OBVIOUS
      <4>3. Possible({} \cup {"work"}, after)
        BY <1>4, <1>5, <1>6, <2>2, <4>1, <4>2, OneMore
      <4> QED BY <2>4, <4>3
    <3>2. ASSUME \A w \in Writers : wPc[w] \notin {"on", "off"}
          PROVE  Possible(AtWork, Final)'
      <4>1. AtWork = {"work"} /\ AtWork' = {} /\ Final = (status \/ 10 \in workTmp)
            /\ Final' = (10 \in reg')
        BY <2>1, Zenon DEF AtWork, Final
      <4>2. (10 \in reg') = (status \/ 10 \in workTmp)
        <5>1. CASE status
          BY <2>1, <5>1
        <5>2. CASE ~status
          BY <2>1, <5>2
        <5> QED BY <5>1, <5>2
      <4>3. PICK led \in BOOLEAN : led = Final
        BY <1>2, FinalIsLed DEF LinInv
      <4>4. Possible({} \cup {"work"}, led)
        BY <2>5, <3>2, <4>1, <4>3 DEF Witness
      <4>5. Possible({}, led)'
        BY <2>4, <4>4
      <4>6. Final' = led
        BY <4>1, <4>2, <4>3, Zenon
      <4> QED
        BY <4>1, <4>5, <4>6
    <3> QED
      BY <1>1, <3>1, <3>2 DEF Witness
  <2> QED BY <1>1, <1>6, <2>4, <2>5
<1> QED BY <1>7, <1>8, <1>9

\* With one writer, what the history and the progress of the operations have to do
\* with each other.
THEOREM LinInvariance == ASSUME OneWriter PROVE Spec => []LinInv
<1>1. Init => LinInv
  BY LinInitSafe
<1>2. LinInv /\ [Next]_vars => LinInv'
  <2> SUFFICES ASSUME LinInv, [Next]_vars PROVE LinInv'
    OBVIOUS
  <2>1. CASE InitRegister \/ InitLoad \/ InitStore \/ InitIrq
    BY <2>1, InitStepLin
  <2>2. ASSUME NEW w \in Writers, Write(w) PROVE LinInv'
    BY <2>2, WriteGoesLin, WriteEndsLin DEF Write
  <2>3. CASE Interrupt \/ WorkBegin \/ WorkLoad \/ WorkClear \/ WorkSet
    BY <2>3, WorkLin
  <2>4. CASE UNCHANGED vars
    <3>1. /\ UNCHANGED <<reg, life, initTmp, registered, message, wPc, wTmp, wText>>
          /\ UNCHANGED <<queued, workPc, workTmp, status, orders, early>>
      BY <2>4 DEF vars, initVars, writerVars, workerVars
    <3>2. PinsInv'
      BY <3>1 DEF LinInv, PinsInv, Shape, WorkIsLate, WritersAreLate, InitProgress, LoadedWords
    <3>3. TextInv'
      BY <3>1 DEF LinInv, TextInv
    <3>4. UNCHANGED <<Running, AtWork, Final>> /\ \A a : OpOf(a)' = OpOf(a)
      BY <3>1 DEF Running, AtWork, Final, OpOf
    <3>5. OrdersInv => OrdersInv'
      BY <3>1, <3>4, OrdersKept
    <3>6. Witness => Witness'
      BY <3>1, <3>4 DEF Witness, Possible
    <3> QED
      BY <3>1, <3>2, <3>3, <3>5, <3>6 DEF LinInv
  <2> QED
    BY <2>1, <2>2, <2>3, <2>4 DEF Next
<1> QED
  BY <1>1, <1>2, PTL DEF Spec

\* LedLinearizable for one writer, any texts and any interleaving with the module's
\* init, the button and the worker (dev_write, workQueueFunc): once nothing runs, the
\* LED is what the operations give one after the other in some order.
THEOREM LedFollowsAnOrder == ASSUME OneWriter PROVE Spec => []LedLinearizable
<1>1. LinInv => LedLinearizable
  <2> SUFFICES ASSUME LinInv, Quiet, ~early, ~message.dirty
               PROVE  \E o \in orders : o.led = (10 \in reg)
    BY DEF LedLinearizable
  <2>1. workPc = "idle" /\ \A w \in Writers : wPc[w] = "idle"
    BY DEF Quiet, Running
  <2>2. AtWork = {} /\ Final = (10 \in reg)
    BY <2>1 DEF AtWork, Final
  <2>3. Witness /\ \A w \in Writers : wPc[w] \notin {"on", "off"}
    BY <2>1 DEF LinInv, Quiet
  <2>4. [done |-> AtWork, led |-> Final] \in orders
    BY <2>3 DEF Witness, Possible
  <2> QED
    BY <2>2, <2>4
<1> QED
  BY <1>1, LinInvariance, PTL
=============================================================================
