----------------------------- MODULE CharDriver -----------------------------
(***************************************************************************)
(* simpleDriver.c: a character device that drives a LED on pin PA10. The   *)
(* module's init, dev_write of any number of processes, and workQueueFunc, *)
(* queued by the button's interrupt, all change the port's data register   *)
(* with a load and a store of the whole word and without a lock.           *)
(*                                                                         *)
(* A step is one load, store, kernel call or access to `message'.          *)
(***************************************************************************)
EXTENDS Integers, FiniteSets

CONSTANTS
    Writers,    \* user processes that write to /dev/ebbchar
    Texts       \* what they write: "on" is 1, "off" is 0, "bad" is neither and
                \* as short, "long" is neither and longer

ASSUME DriverAssumption ==
    /\ "work" \notin Writers
    /\ Texts \subseteq {"on", "off", "bad", "long"}

\* The bits of PA_DAT_REG that this driver uses, as the set of pins that are on.
Pins == {8, 9, 10}

VARIABLES
    reg,        \* PA_DAT_REG
    life,       \* ebbchar_init's next step; "live" once it has returned 0
    initTmp,    \* the word it loaded
    registered, \* what the kernel holds of this module
    message,    \* the static buffer: its text, and whether it was ever long
    wPc, wTmp,  \* of a writer: its next step and the word it loaded
    wText,      \*   and what it was asked to write
    queued,     \* the work is in the queue
    workPc, workTmp, status,  \* of the worker: also its local `status'
    (* history: the orders in which the operations may have taken effect; *)
    (* void once a writer came before the module was live                 *)
    orders, early

initVars == <<life, initTmp, registered>>
writerVars == <<wPc, wTmp, wText>>
workerVars == <<workPc, workTmp, status>>
vars == <<reg, initVars, message, writerVars, queued, workerVars, orders, early>>

InitSteps == {"chrdev", "class", "device", "pin8", "pin8s", "pin9", "pin9s",
              "pin10", "pin10s", "irq"}

TypeOK ==
    /\ reg \subseteq Pins /\ initTmp \subseteq Pins /\ workTmp \subseteq Pins
    /\ life \in InitSteps \cup {"live", "failed"}
    /\ registered \subseteq {"chrdev", "class", "device", "irq"}
    /\ message \in [text : Texts \cup {"none"}, dirty : BOOLEAN]
    /\ wPc \in [Writers -> {"idle", "copy", "compare", "on", "off", "store"}]
    /\ wTmp \in [Writers -> SUBSET Pins]
    /\ wText \in [Writers -> Texts \cup {"none"}]
    /\ queued \in BOOLEAN /\ status \in BOOLEAN /\ early \in BOOLEAN
    /\ workPc \in {"idle", "clear", "clearStore", "set", "setStore"}

Init ==
    /\ reg \in SUBSET Pins /\ initTmp = {}
    /\ life = "chrdev" /\ registered = {}
    /\ message = [text |-> "none", dirty |-> FALSE]
    /\ wPc = [w \in Writers |-> "idle"] /\ wTmp = [w \in Writers |-> {}]
    /\ wText = [w \in Writers |-> "none"]
    /\ queued = FALSE /\ workPc = "idle" /\ workTmp = {} /\ status = FALSE
    /\ orders = {} /\ early = FALSE

-----------------------------------------------------------------------------
(* History: the LED as if every operation were one atomic step. A member   *)
(* of `orders' is one way to order the operations so far: which of those   *)
(* still running have taken effect, and the LED that results.              *)

Effect(op, led) ==
    CASE op = "on" -> TRUE
      [] op = "off" -> FALSE
      [] op = "toggle" -> ~led
      [] OTHER -> led

\* ops: the running operations, by their actor. One more of them, or none.
Extend(os, ops) ==
    os \cup UNION {{[done |-> o.done \cup {a}, led |-> Effect(ops[a], o.led)] :
                       a \in DOMAIN ops \ o.done} : o \in os}

\* Any number of them.
Starts(ops) ==
    LET round[n \in 0 .. Cardinality(DOMAIN ops)] ==
            IF n = 0 THEN orders ELSE Extend(round[n - 1], ops)
    IN  orders' = round[Cardinality(DOMAIN ops)]
Ends(a) ==
    orders' = {[o EXCEPT !.done = @ \ {a}] : o \in {o \in orders : a \in o.done}}

Running == {w \in Writers : wPc[w] # "idle"} \cup (IF workPc = "idle" THEN {} ELSE {"work"})
OpOf(a) == IF a = "work" THEN "toggle" ELSE wText[a]
OpsWith(a, op) == [b \in Running \cup {a} |-> IF b = a THEN op ELSE OpOf(b)]

-----------------------------------------------------------------------------
(* ebbchar_init, lines 96-164.                                             *)

InitGoes(from, to) ==
    /\ life = from
    /\ life' = to
    /\ UNCHANGED <<message, writerVars, queued, workerVars, early>>

\* A registration succeeds, or init cleans up and returns the error.
Register(what, to, kept) ==
    \/ InitGoes(what, to) /\ registered' = registered \cup {what}
    \/ InitGoes(what, "failed") /\ registered' = kept

InitRegister ==
    /\ \/ Register("chrdev", "class", {})
       \/ Register("class", "device", {})
       \/ Register("device", "pin8", {})
    /\ UNCHANGED <<reg, initTmp, orders>>

\* PA_DAT_REG = PA_DAT_REG | bit, and the sleep after it.
InitLoad ==
    /\ \/ InitGoes("pin8", "pin8s") \/ InitGoes("pin9", "pin9s") \/ InitGoes("pin10", "pin10s")
    /\ initTmp' = reg
    /\ UNCHANGED <<reg, registered, orders>>

InitStore ==
    /\ \/ InitGoes("pin8s", "pin9") /\ reg' = initTmp \cup {8}
       \/ InitGoes("pin9s", "pin10") /\ reg' = initTmp \cup {9}
       \/ InitGoes("pin10s", "irq") /\ reg' = initTmp \cup {10}
    /\ UNCHANGED <<initTmp, registered, orders>>

\* Lines 157-162: the failure returns at once.
InitIrq ==
    /\ Register("irq", "live", registered)
    /\ orders' = {[done |-> {}, led |-> 10 \in reg]}
    /\ UNCHANGED <<reg, initTmp>>

-----------------------------------------------------------------------------
(* dev_write, lines 208-235.                                               *)

WriterGoes(w, from, to) ==
    /\ wPc[w] = from
    /\ wPc' = [wPc EXCEPT ![w] = to]
    /\ UNCHANGED <<initVars, queued, workerVars>>

\* The device node is there as soon as device_create has returned.
WriteBegin(w, text) ==
    /\ "device" \in registered
    /\ WriterGoes(w, "idle", "copy")
    /\ wText' = [wText EXCEPT ![w] = text]
    /\ early' = (early \/ life # "live")
    /\ Starts(OpsWith(w, text))
    /\ UNCHANGED <<reg, message, wTmp>>

\* copy_from_user puts no end after the text: the tail of a longer one stays.
WriteCopy(w) ==
    /\ WriterGoes(w, "copy", "compare")
    /\ message' = [text |-> wText[w], dirty |-> message.dirty \/ wText[w] = "long"]
    /\ UNCHANGED <<reg, wTmp, wText, orders, early>>

\* Lines 220-233 compare the shared buffer, whoever filled it.
WriteInvalid(w) ==
    /\ message.dirty \/ message.text \notin {"on", "off"}
    /\ WriterGoes(w, "compare", "idle")
    /\ Ends(w)
    /\ UNCHANGED <<reg, message, wTmp, wText, early>>

WriteLoad(w) ==
    /\ ~message.dirty /\ message.text \in {"on", "off"}
    /\ WriterGoes(w, "compare", message.text)
    /\ wTmp' = [wTmp EXCEPT ![w] = reg]
    /\ UNCHANGED <<reg, message, wText, orders, early>>

WriteStore(w) ==
    /\ \/ WriterGoes(w, "on", "idle") /\ reg' = wTmp[w] \cup {10}
       \/ WriterGoes(w, "off", "idle") /\ reg' = wTmp[w] \ {10}
    /\ Ends(w)
    /\ UNCHANGED <<message, wTmp, wText, early>>

Write(w) ==
    \/ \E text \in Texts : WriteBegin(w, text)
    \/ WriteCopy(w) \/ WriteInvalid(w) \/ WriteLoad(w) \/ WriteStore(w)

-----------------------------------------------------------------------------
(* The button: ext_intr, lines 81-93, and workQueueFunc, lines 57-64.      *)

\* schedule_work does nothing for a work that is queued already.
Interrupt ==
    /\ "irq" \in registered
    /\ queued' = TRUE
    /\ UNCHANGED <<reg, initVars, message, writerVars, workerVars, orders, early>>

WorkGoes(from, to) ==
    /\ workPc = from
    /\ workPc' = to
    /\ UNCHANGED <<initVars, message, writerVars, early>>

\* The work leaves the queue before its function runs, so that it can be
\* queued again meanwhile; it never runs twice at a time.
WorkBegin ==
    /\ queued
    /\ WorkGoes("idle", "clear")
    /\ queued' = FALSE
    /\ status' = (10 \notin reg)
    /\ Starts(OpsWith("work", "toggle"))
    /\ UNCHANGED <<reg, workTmp>>

WorkLoad ==
    /\ WorkGoes("clear", "clearStore") \/ WorkGoes("set", "setStore")
    /\ workTmp' = reg
    /\ UNCHANGED <<reg, queued, status, orders>>

\* Mutant: the mask without its complement.
WorkClear_NoTilde ==
    /\ WorkGoes("clearStore", "set")
    /\ reg' = workTmp \cap {10}
    /\ UNCHANGED <<queued, workTmp, status, orders>>

WorkClear ==
    /\ WorkGoes("clearStore", "set")
    /\ reg' = workTmp \ {10}
    /\ UNCHANGED <<queued, workTmp, status, orders>>

\* Mutant: the commented line 62, which reads the register it has cleared.
WorkSet_Reread ==
    /\ WorkGoes("setStore", "idle")
    /\ reg' = IF 10 \notin workTmp THEN workTmp \cup {10} ELSE workTmp
    /\ Ends("work")
    /\ UNCHANGED <<queued, workTmp, status>>

WorkSet ==
    /\ WorkGoes("setStore", "idle")
    /\ reg' = IF status THEN workTmp \cup {10} ELSE workTmp
    /\ Ends("work")
    /\ UNCHANGED <<queued, workTmp, status>>

-----------------------------------------------------------------------------

Next ==
    \/ InitRegister \/ InitLoad \/ InitStore \/ InitIrq
    \/ \E w \in Writers : Write(w)
    \/ Interrupt \/ WorkBegin \/ WorkLoad \/ WorkClear \/ WorkSet

Spec == Init /\ [][Next]_vars

-----------------------------------------------------------------------------
(* Properties.                                                             *)

Quiet == life = "live" /\ Running = {}

\* With one writer at a time, the unlocked loads and stores of lines 59-63 and
\* 220-229 still leave the LED as some order of the writes and the button's
\* toggles would, had each been one atomic step.
LedLinearizable ==
    Quiet /\ ~early /\ ~message.dirty => \E o \in orders : o.led = (10 \in reg)

\* Lines 141-144 turn on two pins the LED's read-modify-writes must not lose,
\* in whatever order they are interleaved, once the module is live.
OtherPinsKept == life = "live" /\ ~early => {8, 9} \subseteq reg

\* Line 111: "check error and clean up if there is an error". An init that
\* returned an error has left nothing in the kernel.
InitCleansUp == life = "failed" => registered = {}
=============================================================================
