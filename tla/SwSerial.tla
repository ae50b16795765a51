------------------------------ MODULE SwSerial ------------------------------
(***************************************************************************)
(* The receive side of uart/sw_serial.h: a ring of buffSize bytes that the *)
(* GPIO interrupt handler sw_rx_handler fills and one task drains with     *)
(* sw_any, sw_read and sw_peek, empties with sw_flush, and opens, stops    *)
(* and deletes.                                                            *)
(*                                                                         *)
(* A step is one access to the state both sides share, in program order.   *)
(* The handler's critical section uses a mutex of its own (line 89), so it *)
(* only masks the interrupts of its own core: with SameCore the task never *)
(* runs inside the handler, without it the two interleave freely.          *)
(* The sampling of the line is modelled in SwFrame: here a frame is a byte *)
(* whose start and stop bits were seen.                                    *)
(***************************************************************************)
EXTENDS Integers, Sequences

CONSTANTS
    Byte,      \* the values of a received byte
    BuffSize,  \* self->buffSize
    WordSize,  \* 2^32, the modulus of the uint32_t arithmetic of sw_any
    SameCore,  \* the task runs on the core that takes the interrupt
    Ops        \* what the task calls besides sw_any and the reads it announces

ASSUME ByteAssumption == Byte \subseteq Nat

\* buffSize is an int parameter of sw_new, so it is below 2^31.
ASSUME SizeAssumption ==
    /\ BuffSize \in Nat \ {0}
    /\ WordSize \in Nat
    /\ 2 * BuffSize <= WordSize

\* sw_flush and sw_stop have no protection against a handler that runs on
\* another core: the module describes them for one core only.
ASSUME OpsAssumption ==
    /\ SameCore \in BOOLEAN
    /\ Ops \subseteq {"read", "peek", "flush", "stop"}
    /\ SameCore \/ Ops \subseteq {"read", "peek"}

SW_EOF == -1

Slots == 0 .. BuffSize - 1

VARIABLES
    phase,     \* "none": not allocated; "closed": allocated; "open"
    armed,     \* the handler is registered with the GPIO service
    inPos,     \* next slot the handler writes
    outPos,    \* next slot the task reads
    overflow,  \* a byte was dropped
    buffer,    \* the ring
    isrPc,     \* the handler's next step, "idle" outside the handler
    rec,       \* the byte the handler received
    next,      \* the handler's local copy of the successor of inPos
    pc,        \* the task's next step, "idle" between calls
    ch,        \* sw_read's local: the byte it loaded
    snap,      \* sw_any's first operand: the inPos it loaded
    want,      \* reads the caller still has to do of those sw_any announced
    seen,      \* what sw_peek last returned, until a read or a flush
    ret        \* what sw_read last returned

isrVars == <<isrPc, rec, next>>
taskVars == <<pc, ch, snap, want, seen, ret>>
ring == <<inPos, outPos, overflow, buffer>>
life == <<phase, armed>>
vars == <<life, ring, isrVars, taskVars>>

TypeOK ==
    /\ phase \in {"none", "closed", "open"}
    /\ armed \in BOOLEAN
    /\ inPos \in Slots
    /\ outPos \in Slots
    /\ overflow \in BOOLEAN
    /\ buffer \in [Slots -> Byte]
    /\ isrPc \in {"idle", "check", "store", "publish", "full"}
    /\ rec \in Byte
    /\ next \in Slots
    /\ pc \in {"idle", "load", "advance", "any", "peek", "flushIn", "flushFlag"}
    /\ ch \in Byte
    /\ snap \in Slots
    /\ want \in 0 .. BuffSize - 1
    /\ seen \in Byte \cup {SW_EOF}
    /\ ret \in Byte \cup {SW_EOF}

-----------------------------------------------------------------------------
(* Index arithmetic.                                                       *)

\* (pos + 1) % buffSize
Succ(pos) == (pos + 1) % BuffSize

\* The slot k places after slot `out', the number of slots from `out' up to
\* `in', and the number of unread bytes.
SlotAfter(out, k) == (out + k) % BuffSize
Dist(in, out) == (in - out) % BuffSize
Count == Dist(inPos, outPos)

\* A difference of two uint32_t, and its conversion to int.
Word(x) == x % WordSize
ToInt(w) == IF 2 * w >= WordSize THEN w - WordSize ELSE w

\* Mutants: a write index behind the read index is taken for a negative fill
\* level, made positive, or cut off at 0.
AnyResult_Abs(in, out) ==
    LET avail == ToInt(Word(in - out)) IN IF avail < 0 THEN -avail ELSE avail
AnyResult_NoWrap(in, out) ==
    LET avail == ToInt(Word(in - out)) IN IF avail < 0 THEN 0 ELSE avail

\* What sw_any returns when it loaded the indices `in' and `out': the branch
\* avail + buffSize is uint32_t arithmetic again.
AnyResult(in, out) ==
    LET avail == ToInt(Word(in - out))
    IN  IF avail < 0 THEN ToInt(Word(avail + BuffSize)) ELSE avail

-----------------------------------------------------------------------------

Init ==
    /\ phase = "none" /\ armed = FALSE
    /\ inPos = 0 /\ outPos = 0 /\ overflow = FALSE
    /\ buffer \in [Slots -> Byte]
    /\ isrPc = "idle" /\ rec \in Byte /\ next = 0
    /\ pc = "idle" /\ ch \in Byte /\ snap = 0 /\ want = 0
    /\ seen = SW_EOF /\ ret = SW_EOF

-----------------------------------------------------------------------------
(* The interrupt handler.                                                  *)

\* A falling edge led to a frame with a good start and stop bit: the handler
\* holds the byte and reaches line 114.
RxFrame(b) ==
    /\ armed
    /\ isrPc = "idle"
    /\ isrPc' = "check"
    /\ rec' = b
    /\ next' = Succ(inPos)
    /\ UNCHANGED <<life, ring, taskVars>>

\* Mutant: no test at all.
RxCheck_Always ==
    /\ isrPc = "check"
    /\ isrPc' = "store"
    /\ UNCHANGED <<life, ring, rec, next, taskVars>>

\* if (next != self->outPos)
RxCheck ==
    /\ isrPc = "check"
    /\ isrPc' = IF next # outPos THEN "store" ELSE "full"
    /\ UNCHANGED <<life, ring, rec, next, taskVars>>

\* self->buffer[self->inPos] = rec
RxStore ==
    /\ isrPc = "store"
    /\ buffer' = [buffer EXCEPT ![inPos] = rec]
    /\ isrPc' = "publish"
    /\ UNCHANGED <<life, inPos, outPos, overflow, rec, next, taskVars>>

\* self->inPos = next
RxPublish ==
    /\ isrPc = "publish"
    /\ inPos' = next
    /\ isrPc' = "idle"
    /\ UNCHANGED <<life, outPos, overflow, buffer, rec, next, taskVars>>

\* Mutant: a full ring drops its oldest byte.
RxOverflow_DropOldest ==
    /\ isrPc = "full"
    /\ overflow' = TRUE
    /\ outPos' = Succ(outPos)
    /\ isrPc' = "idle"
    /\ UNCHANGED <<life, inPos, buffer, rec, next, taskVars>>

\* else self->overflow = true
RxOverflow ==
    /\ isrPc = "full"
    /\ overflow' = TRUE
    /\ isrPc' = "idle"
    /\ UNCHANGED <<life, inPos, outPos, buffer, rec, next, taskVars>>

Handles == RxCheck \/ RxStore \/ RxPublish \/ RxOverflow
Isr == (\E b \in Byte : RxFrame(b)) \/ Handles

-----------------------------------------------------------------------------
(* The task.                                                               *)

\* The task's instructions run only outside a handler of its own core.
TaskRuns == SameCore => isrPc = "idle"

\* The task is between two calls on an existing object.
Calls == TaskRuns /\ pc = "idle" /\ phase # "none"

\* malloc leaves the ring's contents arbitrary. (A failed malloc returns NULL
\* and changes nothing.)
SwNew ==
    /\ TaskRuns /\ pc = "idle" /\ phase = "none"
    /\ phase' = "closed"
    /\ inPos' = 0 /\ outPos' = 0 /\ overflow' = FALSE
    /\ buffer' \in [Slots -> Byte]
    /\ UNCHANGED <<armed, isrVars, taskVars>>

\* The timing sw_open computes is SwFrame's; here it registers the handler.
SwOpen ==
    /\ Calls /\ want = 0 /\ phase = "closed"
    /\ phase' = "open"
    /\ armed' = TRUE
    /\ UNCHANGED <<ring, isrVars, taskVars>>

\* Mutant: the handler stays registered.
SwStop_KeepHandler ==
    /\ "stop" \in Ops
    /\ Calls /\ want = 0 /\ phase = "open"
    /\ phase' = "closed"
    /\ UNCHANGED <<armed, ring, isrVars, taskVars>>

SwStop ==
    /\ "stop" \in Ops
    /\ Calls /\ want = 0 /\ phase = "open"
    /\ phase' = "closed"
    /\ armed' = FALSE
    /\ UNCHANGED <<ring, isrVars, taskVars>>

\* sw_del only frees: the caller has to call sw_stop first, and does here.
SwDel ==
    /\ "stop" \in Ops
    /\ Calls /\ want = 0 /\ phase = "closed"
    /\ phase' = "none"
    /\ seen' = SW_EOF
    /\ UNCHANGED <<armed, ring, isrVars, pc, ch, snap, want, ret>>

\* The caller reads what sw_any announced, or reads without asking.
MayRead == want > 0 \/ "read" \in Ops

\* sw_read, the ring empty: return -1
ReadEmpty ==
    /\ Calls /\ MayRead
    /\ inPos = outPos
    /\ ret' = SW_EOF
    /\ want' = IF want > 0 THEN want - 1 ELSE 0
    /\ UNCHANGED <<life, ring, isrVars, pc, ch, snap, seen>>

\* sw_read, if (self->inPos != self->outPos)
ReadCheck ==
    /\ Calls /\ MayRead
    /\ inPos # outPos
    /\ pc' = "load"
    /\ UNCHANGED <<life, ring, isrVars, ch, snap, want, seen, ret>>

\* ch = self->buffer[self->outPos]
ReadLoad ==
    /\ TaskRuns /\ pc = "load"
    /\ ch' = buffer[outPos]
    /\ pc' = "advance"
    /\ UNCHANGED <<life, ring, isrVars, snap, want, seen, ret>>

\* self->outPos = (self->outPos + 1) % self->buffSize; return ch
ReadAdvance ==
    /\ TaskRuns /\ pc = "advance"
    /\ outPos' = Succ(outPos)
    /\ ret' = ch
    /\ want' = IF want > 0 THEN want - 1 ELSE 0
    /\ seen' = SW_EOF
    /\ pc' = "idle"
    /\ UNCHANGED <<life, inPos, overflow, buffer, isrVars, ch, snap>>

\* sw_any loads inPos and then outPos: a frame may come in between.
AnyLoad ==
    /\ Calls /\ want = 0
    /\ snap' = inPos
    /\ pc' = "any"
    /\ UNCHANGED <<life, ring, isrVars, ch, want, seen, ret>>

AnyReturn ==
    /\ TaskRuns /\ pc = "any"
    /\ want' = AnyResult(snap, outPos)
    /\ pc' = "idle"
    /\ UNCHANGED <<life, ring, isrVars, ch, snap, seen, ret>>

PeekEmpty ==
    /\ "peek" \in Ops
    /\ Calls /\ inPos = outPos
    /\ seen' = SW_EOF
    /\ UNCHANGED <<life, ring, isrVars, pc, ch, snap, want, ret>>

PeekCheck ==
    /\ "peek" \in Ops
    /\ Calls /\ inPos # outPos
    /\ pc' = "peek"
    /\ UNCHANGED <<life, ring, isrVars, ch, snap, want, seen, ret>>

PeekLoad ==
    /\ TaskRuns /\ pc = "peek"
    /\ seen' = buffer[outPos]
    /\ pc' = "idle"
    /\ UNCHANGED <<life, ring, isrVars, ch, snap, want, ret>>

\* self->inPos = self->outPos = 0 assigns outPos first.
FlushOut ==
    /\ "flush" \in Ops
    /\ Calls /\ want = 0
    /\ outPos' = 0
    /\ seen' = SW_EOF
    /\ pc' = "flushIn"
    /\ UNCHANGED <<life, inPos, overflow, buffer, isrVars, ch, snap, want, ret>>

\* Mutant: only the read index is reset.
FlushIn_Skip ==
    /\ TaskRuns /\ pc = "flushIn"
    /\ pc' = "flushFlag"
    /\ UNCHANGED <<life, ring, isrVars, ch, snap, want, seen, ret>>

FlushIn ==
    /\ TaskRuns /\ pc = "flushIn"
    /\ inPos' = 0
    /\ pc' = "flushFlag"
    /\ UNCHANGED <<life, outPos, overflow, buffer, isrVars, ch, snap, want, seen, ret>>

FlushFlag ==
    /\ TaskRuns /\ pc = "flushFlag"
    /\ overflow' = FALSE
    /\ pc' = "idle"
    /\ UNCHANGED <<life, inPos, outPos, buffer, isrVars, ch, snap, want, seen, ret>>

Read == ReadEmpty \/ ReadCheck \/ ReadLoad \/ ReadAdvance
Any == AnyLoad \/ AnyReturn
Peek == PeekEmpty \/ PeekCheck \/ PeekLoad
Flush == FlushOut \/ FlushIn \/ FlushFlag
Lifecycle == SwNew \/ SwOpen \/ SwStop \/ SwDel

Task == Lifecycle \/ Read \/ Any \/ Peek \/ Flush

Next == Isr \/ Task

Spec == Init /\ [][Next]_vars

-----------------------------------------------------------------------------
(* Properties.                                                             *)

\* The byte sw_read loaded (line 191) is still the oldest unread byte when it
\* moves outPos (line 192): the handler never reuses a slot before that.
ReadStable == pc = "advance" => inPos # outPos /\ ch = buffer[outPos]

\* A byte sw_peek returned (line 256) stays the next byte to read, whatever
\* the handler receives meanwhile.
PeekStable == seen # SW_EOF => inPos # outPos /\ seen = buffer[outPos]

\* app_main of new1mainCswserial.c calls sw_read as often as sw_any said
\* (lines 44-49): there is a byte for each of these calls, although sw_any
\* works on an inPos that may be old and in wrapping arithmetic.
DrainServed == want <= Count

\* The handler never runs on a freed object, in any sequence of sw_new,
\* sw_open, sw_stop and sw_del.
HandlerHasObject == (armed \/ isrPc # "idle") => phase # "none"

\* What makes these properties inductive: the handler's copy `next' is fresh
\* (line 114) and was compared with an outPos that can only move away from it
\* (line 115), so the slot it writes is never one the task is reading.
HandlerLocals ==
    /\ isrPc \in {"check", "store", "publish"} => next = Succ(inPos)
    /\ isrPc \in {"store", "publish"} => next # outPos
    /\ isrPc = "publish" => buffer[inPos] = rec

\* What the task knows between the steps of a call.
TaskLocals ==
    /\ pc \in {"load", "peek"} => inPos # outPos
    /\ pc = "any" => want = 0 /\ Dist(snap, outPos) <= Count
    /\ pc \in {"flushIn", "flushFlag"} => "flush" \in Ops /\ want = 0 /\ seen = SW_EOF
    /\ pc = "flushIn" => outPos = 0
    /\ pc # "idle" => phase # "none"
    /\ phase = "none" => want = 0 /\ seen = SW_EOF

\* A handler is registered, and runs, only between sw_open and sw_stop.
HandlerOpen == (armed \/ isrPc # "idle") => phase = "open"

\* The inductive invariant.
IndInv ==
    /\ TypeOK
    /\ HandlerLocals /\ TaskLocals /\ HandlerOpen
    /\ ReadStable /\ PeekStable /\ DrainServed

\* The bytes in the slots from `out' up to `in'.
Segment(buf, in, out) == [i \in 1 .. Dist(in, out) |-> buf[SlotAfter(out, i - 1)]]

\* The ring as a queue. Between the two assignments of sw_flush the indices
\* describe bytes that are already lost.
Unread == IF pc = "flushIn" THEN <<>> ELSE Segment(buffer, inPos, outPos)
Inflight == IF isrPc \in {"check", "store", "publish"} THEN <<rec>> ELSE <<>>
Flushing == IF pc = "flushIn" THEN "discard" ELSE IF pc = "flushFlag" THEN "reset" ELSE "no"

\* One slot always stays unused: the queue holds buffSize - 1 bytes.
Fifo == INSTANCE ByteFifo WITH
    Capacity <- BuffSize - 1,
    q <- Unread,
    over <- overflow,
    out <- ret,
    inflight <- Inflight,
    dropping <- isrPc = "full",
    flush <- Flushing

\* Every step of the handler and of the task is a step of the queue or
\* invisible: no byte is lost, duplicated or reordered except by an overflow
\* that is flagged, or by a flush.
ImplementsFifo == Fifo!Spec

\* A program that keeps polling and reading (app_main, lines 42-60) takes
\* every byte the handler stored, however many arrive.
HeadServed == \A s \in Slots : (inPos # outPos /\ outPos = s) ~> outPos # s
=============================================================================
