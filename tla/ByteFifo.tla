------------------------------ MODULE ByteFifo ------------------------------
(***************************************************************************)
(* What the receive side of uart/sw_serial.h promises its caller: a        *)
(* bounded first-in first-out queue of received bytes.                     *)
(*                                                                         *)
(*   - a byte that arrives is appended, or, when the queue is full at the  *)
(*     moment the receiver looks at it, dropped and the overflow flag set  *)
(*     later (Reject, then Flag);                                          *)
(*   - reading takes the oldest byte, or returns SW_EOF when there is none;*)
(*   - flushing empties the queue, loses what is appended until it ends    *)
(*     (flush = "discard") and then clears the flag (flush = "reset").     *)
(*                                                                         *)
(* SwSerial.tla implements this module with two ring indices, and shows it *)
(* with a refinement mapping.                                              *)
(***************************************************************************)
EXTENDS Integers, Sequences

CONSTANTS
    Byte,      \* the byte values
    Capacity,  \* how many unread bytes the queue holds
    SW_EOF     \* what a read of an empty queue returns

VARIABLES
    q,         \* the unread bytes, oldest first
    over,      \* the overflow flag
    out,       \* what the last read returned
    inflight,  \* <<b>> while a received byte is on its way into the queue
    dropping,  \* a byte was rejected and the flag is not set yet
    flush      \* "no", "discard" or "reset": the progress of a flush

vars == <<q, over, out, inflight, dropping, flush>>

Init ==
    /\ q = <<>>
    /\ over = FALSE
    /\ out = SW_EOF
    /\ inflight = <<>>
    /\ dropping = FALSE
    /\ flush = "no"

-----------------------------------------------------------------------------
(* The receiver.                                                           *)

Arrive(b) ==
    /\ inflight = <<>> /\ ~dropping
    /\ inflight' = <<b>>
    /\ UNCHANGED <<q, over, out, dropping, flush>>

\* The byte joins the queue, which still has room for it.
Accept ==
    /\ inflight # <<>>
    /\ Len(q) < Capacity
    /\ q' = IF flush = "discard" THEN q ELSE q \o inflight
    /\ inflight' = <<>>
    /\ UNCHANGED <<over, out, dropping, flush>>

\* Only a full queue rejects a byte (or one that is being emptied).
Reject ==
    /\ inflight # <<>>
    /\ Len(q) = Capacity \/ flush = "discard"
    /\ inflight' = <<>>
    /\ dropping' = TRUE
    /\ UNCHANGED <<q, over, out, flush>>

Flag ==
    /\ dropping
    /\ dropping' = FALSE
    /\ over' = TRUE
    /\ UNCHANGED <<q, out, inflight, flush>>

-----------------------------------------------------------------------------
(* The reader.                                                             *)

Take ==
    /\ flush = "no"
    /\ q # <<>>
    /\ out' = Head(q)
    /\ q' = Tail(q)
    /\ UNCHANGED <<over, inflight, dropping, flush>>

TakeNone ==
    /\ flush = "no"
    /\ q = <<>>
    /\ out' = SW_EOF
    /\ UNCHANGED <<q, over, inflight, dropping, flush>>

FlushBegin ==
    /\ flush = "no"
    /\ q' = <<>>
    /\ flush' = "discard"
    /\ UNCHANGED <<over, out, inflight, dropping>>

FlushEmptied ==
    /\ flush = "discard"
    /\ flush' = "reset"
    /\ UNCHANGED <<q, over, out, inflight, dropping>>

FlushEnd ==
    /\ flush = "reset"
    /\ over' = FALSE
    /\ flush' = "no"
    /\ UNCHANGED <<q, out, inflight, dropping>>

\* A new, empty queue in place of a discarded one.
Renew ==
    /\ flush = "no" /\ inflight = <<>> /\ ~dropping
    /\ q' = <<>>
    /\ over' = FALSE
    /\ UNCHANGED <<out, inflight, dropping, flush>>

-----------------------------------------------------------------------------

Next ==
    \/ \E b \in Byte : Arrive(b)
    \/ Accept \/ Reject \/ Flag
    \/ Take \/ TakeNone
    \/ FlushBegin \/ FlushEmptied \/ FlushEnd
    \/ Renew

Spec == Init /\ [][Next]_vars
=============================================================================
