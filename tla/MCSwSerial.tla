----------------------------- MODULE MCSwSerial -----------------------------
(* The ring in three setups, one per behaviour: a task that calls          *)
(* everything on the core that takes the interrupt, a reader on the other  *)
(* core, and the polling loop of new1mainCswserial.c.                      *)
EXTENDS SwSerial

VARIABLE setup

Far == INSTANCE SwSerial WITH SameCore <- FALSE, Ops <- {"read", "peek"}
App == INSTANCE SwSerial WITH SameCore <- TRUE, Ops <- {}

MCInit == Init /\ setup \in {"near", "far", "app"}

MCNext ==
    /\ \/ setup = "near" /\ Next
       \/ setup = "far" /\ Far!Next
       \/ setup = "app" /\ App!Next
    /\ UNCHANGED setup

\* The handler runs to its end once entered. It takes the processor away from
\* a task of its core during most of a frame, but the line idles for the rest
\* of the stop bit: the task is enabled again and again, and runs.
MCSpec ==
    /\ MCInit /\ [][MCNext]_<<vars, setup>>
    /\ WF_<<vars, setup>>(setup = "app" /\ App!Handles /\ UNCHANGED setup)
    /\ SF_<<vars, setup>>(setup = "app" /\ App!Task /\ UNCHANGED setup)

\* A program that keeps polling and reading (app_main of new1mainCswserial.c,
\* lines 42-60) takes every byte the handler stored, however many arrive.
PollerServed == setup = "app" => HeadServed
=============================================================================
