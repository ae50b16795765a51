----------------------------- MODULE EspProgram -----------------------------
(***************************************************************************)
(* app_main of udp_server/main/udp_server.c with what it starts: the BLUFI *)
(* service (blufi_init.c), whose phone negotiates a key in the BLUFI task  *)
(* (BlufiSecurity); then the HTTP requests, in the main task (HttpBuffer); *)
(* and when they are done the interrupts of the two buttons. WifiBlufi has *)
(* the Wi-Fi callbacks.                                                    *)
(*                                                                         *)
(* A failed ESP_ERROR_CHECK or assert restarts all of it and is left out,  *)
(* but for the panic that a P too long for the context may lead to.        *)
(* uartReadTask, lines 623-646, shows what it reads and keeps nothing.     *)
(***************************************************************************)
EXTENDS HttpBuffer, BlufiSecurity

CONSTANT Stacks \* the builds of blufi_init.c: "bluedroid", "nimble"

ASSUME StackAssumption == Stacks \subseteq {"bluedroid", "nimble"}

Buttons == {"gpio23", "gpio19"} \* the pins; their LEDs are on pins 22 and 21

VARIABLES
    stack,
    main,       \* app_main's next step
    hostUp, registered, profile, \* blufi_init.c: the host runs, the callbacks are
                \* known, the BLUFI profile exists and sends events
    finished,   \* ESP_BLUFI_EVENT_INIT_FINISH has come
    interrupt,  \* the task of lines 852-872: "none", or the button it sets up next
    installed,  \* buttons with a handler
    status, level \* status and status2; the LEDs

startVars == <<stack, main, hostUp, registered, profile, finished>>
buttonVars == <<interrupt, installed, status, level>>
vars == <<startVars, buttonVars, httpVars, secVars>>

TypeOK ==
    /\ HttpTypeOK /\ SecTypeOK
    /\ stack \in Stacks
    /\ main \in {"controller", "host", "register", "profile", "uart", "http", "interrupt",
                 "returned"}
    /\ {hostUp, registered, profile, finished} \subseteq BOOLEAN
    /\ interrupt \in Buttons \cup {"none", "idle"} /\ installed \subseteq Buttons
    /\ status \in [Buttons -> BOOLEAN] /\ level \in [Buttons -> BOOLEAN]

Init ==
    /\ HttpInit /\ SecInit
    /\ stack \in Stacks /\ main = "controller"
    /\ hostUp = FALSE /\ registered = FALSE /\ profile = FALSE /\ finished = FALSE
    /\ interrupt = "none" /\ installed = {}
    /\ status = [b \in Buttons |-> TRUE] /\ level = [b \in Buttons |-> FALSE]

-----------------------------------------------------------------------------
(* The start of BLUFI: app_main, lines 918-936, and blufi_init.c (i).      *)

\* A step of app_main: it goes on, or it fails and app_main returns.
Goes(from, to) ==
    /\ main = from /\ main' \in {to, "returned"}
    /\ UNCHANGED <<stack, buttonVars, httpVars, secVars>>
Ok == main' # "returned"

\* Mutant: the callbacks are registered after the host has started.
Controller_HostFirst ==
    /\ Goes("controller", "host")
    /\ UNCHANGED <<hostUp, registered, profile, finished>>

\* Lines 921-930. esp_blufi_host_and_cb_init then calls the host first with
\* Bluedroid (i:61-85), last with NimBLE (i:161-184).
Controller ==
    /\ Goes("controller", IF stack = "bluedroid" THEN "host" ELSE "register")
    /\ UNCHANGED <<hostUp, registered, profile, finished>>

\* i:31-49; i:111-154, which returns ESP_OK or not at all.
HostInit ==
    /\ Goes("host", IF stack = "bluedroid" THEN "register" ELSE "uart")
    /\ stack = "nimble" => Ok
    /\ hostUp' = Ok
    /\ UNCHANGED <<registered, profile, finished>>

\* i:71-75, i:165-169. With NimBLE the GAP callback is an empty function (i:156).
Register ==
    /\ Goes("register", IF stack = "bluedroid" THEN "profile" ELSE "host")
    /\ registered' = Ok
    /\ UNCHANGED <<hostUp, profile, finished>>

\* i:51-59, from i:77-81.
ProfileInit ==
    /\ Goes("profile", "uart")
    /\ profile' = Ok
    /\ UNCHANGED <<hostUp, registered, finished>>

\* i:96-109: NimBLE's own task makes the profile, when the controller is in
\* step.
OnSync ==
    /\ stack = "nimble" /\ hostUp /\ ~profile
    /\ profile' = TRUE
    /\ UNCHANGED <<stack, main, hostUp, registered, finished, buttonVars, httpVars, secVars>>

\* The first event of the BLUFI task, and those that follow.
BlufiTask ==
    /\ \/ profile /\ ~finished /\ finished' = TRUE /\ InitFinish
       \/ finished /\ finished' = finished /\ Sec
    /\ UNCHANGED <<stack, main, hostUp, registered, profile, buttonVars, httpVars>>

-----------------------------------------------------------------------------
(* The rest of app_main.                                                   *)

\* Lines 941-945.
Uart ==
    /\ main = "uart" /\ main' = "http"
    /\ HttpStart
    /\ UNCHANGED <<stack, hostUp, registered, profile, finished, buttonVars, secVars>>

Http ==
    /\ main = "http"
    /\ HttpStep
    /\ UNCHANGED <<startVars, buttonVars, secVars>>

\* Line 953, when line 945 has returned.
CreateInterrupt ==
    /\ main = "http" /\ request = 8 /\ main' = "returned"
    /\ interrupt' = "gpio23"
    /\ UNCHANGED <<stack, hostUp, registered, profile, finished, installed, status, level,
                   httpVars, secVars>>

\* Lines 852-867: one button after the other.
Install(button) ==
    /\ interrupt = button
    /\ installed' = installed \cup {button}
    /\ interrupt' = IF button = "gpio23" THEN "gpio19" ELSE "idle"
    /\ UNCHANGED <<startVars, status, level, httpVars, secVars>>

\* ext_isr_handler and ext_isr_handler2, lines 835-849.
Press(button) ==
    /\ button \in installed
    /\ status' = [status EXCEPT ![button] = ~@]
    /\ level' = [level EXCEPT ![button] = status'[button]]
    /\ UNCHANGED <<startVars, interrupt, installed, httpVars, secVars>>

\* What a context that was written past its arrays makes of the program, at any
\* time after: a panic, that restarts it. (Or nothing.)
Panic ==
    /\ overrun
    /\ HttpRestart /\ SecRestart
    /\ stack' = stack /\ main' = "controller"
    /\ hostUp' = FALSE /\ registered' = FALSE /\ profile' = FALSE /\ finished' = FALSE
    /\ interrupt' = "none" /\ installed' = {}
    /\ status' = [b \in Buttons |-> TRUE] /\ level' = [b \in Buttons |-> FALSE]

-----------------------------------------------------------------------------

AppMain == Controller \/ HostInit \/ Register \/ ProfileInit \/ Uart \/ Http \/ CreateInterrupt

Interrupt == \E button \in Buttons : Install(button)

Next ==
    \/ AppMain \/ OnSync \/ BlufiTask
    \/ Interrupt \/ (\E button \in Buttons : Press(button))
    \/ Panic

Spec == Init /\ [][Next]_vars

\* The two tasks run, and a request comes to an end: the client has a timeout.
\* Phones and buttons are free.
FairSpec == Spec /\ WF_vars(AppMain) /\ WF_vars(Interrupt)

-----------------------------------------------------------------------------
(* Properties.                                                             *)

\* No BLUFI event comes before the callbacks are registered, in either build.
EventsHaveCallbacks == profile => registered

\* A program that got as far as the requests comes to serve both buttons,
\* however the requests fare, unless a negotiation overran its context.
ButtonsServed == main = "http" ~> installed = Buttons \/ overrun
=============================================================================
