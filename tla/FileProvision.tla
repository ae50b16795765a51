---------------------------- MODULE FileProvision ----------------------------
(***************************************************************************)
(* The provisioning of udp_server/main/udp_server_original.c, the version  *)
(* that keeps the station's configuration in a file: app_main reads it and *)
(* starts a station or an access point, udp_server_task writes each packet *)
(* into it before it answers, and a configuration that cannot be used is   *)
(* overwritten with the text "wifi is wrong".                              *)
(*                                                                         *)
(* The event loop, the driver and the wait are those of WifiProvision. New *)
(* here is the file: a write truncates it first and fills it when it is    *)
(* closed, mounting, opening or the power may fail at any point, and the   *)
(* text is written as a format string (line 155).                          *)
(***************************************************************************)
EXTENDS Integers, Sequences

CONSTANTS
    Reachable,   \* packets that name an access point and its password
    Unreachable, \* packets no access point accepts
    Malformed,   \* packets without a ';'
    Formats,     \* those of the packets that contain a '%'
    MaxRetry,    \* EXAMPLE_ESP_MAXIMUM_RETRY
    MaxEvents,   \* bound: how far the queue of events may lag behind
    MaxTroubles  \* bound: power losses, and mounts and opens that fail

Packet == Reachable \cup Unreachable \cup Malformed
Text == Packet \cup {"wrong"}
Content == Text \cup {"absent", "empty"}

ASSUME FileAssumption ==
    /\ Formats \subseteq Packet
    /\ "wrong" \notin Packet /\ {"absent", "empty", "none"} \cap Text = {}
    /\ MaxRetry \in Nat /\ MaxEvents \in Nat \ {0} /\ MaxTroubles \in Nat

VARIABLES
    file,      \* the file in flash: absent, empty or one text
    open,      \* it is open for writing, and truncated
    mounted,   \* the file system stays mounted after a failed open
    build,     \* what the build makes of the pointer line 254 returns
    config,    \* the text app_main works with
    rx,        \* rx_buffer
    main, mode, udp, bits, s_retry_num, events, drv, leased, \* as in WifiProvision
    troubles,
    (* history *)
    failed,    \* a mount or an open failed for this packet, or this verdict
    before,    \* what the file held when this packet came
    torn,      \* the power was lost, or the program crashed, while the file was open
    promise,   \* what the file should hold since the last answer, until the next write
    losses, ips

storeVars == <<file, open, mounted, failed, before, promise>>
wifiVars == <<bits, s_retry_num, events, drv, leased, losses, ips>>
vars == <<storeVars, wifiVars, build, config, rx, main, mode, udp, troubles, torn>>

\* The driver works on what wifi_init_sta gave it; the histories are this module's.
Wifi == INSTANCE WifiProvision WITH
    Ssid <- {1}, MaxResets <- MaxTroubles, resets <- troubles,
    nvs <- IF config \in Reachable THEN [ssid |-> 1, len |-> 1, pwd |-> 1]
                                   ELSE [ssid |-> 0, len |-> 0, pwd |-> 0],
    wifi_config2 <- [ssid |-> 0, len |-> 0, pwd |-> 0]

TypeOK ==
    /\ file \in Content /\ {before, promise} \subseteq Content \cup {"none"}
    /\ {open, mounted, leased, failed, torn, ips} \subseteq BOOLEAN
    /\ build \in {"intact", "null", "other"}
    /\ config \in Text \cup {"none"} /\ rx \in Packet \cup {"none"}
    /\ main \in {"boot", "mark", "marked", "wait", "returned"} /\ mode \in {"sta", "ap"}
    /\ udp \in {"recv", "store", "reply", "restart"}
    /\ bits \subseteq {"CONNECTED", "FAIL"}
    /\ s_retry_num \in 0 .. MaxRetry /\ losses \in 0 .. MaxRetry + 1
    /\ events \in Seq({"START", "DISCONNECTED", "GOT_IP"}) /\ Len(events) <= MaxEvents
    /\ drv \in {"idle", "connecting", "associated"}
    /\ troubles \in 0 .. MaxTroubles

Init ==
    /\ file \in Packet \cup {"absent"} /\ open = FALSE /\ mounted = FALSE
    /\ build \in {"intact", "null", "other"}
    /\ config = "none" /\ rx = "none"
    /\ main = "boot" /\ mode = "sta" /\ udp = "recv"
    /\ bits = {} /\ s_retry_num = 0
    /\ events = <<>> /\ drv = "idle" /\ leased = FALSE
    /\ troubles = 0
    /\ failed = FALSE /\ before = "none" /\ torn = FALSE /\ promise = "none"
    /\ losses = 0 /\ ips = FALSE

\* What a restart makes of the memory.
Restart ==
    /\ Wifi!Restart
    /\ open' = FALSE /\ mounted' = FALSE /\ failed' = FALSE /\ before' = "none"
    /\ config' = "none" /\ rx' = "none"

-----------------------------------------------------------------------------
(* wearLevellingStorage, lines 129-161.                                    *)

\* Who writes, and what: app_main and wifi_init_sta their verdict, the UDP task
\* its packet.
Storing == main = "mark" \/ udp = "store"
Stored == IF main = "mark" THEN "wrong" ELSE rx

\* The caller goes on.
Return ==
    /\ main' = IF main = "mark" THEN "marked" ELSE main
    /\ udp' = IF udp = "store" THEN "reply" ELSE udp
    /\ UNCHANGED <<wifiVars, build, config, rx, mode, torn>>

\* Lines 140-148: the file system is mounted, if need be formatted, and the file
\* truncated.
StoreOpen ==
    /\ Storing /\ ~open /\ ~mounted
    /\ open' = TRUE /\ file' = "empty" /\ promise' = "none"
    /\ UNCHANGED <<wifiVars, mounted, failed, before, build, config, rx, main, mode, udp,
                   troubles, torn>>

\* Line 155 prints the text as a format: what a '%' in it makes of it depends on
\* what lies in the registers and on the stack.
Printed == IF Stored \in Formats THEN Text \cup {"empty"} ELSE {Stored}

\* Lines 155-159.
StoreClose ==
    /\ open
    /\ open' = FALSE /\ file' \in Printed
    /\ Return
    /\ UNCHANGED <<mounted, failed, before, promise, troubles>>

\* Line 155 follows a pointer that is none: a panic, with nothing flushed.
StoreCrash ==
    /\ open /\ Stored \in Formats
    /\ torn' = TRUE
    /\ UNCHANGED <<file, build, promise, troubles>>
    /\ Restart

\* Lines 141-153: the mount fails, as it does when the file system still is
\* mounted, or the open fails, and leaves it mounted.
StoreFail ==
    /\ Storing /\ ~open
    /\ IF mounted THEN UNCHANGED <<mounted, troubles>>
       ELSE /\ troubles < MaxTroubles /\ troubles' = troubles + 1
            /\ mounted' \in BOOLEAN
    /\ failed' = TRUE
    /\ Return
    /\ UNCHANGED <<file, open, before, promise>>

-----------------------------------------------------------------------------
(* app_main, lines 560-590, and wearLevellingStorageRead, lines 163-256.   *)

\* What the read may return: NULL without a file, and otherwise the address of a
\* local array, which the build may have turned into NULL, or other calls may
\* have overwritten. An empty file leaves the array uninitialised.
ReadResult ==
    IF file = "absent" \/ build = "null" THEN {"none"}
    ELSE IF file = "empty" \/ build = "other" THEN Text
    ELSE {file}

\* Lines 275-313. The handler of lines 261-273 only logs.
InitSoftAp ==
    /\ main' = "returned" /\ mode' = "ap"
    /\ UNCHANGED wifiVars

\* Lines 338-391: the events begin with the driver's start.
InitSta ==
    /\ main' = "wait" /\ mode' = "sta"
    /\ events' = <<"START">>
    /\ UNCHANGED <<bits, s_retry_num, drv, leased, losses, ips>>


BootWith(text) ==
    /\ main = "boot"
    /\ config' = text
    /\ CASE text \in {"none", "wrong"} -> InitSoftAp
         [] text \in Malformed -> main' = "mark" /\ UNCHANGED <<mode, wifiVars>>
         [] OTHER -> InitSta
    /\ UNCHANGED <<storeVars, build, rx, udp, torn>>

Boot == (\E text \in ReadResult : BootWith(text)) /\ UNCHANGED troubles

\* Lines 179-183.
BootUnread ==
    /\ troubles < MaxTroubles /\ troubles' = troubles + 1
    /\ BootWith("none")

-----------------------------------------------------------------------------
(* The event loop and the driver: lines 316-337 are those of WifiProvision. *)

EventHandler ==
    /\ UNCHANGED <<storeVars, build, config, rx, torn>>
    /\ Wifi!EventLoop

Driver ==
    /\ UNCHANGED <<storeVars, build, config, rx, torn>>
    /\ (Wifi!DrvAssociate \/ Wifi!DrvDrop \/ Wifi!DrvLease \/ Wifi!DrvGotIp)

-----------------------------------------------------------------------------
(* wifi_init_sta from the wait on, lines 397-429.                          *)

MainStep(from, to) ==
    /\ main = from /\ main' = to
    /\ UNCHANGED <<storeVars, wifiVars, build, config, rx, mode, udp, troubles, torn>>

WaitConnected == "CONNECTED" \in bits /\ MainStep("wait", "returned")

\* Mutant: the failure wins over the connection.
WaitFailed_First == "FAIL" \in bits /\ MainStep("wait", "mark")

\* Line 412 marks the file.
WaitFailed == bits = {"FAIL"} /\ MainStep("wait", "mark")

\* esp_restart, lines 423 and 584, once the marker is written or was not.
MainRestart ==
    /\ main = "marked"
    /\ UNCHANGED <<file, build, promise, troubles, torn>>
    /\ Restart

-----------------------------------------------------------------------------
(* udp_server_task, lines 435-558.                                         *)

UdpStep(from, to) ==
    /\ main = "returned" /\ udp = from /\ udp' = to
    /\ UNCHANGED <<wifiVars, file, open, mounted, build, config, main, mode, troubles, torn>>

\* Mutant: the answer comes before the write.
UdpReceive_AnswerFirst(p) ==
    /\ UdpStep("recv", "reply")
    /\ rx' = p /\ before' = file /\ failed' = FALSE
    /\ UNCHANGED promise

\* Lines 513-540.
UdpReceive(p) ==
    /\ UdpStep("recv", "store")
    /\ rx' = p /\ before' = file /\ failed' = FALSE
    /\ UNCHANGED promise

\* Lines 542-546: the answer is the same whatever became of the storage.
UdpReply ==
    /\ UdpStep("reply", "restart")
    /\ promise' = CASE failed -> before
                     [] rx \in Formats /\ ~failed -> "none"
                     [] OTHER -> rx
    /\ UNCHANGED <<rx, before, failed>>

\* Lines 544-555: a new socket, and the packet stays in the file.
UdpReplyFails == UdpStep("reply", "recv") /\ UNCHANGED <<rx, before, failed, promise>>

\* Line 547.
UdpRestart ==
    /\ main = "returned" /\ udp = "restart"
    /\ UNCHANGED <<file, build, promise, troubles, torn>>
    /\ Restart

\* The power is lost, or an ESP_ERROR_CHECK panics. A file that is open stays
\* truncated.
Reset ==
    /\ troubles < MaxTroubles /\ troubles' = troubles + 1
    /\ torn' = (torn \/ open)
    /\ UNCHANGED <<file, build, promise>>
    /\ Restart

-----------------------------------------------------------------------------

Store == StoreOpen \/ StoreClose \/ StoreFail
Main == Boot \/ BootUnread \/ WaitConnected \/ WaitFailed \/ MainRestart
Udp == (\E p \in Packet : UdpReceive(p)) \/ UdpReply \/ UdpReplyFails \/ UdpRestart

Next == Store \/ StoreCrash \/ Main \/ EventHandler \/ Driver \/ Udp \/ Reset

Spec == Init /\ [][Next]_vars

\* The tasks run, and the driver is WifiProvision's: an attempt ends, by failure
\* at the latest, and a lease is announced. Packets and answers are free.
Runs(A) == UNCHANGED <<storeVars, build, config, rx, torn>> /\ A
FairSpec ==
    /\ Spec
    /\ WF_vars(Store) /\ WF_vars(Main) /\ WF_vars(EventHandler)
    /\ WF_vars(Runs(drv = "connecting" /\ Wifi!DrvDrop))
    /\ WF_vars(Runs(Wifi!DrvGotIp))
    /\ WF_vars(Runs(drv = "associated" /\ (Wifi!DrvLease \/ Wifi!DrvDrop)))

-----------------------------------------------------------------------------
(* Properties.                                                             *)

\* What a phone may take an answer (line 542) for: from then on, through restarts
\* and power losses and until the next write, the file holds the packet; or, if
\* its storage failed, what it held when the packet came, nothing in between. (A
\* packet with a '%' is answered too, and nothing is said of what is stored.)
AnsweredIsKept == promise # "none" => file = promise

\* The verdict that forgets a network (lines 412 and 583) is only passed on a
\* file without one, or by a boot that saw MaxRetry + 1 disconnections and no IP,
\* unless line 254 returned a text that is not the file's. (An IP that comes
\* while the marker is written comes too late.)
MarkedForCause ==
    [][main' = "mark" /\ main # "mark" /\ build # "other" =>
        file \in Malformed \cup {"empty"} \/ (losses = MaxRetry + 1 /\ ~ips)]_vars

\* A build that keeps or drops the returned pointer comes to its server task in
\* every boot: half-written files, failing mounts and useless packets restart
\* it, but not for ever.
BootSettles == build # "other" /\ main = "boot" ~> main = "returned"

=============================================================================
