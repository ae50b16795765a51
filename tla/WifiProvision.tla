--------------------------- MODULE WifiProvision ---------------------------
(***************************************************************************)
(* The provisioning of udp_server/main/udp_server.c: wifi_init_sta tries   *)
(* the station configuration in flash and falls back to an access point of *)
(* its own; udp_server_task takes a new configuration from a packet,       *)
(* stores it and restarts. (app_main calls neither at present: lines 910   *)
(* and 946-951 are commented out in favour of BLUFI.)                      *)
(*                                                                         *)
(* Three tasks: the main one, that waits on the event group of line 418,   *)
(* the event loop, that runs event_handler, and udp_server_task, that the  *)
(* main one starts when wifi_init_sta returns. The driver and its queue of *)
(* events are external. A reset may come at any time.                      *)
(***************************************************************************)
EXTENDS Integers, Sequences, FiniteSetsExt

CONSTANTS
    Ssid,       \* the SSIDs of the access points in reach, each by its length
    MaxRetry,   \* EXAMPLE_ESP_MAXIMUM_RETRY
    MaxEvents,  \* bound: how far the queue of events may lag behind
    MaxResets   \* bound: power losses and panics

ASSUME ProvisionAssumption ==
    /\ Ssid \subseteq Nat \ {0}
    /\ MaxRetry \in Nat /\ MaxEvents \in Nat \ {0} /\ MaxResets \in Nat

\* The station's half of a wifi_config_t: `ssid' is written over the first
\* bytes of an array whose first `len' bytes are in use; `pwd' is the password
\* of that access point. 0 is empty.
Config == [ssid : Ssid \cup {0}, len : Ssid \cup {0}, pwd : Ssid \cup {0}]
Blank == [ssid |-> 0, len |-> 0, pwd |-> 0]
Good(c) == c.ssid \in Ssid /\ c.len = c.ssid /\ c.pwd = c.ssid

VARIABLES
    nvs,          \* the configuration in flash
    wifi_config2, \* the static one the packets are written into
    main,         \* wifi_init_sta: "boot", "wait", "forget" (line 429 on), "returned"
    mode,         \* of the driver: "sta" or "ap"
    udp,          \* udp_server_task: "recv", "reply" or "apply"
    bits,         \* the event group
    s_retry_num,
    events, drv, leased,  \* external: the queue; the driver; an IP it has not told of
    resets,
    (* history *)
    losses, ips   \* disconnections since the last IP, and IPs, since the last boot

ram == <<wifi_config2, main, mode, udp, bits, s_retry_num, events, drv, leased,
         losses, ips>>
vars == <<nvs, ram, resets>>

TypeOK ==
    /\ {nvs, wifi_config2} \subseteq Config
    /\ main \in {"boot", "wait", "forget", "returned"} /\ mode \in {"sta", "ap"}
    /\ udp \in {"recv", "reply", "apply"}
    /\ bits \subseteq {"CONNECTED", "FAIL"}
    /\ s_retry_num \in 0 .. MaxRetry
    /\ events \in Seq({"START", "DISCONNECTED", "GOT_IP"}) /\ Len(events) <= MaxEvents
    /\ drv \in {"idle", "connecting", "associated"}
    /\ leased \in BOOLEAN /\ ips \in BOOLEAN
    /\ resets \in 0 .. MaxResets /\ losses \in 0 .. MaxRetry + 1

\* What a restart makes of the memory.
Restart ==
    /\ wifi_config2' = Blank
    /\ main' = "boot" /\ mode' = "sta" /\ udp' = "recv"
    /\ bits' = {} /\ s_retry_num' = 0
    /\ events' = <<>> /\ drv' = "idle" /\ leased' = FALSE
    /\ losses' = 0 /\ ips' = FALSE

Init ==
    /\ nvs \in {c \in Config : c.len = c.ssid}
    /\ wifi_config2 = Blank
    /\ main = "boot" /\ mode = "sta" /\ udp = "recv"
    /\ bits = {} /\ s_retry_num = 0
    /\ events = <<>> /\ drv = "idle" /\ leased = FALSE
    /\ resets = 0 /\ losses = 0 /\ ips = FALSE

-----------------------------------------------------------------------------
(* The driver (external).                                                  *)

Post(type) ==
    /\ Len(events) < MaxEvents
    /\ events' = Append(events, type)
    /\ UNCHANGED <<nvs, wifi_config2, main, mode, udp, bits, s_retry_num, resets, losses, ips>>

\* The driver works on the configuration in flash.
DrvAssociate ==
    /\ drv = "connecting" /\ Good(nvs)
    /\ drv' = "associated"
    /\ UNCHANGED <<nvs, wifi_config2, main, mode, udp, bits, s_retry_num, events, leased,
                   resets, losses, ips>>

DrvDrop == drv # "idle" /\ drv' = "idle" /\ Post("DISCONNECTED") /\ UNCHANGED leased

DrvLease ==
    /\ drv = "associated" /\ ~leased
    /\ leased' = TRUE
    /\ UNCHANGED <<nvs, wifi_config2, main, mode, udp, bits, s_retry_num, events, drv,
                   resets, losses, ips>>

\* The event comes from a task of its own, later.
DrvGotIp == leased /\ leased' = FALSE /\ Post("GOT_IP") /\ UNCHANGED drv

-----------------------------------------------------------------------------
(* event_handler, lines 338-359.                                           *)

Handles(type) ==
    /\ events # <<>> /\ Head(events) = type
    /\ events' = Tail(events)
    /\ UNCHANGED <<nvs, wifi_config2, main, mode, udp, resets>>

HandleStart ==
    /\ Handles("START")
    /\ drv' = IF drv = "idle" THEN "connecting" ELSE drv
    /\ UNCHANGED <<bits, s_retry_num, leased, losses, ips>>

\* Mutants: the limit is off by one; the attempts are not counted.
HandleRetry_OneMore ==
    /\ Handles("DISCONNECTED")
    /\ s_retry_num <= MaxRetry
    /\ drv' = IF drv = "idle" THEN "connecting" ELSE drv
    /\ s_retry_num' = s_retry_num + 1
    /\ leased' = FALSE
    /\ losses' = Min({losses + 1, MaxRetry + 1})
    /\ UNCHANGED <<bits, ips>>
HandleRetry_NoCount ==
    /\ Handles("DISCONNECTED")
    /\ s_retry_num < MaxRetry
    /\ drv' = IF drv = "idle" THEN "connecting" ELSE drv
    /\ leased' = FALSE
    /\ losses' = Min({losses + 1, MaxRetry + 1})
    /\ UNCHANGED <<bits, s_retry_num, ips>>

HandleRetry ==
    /\ Handles("DISCONNECTED")
    /\ s_retry_num < MaxRetry
    /\ drv' = IF drv = "idle" THEN "connecting" ELSE drv
    /\ s_retry_num' = s_retry_num + 1
    /\ leased' = FALSE
    /\ losses' = Min({losses + 1, MaxRetry + 1})
    /\ UNCHANGED <<bits, ips>>

HandleFail ==
    /\ Handles("DISCONNECTED")
    /\ s_retry_num = MaxRetry
    /\ bits' = bits \cup {"FAIL"}
    /\ leased' = FALSE
    /\ losses' = Min({losses + 1, MaxRetry + 1})
    /\ UNCHANGED <<drv, s_retry_num, ips>>

HandleGotIp ==
    /\ Handles("GOT_IP")
    /\ s_retry_num' = 0
    /\ bits' = bits \cup {"CONNECTED"}
    /\ losses' = 0 /\ ips' = TRUE
    /\ UNCHANGED <<drv, leased>>

EventLoop == HandleStart \/ HandleRetry \/ HandleFail \/ HandleGotIp

-----------------------------------------------------------------------------
(* wifi_init_sta, lines 371-444.                                           *)

\* Lines 374-412. The driver rejects esp_wifi_deinit before esp_wifi_stop, and
\* line 405 ignores that; it rejects a connection without an SSID, and line
\* 342 ignores that.
Boot ==
    /\ main = "boot"
    /\ IF nvs.ssid = 0
       THEN main' = "returned" /\ mode' = "ap" /\ events' = events
       ELSE main' = "wait" /\ mode' = "sta" /\ events' = <<"START">>
    /\ UNCHANGED <<nvs, wifi_config2, udp, bits, s_retry_num, drv, leased, resets, losses, ips>>

\* Lines 418-428. The bits are read as one, and CONNECTED wins.
WaitConnected ==
    /\ main = "wait" /\ "CONNECTED" \in bits
    /\ main' = "returned"
    /\ UNCHANGED <<nvs, wifi_config2, mode, udp, bits, s_retry_num, events, drv, leased,
                   resets, losses, ips>>

\* Mutant: the failure wins.
WaitFailed_First ==
    /\ main = "wait" /\ "FAIL" \in bits
    /\ main' = "forget"
    /\ UNCHANGED <<nvs, wifi_config2, mode, udp, bits, s_retry_num, events, drv, leased,
                   resets, losses, ips>>

\* Lines 418 and 429. `bits' of line 418 is a copy: an IP that comes from here on
\* changes nothing any more.
WaitFailed ==
    /\ main = "wait" /\ bits = {"FAIL"}
    /\ main' = "forget"
    /\ UNCHANGED <<nvs, wifi_config2, mode, udp, bits, s_retry_num, events, drv, leased,
                   resets, losses, ips>>

\* Mutant: the configuration stays.
Forget_Keep ==
    /\ main = "forget"
    /\ UNCHANGED <<nvs, resets>>
    /\ Restart

\* Lines 430-435, with the other tasks' steps before it.
Forget ==
    /\ main = "forget"
    /\ nvs' = [wifi_config2 EXCEPT !.ssid = 0]
    /\ UNCHANGED resets
    /\ Restart

-----------------------------------------------------------------------------
(* udp_server_task, lines 450-580.                                         *)

UdpStep(from, to) == main = "returned" /\ udp = from /\ udp' = to

\* Lines 526-559: the SSID is copied without an end, the password with one.
UdpReceive(ssid, pwd) ==
    /\ UdpStep("recv", "reply")
    /\ wifi_config2' = [ssid |-> ssid, len |-> Max({ssid, wifi_config2.len}), pwd |-> pwd]
    /\ UNCHANGED <<nvs, main, mode, bits, s_retry_num, events, drv, leased, resets,
                   losses, ips>>

UdpReply ==
    /\ UdpStep("reply", "apply")
    /\ UNCHANGED <<nvs, wifi_config2, main, mode, bits, s_retry_num, events, drv, leased,
                   resets, losses, ips>>

\* Lines 561-564 and 573-577: a new socket, and what was copied stays.
UdpReplyFails ==
    /\ UdpStep("reply", "recv")
    /\ UNCHANGED <<nvs, wifi_config2, main, mode, bits, s_retry_num, events, drv, leased,
                   resets, losses, ips>>

\* Lines 565-569.
UdpApply ==
    /\ main = "returned" /\ udp = "apply"
    /\ nvs' = wifi_config2
    /\ UNCHANGED resets
    /\ Restart

\* A power loss at any time, or the panic of lines 558-559 on a packet
\* without a name or a password.
Reset ==
    /\ resets < MaxResets
    /\ resets' = resets + 1
    /\ UNCHANGED nvs
    /\ Restart

-----------------------------------------------------------------------------

Main == Boot \/ WaitConnected \/ WaitFailed \/ Forget

Next ==
    \/ DrvAssociate \/ DrvDrop \/ DrvLease \/ DrvGotIp
    \/ EventLoop \/ Main
    \/ \E ssid, pwd \in Ssid : UdpReceive(ssid, pwd)
    \/ UdpReply \/ UdpReplyFails \/ UdpApply \/ Reset

Spec == Init /\ [][Next]_vars

\* The tasks run, and an attempt ends, by failure at the latest. Packets,
\* replies, leases and the loss of an association are free.
FairSpec ==
    /\ Spec
    /\ WF_vars(EventLoop) /\ WF_vars(Main)
    /\ WF_vars(drv = "connecting" /\ DrvDrop)
    /\ WF_vars(DrvGotIp) /\ WF_vars(drv = "associated" /\ (DrvLease \/ DrvDrop))

-----------------------------------------------------------------------------
(* Properties.                                                             *)

\* Lines 416-417: the wait ends when "the connection is established", or when
\* it "failed for the maximum number of re-tries": the configuration is only
\* given up by a boot that had seen MaxRetry + 1 disconnections and no IP when it
\* decided so. (An IP that comes between line 418 and line 435 is given up too.)
WaitEndsAsSaid ==
    [][main = "wait" =>
        /\ main' = "returned" => ips
        /\ main' = "forget" => losses = MaxRetry + 1 /\ ~ips]_vars

\* Every boot comes to its server task, however often attempts fail.
BootSettles == main = "boot" ~> main = "returned"

\* A configuration no access point accepts never locks the device out: it
\* ends up offering its own access point.
BadConfigRecovers == nvs.ssid # 0 /\ ~Good(nvs) ~> main = "returned" /\ mode = "ap"
=============================================================================
