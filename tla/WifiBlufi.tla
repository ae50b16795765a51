----------------------------- MODULE WifiBlufi -----------------------------
(***************************************************************************)
(* udp_server/main/blufi_example_main.c: the station and its provisioning  *)
(* over BLUFI. Two tasks share the globals of lines 37-53:                 *)
(*                                                                         *)
(*   - the event-loop task runs wifi_event_handler and ip_event_handler    *)
(*     for one queued event after the other;                               *)
(*   - the BLUFI task runs example_event_callback for one request of the   *)
(*     phone after the other.                                              *)
(*                                                                         *)
(* A step is one access to the shared globals or one call of the Wi-Fi     *)
(* driver. The driver, the DHCP client and the phone are external: they    *)
(* are what the calls and the handlers of this file show of them.          *)
(***************************************************************************)
EXTENDS Integers, Sequences

CONSTANTS
    AP,         \* the access points in reach
    NoAP,       \* none: a cleared buffer, or no association
    Requests,   \* what the phone may ask for besides configuring a station
    Modes,      \* the op modes it sets: sets of the interfaces that are on
    Bssids,     \* the access points whose BSSID it may send
    MaxEvents   \* bound: how far the queue of events may lag behind

ASSUME WifiAssumption ==
    /\ NoAP \notin AP
    /\ Requests \subseteq {"connect", "disconnect", "status", "list", "opmode"}
    /\ Modes \subseteq SUBSET {"STA", "AP"}
    /\ Bssids \subseteq AP
    /\ MaxEvents \in Nat \ {0}

SomeAP == AP \cup {NoAP}

\* What the phone sends: an SSID, the password of the access point `pwd', and
\* the BSSID of the access point `bssid', NoAP while none is set.
Credentials == [ssid : SomeAP, pwd : SomeAP, bssid : SomeAP]
Blank == [ssid |-> NoAP, pwd |-> NoAP, bssid |-> NoAP]

\* The one access point a station so configured can join, NoAP if there is none.
Fits(c) == IF c.ssid \in AP /\ c.pwd = c.ssid /\ c.bssid \in {NoAP, c.ssid} THEN c.ssid ELSE NoAP

VARIABLES
    sta,        \* gl_sta_connected, gl_sta_bssid, gl_sta_ssid (with its
                \* length), and CONNECTED_BIT of wifi_event_group
    ble,        \* ble_is_connected
    sta_config, \* the static configuration the requests fill in
    loopPc,     \* the event loop's next step, "idle" between events
    loopAp,     \* the access point its event is about
    btPc,       \* the BLUFI task's next step, "idle" between requests
    info,       \* its local esp_blufi_extra_info_t: the BSSID
    raced,      \* history: the loop was writing `sta' while the report was built
    events,     \* the queue of the event loop
    mode,       \* the driver's op mode
    drv,        \* its station: "idle", "connecting", "associated"
    cfg,        \* the access point the configuration it holds fits
    target,     \* the access point of its attempt (NoAP: a vain one) or association
    dhcp,       \* the DHCP client: "off", "running", "leased", "done"
    scanning    \* a scan is running

taskVars == <<loopPc, loopAp, btPc>>
reportVars == <<info, raced>>
driverVars == <<mode, drv, cfg, target, scanning>>
vars == <<sta, ble, sta_config, taskVars, reportVars, events, driverVars, dhcp>>

Event(type, ap) == [type |-> type, ap |-> ap]
EventType == {"START", "CONNECTED", "DISCONNECTED", "GOT_IP", "SCAN_DONE", "AP_START"}

TypeOK ==
    /\ sta \in [connected : BOOLEAN, bssid : SomeAP, ssid : SomeAP, bit : BOOLEAN]
    /\ ble \in BOOLEAN /\ raced \in BOOLEAN /\ scanning \in BOOLEAN
    /\ sta_config \in Credentials /\ mode \subseteq {"STA", "AP"}
    /\ loopPc \in {"idle", "up1", "up2", "up3", "down1", "down2", "down3", "down4", "down5",
                   "ip1", "ip2"} \cup EventType
    /\ btPc \in {"idle", "reconnect", "status2", "status3", "scan", "softap", "nosoftap"}
    /\ {loopAp, info, cfg, target} \subseteq SomeAP
    /\ events \in Seq([type : EventType, ap : SomeAP]) /\ Len(events) <= MaxEvents
    /\ drv \in {"idle", "connecting", "associated"}
    /\ dhcp \in {"off", "running", "leased", "done"}

NoSta == [connected |-> FALSE, bssid |-> NoAP, ssid |-> NoAP, bit |-> FALSE]

\* initialise_wifi (lines 170-189) has registered the handlers and started
\* the station; the driver holds whatever configuration it saved before.
Init ==
    /\ sta = NoSta
    /\ ble = FALSE /\ sta_config = Blank
    /\ loopPc = "idle" /\ loopAp = NoAP /\ btPc = "idle"
    /\ info = NoAP /\ raced = FALSE
    /\ events = <<Event("START", NoAP)>>
    /\ mode = {"STA"} /\ drv = "idle" /\ cfg \in SomeAP /\ target = NoAP /\ scanning = FALSE
    /\ dhcp = "off"

-----------------------------------------------------------------------------
(* The driver and the DHCP client (external).                              *)

\* Bound: nothing is posted while the queue lags MaxEvents behind.
Room == Len(events) < MaxEvents

\* esp_wifi_connect: an error, which every caller ignores, unless the station is
\* on and idle.
Connect ==
    /\ IF drv = "idle" /\ "STA" \in mode
       THEN drv' = "connecting" /\ target' = cfg
       ELSE UNCHANGED <<drv, target>>
    /\ UNCHANGED <<mode, cfg, scanning>>

\* Mutant: one event for the attempt and one for the association.
Disconnect_Twice ==
    /\ drv' = "idle"
    /\ events' = events \o <<Event("DISCONNECTED", NoAP), Event("DISCONNECTED", NoAP)>>
    /\ UNCHANGED <<cfg, target, scanning>>

\* esp_wifi_disconnect: ends an attempt or an association, with an event.
Disconnect ==
    /\ drv' = "idle"
    /\ events' = IF drv = "idle" THEN events ELSE Append(events, Event("DISCONNECTED", NoAP))
    /\ UNCHANGED <<cfg, target, scanning>>

\* An attempt whose configuration fits an access point succeeds.
DrvAssociate ==
    /\ drv = "connecting" /\ target \in AP /\ Room
    /\ drv' = "associated"
    /\ events' = Append(events, Event("CONNECTED", target))
    /\ UNCHANGED <<sta, ble, sta_config, taskVars, reportVars, mode, cfg, target, scanning, dhcp>>

\* An attempt may fail, and an association be lost, at any time.
DrvDrop ==
    /\ drv # "idle" /\ Room
    /\ Disconnect
    /\ UNCHANGED <<sta, ble, sta_config, taskVars, reportVars, mode, dhcp>>

\* The DHCP client gets its lease over the association and posts the event
\* from a task of its own, later. The default handlers line 175 installs start
\* and stop it when the loop comes to the station's events.
DhcpLease ==
    /\ dhcp = "running" /\ drv = "associated"
    /\ dhcp' = "leased"
    /\ UNCHANGED <<sta, ble, sta_config, taskVars, reportVars, events, driverVars>>

DhcpPost ==
    /\ dhcp = "leased" /\ Room
    /\ dhcp' = "done"
    /\ events' = Append(events, Event("GOT_IP", NoAP))
    /\ UNCHANGED <<sta, ble, sta_config, taskVars, reportVars, driverVars>>

\* The scan ends, and with it the blocking call of line 333.
ScanEnd ==
    /\ scanning /\ Room
    /\ scanning' = FALSE
    /\ btPc' = "idle"
    /\ events' = Append(events, Event("SCAN_DONE", NoAP))
    /\ UNCHANGED <<sta, ble, sta_config, loopPc, loopAp, reportVars, mode, drv, cfg, target, dhcp>>

Driver == DrvAssociate \/ DhcpLease \/ DhcpPost \/ ScanEnd

-----------------------------------------------------------------------------
(* The event loop.                                                         *)

LoopTake ==
    /\ loopPc = "idle" /\ events # <<>>
    /\ LET e == Head(events) IN
        /\ loopPc' = CASE e.type = "CONNECTED" -> "up1"
                       [] e.type = "DISCONNECTED" -> "down1"
                       [] e.type = "GOT_IP" -> "ip1"
                       [] OTHER -> e.type
        /\ loopAp' = e.ap
        /\ dhcp' = CASE e.type = "CONNECTED" -> "running"
                     [] e.type = "DISCONNECTED" -> "off"
                     [] OTHER -> dhcp
    /\ events' = Tail(events)
    /\ UNCHANGED <<sta, ble, sta_config, btPc, reportVars, driverVars>>

\* One assignment to the globals, at step `from' of a handler.
Write(from, to, field, value) ==
    /\ loopPc = from
    /\ loopPc' = to
    /\ sta' = [sta EXCEPT ![field] = value]
    /\ raced' = (raced \/ btPc \in {"status2", "status3"})
    /\ UNCHANGED <<ble, sta_config, loopAp, btPc, info, events, driverVars, dhcp>>

\* A call of esp_wifi_connect, at step `from' of a handler.
LoopConnect(from, to) ==
    /\ loopPc = from
    /\ loopPc' = to
    /\ Connect
    /\ UNCHANGED <<sta, ble, sta_config, loopAp, btPc, reportVars, events, dhcp>>

\* A report or a list goes to the phone, if one is there: no state of this
\* module changes.
LoopSend(from) ==
    /\ loopPc = from
    /\ loopPc' = "idle"
    /\ UNCHANGED <<sta, ble, sta_config, loopAp, btPc, reportVars, events, driverVars, dhcp>>

StaStart == LoopConnect("START", "idle")

StaConnected ==
    \/ Write("up1", "up2", "connected", TRUE)
    \/ Write("up2", "up3", "bssid", loopAp)
    \/ Write("up3", "idle", "ssid", loopAp)

\* Mutants: the reconnection, or the memset of the BSSID, is missing.
StaDisconnected_NoConnect ==
    \/ Write("down1", "down2", "connected", FALSE)
    \/ Write("down2", "down3", "ssid", NoAP)
    \/ Write("down3", "down5", "bssid", NoAP)
    \/ Write("down5", "idle", "bit", FALSE)
StaDisconnected_KeepBssid ==
    \/ Write("down1", "down2", "connected", FALSE)
    \/ Write("down2", "down4", "ssid", NoAP)
    \/ LoopConnect("down4", "down5")
    \/ Write("down5", "idle", "bit", FALSE)

StaDisconnected ==
    \/ Write("down1", "down2", "connected", FALSE)
    \/ Write("down2", "down3", "ssid", NoAP)
    \/ Write("down3", "down4", "bssid", NoAP)
    \/ LoopConnect("down4", "down5")
    \/ Write("down5", "idle", "bit", FALSE)

\* The report copies what only this task writes.
GotIp ==
    \/ Write("ip1", "ip2", "bit", TRUE)
    \/ LoopSend("ip2")

ApStart == LoopSend("AP_START")

ScanDone == LoopSend("SCAN_DONE")

EventLoop ==
    LoopTake \/ StaStart \/ StaConnected \/ StaDisconnected \/ GotIp \/ ApStart \/ ScanDone

-----------------------------------------------------------------------------
(* The BLUFI task: example_event_callback.                                 *)

Idle == btPc = "idle"

BleConnect ==
    /\ Idle /\ ~ble
    /\ ble' = TRUE
    /\ UNCHANGED <<sta, sta_config, taskVars, reportVars, events, driverVars, dhcp>>

BleDisconnect ==
    /\ Idle /\ ble
    /\ ble' = FALSE
    /\ UNCHANGED <<sta, sta_config, taskVars, reportVars, events, driverVars, dhcp>>

\* Lines 271-288: one field arrives, and the driver is given all that arrived so
\* far: a BSSID stays set (bssid_set is never cleared). The driver refuses it
\* while the station is off or connecting, an error nobody looks at.
Configure(field, ap) ==
    /\ Idle /\ ble
    /\ sta_config' = [sta_config EXCEPT ![field] = ap]
    /\ cfg' = IF "STA" \in mode /\ drv # "connecting" THEN Fits(sta_config') ELSE cfg
    /\ UNCHANGED <<sta, ble, taskVars, reportVars, events, mode, drv, target, scanning, dhcp>>

\* Mutant: no disconnection before the connection.
ReqConnect_NoDisconnect ==
    /\ "connect" \in Requests
    /\ Idle /\ ble /\ Room
    /\ btPc' = "reconnect"
    /\ UNCHANGED <<sta, ble, sta_config, loopPc, loopAp, reportVars, events, driverVars, dhcp>>

\* Lines 230-234, in two calls.
ReqConnect ==
    /\ "connect" \in Requests
    /\ Idle /\ ble /\ Room
    /\ Disconnect
    /\ btPc' = "reconnect"
    /\ UNCHANGED <<sta, ble, sta_config, loopPc, loopAp, reportVars, mode, dhcp>>

Reconnect ==
    /\ btPc = "reconnect"
    /\ Connect
    /\ btPc' = "idle"
    /\ UNCHANGED <<sta, ble, sta_config, loopPc, loopAp, reportVars, events, dhcp>>

ReqDisconnect ==
    /\ "disconnect" \in Requests
    /\ Idle /\ ble /\ Room
    /\ Disconnect
    /\ UNCHANGED <<sta, ble, sta_config, taskVars, reportVars, mode, dhcp>>

\* Mutant: the flag is not looked at.
GetStatus_NoCheck ==
    /\ "status" \in Requests
    /\ Idle /\ ble
    /\ raced' = (loopPc \in {"up2", "up3", "down2", "down3"})
    /\ btPc' = "status2"
    /\ UNCHANGED <<sta, ble, sta_config, loopPc, loopAp, info, events, driverVars, dhcp>>

\* Lines 244-258: without a connection the report is a bare failure.
GetStatus ==
    /\ "status" \in Requests
    /\ Idle /\ ble /\ sta.connected
    /\ raced' = (loopPc \in {"up2", "up3"})
    /\ btPc' = "status2"
    /\ UNCHANGED <<sta, ble, sta_config, loopPc, loopAp, info, events, driverVars, dhcp>>

StatusBssid ==
    /\ btPc = "status2"
    /\ info' = sta.bssid
    /\ btPc' = "status3"
    /\ UNCHANGED <<sta, ble, sta_config, loopPc, loopAp, raced, events, driverVars, dhcp>>

\* The SSID is passed by address: it is read when the report is sent.
StatusSend ==
    /\ btPc = "status3"
    /\ info' = NoAP /\ raced' = FALSE
    /\ btPc' = "idle"
    /\ UNCHANGED <<sta, ble, sta_config, loopPc, loopAp, events, driverVars, dhcp>>

\* Lines 326-333: the task blocks until the scan is done. The driver refuses a
\* scan, and the call returns at once, while the station is off or connecting.
GetList ==
    /\ "list" \in Requests
    /\ Idle /\ ble /\ "STA" \in mode /\ drv # "connecting"
    /\ scanning' = TRUE
    /\ btPc' = "scan"
    /\ UNCHANGED <<sta, ble, sta_config, loopPc, loopAp, reportVars, events, mode, drv, cfg, target,
                   dhcp>>

\* Lines 224-226: the station is started, with an event, or stopped, which ends
\* what it does; then the access point.
SetOpmode(m) ==
    /\ "opmode" \in Requests
    /\ Idle /\ ble /\ Room
    /\ mode' = (mode \cap {"AP"}) \cup (m \cap {"STA"})
    /\ \/ "STA" \notin m /\ Disconnect
       \/ /\ "STA" \in m
          /\ events' = IF "STA" \in mode THEN events ELSE Append(events, Event("START", NoAP))
          /\ UNCHANGED <<drv, cfg, target, scanning>>
    /\ btPc' = IF "AP" \in m THEN "softap" ELSE "nosoftap"
    /\ UNCHANGED <<sta, ble, sta_config, loopPc, loopAp, reportVars, dhcp>>

OpmodeSoftAp ==
    /\ btPc \in {"softap", "nosoftap"} /\ Room
    /\ mode' = IF btPc = "softap" THEN mode \cup {"AP"} ELSE mode \ {"AP"}
    /\ events' = IF "AP" \in mode' \ mode THEN Append(events, Event("AP_START", NoAP)) ELSE events
    /\ btPc' = "idle"
    /\ UNCHANGED <<sta, ble, sta_config, loopPc, loopAp, reportVars, drv, cfg, target, scanning,
                   dhcp>>

\* An ESP_ERROR_CHECK fails: the driver knows no such mode (line 226), or has no
\* memory for its records (line 138). The program restarts; the driver finds the
\* configuration it held in flash.
Abort ==
    /\ \/ "opmode" \in Requests /\ Idle /\ ble
       \/ loopPc = "SCAN_DONE"
    /\ sta' = NoSta
    /\ ble' = FALSE /\ sta_config' = Blank
    /\ loopPc' = "idle" /\ loopAp' = NoAP /\ btPc' = "idle"
    /\ info' = NoAP /\ raced' = FALSE
    /\ events' = <<Event("START", NoAP)>>
    /\ mode' = {"STA"} /\ drv' = "idle" /\ cfg' = cfg /\ target' = NoAP /\ scanning' = FALSE
    /\ dhcp' = "off"

Request ==
    \/ BleConnect \/ BleDisconnect
    \/ \E field \in {"ssid", "pwd"}, ap \in AP : Configure(field, ap)
    \/ \E ap \in Bssids : Configure("bssid", ap)
    \/ ReqConnect \/ ReqDisconnect \/ GetStatus \/ GetList
    \/ \E m \in Modes : SetOpmode(m)

Resume == Reconnect \/ StatusBssid \/ StatusSend \/ OpmodeSoftAp

-----------------------------------------------------------------------------

Next == Driver \/ DrvDrop \/ EventLoop \/ Request \/ Resume \/ Abort

Spec == Init /\ [][Next]_vars

\* The tasks run, a scan and an attempt end, and of ever new attempts with a
\* fitting configuration one succeeds. The phone and the loss of an association are
\* free. (Strong for the attempt's end, because the phone's events may fill the
\* bounded queue again and again.)
FairSpec ==
    /\ Spec
    /\ WF_vars(EventLoop) /\ WF_vars(Resume) /\ WF_vars(ScanEnd)
    /\ SF_vars(DrvAssociate)
    /\ SF_vars(drv = "connecting" /\ DrvDrop)

-----------------------------------------------------------------------------
(* Properties.                                                             *)

\* Every event is handled.
Settled == events = <<>> /\ loopPc = "idle"

\* Once every event is handled, the globals lines 95-110 maintain describe the
\* association the driver has, whatever events, drops and requests crossed.
InfoTracksDriver ==
    Settled =>
        IF drv = "associated"
        THEN sta.connected /\ sta.bssid = target /\ sta.ssid = target
        ELSE ~sta.connected /\ sta.bssid = NoAP /\ sta.ssid = NoAP

\* A status report (line 256) no handler wrote into while it was built is one
\* access point's.
ReportOfOneAp == btPc = "status3" /\ ~raced => info \in AP /\ sta.ssid = info

\* The workaround of lines 103-109: a station that stays on, with a configuration
\* that stays right, is associated again and again, even if the phone keeps
\* disconnecting it and whatever order its own reconnection, a change of the mode
\* and the phone's requests come in. (Unless the phone aborts the device forever.)
Reassociates ==
    <>[](cfg \in AP /\ "STA" \in mode) => []<>(drv = "associated") \/ []<><<Abort>>_vars

\* A phone whose configuration the driver has taken and that asks for the
\* connection gets it, unless it configures another one or stops the station: no
\* attempt with half a configuration keeps the driver from it.
Provisioned ==
    \A ap \in AP :
        \/ btPc = "reconnect" /\ cfg = ap
               ~> (drv = "associated" /\ target = ap) \/ cfg # ap \/ "STA" \notin mode
        \/ []<><<Abort>>_vars

\* Lines 43-45: the bit says whether "we are connected to the AP with an IP".
BitMeansConnected == Settled /\ sta.bit => drv = "associated"
=============================================================================
