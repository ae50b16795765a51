-------------------------- MODULE WifiBlufi_proofs --------------------------
(***************************************************************************)
(* What the globals say of the association, and what a report says of an   *)
(* access point, for every set of access points and requests and every     *)
(* length of the event queue.                                              *)
(***************************************************************************)
EXTENDS WifiBlufi, TLAPS

\* The access point the station is associated with, NoAP without one.
DrvAp == IF drv = "associated" THEN target ELSE NoAP

\* The events that tell of an association, and what they tell.
IsNews(e) == e.type \in {"CONNECTED", "DISCONNECTED"}
Told(e) == IF e.type = "CONNECTED" THEN e.ap ELSE NoAP

NoNews(es) == \A i \in 1 .. Len(es) : ~IsNews(es[i])

\* The last of the queued news, if there is any, tells `ap'.
LastTells(es, ap) ==
    \A i \in 1 .. Len(es) :
        IsNews(es[i]) /\ (\A j \in 1 .. Len(es) : j > i => ~IsNews(es[j]))
            => Told(es[i]) = ap

Up == {"up1", "up2", "up3"}
Down == {"down1", "down2", "down3", "down4", "down5"}

\* A handler has written what its step says it has.
Written ==
    /\ loopPc \in Up => loopAp \in AP
    /\ loopPc \in {"up2", "up3"} => sta.connected
    /\ loopPc = "up3" => sta.bssid = loopAp
    /\ loopPc \in Down \ {"down1"} => ~sta.connected
    /\ loopPc \in {"down3", "down4", "down5"} => sta.ssid = NoAP
    /\ loopPc \in {"down4", "down5"} => sta.bssid = NoAP

\* Outside the two steps of StaConnected that tear them, BSSID and SSID are one
\* access point's while gl_sta_connected is set.
Whole == sta.connected /\ loopPc \notin {"up2", "up3"} => sta.bssid \in AP /\ sta.ssid = sta.bssid

\* A report is begun with a whole pair, and nothing has been written since.
Reported ==
    /\ btPc \in {"status2", "status3"} /\ ~raced => sta.bssid \in AP /\ sta.ssid = sta.bssid
    /\ btPc = "status3" /\ ~raced => info = sta.bssid

\* Associations are with access points.
RealAps ==
    /\ drv = "associated" => target \in AP
    /\ \A i \in 1 .. Len(events) : events[i].type = "CONNECTED" => events[i].ap \in AP

\* The driver's state is what the last news tells: one that is queued, or the one
\* being handled, or the one the globals were left with.
NewsInv ==
    /\ LastTells(events, DrvAp)
    /\ NoNews(events) =>
        /\ loopPc \in Up => loopAp = DrvAp
        /\ loopPc \in Down => DrvAp = NoAP
        /\ loopPc \notin Up \cup Down =>
            /\ sta.connected <=> DrvAp # NoAP
            /\ sta.bssid = DrvAp /\ sta.ssid = DrvAp

IInv == TypeOK /\ Written /\ Whole /\ Reported /\ RealAps /\ NewsInv

-----------------------------------------------------------------------------
(* The queue of events.                                                    *)

LEMMA ApFacts == SomeAP = AP \cup {NoAP} /\ NoAP \notin AP
  BY WifiAssumption DEF SomeAP

LEMMA AppendNews ==
    ASSUME NEW S, NEW es \in Seq(S), NEW e \in S, NEW ap
    PROVE  /\ Append(es, e) \in Seq(S)
           /\ IsNews(e) => ~NoNews(Append(es, e)) /\ LastTells(Append(es, e), Told(e))
           /\ ~IsNews(e) =>
                /\ NoNews(Append(es, e)) <=> NoNews(es)
                /\ LastTells(es, ap) => LastTells(Append(es, e), ap)
<1> DEFINE fs == Append(es, e)
<1>1. /\ fs \in Seq(S) /\ Len(fs) = Len(es) + 1 /\ Len(es) \in Nat
      /\ fs[Len(fs)] = e /\ \A i \in 1 .. Len(es) : fs[i] = es[i]
  OBVIOUS
<1> HIDE DEF fs
<1>2. \A i \in 1 .. Len(fs) : i \in 1 .. Len(es) \/ i = Len(fs)
  BY <1>1
<1>3. Len(fs) \in 1 .. Len(fs) /\ \A i \in 1 .. Len(es) : i \in 1 .. Len(fs) /\ Len(fs) > i
  BY <1>1
<1>4. ASSUME IsNews(e) PROVE ~NoNews(fs) /\ LastTells(fs, Told(e))
  BY <1>1, <1>2, <1>3, <1>4 DEF NoNews, LastTells
<1>5. ASSUME ~IsNews(e) PROVE (NoNews(fs) <=> NoNews(es))
  BY <1>1, <1>2, <1>3, <1>5 DEF NoNews
<1>6. ASSUME ~IsNews(e), LastTells(es, ap) PROVE LastTells(fs, ap)
  <2> SUFFICES ASSUME NEW i \in 1 .. Len(fs), IsNews(fs[i]),
                      \A j \in 1 .. Len(fs) : j > i => ~IsNews(fs[j])
               PROVE  Told(fs[i]) = ap
    BY DEF LastTells
  <2>1. i \in 1 .. Len(es) /\ fs[i] = es[i]
    BY <1>1, <1>2, <1>6
  <2>2. \A j \in 1 .. Len(es) : j > i => ~IsNews(es[j])
    BY <1>1, <1>3
  <2> QED BY <2>1, <2>2, <1>6 DEF LastTells
<1> QED BY <1>1, <1>4, <1>5, <1>6 DEF fs

LEMMA TailNews ==
    ASSUME NEW S, NEW es \in Seq(S), es # <<>>, NEW ap, LastTells(es, ap)
    PROVE  /\ Tail(es) \in Seq(S) /\ Head(es) \in S
           /\ Len(Tail(es)) = Len(es) - 1 /\ Len(es) \in Nat \ {0}
           /\ LastTells(Tail(es), ap)
           /\ NoNews(Tail(es)) =>
                /\ IsNews(Head(es)) => Told(Head(es)) = ap
                /\ ~IsNews(Head(es)) => NoNews(es)
           /\ \A i \in 1 .. Len(Tail(es)) : Tail(es)[i] = es[i + 1] /\ i + 1 \in 1 .. Len(es)
<1> DEFINE fs == Tail(es)
<1>1. /\ fs \in Seq(S) /\ Len(fs) = Len(es) - 1 /\ Len(es) \in Nat \ {0}
      /\ Head(es) = es[1] /\ Head(es) \in S
      /\ \A i \in 1 .. Len(fs) : fs[i] = es[i + 1]
  OBVIOUS
<1> HIDE DEF fs
<1>2. \A i \in 1 .. Len(es) : i = 1 \/ (i - 1 \in 1 .. Len(fs) /\ fs[i - 1] = es[i])
  BY <1>1
<1>3. LastTells(fs, ap)
  <2> SUFFICES ASSUME NEW i \in 1 .. Len(fs), IsNews(fs[i]),
                      \A j \in 1 .. Len(fs) : j > i => ~IsNews(fs[j])
               PROVE  Told(fs[i]) = ap
    BY DEF LastTells
  <2>1. i + 1 \in 1 .. Len(es) /\ fs[i] = es[i + 1]
    BY <1>1
  <2>2. ASSUME NEW j \in 1 .. Len(es), j > i + 1 PROVE ~IsNews(es[j])
    <3>1. j - 1 \in 1 .. Len(fs) /\ j - 1 > i /\ fs[j - 1] = es[j]
      BY <2>2, <1>2, <1>1
    <3> QED BY <3>1
  <2> QED BY <2>1, <2>2 DEF LastTells
<1>4. ASSUME NoNews(fs), IsNews(Head(es)) PROVE Told(Head(es)) = ap
  <2>1. \A j \in 1 .. Len(es) : j > 1 => ~IsNews(es[j])
    BY <1>4, <1>2 DEF NoNews
  <2> QED BY <2>1, <1>1, <1>4 DEF LastTells
<1>5. ASSUME NoNews(fs), ~IsNews(Head(es)) PROVE NoNews(es)
  BY <1>5, <1>1, <1>2 DEF NoNews
<1>6. \A i \in 1 .. Len(fs) : i + 1 \in 1 .. Len(es)
  BY <1>1
<1> QED BY <1>1, <1>3, <1>4, <1>5, <1>6 DEF fs

-----------------------------------------------------------------------------
(* The driver and the BLUFI task: they post events, and leave the globals  *)
(* of the handlers alone.                                                  *)

Events == [type : EventType, ap : SomeAP]

LEMMA EventFacts ==
    ASSUME NEW type \in EventType, NEW ap \in SomeAP
    PROVE  Event(type, ap) \in Events /\ Event(type, ap).type = type /\ Event(type, ap).ap = ap
  BY DEF Event, Events

\* An event that is posted tells what the driver has become, or nothing.
Posts(e) ==
    /\ Room
    /\ events' = Append(events, e)
    /\ e.type = "CONNECTED" => e.ap \in AP
    /\ DrvAp' = IF IsNews(e) THEN Told(e) ELSE DrvAp

LEMMA OutsideSafe ==
    ASSUME IInv, UNCHANGED <<sta, loopPc, loopAp>>,
           drv' = "associated" => target' \in AP,
           (events' = events /\ DrvAp' = DrvAp) \/ (\E e \in Events : Posts(e))
    PROVE  /\ Written' /\ Whole' /\ RealAps' /\ NewsInv'
           /\ events' \in Seq(Events) /\ Len(events') <= MaxEvents
<1>1. Written' /\ Whole'
  BY DEF IInv, Written, Whole
<1>2. events \in Seq(Events) /\ Len(events) <= MaxEvents /\ MaxEvents \in Nat
  BY WifiAssumption DEF IInv, TypeOK, Events
<1>3. CASE events' = events /\ DrvAp' = DrvAp
  <2>1. RealAps'
    BY <1>3 DEF IInv, RealAps
  <2>2. NewsInv'
    BY <1>3 DEF IInv, NewsInv
  <2> QED BY <1>1, <1>2, <1>3, <2>1, <2>2
<1>4. ASSUME NEW e \in Events, Posts(e)
      PROVE  RealAps' /\ NewsInv' /\ events' \in Seq(Events) /\ Len(events') <= MaxEvents
  <2>1. events' \in Seq(Events) /\ Len(events') <= MaxEvents
    BY <1>2, <1>4 DEF Posts, Room
  <2>2. RealAps'
    BY <1>2, <1>4 DEF IInv, RealAps, Posts
  <2>3. NewsInv'
    <3>1. LastTells(events, DrvAp) /\ (NoNews(events) => NewsInv!2!2)
      BY DEF IInv, NewsInv
    <3>2. CASE IsNews(e)
      <4>1. ~NoNews(events') /\ LastTells(events', DrvAp')
        BY <1>2, <1>4, <3>2, AppendNews DEF Posts
      <4> QED BY <4>1 DEF NewsInv
    <3>3. CASE ~IsNews(e)
      <4>1. (NoNews(events') <=> NoNews(events)) /\ LastTells(events', DrvAp) /\ DrvAp' = DrvAp
        BY <1>2, <1>4, <3>1, <3>3, AppendNews DEF Posts
      <4> QED BY <4>1, <3>1 DEF NewsInv
    <3> QED BY <3>2, <3>3
  <2> QED BY <2>1, <2>2, <2>3
<1> QED BY <1>1, <1>3, <1>4

LEMMA ConnectSafe ==
    ASSUME IInv, Connect
    PROVE  /\ DrvAp' = DrvAp
           /\ drv' = "associated" => target' \in AP
           /\ drv' \in {"idle", "connecting", "associated"}
           /\ {cfg', target'} \subseteq SomeAP /\ mode' = mode
  BY DEF IInv, TypeOK, RealAps, Connect, DrvAp

LEMMA DisconnectSafe ==
    ASSUME IInv, Disconnect, Room
    PROVE  /\ (events' = events /\ DrvAp' = DrvAp) \/ (\E e \in Events : Posts(e))
           /\ drv' = "idle" /\ DrvAp' = NoAP
           /\ UNCHANGED <<cfg, target, scanning>>
<1>1. drv' = "idle" /\ DrvAp' = NoAP /\ UNCHANGED <<cfg, target, scanning>>
  BY DEF Disconnect, DrvAp
<1>2. CASE drv = "idle"
  BY <1>1, <1>2 DEF Disconnect, DrvAp
<1>3. CASE drv # "idle"
  <2> DEFINE e == Event("DISCONNECTED", NoAP)
  <2>1. e \in Events /\ e.type = "DISCONNECTED"
    BY EventFacts, ApFacts DEF EventType
  <2>2. events' = Append(events, e)
    BY <1>3 DEF Disconnect
  <2> HIDE DEF e
  <2>3. Posts(e)
    BY <1>1, <2>1, <2>2 DEF Posts, IsNews, Told
  <2> QED BY <1>1, <2>1, <2>3
<1> QED BY <1>2, <1>3

LEMMA DriverSafe == ASSUME IInv, Driver \/ DrvDrop PROVE IInv'
<1>1. CASE DrvAssociate
  <2> DEFINE e == Event("CONNECTED", target)
  <2>1. target \in AP /\ target \in SomeAP /\ "CONNECTED" \in EventType
    BY <1>1, ApFacts DEF DrvAssociate, EventType
  <2>2. e \in Events /\ e.type = "CONNECTED" /\ e.ap = target
    BY <2>1, EventFacts
  <2>3. events' = Append(events, e) /\ Room /\ drv' = "associated" /\ target' = target
    BY <1>1 DEF DrvAssociate
  <2> HIDE DEF e
  <2>4. Posts(e)
    BY <2>1, <2>2, <2>3 DEF Posts, IsNews, Told, DrvAp
  <2>5. /\ Written' /\ Whole' /\ RealAps' /\ NewsInv'
        /\ events' \in Seq(Events) /\ Len(events') <= MaxEvents
    BY <1>1, <2>1, <2>2, <2>3, <2>4, OutsideSafe DEF DrvAssociate, taskVars
  <2>6. TypeOK' /\ Reported'
    BY <1>1, <2>5 DEF IInv, TypeOK, Reported, DrvAssociate, taskVars, reportVars, Events
  <2> QED BY <2>5, <2>6 DEF IInv
<1>2. CASE DhcpLease
  <2>1. /\ Written' /\ Whole' /\ RealAps' /\ NewsInv'
    BY <1>2, OutsideSafe DEF DhcpLease, taskVars, driverVars, IInv, RealAps, DrvAp
  <2>2. TypeOK' /\ Reported'
    BY <1>2 DEF IInv, TypeOK, Reported, DhcpLease, taskVars, reportVars, driverVars
  <2> QED BY <2>1, <2>2 DEF IInv
<1>3. CASE DhcpPost \/ ScanEnd
  <2>1. PICK type \in {"GOT_IP", "SCAN_DONE"} :
            Room /\ events' = Append(events, Event(type, NoAP))
    BY <1>3 DEF DhcpPost, ScanEnd
  <2>2. /\ UNCHANGED <<sta, ble, sta_config, loopPc, loopAp, info, raced, mode, drv, cfg, target>>
        /\ btPc' \in {btPc, "idle"} /\ dhcp' \in {dhcp, "done"} /\ scanning' \in {scanning, FALSE}
    BY <1>3 DEF DhcpPost, ScanEnd, taskVars, reportVars, driverVars
  <2> DEFINE e == Event(type, NoAP)
  <2>3. e \in Events /\ e.type = type
    BY EventFacts, ApFacts DEF EventType
  <2>4. events' = Append(events, e)
    BY <2>1
  <2> HIDE DEF e
  <2>5. Posts(e)
    BY <2>1, <2>2, <2>3, <2>4 DEF Posts, IsNews, DrvAp
  <2>6. /\ Written' /\ Whole' /\ RealAps' /\ NewsInv'
        /\ events' \in Seq(Events) /\ Len(events') <= MaxEvents
    BY <2>2, <2>3, <2>5, OutsideSafe DEF IInv, RealAps
  <2>7. TypeOK'
    <3>1. btPc' \in {"idle", "reconnect", "status2", "status3", "scan",
                    "softap", "nosoftap"}
      BY <2>2 DEF IInv, TypeOK
    <3>2. dhcp' \in {"off", "running", "leased", "done"} /\ scanning' \in BOOLEAN
      BY <2>2 DEF IInv, TypeOK
    <3> QED BY <3>1, <3>2, <2>2, <2>6 DEF IInv, TypeOK, Events
  <2>8. Reported'
    BY <2>2 DEF IInv, Reported
  <2> QED BY <2>6, <2>7, <2>8 DEF IInv
<1>4. CASE DrvDrop
  <2>1. /\ Room /\ Disconnect
        /\ UNCHANGED <<sta, ble, sta_config, loopPc, loopAp, btPc, info, raced, mode, dhcp>>
    BY <1>4 DEF DrvDrop, taskVars, reportVars
  <2>2. /\ Written' /\ Whole' /\ RealAps' /\ NewsInv'
        /\ events' \in Seq(Events) /\ Len(events') <= MaxEvents
    BY <2>1, DisconnectSafe, OutsideSafe
  <2>3. TypeOK' /\ Reported'
    BY <2>1, <2>2, DisconnectSafe DEF IInv, TypeOK, Reported, Events
  <2> QED BY <2>2, <2>3 DEF IInv
<1> QED BY <1>1, <1>2, <1>3, <1>4 DEF Driver

LEMMA OpmodeSafe == ASSUME IInv, OpmodeSoftAp PROVE IInv'
<1>1. /\ Room /\ UNCHANGED <<sta, ble, sta_config, loopPc, loopAp, info, raced, drv, cfg, target>>
      /\ UNCHANGED <<scanning, dhcp>> /\ btPc' = "idle"
      /\ mode' \in {mode \cup {"AP"}, mode \ {"AP"}}
      /\ events' = events \/ events' = Append(events, Event("AP_START", NoAP))
  BY DEF OpmodeSoftAp, reportVars
<1>2. mode' \subseteq {"STA", "AP"}
  BY <1>1 DEF IInv, TypeOK
<1>3. (events' = events /\ DrvAp' = DrvAp) \/ (\E e \in Events : Posts(e))
  <2> DEFINE e == Event("AP_START", NoAP)
  <2>1. e \in Events /\ e.type = "AP_START"
    BY EventFacts, ApFacts DEF EventType
  <2>2. events' = events \/ events' = Append(events, e)
    BY <1>1
  <2> HIDE DEF e
  <2>3. DrvAp' = DrvAp
    BY <1>1 DEF DrvAp
  <2> QED BY <1>1, <2>1, <2>2, <2>3 DEF Posts, IsNews
<1>4. /\ Written' /\ Whole' /\ RealAps' /\ NewsInv'
      /\ events' \in Seq(Events) /\ Len(events') <= MaxEvents
  BY <1>1, <1>3, OutsideSafe DEF IInv, RealAps
<1>5. TypeOK'
  BY <1>1, <1>2, <1>4 DEF IInv, TypeOK, Events
<1>6. Reported'
  BY <1>1 DEF Reported
<1> QED BY <1>4, <1>5, <1>6 DEF IInv

LEMMA ResumeSafe == ASSUME IInv, Reconnect \/ StatusBssid \/ StatusSend PROVE IInv'
<1>1. UNCHANGED <<sta, ble, sta_config, loopPc, loopAp, events, dhcp>>
  BY DEF Reconnect, StatusBssid, StatusSend, driverVars
<1>2. CASE Reconnect
  <2>1. Connect /\ btPc' = "idle" /\ UNCHANGED <<info, raced>>
    BY <1>2 DEF Reconnect, reportVars
  <2>2. /\ Written' /\ Whole' /\ RealAps' /\ NewsInv'
    BY <1>1, <2>1, ConnectSafe, OutsideSafe
  <2>3. btPc' \in {"idle", "reconnect", "status2", "status3", "scan",
                    "softap", "nosoftap"}
    BY <2>1
  <2>4. scanning' = scanning
    BY <2>1 DEF Connect
  <2>5. TypeOK'
    <3>1. {loopAp', info', cfg', target'} \subseteq SomeAP /\ mode' = mode
      BY <1>1, <2>1, ConnectSafe DEF IInv, TypeOK
    <3>2. drv' \in {"idle", "connecting", "associated"}
      BY <2>1, ConnectSafe
    <3> QED BY <1>1, <2>1, <2>3, <2>4, <3>1, <3>2 DEF IInv, TypeOK
  <2>6. Reported'
    BY <2>1 DEF Reported
  <2> QED BY <2>2, <2>5, <2>6 DEF IInv
<1>3. CASE StatusBssid \/ StatusSend
  <2>1. UNCHANGED driverVars
    BY <1>3 DEF StatusBssid, StatusSend
  <2>2. /\ Written' /\ Whole' /\ RealAps' /\ NewsInv'
    BY <1>1, <2>1, OutsideSafe DEF driverVars, IInv, RealAps, DrvAp
  <2>3. /\ raced' \in {raced, FALSE} /\ info' \in {sta.bssid, NoAP}
        /\ btPc' \in {"idle", "status3"}
    BY <1>3 DEF StatusBssid, StatusSend
  <2>4. TypeOK'
    <3>1. /\ btPc' \in {"idle", "reconnect", "status2", "status3", "scan",
                    "softap", "nosoftap"}
          /\ raced' \in BOOLEAN /\ {loopAp', info'} \subseteq SomeAP
      BY <1>1, <2>3, ApFacts DEF IInv, TypeOK
    <3> QED BY <3>1, <1>1, <2>1 DEF IInv, TypeOK, driverVars
  <2>5. Reported'
    BY <1>1, <1>3 DEF IInv, Reported, StatusBssid, StatusSend
  <2> QED BY <2>2, <2>4, <2>5 DEF IInv
<1> QED BY <1>2, <1>3

LEMMA RequestSafe == ASSUME IInv, Request PROVE IInv'
<1>1. CASE BleConnect \/ BleDisconnect
  <2>1. /\ UNCHANGED <<sta, sta_config, loopPc, loopAp, btPc, info, raced, events, dhcp>>
        /\ UNCHANGED driverVars /\ ble' \in BOOLEAN
    BY <1>1 DEF BleConnect, BleDisconnect, taskVars, reportVars
  <2>2. /\ Written' /\ Whole' /\ RealAps' /\ NewsInv'
    BY <2>1, OutsideSafe DEF driverVars, IInv, RealAps, DrvAp
  <2>3. TypeOK'
    BY <2>1 DEF IInv, TypeOK, driverVars
  <2>4. Reported'
    BY <2>1 DEF IInv, Reported
  <2> QED BY <2>2, <2>3, <2>4 DEF IInv
<1>2. ASSUME NEW field \in {"ssid", "pwd", "bssid"}, NEW ap \in AP, Configure(field, ap)
      PROVE  IInv'
  <2>1. /\ UNCHANGED <<sta, ble, loopPc, loopAp, btPc, info, raced, events, drv, target>>
        /\ UNCHANGED <<mode, scanning, dhcp>>
        /\ sta_config' = [sta_config EXCEPT ![field] = ap] /\ cfg' \in {Fits(sta_config'), cfg}
    BY <1>2 DEF Configure, taskVars, reportVars
  <2>2. /\ Written' /\ Whole' /\ RealAps' /\ NewsInv'
    BY <2>1, OutsideSafe DEF IInv, RealAps, DrvAp
  <2>3. TypeOK'
    <3>1. sta_config \in Credentials /\ cfg \in SomeAP /\ ap \in SomeAP
      BY ApFacts DEF IInv, TypeOK
    <3>2. sta_config' \in Credentials
      BY <2>1, <3>1 DEF Credentials
    <3>3. cfg' \in SomeAP
      BY <2>1, <3>1, ApFacts DEF Fits
    <3> QED BY <3>2, <3>3, <2>1 DEF IInv, TypeOK
  <2>4. Reported'
    BY <2>1 DEF IInv, Reported
  <2> QED BY <2>2, <2>3, <2>4 DEF IInv
<1>3. CASE ReqConnect \/ ReqDisconnect
  <2>1. /\ Room /\ Disconnect
        /\ UNCHANGED <<sta, ble, sta_config, loopPc, loopAp, info, raced, mode, dhcp>>
        /\ btPc = "idle" /\ btPc' \in {"idle", "reconnect"}
    BY <1>3 DEF ReqConnect, ReqDisconnect, Idle, taskVars, reportVars
  <2>2. /\ Written' /\ Whole' /\ RealAps' /\ NewsInv'
        /\ events' \in Seq(Events) /\ Len(events') <= MaxEvents
    BY <2>1, DisconnectSafe, OutsideSafe
  <2>3. TypeOK'
    <3>1. /\ btPc' \in {"idle", "reconnect", "status2", "status3", "scan",
                    "softap", "nosoftap"}
          /\ drv' \in {"idle", "connecting", "associated"}
          /\ UNCHANGED <<cfg, target, scanning>>
      BY <2>1, DisconnectSafe
    <3> QED BY <3>1, <2>1, <2>2 DEF IInv, TypeOK, Events
  <2>4. Reported'
    BY <2>1 DEF Reported
  <2> QED BY <2>2, <2>3, <2>4 DEF IInv
<1>4. CASE GetStatus \/ GetList
  <2>1. /\ UNCHANGED <<sta, ble, sta_config, loopPc, loopAp, info, events, dhcp>>
        /\ UNCHANGED <<mode, drv, cfg, target>>
        /\ btPc' \in {"status2", "scan"} /\ scanning' \in {scanning, TRUE}
    BY <1>4 DEF GetStatus, GetList, driverVars, reportVars
  <2>2. /\ Written' /\ Whole' /\ RealAps' /\ NewsInv'
    BY <2>1, OutsideSafe DEF IInv, RealAps, DrvAp
  <2>3. TypeOK'
    <3>1. btPc' \in {"idle", "reconnect", "status2", "status3", "scan",
                    "softap", "nosoftap"}
      BY <2>1
    <3>2. raced' \in BOOLEAN
      <4>1. raced' = raced \/ raced' = (loopPc \in {"up2", "up3"})
        BY <1>4, Zenon DEF GetStatus, GetList, reportVars
      <4>2. raced \in BOOLEAN
        BY DEF IInv, TypeOK
      <4>3. (loopPc \in {"up2", "up3"}) \in BOOLEAN
        OBVIOUS
      <4> QED BY <4>1, <4>2, <4>3, Zenon
    <3>3. scanning' \in BOOLEAN
      BY <2>1 DEF IInv, TypeOK
    <3> QED BY <3>1, <3>2, <3>3, <2>1 DEF IInv, TypeOK
  <2>4. Reported'
    <3>1. btPc' = "status2" => sta.connected /\ (~raced' => loopPc \notin {"up2", "up3"})
      BY <1>4 DEF GetStatus, GetList
    <3> QED BY <3>1, <2>1 DEF IInv, Whole, Reported
  <2> QED BY <2>2, <2>3, <2>4 DEF IInv
<1>5. ASSUME NEW m \in Modes, SetOpmode(m) PROVE IInv'
  <2>1. /\ Room /\ UNCHANGED <<sta, ble, sta_config, loopPc, loopAp, info, raced, dhcp>>
        /\ btPc' \in {"softap", "nosoftap"}
        /\ mode' = (mode \cap {"AP"}) \cup (m \cap {"STA"})
    BY <1>5 DEF SetOpmode, reportVars
  <2>2. mode' \subseteq {"STA", "AP"}
    BY <2>1
  <2>3. /\ (events' = events /\ DrvAp' = DrvAp) \/ (\E e \in Events : Posts(e))
        /\ drv' = "associated" => target' \in AP
        /\ drv' \in {"idle", "connecting", "associated"} /\ UNCHANGED <<cfg, target, scanning>>
    <3>1. CASE Disconnect
      BY <2>1, <3>1, DisconnectSafe
    <3>2. CASE /\ UNCHANGED <<drv, cfg, target, scanning>>
               /\ events' = events
      BY <3>2 DEF IInv, TypeOK, RealAps, DrvAp
    <3>3. CASE /\ UNCHANGED <<drv, cfg, target, scanning>>
               /\ events' = Append(events, Event("START", NoAP))
      <4> DEFINE e == Event("START", NoAP)
      <4>1. e \in Events /\ e.type = "START"
        BY EventFacts, ApFacts DEF EventType
      <4>2. events' = Append(events, e)
        BY <3>3
      <4> HIDE DEF e
      <4>3. Posts(e)
        BY <2>1, <3>3, <4>1, <4>2 DEF Posts, IsNews, DrvAp
      <4> QED BY <3>3, <4>1, <4>3 DEF IInv, TypeOK, RealAps
    <3> QED BY <1>5, <3>1, <3>2, <3>3 DEF SetOpmode
  <2>4. /\ Written' /\ Whole' /\ RealAps' /\ NewsInv'
        /\ events' \in Seq(Events) /\ Len(events') <= MaxEvents
    BY <2>1, <2>3, OutsideSafe
  <2>5. TypeOK'
    BY <2>1, <2>2, <2>3, <2>4 DEF IInv, TypeOK, Events
  <2>6. Reported'
    BY <2>1 DEF Reported
  <2> QED BY <2>4, <2>5, <2>6 DEF IInv
<1>6. Bssids \subseteq AP
  BY WifiAssumption
<1> QED BY <1>1, <1>2, <1>3, <1>4, <1>5, <1>6 DEF Request

-----------------------------------------------------------------------------
(* The event loop.                                                         *)

LEMMA LoopConnectSafe ==
    ASSUME IInv, StaStart \/ LoopConnect("down4", "down5")
    PROVE  IInv'
<1>1. /\ Connect
      /\ UNCHANGED <<sta, ble, sta_config, loopAp, btPc, info, raced, events, dhcp>>
      /\ (loopPc = "START" /\ loopPc' = "idle") \/ (loopPc = "down4" /\ loopPc' = "down5")
  BY DEF StaStart, LoopConnect, reportVars
<1>2. /\ DrvAp' = DrvAp /\ (drv' = "associated" => target' \in AP)
      /\ drv' \in {"idle", "connecting", "associated"}
      /\ {cfg', target'} \subseteq SomeAP /\ scanning' = scanning /\ mode' = mode
  BY <1>1, ConnectSafe DEF Connect
<1>3. TypeOK'
  <2>1. loopPc' \in {"idle", "up1", "up2", "up3", "down1", "down2", "down3", "down4", "down5",
                     "ip1", "ip2"} \cup EventType
    BY <1>1
  <2> QED BY <2>1, <1>1, <1>2 DEF IInv, TypeOK
<1>4. Written' /\ Whole' /\ Reported'
  BY <1>1 DEF IInv, Written, Whole, Reported, Down, Up
<1>5. RealAps'
  BY <1>1, <1>2 DEF IInv, RealAps
<1>6. NewsInv'
  BY <1>1, <1>2 DEF IInv, NewsInv, Up, Down
<1> QED BY <1>3, <1>4, <1>5, <1>6 DEF IInv

LEMMA LoopSendSafe ==
    ASSUME IInv, LoopSend("ip2") \/ ApStart \/ ScanDone
    PROVE  IInv'
<1>1. /\ UNCHANGED <<sta, ble, sta_config, loopAp, btPc, info, raced, events, dhcp>>
      /\ UNCHANGED driverVars
      /\ loopPc \in {"ip2", "AP_START", "SCAN_DONE"} /\ loopPc' = "idle"
  BY DEF ApStart, ScanDone, LoopSend, reportVars
<1>2. TypeOK'
  <2>1. loopPc' \in {"idle", "up1", "up2", "up3", "down1", "down2", "down3", "down4", "down5",
                     "ip1", "ip2"} \cup EventType
    BY <1>1
  <2> QED BY <2>1, <1>1 DEF IInv, TypeOK, driverVars
<1>3. Written' /\ Whole' /\ Reported' /\ RealAps'
  BY <1>1 DEF IInv, Written, Whole, Reported, RealAps, Down, Up, driverVars
<1>4. NewsInv'
  BY <1>1 DEF IInv, NewsInv, Up, Down, DrvAp, driverVars
<1> QED BY <1>2, <1>3, <1>4 DEF IInv

\* An assignment of a handler: what it writes is known by the step it comes to.
LEMMA WriteSafe ==
    ASSUME IInv, StaConnected \/ Write("ip1", "ip2", "bit", TRUE)
                 \/ Write("down1", "down2", "connected", FALSE)
                 \/ Write("down2", "down3", "ssid", NoAP)
                 \/ Write("down3", "down4", "bssid", NoAP)
                 \/ Write("down5", "idle", "bit", FALSE)
    PROVE  IInv'
<1>1. /\ UNCHANGED <<ble, sta_config, loopAp, btPc, info, events, mode, drv, cfg, target, scanning,
                   dhcp>>
      /\ raced' = (raced \/ btPc \in {"status2", "status3"})
  BY DEF StaConnected, Write, driverVars
<1>2. sta \in [connected : BOOLEAN, bssid : SomeAP, ssid : SomeAP, bit : BOOLEAN]
  BY DEF IInv, TypeOK
<1>3. /\ loopAp \in SomeAP /\ NoAP \in SomeAP /\ NoAP \notin AP
      /\ \A ap \in AP : ap \in SomeAP
  BY ApFacts DEF IInv, TypeOK
<1>4. /\ loopPc \in Up \cup Down \cup {"ip1"}
      /\ loopPc' \in Up \cup Down \cup {"ip2", "idle"}
  BY DEF StaConnected, Write, Up, Down
<1>5. sta' \in [connected : BOOLEAN, bssid : SomeAP, ssid : SomeAP, bit : BOOLEAN]
  BY <1>2, <1>3 DEF StaConnected, Write
<1>6. TypeOK'
  <2>1. loopPc' \in {"idle", "up1", "up2", "up3", "down1", "down2", "down3", "down4", "down5",
                     "ip1", "ip2"} \cup EventType
    BY <1>4 DEF Up, Down
  <2>2. raced' \in BOOLEAN
    BY <1>1, Zenon DEF IInv, TypeOK
  <2> QED BY <2>1, <2>2, <1>1, <1>5 DEF IInv, TypeOK
<1>7. Written'
  BY <1>1, <1>2 DEF IInv, Written, Up, Down, StaConnected, Write
<1>8. Whole'
  BY <1>1, <1>2 DEF IInv, Written, Whole, Up, Down, StaConnected, Write
<1>9. Reported'
  <2>1. ~raced' => btPc' \notin {"status2", "status3"}
    BY <1>1, Zenon
  <2> QED BY <2>1 DEF Reported
<1>10. RealAps'
  BY <1>1 DEF IInv, RealAps
<1>11. DrvAp' = DrvAp /\ LastTells(events, DrvAp)
  BY <1>1 DEF IInv, NewsInv, DrvAp
<1>12. ASSUME NoNews(events)
       PROVE  /\ loopPc' \in Up => loopAp = DrvAp
              /\ loopPc' \in Down => DrvAp = NoAP
              /\ loopPc' \notin Up \cup Down =>
                   /\ sta'.connected <=> DrvAp # NoAP
                   /\ sta'.bssid = DrvAp /\ sta'.ssid = DrvAp
  <2>1. /\ loopPc \in Up => loopAp = DrvAp
        /\ loopPc \in Down => DrvAp = NoAP
        /\ loopPc \notin Up \cup Down =>
             /\ sta.connected <=> DrvAp # NoAP
             /\ sta.bssid = DrvAp /\ sta.ssid = DrvAp
    BY <1>12 DEF IInv, NewsInv
  <2> QED BY <2>1, <1>2, <1>3 DEF IInv, Written, Up, Down, StaConnected, Write
<1>13. NewsInv'
  BY <1>1, <1>11, <1>12 DEF NewsInv
<1> QED BY <1>6, <1>7, <1>8, <1>9, <1>10, <1>13 DEF IInv

LEMMA LoopTakeSafe == ASSUME IInv, LoopTake PROVE IInv'
<1> DEFINE e == Head(events)
<1>1. /\ UNCHANGED <<sta, ble, sta_config, btPc, info, raced, mode, drv, cfg, target,
                   scanning>>
      /\ loopPc = "idle" /\ events # <<>> /\ events' = Tail(events) /\ loopAp' = e.ap
      /\ loopPc' = CASE e.type = "CONNECTED" -> "up1"
                     [] e.type = "DISCONNECTED" -> "down1"
                     [] e.type = "GOT_IP" -> "ip1"
                     [] OTHER -> e.type
      /\ dhcp' \in {dhcp, "running", "off"}
  BY DEF LoopTake, reportVars, driverVars
<1>2. events \in Seq(Events) /\ Len(events) <= MaxEvents /\ LastTells(events, DrvAp)
  BY DEF IInv, TypeOK, Events, NewsInv
<1>3. /\ events' \in Seq(Events) /\ e \in Events
      /\ Len(events') = Len(events) - 1 /\ Len(events) \in Nat \ {0}
      /\ LastTells(events', DrvAp)
      /\ NoNews(events') =>
           /\ IsNews(e) => Told(e) = DrvAp
           /\ ~IsNews(e) => NoNews(events)
      /\ \A i \in 1 .. Len(events') : events'[i] = events[i + 1] /\ i + 1 \in 1 .. Len(events)
  BY <1>1, <1>2, TailNews
<1>4. e.type = "CONNECTED" => e.ap \in AP
  <2>1. e = events[1] /\ 1 \in 1 .. Len(events)
    BY <1>1, <1>2, <1>3
  <2> QED BY <2>1 DEF IInv, RealAps
<1> HIDE DEF e
<1>5. \/ e.type = "CONNECTED" /\ loopPc' = "up1"
      \/ e.type = "DISCONNECTED" /\ loopPc' = "down1"
      \/ ~IsNews(e) /\ loopPc' \in {"ip1"} \cup (EventType \ {"CONNECTED", "DISCONNECTED"})
  BY <1>1, <1>3 DEF IsNews, Events
<1>6. TypeOK'
  <2>1. /\ loopPc' \in {"idle", "up1", "up2", "up3", "down1", "down2", "down3", "down4", "down5",
                        "ip1", "ip2"} \cup EventType
    BY <1>5
  <2>2. dhcp' \in {"off", "running", "leased", "done"}
    BY <1>1 DEF IInv, TypeOK
  <2>3. {loopAp', info'} \subseteq SomeAP
    BY <1>1, <1>3 DEF IInv, TypeOK, Events
  <2>4. Len(events') <= MaxEvents
    BY <1>2, <1>3, WifiAssumption
  <2> QED BY <1>1, <1>3, <2>1, <2>2, <2>3, <2>4 DEF IInv, TypeOK, Events
<1>7. Written'
  BY <1>1, <1>4, <1>5 DEF Written, Up, Down, EventType
<1>8. Whole' /\ Reported'
  BY <1>1 DEF IInv, Whole, Reported
<1>9. RealAps'
  BY <1>1, <1>3 DEF IInv, RealAps
<1>10. NewsInv'
  <2>1. DrvAp' = DrvAp
    BY <1>1 DEF DrvAp
  <2>2. CASE e.type = "CONNECTED" /\ loopPc' = "up1"
    BY <2>1, <2>2, <1>1, <1>3 DEF NewsInv, IsNews, Told, Up, Down
  <2>3. CASE e.type = "DISCONNECTED" /\ loopPc' = "down1"
    BY <2>1, <2>3, <1>3 DEF NewsInv, IsNews, Told, Up, Down
  <2>4. CASE ~IsNews(e) /\ loopPc' \in {"ip1"} \cup (EventType \ {"CONNECTED", "DISCONNECTED"})
    <3>1. loopPc \notin Up \cup Down /\ loopPc' \notin Up \cup Down
      BY <2>4, <1>1 DEF Up, Down, EventType
    <3> QED BY <2>1, <2>4, <3>1, <1>1, <1>3 DEF IInv, NewsInv
  <2> QED BY <2>2, <2>3, <2>4, <1>5
<1> QED BY <1>6, <1>7, <1>8, <1>9, <1>10 DEF IInv

-----------------------------------------------------------------------------

LEMMA InitSafe == Init => IInv
<1> SUFFICES ASSUME Init PROVE IInv
  OBVIOUS
<1> DEFINE e == Event("START", NoAP)
<1>1. e \in Events /\ e.type = "START"
  BY EventFacts, ApFacts DEF EventType
<1>2. events = <<e>>
  BY DEF Init
<1> HIDE DEF e
<1>3. events \in Seq(Events) /\ Len(events) = 1 /\ events[1] = e
  BY <1>1, <1>2
<1>4. TypeOK
  <2>1. NoAP \in SomeAP /\ Blank \in Credentials
    BY ApFacts DEF Blank, Credentials
  <2>2. Len(events) <= MaxEvents
    BY <1>3, WifiAssumption
  <2>3. sta \in [connected : BOOLEAN, bssid : SomeAP, ssid : SomeAP, bit : BOOLEAN]
    BY <2>1 DEF Init, NoSta
  <2> QED BY <1>3, <2>1, <2>2, <2>3 DEF Init, TypeOK, Events
<1>5. Written /\ Whole /\ Reported
  BY DEF Init, NoSta, Written, Whole, Reported, Up, Down
<1>6. RealAps
  BY <1>1, <1>3 DEF Init, RealAps
<1>7. NewsInv
  BY <1>1, <1>3 DEF Init, NoSta, NewsInv, LastTells, NoNews, IsNews, DrvAp, Up, Down
<1> QED BY <1>4, <1>5, <1>6, <1>7 DEF IInv

\* A failed ESP_ERROR_CHECK leads back to an initial state.
LEMMA AbortSafe == ASSUME IInv, Abort PROVE IInv'
<1>1. Init'
  BY DEF IInv, TypeOK, Abort, Init
<1>2. Init' => IInv'
  BY InitSafe, PTL
<1> QED BY <1>1, <1>2

\* What the handlers, the queue and the driver's calls keep, whoever comes first.
THEOREM Invariance == Spec => []IInv
<1>1. IInv /\ [Next]_vars => IInv'
  <2> SUFFICES ASSUME IInv, [Next]_vars PROVE IInv'
    OBVIOUS
  <2>1. CASE UNCHANGED vars
    BY <2>1 DEF vars, taskVars, reportVars, driverVars, IInv, TypeOK, Written, Whole, Reported,
                RealAps, NewsInv, DrvAp
  <2>2. CASE EventLoop
    BY <2>2, LoopTakeSafe, LoopConnectSafe, LoopSendSafe, WriteSafe
       DEF EventLoop, StaDisconnected, GotIp
  <2>3. CASE Driver \/ DrvDrop \/ Request \/ Resume \/ Abort
    BY <2>3, DriverSafe, RequestSafe, ResumeSafe, OpmodeSafe, AbortSafe DEF Resume
  <2> QED BY <2>1, <2>2, <2>3 DEF Next
<1> QED BY InitSafe, <1>1, PTL DEF Spec

\* The globals, the queue and the driver's variables are of their types.
THEOREM TypeCorrect == Spec => []TypeOK
<1>1. IInv => TypeOK
  BY DEF IInv
<1> QED BY Invariance, <1>1, PTL

\* Once every event is handled, the globals of lines 95-110 describe the driver's
\* association.
THEOREM InfoIsTracked == Spec => []InfoTracksDriver
<1>1. IInv => InfoTracksDriver
  <2> SUFFICES ASSUME IInv, events = <<>>, loopPc = "idle" PROVE InfoTracksDriver
    BY DEF InfoTracksDriver, Settled
  <2>1. NoNews(events)
    BY DEF NoNews
  <2>2. /\ sta.connected <=> DrvAp # NoAP
        /\ sta.bssid = DrvAp /\ sta.ssid = DrvAp
    BY <2>1 DEF IInv, NewsInv, Up, Down
  <2>3. drv = "associated" => target # NoAP
    BY ApFacts DEF IInv, RealAps
  <2> QED BY <2>2, <2>3 DEF InfoTracksDriver, DrvAp
<1> QED BY Invariance, <1>1, PTL

\* A report (line 256) that no handler wrote into is of one access point.
THEOREM ReportsAreWhole == Spec => []ReportOfOneAp
<1>1. IInv => ReportOfOneAp
  BY DEF IInv, Reported, ReportOfOneAp
<1> QED BY Invariance, <1>1, PTL
=============================================================================
