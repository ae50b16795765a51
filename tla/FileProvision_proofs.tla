------------------------ MODULE FileProvision_proofs ------------------------
(***************************************************************************)
(* What was answered is what the file keeps, and a configuration is only   *)
(* forgotten for cause, for every set of packets and any number of         *)
(* retries, failures and power losses.                                     *)
(***************************************************************************)
EXTENDS FileProvision, TLAPS

USE FileAssumption DEF FileAssumption

\* A write is somebody's, and whoever answers has not left one open: app_main
\* writes before the UDP task runs. A packet is answered when the file holds it
\* (what line 155 prints of one with a '%' is unknown), or when its storage has
\* failed and left the file alone.
KeepInv ==
    /\ udp # "recv" => main = "returned"
    /\ open => Storing /\ promise = "none"
    /\ udp = "store" => ~failed /\ (open \/ file = before)
    /\ udp = "reply" => IF failed THEN file = before ELSE rx \in Formats \/ file = rx
    /\ AnsweredIsKept

-----------------------------------------------------------------------------

LEMMA InitSafe == Init => KeepInv
BY DEF Init, KeepInv, Storing, AnsweredIsKept

\* A restart clears what lives in memory, and the file keeps its promise.
LEMMA RestartSafe ==
    ASSUME KeepInv, Restart, UNCHANGED <<file, promise>>
    PROVE  KeepInv'
BY DEF KeepInv, Restart, Wifi!Restart, Storing, AnsweredIsKept

LEMMA StoreSafe == ASSUME KeepInv, Store PROVE KeepInv'
<1>1. CASE StoreOpen
  BY <1>1 DEF StoreOpen, KeepInv, Storing, AnsweredIsKept
<1>2. CASE StoreClose
  <2>1. promise' = "none" /\ open' = FALSE /\ failed' = failed /\ rx' = rx
    BY <1>2 DEF StoreClose, Return, KeepInv
  <2>2. (udp' # "recv" => main' = "returned") /\ udp' # "store"
    BY <1>2 DEF StoreClose, Return, KeepInv
  <2>3. ASSUME udp' = "reply" PROVE ~failed' /\ (rx' \in Formats \/ file' = rx')
    <3>1. udp = "store" /\ main # "mark"
      BY <1>2, <2>3 DEF StoreClose, Return, KeepInv, Storing
    <3> QED
      BY <1>2, <2>1, <3>1 DEF StoreClose, KeepInv, Printed, Stored
  <2> QED
    BY <2>1, <2>2, <2>3 DEF KeepInv, AnsweredIsKept
<1>3. CASE StoreFail
  <2>1. ~open /\ ~open' /\ failed' /\ UNCHANGED <<file, before, promise>>
    BY <1>3 DEF StoreFail
  <2>2. (udp' # "recv" => main' = "returned") /\ udp' # "store"
    BY <1>3 DEF StoreFail, Return, KeepInv
  <2>3. udp' = "reply" => file' = before'
    BY <1>3, <2>1 DEF StoreFail, Return, Storing, KeepInv
  <2> QED
    BY <2>1, <2>2, <2>3 DEF KeepInv, AnsweredIsKept
<1> QED BY <1>1, <1>2, <1>3 DEF Store

\* No step of app_main but the restart touches the file, and none comes after the
\* UDP task's start.
LEMMA BootSafe ==
    ASSUME KeepInv, NEW text, BootWith(text)
    PROVE  KeepInv'
<1>1. /\ UNCHANGED <<file, open, promise, failed, before, udp, rx>>
      /\ main = "boot"
  BY DEF BootWith, storeVars
<1>2. ~open /\ udp = "recv"
  BY <1>1 DEF KeepInv, Storing
<1> QED
  BY <1>1, <1>2 DEF KeepInv, Storing, AnsweredIsKept

LEMMA MainSafe == ASSUME KeepInv, Main PROVE KeepInv'
<1>1. CASE Boot \/ BootUnread
  BY <1>1, BootSafe DEF Boot, BootUnread
<1>2. CASE WaitConnected \/ WaitFailed
  BY <1>2 DEF WaitConnected, WaitFailed, MainStep, storeVars, KeepInv, Storing, AnsweredIsKept
<1>3. CASE MainRestart
  BY <1>3, RestartSafe DEF MainRestart
<1> QED BY <1>1, <1>2, <1>3 DEF Main

\* The event loop and the driver know nothing of the file.
LEMMA WifiSafe == ASSUME KeepInv, EventHandler \/ Driver PROVE KeepInv'
<1>1. UNCHANGED <<file, open, promise, failed, before, rx>>
  BY DEF EventHandler, Driver, storeVars
<1>2. CASE EventHandler
  <2>1. UNCHANGED <<main, udp>>
    BY <1>2 DEF EventHandler, Wifi!EventLoop, Wifi!HandleStart, Wifi!HandleRetry,
                Wifi!HandleFail, Wifi!HandleGotIp, Wifi!Handles
  <2> QED
    BY <1>1, <2>1 DEF KeepInv, Storing, AnsweredIsKept
<1>3. CASE Driver
  <2>1. UNCHANGED <<main, udp>>
    BY <1>3 DEF Driver, Wifi!DrvAssociate, Wifi!DrvDrop, Wifi!DrvLease, Wifi!DrvGotIp, Wifi!Post
  <2> QED
    BY <1>1, <2>1 DEF KeepInv, Storing, AnsweredIsKept
<1> QED BY <1>2, <1>3

LEMMA UdpSafe == ASSUME KeepInv, Udp PROVE KeepInv'
<1>1. CASE \E p \in Packet : UdpReceive(p)
  <2>1. PICK p \in Packet : UdpReceive(p)
    BY <1>1
  <2> QED
    BY <2>1 DEF UdpReceive, UdpStep, KeepInv, Storing, AnsweredIsKept
<1>2. CASE UdpReply
  <2>1. /\ UNCHANGED <<file, open, failed, main, rx>>
        /\ main = "returned" /\ udp = "reply" /\ udp' = "restart"
        /\ \/ failed /\ promise' = before
           \/ ~failed /\ rx \in Formats /\ promise' = "none"
           \/ ~failed /\ rx \notin Formats /\ promise' = rx
    BY <1>2 DEF UdpReply, UdpStep
  <2>2. ~open
    BY <2>1 DEF KeepInv, Storing
  <2> QED
    BY <2>1, <2>2 DEF KeepInv, AnsweredIsKept
<1>3. CASE UdpReplyFails
  BY <1>3 DEF UdpReplyFails, UdpStep, KeepInv, Storing, AnsweredIsKept
<1>4. CASE UdpRestart
  BY <1>4, RestartSafe DEF UdpRestart
<1> QED BY <1>1, <1>2, <1>3, <1>4 DEF Udp

\* What ties the file, the writers and the answers together holds throughout.
THEOREM Invariance == Spec => []KeepInv
<1>1. KeepInv /\ [Next]_vars => KeepInv'
  <2> SUFFICES ASSUME KeepInv, [Next]_vars PROVE KeepInv'
    OBVIOUS
  <2>1. CASE UNCHANGED vars
    BY <2>1 DEF vars, storeVars, KeepInv, Storing, AnsweredIsKept
  <2>2. CASE Reset \/ StoreCrash
    BY <2>2, RestartSafe DEF Reset, StoreCrash
  <2> QED
    BY <2>1, <2>2, StoreSafe, MainSafe, WifiSafe, UdpSafe DEF Next
<1> QED BY InitSafe, <1>1, PTL DEF Spec

\* A packet without a '%' that udp_server_original.c answered (line 542) stays in
\* the file until the next write, however often the power is lost; if its storage
\* failed, the file stays what it was when the packet came.
THEOREM AnswersAreKept == Spec => []AnsweredIsKept
<1>1. KeepInv => AnsweredIsKept
  BY DEF KeepInv
<1> QED BY Invariance, <1>1, PTL

-----------------------------------------------------------------------------
(* The types, and the count of the attempts, as in WifiProvision.          *)

\* A packet is received before it is stored.
RxInv == udp # "recv" => rx \in Packet

\* The retry counter and the disconnections advance together until the first
\* IP, and WIFI_FAIL_BIT is set by the one after the last retry.
CountInv ==
    /\ \/ ips
       \/ "FAIL" \notin bits /\ losses = s_retry_num
       \/ "FAIL" \in bits /\ losses = MaxRetry + 1 /\ s_retry_num = MaxRetry
    /\ ("CONNECTED" \in bits) <=> ips

Events == {"START", "DISCONNECTED", "GOT_IP"}

\* The parts of TypeOK: the storage and its users, the tasks, the station.
StoreTypes ==
    /\ file \in Content /\ before \in Content \cup {"none"}
    /\ open \in BOOLEAN /\ mounted \in BOOLEAN /\ failed \in BOOLEAN /\ torn \in BOOLEAN
    /\ build \in {"intact", "null", "other"}
    /\ config \in Text \cup {"none"} /\ rx \in Packet \cup {"none"}
    /\ promise \in Content \cup {"none"}
    /\ troubles \in 0 .. MaxTroubles

TaskTypes ==
    /\ main \in {"boot", "mark", "marked", "wait", "returned"} /\ mode \in {"sta", "ap"}
    /\ udp \in {"recv", "store", "reply", "restart"}

WifiTypes ==
    /\ leased \in BOOLEAN /\ ips \in BOOLEAN
    /\ bits \subseteq {"CONNECTED", "FAIL"}
    /\ s_retry_num \in 0 .. MaxRetry /\ losses \in 0 .. MaxRetry + 1
    /\ events \in Seq(Events) /\ Len(events) <= MaxEvents
    /\ drv \in {"idle", "connecting", "associated"}

IInv == KeepInv /\ StoreTypes /\ TaskTypes /\ WifiTypes /\ RxInv /\ CountInv

LEMMA TypesAreTypeOK == StoreTypes /\ TaskTypes /\ WifiTypes => TypeOK
BY DEF StoreTypes, TaskTypes, WifiTypes, TypeOK, Events

LEMMA NoEvents == <<>> \in Seq(Events) /\ Len(<<>>) <= MaxEvents
BY DEF Events

LEMMA StartEvent == <<"START">> \in Seq(Events) /\ Len(<<"START">>) <= MaxEvents
BY DEF Events

LEMMA IInitSafe == Init => IInv
<1> SUFFICES ASSUME Init PROVE IInv
  OBVIOUS
<1>0. /\ 0 \in 0 .. MaxTroubles /\ 0 \in 0 .. MaxRetry /\ 0 \in 0 .. MaxRetry + 1
      /\ Packet \subseteq Content /\ "absent" \in Content
  BY DEF Content, Text
<1>1. StoreTypes
  BY <1>0, Zenon DEF Init, StoreTypes
<1>2. TaskTypes
  BY DEF Init, TaskTypes
<1>3. WifiTypes
  BY <1>0, NoEvents, Zenon DEF Init, WifiTypes
<1>4. RxInv /\ CountInv
  BY DEF Init, RxInv, CountInv
<1> QED
  BY <1>1, <1>2, <1>3, <1>4, InitSafe DEF IInv

\* What a restart leaves is typed, and nothing is counted.
LEMMA RestartTypes ==
    ASSUME IInv, Restart, UNCHANGED <<file, build, promise>>,
           torn' \in BOOLEAN, troubles' \in 0 .. MaxTroubles
    PROVE  (StoreTypes /\ TaskTypes /\ WifiTypes /\ RxInv /\ CountInv)'
<1>1. /\ open' = FALSE /\ mounted' = FALSE /\ failed' = FALSE /\ before' = "none"
      /\ config' = "none" /\ rx' = "none"
      /\ main' = "boot" /\ mode' = "sta" /\ udp' = "recv"
      /\ bits' = {} /\ s_retry_num' = 0 /\ events' = <<>> /\ drv' = "idle"
      /\ leased' = FALSE /\ losses' = 0 /\ ips' = FALSE
  BY DEF Restart, Wifi!Restart
<1>2. StoreTypes'
  BY <1>1 DEF IInv, StoreTypes
<1>3. TaskTypes'
  BY <1>1 DEF TaskTypes
<1>4. WifiTypes'
  <2>1. 0 \in 0 .. MaxRetry /\ 0 \in 0 .. MaxRetry + 1
    OBVIOUS
  <2> QED
    BY <1>1, <2>1, NoEvents, Zenon DEF WifiTypes
<1> QED
  BY <1>1, <1>2, <1>3, <1>4 DEF RxInv, CountInv

LEMMA ReturnTypes ==
    ASSUME IInv, Return
    PROVE  (TaskTypes /\ WifiTypes /\ RxInv /\ CountInv)'
<1>1. TaskTypes'
  BY DEF Return, IInv, TaskTypes
<1>2. WifiTypes' /\ CountInv'
  BY DEF Return, wifiVars, IInv, WifiTypes, CountInv
<1>3. RxInv'
  BY DEF Return, IInv, TaskTypes, RxInv
<1> QED BY <1>1, <1>2, <1>3

LEMMA StoreTypesSafe == ASSUME IInv, Store PROVE IInv'
<1>1. CASE StoreOpen
  <2>1. StoreTypes'
    BY <1>1 DEF StoreOpen, IInv, StoreTypes, Content
  <2>2. (TaskTypes /\ WifiTypes /\ RxInv /\ CountInv)'
    BY <1>1 DEF StoreOpen, wifiVars, IInv, TaskTypes, WifiTypes, RxInv, CountInv
  <2> QED
    BY <2>1, <2>2, StoreSafe DEF IInv
<1>2. CASE StoreClose
  <2>1. file' \in Content
    <3>1. main = "mark" \/ (udp = "store" /\ rx \in Packet)
      BY <1>2 DEF StoreClose, IInv, KeepInv, Storing, RxInv
    <3> QED
      BY <1>2, <3>1 DEF StoreClose, Printed, Stored, Content, Text
  <2>2. StoreTypes'
    BY <1>2, <2>1 DEF StoreClose, Return, IInv, StoreTypes
  <2> QED
    BY <1>2, <2>2, StoreSafe, ReturnTypes DEF StoreClose, IInv
<1>3. CASE StoreFail
  <2>1. mounted' \in BOOLEAN /\ troubles' \in 0 .. MaxTroubles /\ failed' = TRUE
    BY <1>3 DEF StoreFail, IInv, StoreTypes
  <2>2. StoreTypes'
    BY <1>3, <2>1 DEF StoreFail, Return, IInv, StoreTypes
  <2> QED
    BY <1>3, <2>2, StoreSafe, ReturnTypes DEF StoreFail, IInv
<1> QED BY <1>1, <1>2, <1>3 DEF Store

LEMMA ReadTypes == StoreTypes => ReadResult \subseteq Text \cup {"none"}
BY DEF StoreTypes, ReadResult, Content

\* What a boot does with the text it gets.
LEMMA BootCases ==
    ASSUME NEW text, BootWith(text)
    PROVE  /\ main = "boot" /\ config' = text
           /\ UNCHANGED <<file, open, mounted, failed, before, promise, build, rx, udp, torn>>
           /\ UNCHANGED <<bits, s_retry_num, drv, leased, losses, ips>>
           /\ \/ main' = "returned" /\ mode' = "ap" /\ events' = events
              \/ main' = "mark" /\ mode' = mode /\ events' = events /\ text \in Malformed
              \/ main' = "wait" /\ mode' = "sta" /\ events' = <<"START">>
<1>1. \/ text \in {"none", "wrong"} /\ InitSoftAp
      \/ text \in Malformed /\ main' = "mark" /\ UNCHANGED <<mode, wifiVars>>
      \/ text \notin {"none", "wrong"} \cup Malformed /\ InitSta
  BY DEF BootWith, Packet, Text
<1> QED
  BY <1>1 DEF BootWith, storeVars, wifiVars, InitSoftAp, InitSta

LEMMA BootTypes ==
    ASSUME IInv, NEW text \in Text \cup {"none"}, BootWith(text), troubles' \in 0 .. MaxTroubles
    PROVE  IInv'
<1>1. StoreTypes'
  BY BootCases DEF IInv, StoreTypes
<1>2. TaskTypes'
  BY BootCases DEF IInv, TaskTypes
<1>3. WifiTypes'
  BY BootCases, StartEvent DEF IInv, WifiTypes
<1>4. RxInv' /\ CountInv'
  BY BootCases DEF IInv, RxInv, CountInv
<1> QED
  BY <1>1, <1>2, <1>3, <1>4, BootSafe DEF IInv

LEMMA MainTypes == ASSUME IInv, Main PROVE IInv'
<1>1. CASE Boot
  <2>1. PICK text \in ReadResult : BootWith(text) /\ UNCHANGED troubles
    BY <1>1 DEF Boot
  <2>2. text \in Text \cup {"none"} /\ troubles' \in 0 .. MaxTroubles
    BY <2>1, ReadTypes DEF IInv, StoreTypes
  <2> QED
    BY <2>1, <2>2, BootTypes
<1>2. CASE BootUnread
  <2>1. BootWith("none") /\ troubles' \in 0 .. MaxTroubles
    BY <1>2 DEF BootUnread, IInv, StoreTypes
  <2> QED
    BY <2>1, BootTypes
<1>3. CASE WaitConnected \/ WaitFailed
  <2>1. /\ main' \in {"returned", "mark"}
        /\ UNCHANGED <<storeVars, wifiVars, build, config, rx, mode, udp, troubles, torn>>
    BY <1>3 DEF WaitConnected, WaitFailed, MainStep
  <2>2. (StoreTypes /\ TaskTypes /\ RxInv)'
    BY <2>1 DEF storeVars, IInv, StoreTypes, TaskTypes, RxInv
  <2>3. (WifiTypes /\ CountInv)'
    BY <2>1 DEF wifiVars, IInv, WifiTypes, CountInv
  <2> QED
    BY <1>3, <2>2, <2>3, MainSafe DEF IInv, Main
<1>4. CASE MainRestart
  <2>1. /\ Restart /\ UNCHANGED <<file, build, promise>>
        /\ torn' \in BOOLEAN /\ troubles' \in 0 .. MaxTroubles
    BY <1>4 DEF MainRestart, IInv, StoreTypes
  <2> QED
    BY <1>4, <2>1, RestartTypes, MainSafe DEF IInv, Main
<1> QED BY <1>1, <1>2, <1>3, <1>4 DEF Main

-----------------------------------------------------------------------------

\* What FiniteSetsExt's Min returns on two numbers.
LEMMA MinOfTwo ==
    ASSUME NEW a \in Int, NEW b \in Int
    PROVE  Wifi!Min({a, b}) = IF a <= b THEN a ELSE b
<1> DEFINE m == IF a <= b THEN a ELSE b
<1>1. m \in {a, b} /\ \A y \in {a, b} : m <= y
  OBVIOUS
<1>2. \A x \in {a, b} : (\A y \in {a, b} : x <= y) => x = m
  OBVIOUS
<1> QED BY <1>1, <1>2, Zenon DEF Wifi!Min

\* The handlers: a retry adds one to both counts, the failure comes once the
\* counter is at its limit, and an IP ends the counting.
LEMMA EventLoopTypes == ASSUME IInv, EventHandler PROVE IInv'
<1> USE DEF Wifi!Handles
<1>1. /\ UNCHANGED <<storeVars, build, config, rx, torn, main, mode, udp, troubles>>
      /\ Wifi!EventLoop /\ events # <<>> /\ events' = Tail(events)
  BY DEF EventHandler, Wifi!EventLoop, Wifi!HandleStart, Wifi!HandleRetry, Wifi!HandleFail,
         Wifi!HandleGotIp
<1>2. (StoreTypes /\ TaskTypes /\ RxInv)'
  BY <1>1 DEF storeVars, IInv, StoreTypes, TaskTypes, RxInv
<1>3. events' \in Seq(Events) /\ Len(events') <= MaxEvents
  <2>1. events \in Seq(Events) /\ Len(events) <= MaxEvents
    BY DEF IInv, WifiTypes
  <2> QED BY <1>1, <2>1
<1>4. drv' \in {"idle", "connecting", "associated"} /\ leased' \in BOOLEAN
  BY <1>1 DEF Wifi!EventLoop, Wifi!HandleStart, Wifi!HandleRetry, Wifi!HandleFail,
              Wifi!HandleGotIp, IInv, WifiTypes
<1>5. s_retry_num \in 0 .. MaxRetry /\ losses \in 0 .. MaxRetry + 1 /\ ips \in BOOLEAN
      /\ bits \subseteq {"CONNECTED", "FAIL"} /\ CountInv
  BY DEF IInv, WifiTypes
<1>6. Wifi!Min({losses + 1, MaxRetry + 1})
        = IF losses + 1 <= MaxRetry + 1 THEN losses + 1 ELSE MaxRetry + 1
  BY <1>5, MinOfTwo
<1>7. /\ s_retry_num' \in 0 .. MaxRetry /\ losses' \in 0 .. MaxRetry + 1
      /\ ips' \in BOOLEAN /\ bits' \subseteq {"CONNECTED", "FAIL"} /\ CountInv'
  <2>1. CASE Wifi!HandleStart
    BY <2>1, <1>5 DEF Wifi!HandleStart, CountInv
  <2>2. CASE Wifi!HandleRetry
    BY <2>2, <1>5, <1>6 DEF Wifi!HandleRetry, CountInv
  <2>3. CASE Wifi!HandleFail
    BY <2>3, <1>5, <1>6 DEF Wifi!HandleFail, CountInv
  <2>4. CASE Wifi!HandleGotIp
    BY <2>4, <1>5 DEF Wifi!HandleGotIp, CountInv
  <2> QED BY <1>1, <2>1, <2>2, <2>3, <2>4 DEF Wifi!EventLoop
<1>8. WifiTypes'
  BY <1>3, <1>4, <1>7 DEF WifiTypes
<1> QED
  BY <1>2, <1>7, <1>8, WifiSafe DEF IInv

\* The driver's actions only touch its own state and the queue.
LEMMA DriverTypes == ASSUME IInv, Driver PROVE IInv'
<1> USE DEF Wifi!Post
<1>1. /\ UNCHANGED <<storeVars, build, config, rx, torn, main, mode, udp, troubles>>
      /\ UNCHANGED <<bits, s_retry_num, losses, ips>>
  BY DEF Driver, Wifi!DrvAssociate, Wifi!DrvDrop, Wifi!DrvLease, Wifi!DrvGotIp
<1>2. (StoreTypes /\ TaskTypes /\ RxInv /\ CountInv)'
  BY <1>1 DEF storeVars, IInv, StoreTypes, TaskTypes, RxInv, CountInv
<1>3. events' \in Seq(Events) /\ Len(events') <= MaxEvents
  <2>1. events \in Seq(Events) /\ Len(events) <= MaxEvents
    BY DEF IInv, WifiTypes
  <2>2. ASSUME NEW type \in Events, Wifi!Post(type)
        PROVE  events' \in Seq(Events) /\ Len(events') <= MaxEvents
    BY <2>1, <2>2
  <2>3. CASE Wifi!DrvDrop \/ Wifi!DrvGotIp
    BY <2>2, <2>3 DEF Wifi!DrvDrop, Wifi!DrvGotIp, Events
  <2>4. CASE Wifi!DrvAssociate \/ Wifi!DrvLease
    BY <2>1, <2>4 DEF Wifi!DrvAssociate, Wifi!DrvLease
  <2> QED BY <2>3, <2>4 DEF Driver
<1>4. drv' \in {"idle", "connecting", "associated"} /\ leased' \in BOOLEAN
  BY DEF Driver, Wifi!DrvAssociate, Wifi!DrvDrop, Wifi!DrvLease, Wifi!DrvGotIp, IInv, WifiTypes
<1>5. WifiTypes'
  BY <1>1, <1>3, <1>4 DEF IInv, WifiTypes
<1> QED
  BY <1>2, <1>5, WifiSafe DEF IInv

LEMMA UdpTypes == ASSUME IInv, Udp PROVE IInv'
<1>1. CASE (\E p \in Packet : UdpReceive(p)) \/ UdpReply \/ UdpReplyFails
  <2>1. /\ UNCHANGED <<wifiVars, file, open, mounted, build, config, main, mode, troubles,
                       torn>>
        /\ udp' \in {"store", "restart", "recv"}
    BY <1>1 DEF UdpReceive, UdpReply, UdpReplyFails, UdpStep
  <2>2. /\ rx' \in Packet \cup {"none"} /\ failed' \in BOOLEAN
        /\ before' \in Content \cup {"none"}
        /\ udp' # "recv" => rx' \in Packet
    BY <1>1 DEF UdpReceive, UdpReply, UdpReplyFails, UdpStep, IInv, StoreTypes, RxInv
  <2>3. promise' \in Content \cup {"none"}
    <3>1. CASE UdpReply
      <4>1. promise' \in {before, "none", rx} /\ rx \in Packet
        BY <3>1 DEF UdpReply, UdpStep, IInv, RxInv
      <4> QED BY <4>1 DEF IInv, StoreTypes, Content, Text
    <3>2. CASE ~UdpReply
      BY <1>1, <3>2 DEF UdpReceive, UdpReplyFails, IInv, StoreTypes
    <3> QED BY <3>1, <3>2
  <2>4. (StoreTypes /\ TaskTypes /\ RxInv)'
    BY <2>1, <2>2, <2>3 DEF IInv, StoreTypes, TaskTypes, RxInv
  <2>5. (WifiTypes /\ CountInv)'
    BY <2>1 DEF wifiVars, IInv, WifiTypes, CountInv
  <2> QED
    BY <1>1, <2>4, <2>5, UdpSafe DEF IInv, Udp
<1>2. CASE UdpRestart
  <2>1. /\ Restart /\ UNCHANGED <<file, build, promise>>
        /\ torn' \in BOOLEAN /\ troubles' \in 0 .. MaxTroubles
    BY <1>2 DEF UdpRestart, IInv, StoreTypes
  <2> QED
    BY <1>2, <2>1, RestartTypes, UdpSafe DEF IInv, Udp
<1> QED BY <1>1, <1>2 DEF Udp

LEMMA ResetTypes == ASSUME IInv, Reset \/ StoreCrash PROVE IInv'
<1>1. Restart /\ UNCHANGED <<file, build, promise>> /\ troubles' \in 0 .. MaxTroubles
  BY DEF Reset, StoreCrash, IInv, StoreTypes
<1>2. torn' \in BOOLEAN
  BY Zenon DEF Reset, StoreCrash, IInv, StoreTypes
<1> QED
  BY <1>1, <1>2, RestartTypes, RestartSafe DEF IInv

-----------------------------------------------------------------------------

\* The file, the tasks and the counters fit each other in every boot.
THEOREM TypeInvariance == Spec => []IInv
<1>1. IInv /\ [Next]_vars => IInv'
  <2> SUFFICES ASSUME IInv, [Next]_vars PROVE IInv'
    OBVIOUS
  <2>1. CASE UNCHANGED vars
    <3>1. KeepInv'
      BY <2>1 DEF vars, storeVars, IInv, KeepInv, Storing, AnsweredIsKept
    <3>2. (StoreTypes /\ TaskTypes /\ RxInv)'
      BY <2>1 DEF vars, storeVars, IInv, StoreTypes, TaskTypes, RxInv
    <3>3. (WifiTypes /\ CountInv)'
      BY <2>1 DEF vars, wifiVars, IInv, WifiTypes, CountInv
    <3> QED BY <3>1, <3>2, <3>3 DEF IInv
  <2> QED
    BY <2>1, StoreTypesSafe, MainTypes, EventLoopTypes, DriverTypes, UdpTypes, ResetTypes
    DEF Next
<1> QED BY IInitSafe, <1>1, PTL DEF Spec

\* Every text in the file is a packet or the marker, s_retry_num never passes
\* EXAMPLE_ESP_MAXIMUM_RETRY, and every other value is of its type.
THEOREM TypeCorrect == Spec => []TypeOK
<1>1. IInv => TypeOK
  BY TypesAreTypeOK DEF IInv
<1> QED BY <1>1, TypeInvariance, PTL

\* The text "wifi is wrong" (lines 412 and 583) is only written over a text without
\* a ';', a file a power loss has emptied, or a configuration with which
\* MaxRetry + 1 attempts failed and none succeeded in this boot, as long as the
\* pointer of line 254 is not to another text.
THEOREM VerdictHasCause == Spec => MarkedForCause
<1> DEFINE Cause ==
      main' = "mark" /\ main # "mark" /\ build # "other" =>
        file \in Malformed \cup {"empty"} \/ (losses = MaxRetry + 1 /\ ~ips)
<1>1. IInv /\ [Next]_vars => [Cause]_vars
  <2> SUFFICES ASSUME IInv, Next, main' = "mark", main # "mark", build # "other"
               PROVE  file \in Malformed \cup {"empty"} \/ (losses = MaxRetry + 1 /\ ~ips)
    OBVIOUS
  <2>1. CASE Boot
    <3>1. PICK text \in ReadResult : BootWith(text)
      BY <2>1 DEF Boot
    <3>2. text \in Malformed
      BY <3>1, BootCases
    <3> QED
      BY <3>1, <3>2 DEF ReadResult, Packet, Text
  <2>2. CASE BootUnread
    BY <2>2, BootCases DEF BootUnread, Packet, Text
  <2>3. CASE WaitFailed
    BY <2>3 DEF WaitFailed, IInv, CountInv
  <2>4. CASE WaitConnected \/ MainRestart \/ Udp \/ Reset \/ StoreCrash
    BY <2>4 DEF WaitConnected, MainStep, MainRestart, Udp, UdpReceive, UdpReply, UdpReplyFails,
                UdpStep, UdpRestart, Reset, StoreCrash, Restart, Wifi!Restart
  <2>5. CASE Store
    BY <2>5 DEF Store, StoreOpen, StoreClose, StoreFail, Return
  <2>6. CASE EventHandler
    BY <2>6 DEF EventHandler, Wifi!EventLoop, Wifi!HandleStart, Wifi!HandleRetry,
                Wifi!HandleFail, Wifi!HandleGotIp, Wifi!Handles
  <2>7. CASE Driver
    BY <2>7 DEF Driver, Wifi!DrvAssociate, Wifi!DrvDrop, Wifi!DrvLease, Wifi!DrvGotIp, Wifi!Post
  <2> QED
    BY <2>1, <2>2, <2>3, <2>4, <2>5, <2>6, <2>7 DEF Next, Main
<1> QED BY <1>1, TypeInvariance, PTL DEF Spec, MarkedForCause
=============================================================================
