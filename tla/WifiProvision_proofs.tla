----------------------- MODULE WifiProvision_proofs -----------------------
(***************************************************************************)
(* WifiProvision's safety properties hold of every set of SSIDs, number of *)
(* retries, and bound on the queue and on the resets.                      *)
(***************************************************************************)
EXTENDS WifiProvision, TLAPS

\* The retry counter and the disconnections advance together until the first
\* IP, and WIFI_FAIL_BIT is set by the one after the last retry.
RetryCount ==
    \/ ips
    \/ "FAIL" \notin bits /\ losses = s_retry_num
    \/ "FAIL" \in bits /\ losses = MaxRetry + 1 /\ s_retry_num = MaxRetry

\* The connected bit is never cleared but by a restart.
BitIsIp == ("CONNECTED" \in bits) <=> ips

IInv == TypeOK /\ RetryCount /\ BitIsIp

-----------------------------------------------------------------------------

\* What FiniteSetsExt's Min and Max return on two numbers.
LEMMA MinOfTwo ==
    ASSUME NEW a \in Int, NEW b \in Int
    PROVE  Min({a, b}) = IF a <= b THEN a ELSE b
<1> DEFINE m == IF a <= b THEN a ELSE b
<1>1. m \in {a, b} /\ \A y \in {a, b} : m <= y
  OBVIOUS
<1>2. \A x \in {a, b} : (\A y \in {a, b} : x <= y) => x = m
  OBVIOUS
<1> QED BY <1>1, <1>2, Zenon DEF Min

LEMMA MaxOfTwo ==
    ASSUME NEW a \in Int, NEW b \in Int
    PROVE  Max({a, b}) = IF a >= b THEN a ELSE b
<1> DEFINE m == IF a >= b THEN a ELSE b
<1>1. m \in {a, b} /\ \A y \in {a, b} : m >= y
  OBVIOUS
<1>2. \A x \in {a, b} : (\A y \in {a, b} : x >= y) => x = m
  OBVIOUS
<1> QED BY <1>1, <1>2, Zenon DEF Max

\* The length of the name in use after a packet: one of the two.
LEMMA MaxIsLength ==
    ASSUME NEW s \in Ssid, NEW l \in Ssid \cup {0}
    PROVE  Max({s, l}) \in Ssid \cup {0}
BY MaxOfTwo, ProvisionAssumption DEF ProvisionAssumption

-----------------------------------------------------------------------------
(* The parts of the state two actions at a time leave alone.               *)

\* What Config and Seq say of the values the actions write.
LEMMA BlankIsConfig == Blank \in Config
BY DEF Blank, Config

\* A restart makes the memory what IInv asks of it, whatever was in flash.
LEMMA RestartSafe ==
    ASSUME IInv, Restart, nvs' \in Config, resets' \in 0 .. MaxResets
    PROVE  IInv'
<1>1. wifi_config2' = Blank /\ udp' = "recv" /\ bits' = {} /\ s_retry_num' = 0
      /\ main' = "boot" /\ mode' = "sta" /\ events' = <<>> /\ drv' = "idle"
      /\ leased' = FALSE /\ losses' = 0 /\ ips' = FALSE
  BY DEF Restart
<1>2. <<>> \in Seq({"START", "DISCONNECTED", "GOT_IP"}) /\ Len(<<>>) = 0
  OBVIOUS
<1>3. 0 <= MaxEvents /\ 0 \in 0 .. MaxRetry /\ 0 \in 0 .. MaxRetry + 1
  BY ProvisionAssumption DEF ProvisionAssumption
<1>4. TypeOK'
  <2>1. (/\ {nvs, wifi_config2} \subseteq Config
         /\ main \in {"boot", "wait", "forget", "returned"} /\ mode \in {"sta", "ap"}
         /\ udp \in {"recv", "reply", "apply"} /\ bits \subseteq {"CONNECTED", "FAIL"})'
    BY <1>1, BlankIsConfig DEF IInv, TypeOK
  <2>2. (/\ s_retry_num \in 0 .. MaxRetry /\ losses \in 0 .. MaxRetry + 1
         /\ drv \in {"idle", "connecting", "associated"} /\ leased \in BOOLEAN
         /\ ips \in BOOLEAN /\ resets \in 0 .. MaxResets)'
    BY <1>1, <1>3
  <2>3. (events \in Seq({"START", "DISCONNECTED", "GOT_IP"}) /\ Len(events) <= MaxEvents)'
    BY <1>1, <1>2, <1>3
  <2> QED BY <2>1, <2>2, <2>3 DEF TypeOK
<1>5. (RetryCount /\ BitIsIp)'
  BY <1>1 DEF RetryCount, BitIsIp
<1> QED BY <1>4, <1>5 DEF IInv

\* The driver's actions only touch its own state and the queue.
LEMMA DriverSafe ==
    ASSUME IInv, DrvAssociate \/ DrvDrop \/ DrvLease \/ DrvGotIp
    PROVE  IInv'
<1>1. UNCHANGED <<nvs, wifi_config2, main, mode, udp, bits, s_retry_num, resets,
                  losses, ips>>
  BY DEF DrvAssociate, DrvDrop, DrvLease, DrvGotIp, Post
<1>2. events' \in Seq({"START", "DISCONNECTED", "GOT_IP"}) /\ Len(events') <= MaxEvents
  <2>1. ASSUME NEW t \in {"START", "DISCONNECTED", "GOT_IP"}, Post(t)
        PROVE  events' \in Seq({"START", "DISCONNECTED", "GOT_IP"}) /\ Len(events') <= MaxEvents
    BY <2>1, ProvisionAssumption DEF Post, IInv, TypeOK, ProvisionAssumption
  <2>2. CASE DrvDrop \/ DrvGotIp
    BY <2>1, <2>2 DEF DrvDrop, DrvGotIp
  <2>3. CASE DrvAssociate \/ DrvLease
    BY <2>3 DEF DrvAssociate, DrvLease, IInv, TypeOK
  <2> QED BY <2>2, <2>3
<1>3. drv' \in {"idle", "connecting", "associated"} /\ leased' \in BOOLEAN
  BY DEF DrvAssociate, DrvDrop, DrvLease, DrvGotIp, Post, IInv, TypeOK
<1> QED
  BY <1>1, <1>2, <1>3 DEF IInv, TypeOK, RetryCount, BitIsIp

\* The handlers: a retry adds one to both counts, the failure comes once the
\* counter is at its limit, and an IP ends the counting.
LEMMA EventLoopSafe ==
    ASSUME IInv, EventLoop
    PROVE  IInv'
<1> USE ProvisionAssumption DEF ProvisionAssumption
<1>1. UNCHANGED <<nvs, wifi_config2, main, mode, udp, resets>>
  BY DEF EventLoop, HandleStart, HandleRetry, HandleFail, HandleGotIp, Handles
<1>2. events' \in Seq({"START", "DISCONNECTED", "GOT_IP"}) /\ Len(events') <= MaxEvents
  <2>1. events # <<>> /\ events' = Tail(events)
    BY DEF EventLoop, HandleStart, HandleRetry, HandleFail, HandleGotIp, Handles
  <2>2. events \in Seq({"START", "DISCONNECTED", "GOT_IP"}) /\ Len(events) <= MaxEvents
    BY DEF IInv, TypeOK
  <2> QED BY <2>1, <2>2
<1>3. drv' \in {"idle", "connecting", "associated"} /\ leased' \in BOOLEAN
  BY DEF EventLoop, HandleStart, HandleRetry, HandleFail, HandleGotIp, Handles, IInv, TypeOK
<1>4. s_retry_num \in 0 .. MaxRetry /\ losses \in 0 .. MaxRetry + 1 /\ ips \in BOOLEAN
      /\ bits \subseteq {"CONNECTED", "FAIL"} /\ RetryCount /\ BitIsIp
  BY DEF IInv, TypeOK
<1>5. Min({losses + 1, MaxRetry + 1})
        = IF losses + 1 <= MaxRetry + 1 THEN losses + 1 ELSE MaxRetry + 1
  BY <1>4, MinOfTwo
<1>6. /\ s_retry_num' \in 0 .. MaxRetry /\ losses' \in 0 .. MaxRetry + 1
      /\ ips' \in BOOLEAN /\ bits' \subseteq {"CONNECTED", "FAIL"}
      /\ RetryCount' /\ BitIsIp'
  <2>1. CASE HandleStart
    BY <2>1, <1>4 DEF HandleStart, RetryCount, BitIsIp
  <2>2. CASE HandleRetry
    BY <2>2, <1>4, <1>5 DEF HandleRetry, RetryCount, BitIsIp
  <2>3. CASE HandleFail
    BY <2>3, <1>4, <1>5 DEF HandleFail, RetryCount, BitIsIp
  <2>4. CASE HandleGotIp
    BY <2>4, <1>4 DEF HandleGotIp, RetryCount, BitIsIp
  <2> QED BY <2>1, <2>2, <2>3, <2>4 DEF EventLoop
<1>7. TypeOK'
  BY <1>1, <1>2, <1>3, <1>6 DEF IInv, TypeOK
<1> QED BY <1>6, <1>7 DEF IInv

\* wifi_init_sta.
LEMMA MainSafe ==
    ASSUME IInv, Main
    PROVE  IInv'
<1>1. CASE Boot
  <2>1. events' \in Seq({"START", "DISCONNECTED", "GOT_IP"}) /\ Len(events') <= MaxEvents
    <3>1. <<"START">> \in Seq({"START", "DISCONNECTED", "GOT_IP"}) /\ Len(<<"START">>) = 1
      OBVIOUS
    <3>2. 1 <= MaxEvents
      BY ProvisionAssumption DEF ProvisionAssumption
    <3>3. events \in Seq({"START", "DISCONNECTED", "GOT_IP"}) /\ Len(events) <= MaxEvents
      BY DEF IInv, TypeOK
    <3>4. events' = events \/ events' = <<"START">>
      BY <1>1 DEF Boot
    <3> QED BY <3>1, <3>2, <3>3, <3>4
  <2>2. main' \in {"boot", "wait", "forget", "returned"} /\ mode' \in {"sta", "ap"}
    BY <1>1 DEF Boot
  <2>3. UNCHANGED <<nvs, wifi_config2, udp, bits, s_retry_num, drv, leased, resets,
                  losses, ips>>
    BY <1>1 DEF Boot
  <2> QED
    BY <2>1, <2>2, <2>3 DEF IInv, TypeOK, RetryCount, BitIsIp
<1>2. CASE WaitConnected \/ WaitFailed
  <2>1. /\ main' \in {"returned", "forget"}
        /\ UNCHANGED <<nvs, wifi_config2, mode, udp, bits, s_retry_num, events, drv, leased,
                       resets, losses, ips>>
    BY <1>2 DEF WaitConnected, WaitFailed
  <2>2. TypeOK'
    BY <2>1 DEF IInv, TypeOK
  <2>3. (RetryCount /\ BitIsIp)'
    BY <2>1 DEF IInv, RetryCount, BitIsIp
  <2> QED BY <2>2, <2>3 DEF IInv
<1>3. CASE Forget
  <2>1. nvs' \in Config /\ resets' \in 0 .. MaxResets /\ Restart
    BY <1>3 DEF Forget, IInv, TypeOK, Config
  <2> QED BY <2>1, RestartSafe
<1> QED BY <1>1, <1>2, <1>3 DEF Main

\* udp_server_task.
LEMMA UdpSafe ==
    ASSUME IInv,
           (\E ssid, pwd \in Ssid : UdpReceive(ssid, pwd)) \/ UdpReply \/ UdpReplyFails
             \/ UdpApply
    PROVE  IInv'
<1>1. ASSUME NEW ssid \in Ssid, NEW pwd \in Ssid, UdpReceive(ssid, pwd)
      PROVE  IInv'
  <2>1. wifi_config2.len \in Ssid \cup {0}
    BY DEF IInv, TypeOK, Config
  <2>2. Max({ssid, wifi_config2.len}) \in Ssid \cup {0}
    BY <2>1, MaxIsLength
  <2>3. wifi_config2' \in Config
    BY <1>1, <2>2 DEF UdpReceive, Config
  <2>4. TypeOK'
    BY <1>1, <2>3 DEF UdpReceive, UdpStep, IInv, TypeOK
  <2>5. (RetryCount /\ BitIsIp)'
    BY <1>1 DEF UdpReceive, IInv, RetryCount, BitIsIp
  <2> QED BY <2>4, <2>5 DEF IInv
<1>2. CASE UdpReply
  BY <1>2 DEF UdpReply, UdpStep, IInv, TypeOK, RetryCount, BitIsIp
<1>3. CASE UdpReplyFails
  BY <1>3 DEF UdpReplyFails, UdpStep, IInv, TypeOK, RetryCount, BitIsIp
<1>4. CASE UdpApply
  <2>1. nvs' \in Config /\ resets' \in 0 .. MaxResets /\ Restart
    BY <1>4 DEF UdpApply, IInv, TypeOK
  <2> QED BY <2>1, RestartSafe
<1> QED BY <1>1, <1>2, <1>3, <1>4

-----------------------------------------------------------------------------

\* The counters and the bits fit each other after
\* every step of every task, retries and resets included.
THEOREM Invariance == Spec => []IInv
<1>1. Init => IInv
  <2> SUFFICES ASSUME Init
               PROVE  IInv
    OBVIOUS
  <2>1. <<>> \in Seq({"START", "DISCONNECTED", "GOT_IP"}) /\ Len(<<>>) = 0
    OBVIOUS
  <2>2. 0 <= MaxEvents /\ 0 \in 0 .. MaxRetry /\ 0 \in 0 .. MaxRetry + 1
        /\ 0 \in 0 .. MaxResets
    BY ProvisionAssumption DEF ProvisionAssumption
  <2>3. {nvs, wifi_config2} \subseteq Config
    BY BlankIsConfig DEF Init
  <2>4. events \in Seq({"START", "DISCONNECTED", "GOT_IP"}) /\ Len(events) <= MaxEvents
    BY <2>1, <2>2 DEF Init
  <2>5. TypeOK
    BY <2>2, <2>3, <2>4 DEF Init, TypeOK
  <2>6. RetryCount /\ BitIsIp
    BY DEF Init, RetryCount, BitIsIp
  <2> QED BY <2>5, <2>6 DEF IInv
<1>2. IInv /\ [Next]_vars => IInv'
  <2> SUFFICES ASSUME IInv, [Next]_vars
               PROVE  IInv'
    OBVIOUS
  <2>1. CASE DrvAssociate \/ DrvDrop \/ DrvLease \/ DrvGotIp
    BY <2>1, DriverSafe
  <2>2. CASE EventLoop
    BY <2>2, EventLoopSafe
  <2>3. CASE Main
    BY <2>3, MainSafe
  <2>4. CASE (\E ssid, pwd \in Ssid : UdpReceive(ssid, pwd)) \/ UdpReply \/ UdpReplyFails
               \/ UdpApply
    BY <2>4, UdpSafe
  <2>5. CASE Reset
    <3>1. nvs' \in Config /\ resets' \in 0 .. MaxResets /\ Restart
      BY <2>5, ProvisionAssumption DEF Reset, IInv, TypeOK, ProvisionAssumption
    <3> QED BY <3>1, RestartSafe
  <2>6. CASE UNCHANGED vars
    BY <2>6 DEF vars, ram, IInv, TypeOK, RetryCount, BitIsIp
  <2> QED BY <2>1, <2>2, <2>3, <2>4, <2>5, <2>6 DEF Next
<1> QED BY <1>1, <1>2, PTL DEF Spec

\* s_retry_num never passes EXAMPLE_ESP_MAXIMUM_RETRY, and every value the
\* program writes is of its type.
THEOREM TypeCorrect == Spec => []TypeOK
<1>1. IInv => TypeOK
  BY DEF IInv
<1> QED BY <1>1, Invariance, PTL

\* The wait of lines 416-429 returns after an IP, and gives the configuration up
\* after MaxRetry + 1 disconnections without one, for every MaxRetry.
THEOREM WaitIsHonest == Spec => WaitEndsAsSaid
<1> DEFINE Said ==
      main = "wait" =>
        /\ main' = "returned" => ips
        /\ main' = "forget" => losses = MaxRetry + 1 /\ ~ips
<1>1. IInv /\ [Next]_vars => [Said]_vars
  <2> SUFFICES ASSUME IInv, Next, main = "wait"
               PROVE  Said
    OBVIOUS
  <2>1. CASE WaitConnected
    BY <2>1 DEF WaitConnected, IInv, BitIsIp
  <2>2. CASE WaitFailed
    BY <2>2 DEF WaitFailed, IInv, BitIsIp, RetryCount
  <2>3. CASE DrvAssociate \/ DrvDrop \/ DrvLease \/ DrvGotIp \/ EventLoop
    BY <2>3 DEF DrvAssociate, DrvDrop, DrvLease, DrvGotIp, Post, EventLoop, HandleStart,
                HandleRetry, HandleFail, HandleGotIp, Handles
  <2>4. CASE Boot \/ Forget
    BY <2>4 DEF Boot, Forget
  <2>5. CASE (\E ssid, pwd \in Ssid : UdpReceive(ssid, pwd)) \/ UdpReply \/ UdpReplyFails
               \/ UdpApply
    BY <2>5 DEF UdpReceive, UdpReply, UdpReplyFails, UdpApply, UdpStep
  <2>6. CASE Reset
    BY <2>6 DEF Reset, Restart
  <2> QED BY <2>1, <2>2, <2>3, <2>4, <2>5, <2>6 DEF Next, Main
<1> QED BY <1>1, Invariance, PTL DEF Spec, WaitEndsAsSaid
=============================================================================
