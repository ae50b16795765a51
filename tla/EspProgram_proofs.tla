------------------------- MODULE EspProgram_proofs -------------------------
(***************************************************************************)
(* What the phone's key, the response buffer and the start-up promise, for *)
(* every size of the buffer, every set of lengths, any number of           *)
(* negotiations and both Bluetooth stacks.                                 *)
(***************************************************************************)
EXTENDS EspProgram, TLAPS

USE SizeAssumption, SecurityAssumption, StackAssumption
    DEF SizeAssumption, SecurityAssumption, StackAssumption

\* Each of the three parts has an invariant of its own, which the steps of the
\* other two leave alone.

\* blufi_security.c: the properties are inductive with the types, with the
\* connection that every block belongs to, and with the age of the secret.
SecInv ==
    /\ SecTypeOK /\ KeyOfReply /\ ParamBlock
    /\ adv => ~ble_is_connected
    /\ ~overrun /\ ~ble_is_connected => dh_param = 0
    /\ share_key <= keys

\* http_rest_with_url: the offset is what the handler took of this response and
\* 0 outside one, and the buffer begins with it.
HttpInv ==
    /\ HttpTypeOK
    /\ http \in {"off", "ready"} => got = 0
    /\ http # "response" => left = 0
    /\ output_len = IF http = "response" THEN got ELSE 0
    /\ got + left <= Size - 1
    /\ http = "off" => request = 1
    /\ request = 8 => http = "returned" /\ got = 0
    /\ \A i \in 0 .. got - 1 : local_response_buffer[i] = request
    /\ request = 1 => \A i \in got .. Size - 1 : local_response_buffer[i] = 0

\* blufi_init.c: the steps that lie before the profile have not made one.
StartInv ==
    /\ stack \in Stacks
    /\ main \in {"controller", "host", "register"} => ~profile
    /\ stack = "nimble" /\ main \in {"controller", "host", "register"} => ~hostUp
    /\ main = "profile" => stack = "bluedroid" /\ registered /\ ~profile
    /\ stack = "nimble" /\ (hostUp \/ main = "host") => registered
    /\ profile => registered
    /\ ~finished => ~ble_is_connected

MainTypeOK ==
    /\ main \in {"controller", "host", "register", "profile", "uart", "http", "interrupt",
                 "returned"}
    /\ {hostUp, registered, profile, finished} \subseteq BOOLEAN
    /\ interrupt \in Buttons \cup {"none", "idle"} /\ installed \subseteq Buttons
    /\ status \in [Buttons -> BOOLEAN] /\ level \in [Buttons -> BOOLEAN]

IInv == SecInv /\ HttpInv /\ StartInv /\ MainTypeOK

-----------------------------------------------------------------------------

LEMMA Zero == 0 \in Lengths \cup {0} /\ 0 \in 0 .. MaxKeys /\ 0 \in Nat
OBVIOUS

LEMMA ZeroFits == 0 \in 0 .. Size - 1 /\ 1 \in 1 .. 8
OBVIOUS

LEMMA InitSafe == Init => IInv
<1> SUFFICES ASSUME Init PROVE IInv
  OBVIOUS
<1>1. SecInv
  <2>1. SecTypeOK
    BY Zero, Zenon DEF Init, SecInit, SecTypeOK
  <2> QED
    BY <2>1 DEF Init, SecInit, SecInv, KeyOfReply, ParamBlock
<1>2. HttpInv
  <2>1. HttpTypeOK
    <3>1. local_response_buffer \in [0 .. Size - 1 -> 0 .. 7]
      BY DEF Init, HttpInit
    <3> QED
      BY <3>1, ZeroFits, Zenon DEF Init, HttpInit, HttpTypeOK
  <2>2. got = 0 /\ left = 0 /\ output_len = 0 /\ http = "off" /\ request = 1
        /\ \A i \in 0 .. Size - 1 : local_response_buffer[i] = 0
    BY DEF Init, HttpInit
  <2> QED
    BY <2>1, <2>2 DEF HttpInv
<1>3. StartInv
  BY DEF Init, SecInit, StartInv
<1>4. MainTypeOK
  BY Zenon DEF Init, MainTypeOK
<1> QED BY <1>1, <1>2, <1>3, <1>4 DEF IInv

-----------------------------------------------------------------------------
(* The BLUFI task.                                                         *)

LEMMA SecKept == ASSUME SecInv, UNCHANGED secVars PROVE SecInv'
<1>1. (SecTypeOK /\ KeyOfReply)'
  BY DEF SecInv, secVars, secCipher, SecTypeOK, KeyOfReply
<1> QED
  BY <1>1 DEF SecInv, secVars, secCipher, ParamBlock

LEMMA InitFinishSafe == ASSUME SecInv, ~ble_is_connected, InitFinish PROVE SecInv'
BY DEF SecInv, InitFinish, secCipher, SecTypeOK, KeyOfReply, ParamBlock

\* What a disconnection, a connection and a restart leave.
LEMMA ClearedSafe ==
    ASSUME Cleared, adv' \in BOOLEAN, ble_is_connected' \in BOOLEAN,
           blufi_sec' \in {"null", "set"}, overrun' = FALSE, heap' = 0,
           adv' => ~ble_is_connected'
    PROVE  SecInv'
<1>1. /\ dh_param' = 0 /\ dh_param_len' = 0 /\ share_key' = 0 /\ aes' = 0
      /\ keys' = 0 /\ reply' = 0 /\ uncomputed' = FALSE
  BY Zenon DEF Cleared
<1>2. SecTypeOK'
  BY <1>1, Zero, Zenon DEF SecTypeOK
<1>3. KeyOfReply' /\ ParamBlock'
  BY <1>1 DEF KeyOfReply, ParamBlock
<1> QED BY <1>1, <1>2, <1>3 DEF SecInv

LEMMA ConnectionSafe ==
    ASSUME SecInv, ~overrun, BleConnect \/ BleDisconnect
    PROVE  SecInv'
<1>1. /\ Cleared /\ adv' \in BOOLEAN /\ ble_is_connected' \in BOOLEAN
      /\ blufi_sec' \in {"null", "set"}
      /\ adv' => ~ble_is_connected'
  BY Zenon DEF BleConnect, BleDisconnect
<1>2. overrun' = FALSE
  <2>1. overrun \in BOOLEAN /\ overrun' = overrun
    BY Zenon DEF BleConnect, BleDisconnect, SecInv, SecTypeOK
  <2> QED BY <2>1, Zenon
<1>3. heap' = 0
  BY DEF SecInv, SecTypeOK, ParamBlock, BleConnect, BleDisconnect
<1> QED BY <1>1, <1>2, <1>3, ClearedSafe

LEMMA ParamLenSafe ==
    ASSUME SecInv, ~overrun, NEW len \in Lengths, ParamLen(len)
    PROVE  SecInv'
<1> USE DEF SecInv, ParamLen, secCipher
<1>1. PICK block \in {0, len} :
        /\ dh_param' = block
        /\ heap' = heap - (IF dh_param # 0 THEN 1 ELSE 0) + (IF block # 0 THEN 1 ELSE 0)
  OBVIOUS
<1>2. dh_param' # 0 => dh_param' = dh_param_len'
  BY <1>1
<1>3. heap' = IF dh_param' # 0 THEN 1 ELSE 0
  BY <1>1 DEF ParamBlock, SecTypeOK
<1>4. SecTypeOK'
  BY <1>1, <1>3 DEF SecTypeOK
<1>5. KeyOfReply' /\ share_key' <= keys'
  BY DEF KeyOfReply
<1>6. ~adv' /\ ble_is_connected'
  BY Zenon DEF Negotiates
<1> QED BY <1>2, <1>3, <1>4, <1>5, <1>6, Zenon DEF ParamBlock

LEMMA ParamDataSafe == ASSUME SecInv, ~overrun, ParamData PROVE SecInv'
<1>1. HasParam
  BY DEF ParamData, ReadFails, PublicFails, Overrun, DigestFails, Agree
<1>2. /\ {keys, keys', share_key, aes, reply} \subseteq 0 .. MaxKeys /\ keys' = keys + 1
      /\ share_key <= keys
  BY <1>1 DEF HasParam, SecInv, SecTypeOK
<1>3. (dh_param' = 0 /\ heap' = heap - 1) \/ UNCHANGED <<dh_param, heap>>
  BY DEF ParamData, ReadFails, PublicFails, Overrun, DigestFails, Agree, FreeParam
<1>4. ParamBlock' /\ heap' \in Nat /\ dh_param' \in Lengths \cup {0}
  BY <1>1, <1>3 DEF HasParam, SecInv, ParamBlock, SecTypeOK
<1>5. share_key' \in {keys', share_key}
  BY Zenon DEF ParamData, ReadFails, PublicFails, Overrun, DigestFails, Agree, Secret
<1>6. \/ UNCHANGED <<aes, reply, uncomputed>>
      \/ aes' = share_key' /\ reply' = keys' /\ uncomputed' = (share_key' # keys')
  BY Zenon DEF ParamData, ReadFails, PublicFails, Overrun, DigestFails, Agree
<1>7. share_key' <= keys' /\ share_key' \in 0 .. MaxKeys
  BY <1>2, <1>5
<1>8. KeyOfReply'
  <2>1. IF uncomputed THEN aes < reply ELSE aes = reply
    BY DEF SecInv, KeyOfReply
  <2>2. CASE UNCHANGED <<aes, reply, uncomputed>>
    BY <2>1, <2>2 DEF KeyOfReply
  <2>3. CASE aes' = share_key' /\ reply' = keys' /\ uncomputed' = (share_key' # keys')
    <3>1. (uncomputed' /\ share_key' # keys') \/ (~uncomputed' /\ share_key' = keys')
      BY <2>3, Zenon
    <3>2. share_key' # keys' => share_key' < keys'
      BY <1>2, <1>7
    <3> QED
      BY <2>3, <3>1, <3>2, Zenon DEF KeyOfReply
  <2> QED BY <1>6, <2>2, <2>3
<1>9. SecTypeOK'
  <2>1. uncomputed' \in BOOLEAN
    <3>1. uncomputed \in BOOLEAN /\ (share_key' # keys') \in BOOLEAN
      BY Zenon DEF SecInv, SecTypeOK
    <3> QED BY <1>6, <3>1, Zenon
  <2>2. overrun' \in BOOLEAN
    BY Zenon DEF SecInv, SecTypeOK, ParamData, ReadFails, PublicFails, Overrun, DigestFails,
                 Agree
  <2>3. aes' \in 0 .. MaxKeys /\ reply' \in 0 .. MaxKeys
    BY <1>2, <1>6, <1>7
  <2>4. {share_key', aes', reply', keys'} \subseteq 0 .. MaxKeys
    BY <1>2, <1>7, <2>3
  <2> QED
    BY <1>1, <1>4, <2>1, <2>2, <2>4, Zenon DEF SecInv, SecTypeOK, HasParam
<1>10. UNCHANGED <<adv, ble_is_connected>> /\ ble_is_connected
  BY <1>1 DEF HasParam, Negotiates
<1> QED BY <1>4, <1>7, <1>8, <1>9, <1>10 DEF SecInv

LEMMA SecSafe == ASSUME SecInv, Sec PROVE SecInv'
BY ConnectionSafe, ParamLenSafe, ParamDataSafe DEF Sec

-----------------------------------------------------------------------------
(* The requests.                                                           *)

LEMMA HttpKept == ASSUME HttpInv, UNCHANGED httpVars PROVE HttpInv'
BY DEF HttpInv, httpVars, HttpTypeOK

\* The cells of the first `got', of the next `len', and of the rest.
LEMMA Cells ==
    ASSUME NEW g \in Nat, NEW len \in Nat, g + len <= Size - 1
    PROVE  /\ \A i \in 0 .. g + len - 1 :
                i \in 0 .. Size - 1 /\ (i \in 0 .. g - 1 \/ i \in g .. g + len - 1)
           /\ \A i \in g + len .. Size - 1 :
                i \in 0 .. Size - 1 /\ i \in g .. Size - 1 /\ i \notin g .. g + len - 1
OBVIOUS

LEMMA OnDataSafe ==
    ASSUME HttpInv, NEW len \in 1 .. left, OnData(len)
    PROVE  HttpInv'
<1> USE DEF HttpInv, HttpTypeOK, OnData
<1>1. len \in Nat \ {0} /\ left' \in 0 .. Size - 1
  OBVIOUS
<1>2. CASE chunked
  BY <1>1, <1>2
<1>3. CASE ~chunked
  <2>1. got' = got + len /\ output_len' = got' /\ got' + left' <= Size - 1
        /\ got' \in 0 .. Size - 1 /\ got \in Nat /\ len \in Nat /\ got + len <= Size - 1
    BY <1>1, <1>3
  <2>2. local_response_buffer' =
            [i \in 0 .. Size - 1 |-> IF i \in got .. got + len - 1 THEN request
                                     ELSE local_response_buffer[i]]
    BY <1>3
  <2>3. local_response_buffer' \in [0 .. Size - 1 -> 0 .. 7]
    BY <2>2
  <2>4. ASSUME NEW i \in 0 .. got' - 1 PROVE local_response_buffer'[i] = request
    <3>1. i \in 0 .. Size - 1 /\ (i \in 0 .. got - 1 \/ i \in got .. got + len - 1)
      BY <2>1, Cells
    <3> QED
      BY <3>1, <2>2
  <2>5. ASSUME request = 1, NEW i \in got' .. Size - 1 PROVE local_response_buffer'[i] = 0
    <3>1. i \in got .. Size - 1 /\ i \in 0 .. Size - 1 /\ i \notin got .. got + len - 1
      BY <2>1, Cells
    <3> QED
      BY <3>1, <2>2, <2>5
  <2>6. HttpTypeOK'
    BY <1>1, <1>3, <2>1, <2>3, Zenon
  <2> QED BY <1>1, <1>3, <2>1, <2>4, <2>5, <2>6
<1> QED BY <1>2, <1>3

LEMMA HttpNextSafe == ASSUME HttpInv, HttpNext PROVE HttpInv'
<1> USE DEF HttpInv, HttpNext
<1>1. /\ request' \in 2 .. 8 /\ got' = 0 /\ left' = left /\ output_len' = 0 /\ output_len = 0
      /\ http' \in {"ready", "returned"} /\ chunked' = chunked
      /\ request' = 8 => http' = "returned"
  BY DEF HttpTypeOK
<1>2. left = 0
  OBVIOUS
<1>3. local_response_buffer' \in [0 .. Size - 1 -> 0 .. 7]
  BY DEF HttpTypeOK
<1>4. HttpTypeOK'
  <2>1. request' \in 1 .. 8 /\ {left', got', output_len'} \subseteq 0 .. Size - 1
    BY <1>1, <1>2
  <2> QED
    BY <2>1, <1>1, <1>3, Zenon DEF HttpTypeOK
<1> QED BY <1>1, <1>2, <1>4

LEMMA HttpSafe == ASSUME HttpInv, HttpStart \/ HttpStep PROVE HttpInv'
<1>1. CASE HttpStart
  BY <1>1 DEF HttpInv, HttpTypeOK, HttpStart
<1>2. CASE PerformFails
  <2>1. HttpTypeOK'
    BY <1>2, Zenon DEF HttpInv, HttpTypeOK, PerformFails
  <2> QED
    BY <1>2, <2>1 DEF HttpInv, PerformFails
<1>3. CASE Respond
  <2>1. left' \in 0 .. Size - 1
    BY <1>3, ZeroFits DEF Respond
  <2>2. HttpTypeOK'
    BY <1>3, <2>1, Zenon DEF HttpInv, HttpTypeOK, Respond
  <2>3. /\ http = "ready" /\ http' = "response" /\ got' = got /\ request' = request
        /\ output_len' = output_len /\ local_response_buffer' = local_response_buffer
    BY <1>3, Zenon DEF Respond
  <2>4. got = 0 /\ left' \in Nat /\ left' <= Size - 1
    BY <2>1, <2>3 DEF HttpInv
  <2>5. /\ output_len = 0 /\ request # 8
        /\ request = 1 => \A i \in 0 .. Size - 1 : local_response_buffer[i] = 0
    BY <2>3, <2>4 DEF HttpInv
  <2>6. (\A i \in 0 .. got' - 1 : local_response_buffer'[i] = request')
        /\ (request' = 1 => \A i \in got' .. Size - 1 : local_response_buffer'[i] = 0)
    BY <2>3, <2>4, <2>5
  <2>7. got' = 0 /\ output_len' = 0 /\ http' = "response" /\ request' # 8
    BY <2>3, <2>4, <2>5, Zenon
  <2>8. got' + left' <= Size - 1
    <3>1. \A l \in 0 .. Size - 1 : 0 + l <= Size - 1
      OBVIOUS
    <3> QED
      BY <2>1, <2>7, <3>1, Zenon
  <2> QED
    BY <2>2, <2>6, <2>7, <2>8 DEF HttpInv
<1>4. CASE OnFinish
  <2>1. HttpTypeOK'
    BY <1>4, ZeroFits, Zenon DEF HttpInv, HttpTypeOK, OnFinish
  <2> QED
    BY <1>4, <2>1 DEF HttpInv, HttpTypeOK, OnFinish
<1> QED BY <1>1, <1>2, <1>3, <1>4, OnDataSafe, HttpNextSafe DEF HttpStep

-----------------------------------------------------------------------------
(* The start, and the whole program.                                       *)

LEMMA AppMainSafe == ASSUME IInv, AppMain PROVE IInv'
<1> USE DEF IInv
<1>1. ASSUME Controller \/ HostInit \/ Register \/ ProfileInit PROVE IInv'
  <2>1. UNCHANGED <<secVars, httpVars, buttonVars, stack, finished>>
    BY <1>1 DEF Controller, HostInit, Register, ProfileInit, Goes
  <2>2. SecInv' /\ HttpInv'
    BY <2>1, SecKept, HttpKept
  <2>3. StartInv'
    <3>1. stack' = stack /\ finished' = finished /\ ble_is_connected' = ble_is_connected
          /\ stack \in {"bluedroid", "nimble"}
      BY <2>1 DEF secVars, StartInv
    <3>2. CASE Controller
      BY <3>1, <3>2 DEF StartInv, Controller, Goes
    <3>3. CASE HostInit
      <4>1. UNCHANGED <<registered, profile>> /\ main = "host"
            /\ main' \in {IF stack = "bluedroid" THEN "register" ELSE "uart", "returned"}
        BY <3>3 DEF HostInit, Goes
      <4>2. stack = "nimble" => main' # "returned"
        BY <3>3, Zenon DEF HostInit, Ok
      <4> QED
        BY <3>1, <4>1, <4>2 DEF StartInv
    <3>4. CASE Register
      <4>1. UNCHANGED <<hostUp, profile>> /\ main = "register"
            /\ main' \in {IF stack = "bluedroid" THEN "profile" ELSE "host", "returned"}
        BY <3>4 DEF Register, Goes
      <4>2. main' # "returned" => registered'
        BY <3>4, Zenon DEF Register, Ok
      <4> QED
        BY <3>1, <4>1, <4>2 DEF StartInv
    <3>5. CASE ProfileInit
      BY <3>1, <3>5 DEF StartInv, ProfileInit, Goes
    <3> QED BY <1>1, <3>2, <3>3, <3>4, <3>5
  <2>4. MainTypeOK'
    BY <1>1, <2>1 DEF MainTypeOK, Controller, HostInit, Register, ProfileInit, Goes, Ok,
                      buttonVars, StartInv
  <2> QED BY <2>2, <2>3, <2>4
<1>2. ASSUME Uart \/ Http \/ CreateInterrupt PROVE IInv'
  <2>1. UNCHANGED secVars /\ (HttpStart \/ HttpStep \/ UNCHANGED httpVars)
    BY <1>2 DEF Uart, Http, CreateInterrupt
  <2>2. SecInv' /\ HttpInv'
    BY <2>1, SecKept, HttpKept, HttpSafe
  <2>3. StartInv'
    BY <1>2 DEF StartInv, Uart, Http, CreateInterrupt, startVars, secVars
  <2>4. MainTypeOK'
    BY <1>2 DEF MainTypeOK, Uart, Http, CreateInterrupt, buttonVars, startVars, Buttons
  <2> QED BY <2>2, <2>3, <2>4
<1> QED BY <1>1, <1>2 DEF AppMain

LEMMA BlufiSafe == ASSUME IInv, OnSync \/ BlufiTask PROVE IInv'
<1> USE DEF IInv
<1>1. UNCHANGED httpVars /\ ((~finished /\ InitFinish) \/ Sec \/ UNCHANGED secVars)
  BY DEF OnSync, BlufiTask
<1>2. SecInv' /\ HttpInv'
  BY <1>1, SecKept, HttpKept, SecSafe, InitFinishSafe DEF StartInv
<1>3. StartInv'
  <2>1. CASE OnSync
    BY <2>1 DEF StartInv, OnSync, secVars
  <2>2. CASE BlufiTask
    BY <2>2 DEF StartInv, BlufiTask
  <2> QED BY <2>1, <2>2
<1>4. MainTypeOK'
  BY DEF MainTypeOK, OnSync, BlufiTask, buttonVars
<1> QED BY <1>2, <1>3, <1>4

\* A restart makes of every part what its initial state is.
LEMMA PanicSafe == ASSUME IInv, Panic PROVE IInv'
<1>1. SecInv'
  BY ClearedSafe DEF Panic, SecRestart
<1>2. HttpInv'
  <2>1. HttpTypeOK'
    <3>1. local_response_buffer' \in [0 .. Size - 1 -> 0 .. 7]
      BY DEF Panic, HttpRestart
    <3> QED
      BY <3>1, ZeroFits, Zenon DEF Panic, HttpRestart, HttpTypeOK
  <2>2. got' = 0 /\ left' = 0 /\ output_len' = 0 /\ http' = "off" /\ request' = 1
        /\ \A i \in 0 .. Size - 1 : local_response_buffer'[i] = 0
    BY DEF Panic, HttpRestart
  <2> QED
    BY <2>1, <2>2 DEF HttpInv
<1>3. StartInv'
  BY DEF Panic, SecRestart, IInv, StartInv
<1>4. MainTypeOK'
  BY Zenon DEF Panic, MainTypeOK
<1> QED BY <1>1, <1>2, <1>3, <1>4 DEF IInv

LEMMA ButtonSafe ==
    ASSUME IInv, NEW button \in Buttons, Install(button) \/ Press(button)
    PROVE  IInv'
<1> USE DEF IInv
<1>1. UNCHANGED <<startVars, httpVars, secVars>>
  BY DEF Install, Press
<1>2. SecInv' /\ HttpInv'
  BY <1>1, SecKept, HttpKept
<1>3. StartInv'
  BY <1>1 DEF StartInv, startVars, secVars
<1>4. MainTypeOK'
  BY <1>1 DEF MainTypeOK, Install, Press, startVars, Buttons
<1> QED BY <1>2, <1>3, <1>4

\* Every state of the program satisfies the three parts' invariants.
THEOREM Invariance == Spec => []IInv
<1>1. IInv /\ [Next]_vars => IInv'
  <2> SUFFICES ASSUME IInv, [Next]_vars PROVE IInv'
    OBVIOUS
  <2>1. CASE UNCHANGED vars
    <3>1. UNCHANGED <<startVars, buttonVars, httpVars, secVars>>
      BY <2>1 DEF vars
    <3>2. SecInv' /\ HttpInv'
      BY <3>1, SecKept, HttpKept DEF IInv
    <3>3. StartInv' /\ MainTypeOK'
      BY <3>1 DEF IInv, StartInv, MainTypeOK, startVars, buttonVars, secVars
    <3> QED BY <3>2, <3>3 DEF IInv
  <2>2. CASE Next
    BY <2>2, AppMainSafe, BlufiSafe, ButtonSafe, PanicSafe DEF Next, Interrupt
  <2> QED BY <2>1, <2>2
<1> QED BY InitSafe, <1>1, PTL DEF Spec

\* The types of app_main, the requests, the negotiation and the buttons.
THEOREM TypeCorrect == Spec => []TypeOK
<1>1. IInv => TypeOK
  BY DEF IInv, SecInv, HttpInv, StartInv, MainTypeOK, TypeOK
<1> QED BY Invariance, <1>1, PTL

\* Lines 754 and 780 of udp_server.c print the response they are about.
THEOREM PrintsOwnResponse == Spec => []OwnResponse
<1>1. IInv => OwnResponse
  BY DEF IInv, HttpInv, OwnResponse
<1> QED BY Invariance, <1>1, PTL

\* As long as no prime is longer than 128 bytes, the ciphers of blufi_security.c use
\* the key of the last answered negotiation, or an older one if line 114 failed in it.
THEOREM KeyIsOfReply == Spec => []KeyOfReply
<1>1. IInv => KeyOfReply
  BY DEF IInv, SecInv
<1> QED BY Invariance, <1>1, PTL

\* As long as no prime is longer than 128 bytes, line 98 of blufi_security.c writes
\* within the block, and every block is freed once.
THEOREM BlocksAreSafe == Spec => []ParamBlock
<1>1. IInv => ParamBlock
  BY DEF IInv, SecInv
<1> QED BY Invariance, <1>1, PTL

\* blufi_init.c registers the callbacks before the profile that sends events.
THEOREM CallbacksComeFirst == Spec => []EventsHaveCallbacks
<1>1. IInv => EventsHaveCallbacks
  BY DEF IInv, StartInv, EventsHaveCallbacks
<1> QED BY Invariance, <1>1, PTL
=============================================================================
