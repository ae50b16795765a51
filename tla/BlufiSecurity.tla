--------------------------- MODULE BlufiSecurity ---------------------------
(***************************************************************************)
(* blufi_security.c: the context that lives as long as the phone's BLE     *)
(* connection, the two messages that negotiate a key in it, and the ciphers*)
(* that use it. The BLUFI task calls all of it, one event at a time        *)
(* (blufi_example_main.c, lines 191-224). mbedtls and the heap are         *)
(* external, and may fail.                                                 *)
(*                                                                         *)
(* The arrays of the context have 128 bytes. Nothing checks the size of    *)
(* the prime P a phone sends, and line 116 passes 1024, a number of bits,  *)
(* for the bytes of share_key: with a longer P the fields behind it are    *)
(* overwritten (share_len, psk, dh_param, dh_param_len, and on). The model *)
(* has this as the step Overrun, after which it does not follow the        *)
(* context any more; the properties are about what comes before.           *)
(***************************************************************************)
EXTENDS Integers

CONSTANTS
    Lengths,  \* what the first message announces
    MaxKeys   \* bound: parameters sent in one connection

ASSUME SecurityAssumption == Lengths \subseteq Nat /\ MaxKeys \in Nat

VARIABLES
    adv,               \* the device advertises
    ble_is_connected,
    blufi_sec,         \* the context: "null" or "set"
    dh_param,          \* 0, or the size of the block it points to
    dh_param_len,
    share_key,         \* whose secret the buffer holds: parameters by number, 0 nobody's
    aes,               \* whose key encrypts and decrypts
    heap,              \* the blocks allocated, besides the context
    (* history *)
    keys,              \* parameters sent in this connection
    reply,             \* the last parameters answered with a public key
    uncomputed,        \* mbedtls_dhm_calc_secret failed for them, lines 114-118 ignore it
    overrun            \* a P over 128 bytes was written into the context

secCipher == <<share_key, aes, keys, reply, uncomputed>>
secVars == <<adv, ble_is_connected, blufi_sec, dh_param, dh_param_len, heap, secCipher, overrun>>

SecTypeOK ==
    /\ {adv, ble_is_connected, uncomputed, overrun} \subseteq BOOLEAN
    /\ blufi_sec \in {"null", "set"}
    /\ {dh_param, dh_param_len} \subseteq Lengths \cup {0}
    /\ {share_key, aes, reply, keys} \subseteq 0 .. MaxKeys
    /\ heap \in Nat

\* Lines 193 and 214, and before the first connection.
Cleared ==
    /\ dh_param' = 0 /\ dh_param_len' = 0
    /\ share_key' = 0 /\ aes' = 0
    /\ keys' = 0 /\ reply' = 0 /\ uncomputed' = FALSE

SecInit ==
    /\ adv = FALSE /\ ble_is_connected = FALSE /\ blufi_sec = "null"
    /\ dh_param = 0 /\ dh_param_len = 0 /\ heap = 0
    /\ share_key = 0 /\ aes = 0
    /\ keys = 0 /\ reply = 0 /\ uncomputed = FALSE /\ overrun = FALSE

\* What a restart leaves of it.
SecRestart ==
    /\ adv' = FALSE /\ ble_is_connected' = FALSE /\ blufi_sec' = "null"
    /\ heap' = 0 /\ overrun' = FALSE
    /\ Cleared

-----------------------------------------------------------------------------
(* Events, blufi_example_main.c, lines 204-224.                            *)

\* ESP_BLUFI_EVENT_INIT_FINISH
InitFinish ==
    /\ adv' = TRUE
    /\ UNCHANGED <<ble_is_connected, blufi_sec, dh_param, dh_param_len, heap, secCipher, overrun>>

\* blufi_security_init, lines 186-200; its failure is ignored.
BleConnect ==
    /\ adv /\ adv' = FALSE /\ ble_is_connected' = TRUE
    /\ blufi_sec' \in {"null", "set"}
    /\ Cleared
    /\ UNCHANGED <<heap, overrun>>

\* blufi_security_deinit, lines 202-218.
BleDisconnect ==
    /\ ble_is_connected /\ ble_is_connected' = FALSE /\ adv' = TRUE
    /\ blufi_sec' = "null"
    /\ heap' = IF dh_param # 0 THEN heap - 1 ELSE heap
    /\ Cleared
    /\ UNCHANGED overrun

-----------------------------------------------------------------------------
(* blufi_dh_negotiate_data_handler, lines 66-144. Without a context it only*)
(* reports an error.                                                       *)

Negotiates == ble_is_connected /\ blufi_sec = "set"

\* Mutant: a block that is there is kept.
ParamLen_Keep(len) ==
    /\ Negotiates
    /\ dh_param_len' = len
    /\ IF dh_param # 0 THEN UNCHANGED <<dh_param, heap>>
       ELSE \E block \in {0, len} :
                dh_param' = block /\ heap' = IF block # 0 THEN heap + 1 ELSE heap
    /\ UNCHANGED <<adv, ble_is_connected, blufi_sec, secCipher, overrun>>

\* Lines 78-90: the old block goes, and the new one may not come.
ParamLen(len) ==
    /\ Negotiates
    /\ dh_param_len' = len
    /\ \E block \in {0, len} :
        /\ dh_param' = block
        /\ heap' = heap - (IF dh_param # 0 THEN 1 ELSE 0) + (IF block # 0 THEN 1 ELSE 0)
    /\ UNCHANGED <<adv, ble_is_connected, blufi_sec, secCipher, overrun>>

\* Lines 91-98, with a block to fill. What mbedtls reads into the context, each
\* negotiation overwrites.
HasParam ==
    /\ Negotiates /\ dh_param # 0
    /\ keys < MaxKeys /\ keys' = keys + 1
    /\ UNCHANGED <<adv, ble_is_connected, blufi_sec, dh_param_len>>

\* Lines 99-104: the block stays.
ReadFails ==
    /\ HasParam
    /\ UNCHANGED <<dh_param, heap, share_key, aes, reply, uncomputed, overrun>>

\* Lines 105-106.
FreeParam == dh_param' = 0 /\ heap' = heap - 1

\* Lines 107-112.
PublicFails ==
    /\ HasParam /\ FreeParam
    /\ UNCHANGED <<share_key, aes, reply, uncomputed, overrun>>

\* Lines 107-118 with a P over 128 bytes.
Overrun ==
    /\ HasParam
    /\ overrun' = TRUE
    /\ UNCHANGED <<dh_param, heap, share_key, aes, reply, uncomputed>>

\* Lines 114-118. The result is ignored: a failure leaves the old secret. (A
\* library that insists on the random numbers of line 118 fails every time.)
Secret == share_key' \in {keys', share_key}

\* Mutant: the key is set before line 122 looks at the digest.
DigestFails_SetKey ==
    /\ HasParam /\ FreeParam
    /\ Secret
    /\ aes' = share_key'
    /\ UNCHANGED <<reply, uncomputed, overrun>>

\* Lines 120-126.
DigestFails ==
    /\ HasParam /\ FreeParam
    /\ Secret
    /\ UNCHANGED <<aes, reply, uncomputed, overrun>>

\* Lines 128-133: the key is set and the public key goes to the phone.
Agree ==
    /\ HasParam /\ FreeParam
    /\ Secret
    /\ aes' = share_key'
    /\ reply' = keys' /\ uncomputed' = (share_key' # keys')
    /\ UNCHANGED overrun

ParamData == ReadFails \/ PublicFails \/ Overrun \/ DigestFails \/ Agree

Sec ==
    /\ ~overrun
    /\ BleConnect \/ BleDisconnect \/ (\E len \in Lengths : ParamLen(len)) \/ ParamData

-----------------------------------------------------------------------------
(* Properties.                                                             *)

\* blufi_aes_encrypt and blufi_aes_decrypt (lines 146-178) use `aes' and change
\* nothing: until a P is too long, they work with the key of the last negotiation
\* the phone saw succeed, be it followed by any that failed; or, if line 114
\* failed in that one and nobody noticed, with the key of an earlier one or none.
KeyOfReply == ~overrun => IF uncomputed THEN aes < reply ELSE aes = reply

\* However lengths, failures, parameters and disconnections follow each other,
\* until a P is too long: line 98 copies as much as the block holds (be the message
\* that long or not), and no block outlives its pointer.
ParamBlock ==
    ~overrun =>
        /\ dh_param # 0 => dh_param = dh_param_len
        /\ heap = IF dh_param # 0 THEN 1 ELSE 0
=============================================================================
