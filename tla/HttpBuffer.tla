----------------------------- MODULE HttpBuffer -----------------------------
(***************************************************************************)
(* The seven requests of udp_server.c's http_rest_with_url, one client, and*)
(* _http_event_handler, which collects each response in the one buffer that*)
(* is never cleared, at an offset that outlives the request.               *)
(*                                                                         *)
(* The client is external: a request fails, or delivers its response in    *)
(* pieces, as much of it as the connection lasts for. A cell of the buffer *)
(* holds the number of the request it came from, 0 is NUL. A response fits *)
(* the buffer: nothing in the code sees to that. With user_data set (line  *)
(* 739) the handler's own output_buffer stays NULL.                        *)
(***************************************************************************)
EXTENDS Integers

CONSTANT Size \* MAX_HTTP_OUTPUT_BUFFER

ASSUME SizeAssumption == Size \in Nat \ {0}

\* GET, POST, what line 770 calls "get 2" and is a POST again, PUT, PATCH, DELETE,
\* HEAD. The buffer is printed after the first and the third.
Requests == 1 .. 7
Printed == {1, 3}

VARIABLES
    request,    \* the request http_rest_with_url is at; 8 when it returned
    http,       \* "off", "ready", "response", "returned"
    left,       \* what the response still has
    chunked,
    output_len,
    local_response_buffer,
    got         \* history: what the handler took of this response

httpVars == <<request, http, left, chunked, output_len, local_response_buffer, got>>

HttpTypeOK ==
    /\ request \in 1 .. 8
    /\ http \in {"off", "ready", "response", "returned"}
    /\ {left, got, output_len} \subseteq 0 .. Size - 1
    /\ chunked \in BOOLEAN
    /\ local_response_buffer \in [0 .. Size - 1 -> 0 .. 7]

HttpInit ==
    /\ request = 1 /\ http = "off" /\ left = 0 /\ chunked = FALSE
    /\ output_len = 0 /\ got = 0
    /\ local_response_buffer = [i \in 0 .. Size - 1 |-> 0]

\* What a restart leaves of it.
HttpRestart ==
    /\ request' = 1 /\ http' = "off" /\ left' = 0 /\ chunked' = FALSE
    /\ output_len' = 0 /\ got' = 0
    /\ local_response_buffer' = [i \in 0 .. Size - 1 |-> 0]

-----------------------------------------------------------------------------
(* esp_http_client_perform and the handler it calls, lines 649-722.        *)

\* Lines 724-741.
HttpStart ==
    /\ http = "off" /\ http' = "ready"
    /\ UNCHANGED <<request, left, chunked, output_len, local_response_buffer, got>>

\* No connection, or none to send on (line 654).
PerformFails ==
    /\ http = "ready" /\ http' = "returned"
    /\ UNCHANGED <<request, left, chunked, output_len, local_response_buffer, got>>

\* Lines 657-665. A HEAD has no body.
Respond ==
    /\ http = "ready" /\ http' = "response"
    /\ left' \in IF request = 7 THEN {0} ELSE 0 .. Size - 1
    /\ chunked' \in BOOLEAN
    /\ UNCHANGED <<request, output_len, local_response_buffer, got>>

\* Lines 666-690.
OnData(len) ==
    /\ http = "response" /\ len \in 1 .. left
    /\ left' = left - len
    /\ IF chunked THEN UNCHANGED <<output_len, local_response_buffer, got>>
       ELSE /\ local_response_buffer' =
                [i \in DOMAIN local_response_buffer |->
                    IF i \in output_len .. output_len + len - 1 THEN request
                    ELSE local_response_buffer[i]]
            /\ output_len' = output_len + len
            /\ got' = got + len
    /\ UNCHANGED <<request, http, chunked>>

\* Mutant: the offset is only reset with output_buffer.
OnFinish_KeepLen ==
    /\ http = "response" /\ http' = "returned"
    /\ left' = 0 /\ chunked' = FALSE
    /\ UNCHANGED <<request, output_len, local_response_buffer, got>>

\* Lines 691-700 and 701-714: at the end of the response, or of the connection.
OnFinish ==
    /\ http = "response" /\ http' = "returned"
    /\ output_len' = 0 /\ left' = 0 /\ chunked' = FALSE
    /\ UNCHANGED <<request, local_response_buffer, got>>

-----------------------------------------------------------------------------
(* http_rest_with_url, lines 743-831.                                      *)

\* Mutant: line 832 is no comment, and deletes the task that called it.
HttpNext_DeleteTask ==
    /\ http = "returned" /\ request < 7
    /\ request' = request + 1
    /\ http' = "ready" /\ got' = 0
    /\ UNCHANGED <<left, chunked, output_len, local_response_buffer>>

\* The next request, whatever came of this one. The buffer is gone when
\* http_rest_with_url returns.
HttpNext ==
    /\ http = "returned" /\ request < 8
    /\ request' = request + 1
    /\ IF request = 7
       THEN http' = "returned" /\ local_response_buffer' = [i \in 0 .. Size - 1 |-> 0]
       ELSE http' = "ready" /\ UNCHANGED local_response_buffer
    /\ got' = 0
    /\ UNCHANGED <<left, chunked, output_len>>

HttpStep == PerformFails \/ Respond \/ (\E len \in 1 .. left : OnData(len)) \/ OnFinish \/ HttpNext

-----------------------------------------------------------------------------

\* Lines 754 and 780 print the response they are about, from its first byte, in
\* one piece, if it came at all; the first of them prints nothing else. (What
\* follows in the second is left from a longer response.)
OwnResponse ==
    http = "returned" /\ request \in Printed =>
        /\ \A i \in 0 .. got - 1 : local_response_buffer[i] = request
        /\ request = 1 => \A i \in got .. Size - 1 : local_response_buffer[i] = 0
=============================================================================
