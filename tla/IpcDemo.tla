------------------------------ MODULE IpcDemo ------------------------------
(***************************************************************************)
(* The programs of IPC_socket: the server of thread.c with its threads     *)
(* sockFD and messageQueue, clientSocket.c with callSocket and             *)
(* callMsgQueue, sendMsgProcess.c and recvMsgProcess.c. They meet in one   *)
(* System V message queue, that each of them opens or creates under the    *)
(* same key and that three of them remove, and in a TCP connection.        *)
(* Comments name the file by its first letter: t, c, s, r.                 *)
(*                                                                         *)
(* The kernel is external: the queue with its blocked receivers, the       *)
(* listening socket. A queue is never full (a message is 1/100 of one), and*)
(* every program finds the same progfile for ftok. The joins and the       *)
(* counters of t:main are not part of this module.                         *)
(***************************************************************************)
EXTENDS Integers, Sequences, SequencesExt, FiniteSets

CONSTANTS
    Server,    \* the process of thread.c
    Clients,   \* processes of clientSocket.c
    Senders,   \* processes of sendMsgProcess.c
    Receivers, \* processes of recvMsgProcess.c
    None

Writers == Clients \cup Senders
Readers == Receivers \cup {Server}
Procs == Writers \cup Readers

ASSUME IpcAssumption ==
    /\ IsFiniteSet(Procs)
    /\ Cardinality(Procs)
        = Cardinality(Clients) + Cardinality(Senders) + Cardinality(Receivers) + 1
    /\ None \notin Procs

VARIABLES
    queue,    \* the msg_id of the existing queue, 0: there is none
    lastId,   \* the msg_id of the last queue created
    msgs,     \* the queue's messages, each by its writer
    blocked,  \* the readers that sleep in msgrcv, in the order they came
    pc,       \* the next step of a process's queue thread
    msg_id,   \* its local: 0 after a failed msgget
    text,     \* a writer's `message': "none", "typed" or "garbage"
    stdin,    \* the clients' descriptor 0 is open
    cli,      \* the next step of callSocket
    srv,      \* the next step of sockFD
    backlog,  \* connected clients that accept has not returned
    peer,     \* the client newSocket belongs to
    killed    \* history: a process was ended from outside its queue thread

kernel == <<queue, lastId, msgs, blocked>>
tcp == <<stdin, cli, srv, backlog, peer>>
vars == <<kernel, pc, msg_id, text, tcp, killed>>

TypeOK ==
    /\ lastId \in 0 .. Cardinality(Procs) /\ queue \in {0, lastId}
    /\ msgs \in Seq(Writers) /\ blocked \in Seq(Readers)
    /\ pc \in [Procs -> {"off", "get", "read", "reading", "send", "rcv", "blocked",
                         "rmid", "end", "dead"}]
    /\ msg_id \in [Procs -> 0 .. lastId]
    /\ text \in [Writers -> {"none", "typed", "garbage"}]
    /\ stdin \in [Clients -> BOOLEAN]
    /\ cli \in [Clients -> {"off", "connect", "send", "sendFailed", "close",
                            "closeFailed", "end", "dead"}]
    /\ srv \in {"off", "bind", "accept", "acceptElsewhere", "read", "end", "dead"}
    /\ ToSet(backlog) \subseteq Clients /\ peer \in Clients \cup {None}
    /\ killed \in BOOLEAN
    \* A message was filled in before it was sent.
    /\ \A w \in ToSet(msgs) : text[w] # "none"

Init ==
    /\ queue = 0 /\ lastId = 0 /\ msgs = <<>> /\ blocked = <<>>
    /\ pc = [p \in Procs |-> "off"] /\ msg_id = [p \in Procs |-> 0]
    /\ text = [w \in Writers |-> "none"]
    /\ stdin = [c \in Clients |-> TRUE] /\ cli = [c \in Clients |-> "off"]
    /\ srv = "off" /\ backlog = <<>> /\ peer = None /\ killed = FALSE

\* main of the four programs: s:17, r:16, c:137-146, t:303-304.
Start(p) ==
    /\ pc[p] = "off"
    /\ pc' = [pc EXCEPT ![p] = "get"]
    /\ cli' = IF p \in Clients THEN [cli EXCEPT ![p] = "connect"] ELSE cli
    /\ srv' = IF p = Server THEN "bind" ELSE srv
    /\ UNCHANGED <<kernel, msg_id, text, stdin, backlog, peer, killed>>

\* A process ends with all its threads.
Kill(p) ==
    /\ pc' = [pc EXCEPT ![p] = "dead"]
    /\ \/ p \notin ToSet(blocked) /\ blocked' = blocked
       \/ \E i \in DOMAIN blocked : blocked[i] = p /\ blocked' = RemoveAt(blocked, i)
    /\ cli' = IF p \in Clients THEN [cli EXCEPT ![p] = "dead"] ELSE cli
    /\ srv' = IF p = Server THEN "dead" ELSE srv
    /\ killed' = TRUE
    /\ UNCHANGED <<queue, lastId, msgs, msg_id, text, stdin, backlog, peer>>

-----------------------------------------------------------------------------
(* The message queue.                                                      *)

After(p) == IF p \in Readers THEN "rcv" ELSE "read"

\* Mutants: IPC_EXCL is set too; the message is sent before it is read.
MsgGet_Excl(p) ==
    /\ pc[p] = "get"
    /\ lastId' = IF queue = 0 THEN lastId + 1 ELSE lastId
    /\ queue' = lastId'
    /\ msg_id' = [msg_id EXCEPT ![p] = IF queue = 0 THEN queue' ELSE 0]
    /\ pc' = [pc EXCEPT ![p] = After(p)]
    /\ UNCHANGED <<msgs, blocked, text, tcp, killed>>
MsgGet_SendFirst(p) ==
    /\ pc[p] = "get"
    /\ lastId' = IF queue = 0 THEN lastId + 1 ELSE lastId
    /\ queue' = lastId'
    /\ msg_id' = [msg_id EXCEPT ![p] = queue']
    /\ pc' = [pc EXCEPT ![p] = IF p \in Readers THEN "rcv" ELSE "send"]
    /\ UNCHANGED <<msgs, blocked, text, tcp, killed>>

\* msgget(mykey, 0666 | IPC_CREAT): t:170, c:116, s:27, r:25.
MsgGet(p) ==
    /\ pc[p] = "get"
    /\ lastId' = IF queue = 0 THEN lastId + 1 ELSE lastId
    /\ queue' = lastId'
    /\ msg_id' = [msg_id EXCEPT ![p] = queue']
    /\ pc' = [pc EXCEPT ![p] = After(p)]
    /\ UNCHANGED <<msgs, blocked, text, tcp, killed>>

\* No queue can be created: every program goes on with an invalid msg_id.
MsgGetFails(p) ==
    /\ pc[p] = "get" /\ queue = 0
    /\ pc' = [pc EXCEPT ![p] = After(p)]
    /\ UNCHANGED <<kernel, msg_id, text, tcp, killed>>

\* The process's msg_id is that of the existing queue.
Valid(p) == queue # 0 /\ msg_id[p] = queue

\* fgets enters read(0): c:123, s:32.
FgetsEnter(w) ==
    /\ pc[w] = "read" /\ (w \in Clients => stdin[w])
    /\ pc' = [pc EXCEPT ![w] = "reading"]
    /\ UNCHANGED <<kernel, msg_id, text, tcp, killed>>

\* Descriptor 0 is closed: fgets returns NULL, c:123 does not look, and
\* message.msg keeps what the stack held.
FgetsFails(w) ==
    /\ pc[w] = "read" /\ w \in Clients /\ ~stdin[w]
    /\ text' = [text EXCEPT ![w] = "garbage"]
    /\ pc' = [pc EXCEPT ![w] = "send"]
    /\ UNCHANGED <<kernel, msg_id, tcp, killed>>

\* The user's line. A read that has begun survives a close.
FgetsReturns(w) ==
    /\ pc[w] = "reading"
    /\ text' = [text EXCEPT ![w] = "typed"]
    /\ pc' = [pc EXCEPT ![w] = "send"]
    /\ UNCHANGED <<kernel, msg_id, tcp, killed>>

\* Mutant: the client does not remove the queue.
AfterSend_Keep(w) == "end"

\* c:129 follows, s:40 ends.
AfterSend(w) == IF w \in Clients THEN "rmid" ELSE "end"

\* msgsnd: c:126, s:35. A reader that sleeps in msgrcv is handed the message;
\* an error is not looked at.
MsgSnd(w) ==
    /\ pc[w] = "send"
    /\ IF Valid(w) /\ blocked # <<>>
       THEN /\ blocked' = Tail(blocked)
            /\ pc' = [pc EXCEPT ![w] = AfterSend(w), ![Head(blocked)] = "rmid"]
            /\ msgs' = msgs
       ELSE /\ msgs' = IF Valid(w) THEN Append(msgs, w) ELSE msgs
            /\ pc' = [pc EXCEPT ![w] = AfterSend(w)]
            /\ blocked' = blocked
    /\ UNCHANGED <<queue, lastId, msg_id, text, tcp, killed>>

\* msgrcv: t:179, r:29. It fails without a queue (t prints that, r does not),
\* takes the oldest message, or sleeps.
MsgRcv(r) ==
    /\ pc[r] = "rcv"
    /\ IF Valid(r) /\ msgs = <<>>
       THEN /\ blocked' = Append(blocked, r)
            /\ pc' = [pc EXCEPT ![r] = "blocked"]
            /\ msgs' = msgs
       ELSE /\ msgs' = IF Valid(r) THEN Tail(msgs) ELSE msgs
            /\ pc' = [pc EXCEPT ![r] = "rmid"]
            /\ blocked' = blocked
    /\ UNCHANGED <<queue, lastId, msg_id, text, tcp, killed>>

\* Mutant: only a client removes the queue.
MsgCtl_ReadersKeep(p) ==
    /\ pc[p] = "rmid"
    /\ IF Valid(p) /\ p \in Clients
       THEN /\ queue' = 0 /\ msgs' = <<>> /\ blocked' = <<>>
            /\ pc' = [q \in Procs |-> IF q = p THEN "end"
                                      ELSE IF pc[q] = "blocked" THEN "rmid" ELSE pc[q]]
       ELSE /\ pc' = [pc EXCEPT ![p] = "end"]
            /\ UNCHANGED <<queue, msgs, blocked>>
    /\ UNCHANGED <<lastId, msg_id, text, tcp, killed>>

\* msgctl(msg_id, IPC_RMID, NULL): t:185, c:129, r:35. The messages are lost
\* and the sleeping readers return with an error.
MsgCtl(p) ==
    /\ pc[p] = "rmid"
    /\ IF Valid(p)
       THEN /\ queue' = 0 /\ msgs' = <<>> /\ blocked' = <<>>
            /\ pc' = [q \in Procs |-> IF q = p THEN "end"
                                      ELSE IF pc[q] = "blocked" THEN "rmid" ELSE pc[q]]
       ELSE /\ pc' = [pc EXCEPT ![p] = "end"]
            /\ UNCHANGED <<queue, msgs, blocked>>
    /\ UNCHANGED <<lastId, msg_id, text, tcp, killed>>

-----------------------------------------------------------------------------
(* sockFD, t:40-152.                                                       *)

SrvGoes(from, to) == srv = from /\ srv' = to

\* t:98 and t:109. A port in use is ignored (t:101), and listen then takes
\* another one.
SrvListen ==
    /\ SrvGoes("bind", "accept") \/ SrvGoes("bind", "acceptElsewhere")
    /\ UNCHANGED <<kernel, pc, msg_id, text, stdin, cli, backlog, peer, killed>>

\* A failing call ends the whole process: t:66, 76, 103, 112, 120.
SrvExit == srv \in {"bind", "accept", "acceptElsewhere"} /\ Kill(Server)

\* t:117
SrvAccept ==
    /\ SrvGoes("accept", "read") /\ backlog # <<>>
    /\ peer' = Head(backlog) /\ backlog' = Tail(backlog)
    /\ UNCHANGED <<kernel, pc, msg_id, text, stdin, cli, killed>>

\* t:123-130: read returns the client's text or the end of its process, and
\* both sockets are shut.
SrvRead ==
    /\ SrvGoes("read", "end") /\ cli[peer] \notin {"connect", "send"}
    /\ backlog' = <<>>
    /\ UNCHANGED <<kernel, pc, msg_id, text, stdin, cli, peer, killed>>

-----------------------------------------------------------------------------
(* callSocket, c:25-98.                                                    *)

CliGoes(c, from, to) == cli[c] = from /\ cli' = [cli EXCEPT ![c] = to]

\* c:45-48
CliExit(c) == cli[c] = "connect" /\ Kill(c)

\* c:74: connect returns 0, or -1 when nobody listens. The one that has the
\* server's port when bind fails may answer in its place.
CliConnect(c) ==
    /\ \/ /\ srv \in {"accept", "read"}
          /\ CliGoes(c, "connect", "send") /\ backlog' = Append(backlog, c)
       \/ /\ srv = "acceptElsewhere"
          /\ CliGoes(c, "connect", "send") /\ backlog' = backlog
       \/ /\ srv \notin {"accept", "read"}
          /\ CliGoes(c, "connect", "sendFailed") /\ backlog' = backlog
    /\ UNCHANGED <<kernel, pc, msg_id, text, stdin, srv, peer, killed>>

\* c:82
CliSend(c) ==
    /\ CliGoes(c, "send", "close") \/ CliGoes(c, "sendFailed", "closeFailed")
    /\ UNCHANGED <<kernel, pc, msg_id, text, stdin, srv, backlog, peer, killed>>

\* The same send on a socket that is not connected: SIGPIPE.
CliPipe(c) == cli[c] = "sendFailed" /\ Kill(c)

\* c:92: close(clientID), and clientID is the result of connect.
CliClose(c) ==
    /\ \/ CliGoes(c, "close", "end") /\ stdin' = [stdin EXCEPT ![c] = FALSE]
       \/ CliGoes(c, "closeFailed", "end") /\ stdin' = stdin
    /\ UNCHANGED <<kernel, pc, msg_id, text, srv, backlog, peer, killed>>

-----------------------------------------------------------------------------

QueueThread(p) ==
    \/ MsgGet(p) \/ MsgCtl(p)
    \/ p \in Writers /\ (FgetsEnter(p) \/ FgetsFails(p) \/ FgetsReturns(p) \/ MsgSnd(p))
    \/ p \in Readers /\ MsgRcv(p)

SrvThread == SrvListen \/ SrvAccept \/ SrvRead

CliThread(c) == CliConnect(c) \/ CliSend(c) \/ CliPipe(c) \/ CliClose(c)

Next ==
    \/ \E p \in Procs : Start(p) \/ MsgGetFails(p) \/ QueueThread(p)
    \/ SrvThread \/ SrvExit
    \/ \E c \in Clients : CliThread(c) \/ CliExit(c)

Spec == Init /\ [][Next]_vars

\* Threads of started processes run, and the user types a line when asked.
FairSpec ==
    /\ Spec
    /\ \A p \in Procs : WF_vars(QueueThread(p))
    /\ WF_vars(SrvThread)
    /\ \A c \in Clients : WF_vars(CliThread(c))

-----------------------------------------------------------------------------
(* Properties.                                                             *)

\* c:128 "remove msg_id": a client leaves no message behind that a later
\* program would take for its own answer, whoever removed or created the
\* queue in between.
ClientLeavesNothing == \A c \in Clients : pc[c] = "end" => c \notin ToSet(msgs)

\* The queue's users wake each other: a reader asleep in msgrcv ends once any
\* writer has come to its msgget, be it that another reader gets the message
\* and removes the queue (t:185, r:35).
WaiterEnds ==
    \A r \in Readers :
        (pc[r] = "blocked" /\ \E w \in Writers : pc[w] = "get")
            ~> (pc[r] = "end" \/ killed)

\* One run of the client ends both threads t:main joins first (t:326-327),
\* whatever the other programs do to the queue.
ClientReleasesServer ==
    \A c \in Clients :
        (srv = "accept" /\ pc[Server] = "blocked" /\ pc[c] = "get" /\ cli[c] = "connect")
            ~> ((srv = "end" /\ pc[Server] = "end") \/ killed)

\* c:121 "get message from user", c:125 "send message": what msgsnd sends is
\* what the user typed.
SendsWhatWasTyped ==
    [][\A w \in Writers : pc[w] = "send" /\ pc'[w] \in {"rmid", "end"} => text[w] = "typed"]_vars
=============================================================================
