-------------------------- MODULE IpcSocket_proofs --------------------------
(***************************************************************************)
(* The programs of IPC_socket: no client leaves its message in the queue,  *)
(* for every set of clients, senders and receivers, and the sums thread.c  *)
(* prints are complete, for a counter of every width.                      *)
(***************************************************************************)
EXTENDS IpcDemo, ThreadMain, FiniteSetTheorems, TLAPS

Steps == {"off", "get", "read", "reading", "send", "rcv", "blocked", "rmid", "end", "dead"}

\* Ids are not used twice, and a queue that is gone has no messages.
QueueInv ==
    /\ lastId \in Nat /\ queue \in {0, lastId}
    /\ queue = 0 => msgs = <<>>
    /\ msgs \in Seq(Writers)
    /\ pc \in [Procs -> Steps] /\ msg_id \in [Procs -> Nat]

\* A client whose message is in the queue knows that queue, and has yet to remove
\* it, or has been killed.
ClientInv ==
    \A c \in Clients :
        c \in ToSet(msgs) => queue # 0 /\ msg_id[c] = queue /\ pc[c] \in {"rmid", "dead"}

IpcInv == QueueInv /\ ClientInv

\* The processes that have called msgget, or are ended. Each has created at most
\* one queue.
Got == {p \in Procs : pc[p] \notin {"off", "get"}}

IdInv ==
    /\ \A p \in Procs : msg_id[p] <= lastId
    /\ lastId <= Cardinality(Got)

\* A message was filled in, if with garbage, before it was sent.
TextInv ==
    /\ text \in [Writers -> {"none", "typed", "garbage"}]
    /\ \A w \in Writers : pc[w] = "send" \/ w \in ToSet(msgs) => text[w] # "none"

SocketInv ==
    /\ stdin \in [Clients -> BOOLEAN]
    /\ cli \in [Clients -> {"off", "connect", "send", "sendFailed", "close",
                            "closeFailed", "end", "dead"}]
    /\ srv \in {"off", "bind", "accept", "acceptElsewhere", "read", "end", "dead"}
    /\ backlog \in Seq(Clients) /\ peer \in Clients \cup {None}
    /\ killed \in BOOLEAN

TypeInv == IpcInv /\ IdInv /\ TextInv /\ SocketInv /\ blocked \in Seq(Readers)

-----------------------------------------------------------------------------

LEMMA AppendSet ==
    ASSUME NEW S, NEW s \in Seq(S), NEW e \in S
    PROVE  Append(s, e) \in Seq(S) /\ ToSet(Append(s, e)) \subseteq ToSet(s) \cup {e}
BY DEF ToSet

LEMMA TailSet ==
    ASSUME NEW S, NEW s \in Seq(S), s # <<>>
    PROVE  Tail(s) \in Seq(S) /\ ToSet(Tail(s)) \subseteq ToSet(s)
BY DEF ToSet

LEMMA EmptySet == ToSet(<<>>) = {} /\ \A S : <<>> \in Seq(S)
BY DEF ToSet

LEMMA Members ==
    /\ Clients \subseteq Procs /\ Clients \subseteq Writers
    /\ Writers \subseteq Procs /\ Readers \subseteq Procs /\ Server \in Procs
BY DEF Procs, Writers, Readers

LEMMA InitSafe == Init => IpcInv
BY EmptySet DEF Init, IpcInv, QueueInv, ClientInv, Steps

\* Steps that leave the queue alone and move clients only from steps at which
\* none has a message in it.
LEMMA OtherSafe ==
    ASSUME IpcInv, UNCHANGED <<queue, lastId, msgs, msg_id>>,
           pc' \in [Procs -> Steps],
           \A c \in Clients : pc[c] \in {"rmid", "dead"} => pc'[c] \in {"rmid", "dead"}
    PROVE  IpcInv'
BY DEF IpcInv, QueueInv, ClientInv

-----------------------------------------------------------------------------

LEMMA StartSafe == ASSUME IpcInv, NEW p \in Procs, Start(p) PROVE IpcInv'
<1>1. UNCHANGED <<queue, lastId, msgs, msg_id>> /\ pc[p] = "off" /\ pc' = [pc EXCEPT ![p] = "get"]
  BY DEF Start, kernel
<1>2. pc' \in [Procs -> Steps] /\ \A c \in Clients : pc[c] \in {"rmid", "dead"} => pc'[c] = pc[c]
  BY <1>1, Members DEF IpcInv, QueueInv, Steps
<1> QED BY <1>1, <1>2, OtherSafe

LEMMA KillSafe == ASSUME IpcInv, NEW p \in Procs, Kill(p) PROVE IpcInv'
<1>1. UNCHANGED <<queue, lastId, msgs, msg_id>> /\ pc' = [pc EXCEPT ![p] = "dead"]
  BY DEF Kill
<1>2. pc' \in [Procs -> Steps] /\ \A c \in Clients : pc'[c] \in {pc[c], "dead"}
  BY <1>1, Members DEF IpcInv, QueueInv, Steps
<1> QED BY <1>1, <1>2, OtherSafe

\* A process at its msgget has no message in the queue, if it is a client.
LEMMA MsgGetSafe ==
    ASSUME IpcInv, NEW p \in Procs, MsgGet(p) \/ MsgGetFails(p)
    PROVE  IpcInv'
<1>1. CASE MsgGetFails(p)
  <2>1. UNCHANGED <<queue, lastId, msgs, msg_id>> /\ pc[p] = "get"
        /\ pc' = [pc EXCEPT ![p] = After(p)]
    BY <1>1 DEF MsgGetFails, kernel
  <2>2. pc' \in [Procs -> Steps] /\ \A c \in Clients : pc[c] \in {"rmid", "dead"} => pc'[c] = pc[c]
    BY <2>1, Members DEF IpcInv, QueueInv, After, Steps
  <2> QED BY <2>1, <2>2, OtherSafe
<1>2. CASE MsgGet(p)
  <2>1. /\ pc[p] = "get" /\ msgs' = msgs
        /\ lastId' = (IF queue = 0 THEN lastId + 1 ELSE lastId) /\ queue' = lastId'
        /\ msg_id' = [msg_id EXCEPT ![p] = queue']
        /\ pc' = [pc EXCEPT ![p] = After(p)]
    BY <1>2 DEF MsgGet
  <2>2. lastId' \in Nat /\ queue' # 0 /\ (queue # 0 => queue' = queue)
    BY <2>1 DEF IpcInv, QueueInv
  <2>3. pc' \in [Procs -> Steps] /\ msg_id' \in [Procs -> Nat]
    BY <2>1, <2>2 DEF IpcInv, QueueInv, After, Steps
  <2>4. QueueInv'
    BY <2>1, <2>2, <2>3 DEF IpcInv, QueueInv
  <2>5. ASSUME NEW c \in Clients, c \in ToSet(msgs')
        PROVE  queue' # 0 /\ msg_id'[c] = queue' /\ pc'[c] \in {"rmid", "dead"}
    <3>1. queue # 0 /\ msg_id[c] = queue /\ pc[c] \in {"rmid", "dead"}
      BY <2>1, <2>5 DEF IpcInv, ClientInv
    <3>2. c # p
      BY <2>1, <3>1
    <3> QED
      BY <2>1, <2>2, <3>1, <3>2, Members DEF IpcInv, QueueInv
  <2> QED BY <2>4, <2>5 DEF IpcInv, ClientInv
<1> QED BY <1>1, <1>2

LEMMA FgetsSafe ==
    ASSUME IpcInv, NEW w \in Procs, FgetsEnter(w) \/ FgetsFails(w) \/ FgetsReturns(w)
    PROVE  IpcInv'
<1>1. /\ UNCHANGED <<queue, lastId, msgs, msg_id>>
      /\ pc[w] \in {"read", "reading"}
      /\ pc' = [pc EXCEPT ![w] = "reading"] \/ pc' = [pc EXCEPT ![w] = "send"]
  BY DEF FgetsEnter, FgetsFails, FgetsReturns, kernel
<1>2. pc' \in [Procs -> Steps] /\ \A c \in Clients : pc[c] \in {"rmid", "dead"} => pc'[c] = pc[c]
  BY <1>1, Members DEF IpcInv, QueueInv, Steps
<1> QED BY <1>1, <1>2, OtherSafe

\* A client that sends has the removal before it; a reader that is handed the
\* message has it, too.
LEMMA MsgSndSafe == ASSUME IpcInv, NEW w \in Writers, MsgSnd(w) PROVE IpcInv'
<1>1. /\ UNCHANGED <<queue, lastId, msg_id>> /\ pc[w] = "send" /\ w \in Procs
      /\ AfterSend(w) = IF w \in Clients THEN "rmid" ELSE "end"
  BY Members DEF MsgSnd, AfterSend
<1>2. /\ pc' \in [Procs -> Steps]
      /\ pc'[w] \in {AfterSend(w), "rmid"}
      /\ \A c \in Clients \ {w} : pc'[c] \in {pc[c], "rmid"}
  BY <1>1, Members DEF MsgSnd, IpcInv, QueueInv, Steps
<1>3. msgs' = msgs \/ (msgs' = Append(msgs, w) /\ Valid(w))
  BY DEF MsgSnd
<1>4. /\ msgs' \in Seq(Writers) /\ ToSet(msgs') \subseteq ToSet(msgs) \cup {w}
      /\ w \in ToSet(msgs') /\ w \notin ToSet(msgs) => Valid(w)
      /\ queue = 0 => msgs' = <<>>
  <2>1. msgs \in Seq(Writers) /\ (queue = 0 => msgs = <<>>)
    BY DEF IpcInv, QueueInv
  <2>2. CASE msgs' = msgs
    BY <2>1, <2>2, Zenon
  <2>3. CASE msgs' = Append(msgs, w) /\ Valid(w)
    <3>1. Append(msgs, w) \in Seq(Writers) /\ ToSet(Append(msgs, w)) \subseteq ToSet(msgs) \cup {w}
      BY <2>1, AppendSet, Zenon
    <3>2. queue # 0
      BY <2>3 DEF Valid
    <3> QED
      BY <2>3, <3>1, <3>2, Zenon
  <2> QED BY <1>3, <2>2, <2>3
<1>5. QueueInv'
  BY <1>1, <1>2, <1>4 DEF IpcInv, QueueInv
<1>6. ASSUME NEW c \in Clients, c \in ToSet(msgs')
      PROVE  queue' # 0 /\ msg_id'[c] = queue' /\ pc'[c] \in {"rmid", "dead"}
  <2>1. CASE c = w
    <3>1. c \notin ToSet(msgs)
      BY <1>1, <2>1 DEF IpcInv, ClientInv
    <3> QED
      BY <1>1, <1>2, <1>4, <1>6, <2>1, <3>1 DEF Valid
  <2>2. CASE c # w
    <3>1. c \in ToSet(msgs)
      BY <1>4, <1>6, <2>2
    <3> QED
      BY <1>1, <1>2, <2>2, <3>1 DEF IpcInv, ClientInv
  <2> QED BY <2>1, <2>2
<1> QED BY <1>5, <1>6 DEF IpcInv, ClientInv

LEMMA MsgRcvSafe == ASSUME IpcInv, NEW r \in Procs, MsgRcv(r) PROVE IpcInv'
<1>1. /\ UNCHANGED <<queue, lastId, msg_id>> /\ pc[r] = "rcv"
      /\ pc' = [pc EXCEPT ![r] = "blocked"] \/ pc' = [pc EXCEPT ![r] = "rmid"]
      /\ msgs' = msgs \/ (Valid(r) /\ msgs # <<>> /\ msgs' = Tail(msgs))
  BY DEF MsgRcv
<1>2. pc' \in [Procs -> Steps] /\ \A c \in Clients : pc[c] \in {"rmid", "dead"} => pc'[c] = pc[c]
  BY <1>1, Members DEF IpcInv, QueueInv, Steps
<1>3. msgs' \in Seq(Writers) /\ ToSet(msgs') \subseteq ToSet(msgs)
  <2>1. msgs \in Seq(Writers)
    BY DEF IpcInv, QueueInv
  <2>2. CASE msgs' = msgs
    BY <2>1, <2>2, Zenon
  <2>3. CASE msgs # <<>> /\ msgs' = Tail(msgs)
    BY <2>1, <2>3, TailSet, Zenon
  <2> QED BY <1>1, <2>2, <2>3
<1>4. queue = 0 => msgs' = <<>>
  BY <1>1 DEF IpcInv, QueueInv, Valid
<1> QED BY <1>1, <1>2, <1>3, <1>4 DEF IpcInv, QueueInv, ClientInv

\* A client whose message is there has a valid id, and takes the queue with it.
LEMMA MsgCtlSafe == ASSUME IpcInv, NEW p \in Procs, MsgCtl(p) PROVE IpcInv'
<1>1. CASE Valid(p)
  <2>1. queue' = 0 /\ msgs' = <<>> /\ lastId' = lastId /\ msg_id' = msg_id
        /\ pc' \in [Procs -> Steps]
    BY <1>1 DEF MsgCtl, IpcInv, QueueInv, Steps
  <2> QED
    BY <2>1, EmptySet DEF IpcInv, QueueInv, ClientInv
<1>2. CASE ~Valid(p)
  <2>1. UNCHANGED <<queue, lastId, msgs, msg_id>> /\ pc' = [pc EXCEPT ![p] = "end"]
    BY <1>2 DEF MsgCtl
  <2>2. p \in Clients => p \notin ToSet(msgs)
    BY <1>2 DEF IpcInv, ClientInv, Valid
  <2>3. pc' \in [Procs -> Steps] /\ \A c \in Clients \ {p} : pc'[c] = pc[c]
    BY <2>1, Members DEF IpcInv, QueueInv, Steps
  <2> QED
    BY <2>1, <2>2, <2>3 DEF IpcInv, QueueInv, ClientInv
<1> QED BY <1>1, <1>2

\* The socket threads either leave the queue and its users alone or end a process.
LEMMA SocketSafe ==
    ASSUME IpcInv, SrvThread \/ SrvExit \/ \E c \in Clients : CliThread(c) \/ CliExit(c)
    PROVE  IpcInv'
<1>1. UNCHANGED <<kernel, pc, msg_id>> \/ \E p \in Procs : Kill(p)
  BY Members DEF SrvThread, SrvExit, SrvListen, SrvAccept, SrvRead, CliThread, CliExit,
                 CliConnect, CliSend, CliPipe, CliClose
<1>2. CASE UNCHANGED <<kernel, pc, msg_id>>
  BY <1>2, OtherSafe DEF kernel, IpcInv, QueueInv
<1> QED BY <1>1, <1>2, KillSafe

LEMMA IpcSafe == ASSUME IpcInv, [Next]_vars PROVE IpcInv'
<1>1. CASE UNCHANGED vars
  BY <1>1, OtherSafe DEF vars, kernel, IpcInv, QueueInv
<1>2. ASSUME NEW p \in Procs, Start(p) \/ MsgGetFails(p) \/ QueueThread(p) PROVE IpcInv'
  BY <1>2, StartSafe, MsgGetSafe, MsgCtlSafe, FgetsSafe, MsgSndSafe, MsgRcvSafe
  DEF QueueThread
<1> QED
  BY <1>1, <1>2, SocketSafe DEF Next

\* The queue's ids and messages, for every set of programs.
THEOREM Invariance == Spec => []IpcInv
<1>1. IpcInv /\ [Next]_vars => IpcInv'
  BY IpcSafe
<1> QED BY InitSafe, <1>1, PTL DEF Spec

\* clientSocket.c line 129 comes to the queue that has its message, whoever removed
\* or created queues in between, so a client that ends leaves none behind.
THEOREM NothingIsLeft == Spec => []ClientLeavesNothing
<1>1. IpcInv => ClientLeavesNothing
  BY DEF IpcInv, ClientInv, ClientLeavesNothing
<1> QED BY Invariance, <1>1, PTL

-----------------------------------------------------------------------------
(* The types of IpcDemo. The number of queues is bounded by the number of  *)
(* processes, as each calls msgget once.                                   *)

LEMMA GotGrows ==
    ASSUME Got \subseteq Got'
    PROVE  Cardinality(Got) \in Nat /\ Cardinality(Got) <= Cardinality(Got')
<1>1. IsFiniteSet(Procs) /\ Got' \subseteq Procs
  BY IpcAssumption DEF IpcAssumption, Got
<1>2. IsFiniteSet(Got') /\ Cardinality(Got') \in Nat
  BY <1>1, FS_Subset, FS_CardinalityType
<1> QED
  BY <1>2, FS_Subset, FS_CardinalityType

\* A process at its msgget adds itself to the ones that have called it.
LEMMA GotMore ==
    ASSUME NEW p \in Procs, p \notin Got, Got' = Got \cup {p}
    PROVE  Cardinality(Got) \in Nat /\ Cardinality(Got') = Cardinality(Got) + 1
<1>1. IsFiniteSet(Got)
  BY FS_Subset, IpcAssumption DEF IpcAssumption, Got
<1> QED
  BY <1>1, FS_AddElement, FS_CardinalityType

\* What the queue's users do to the processes, apart from MsgGet.
LEMMA StepsKept ==
    ASSUME IpcInv, [Next]_vars, ~\E p \in Procs : MsgGet(p)
    PROVE  UNCHANGED <<lastId, msg_id>> /\ Got \subseteq Got'
<1> USE DEF Got, IpcInv, QueueInv
<1>1. CASE UNCHANGED vars
  BY <1>1 DEF vars, kernel
<1>2. ASSUME NEW p \in Procs, Start(p) PROVE UNCHANGED <<lastId, msg_id>> /\ Got \subseteq Got'
  BY <1>2 DEF Start, kernel
<1>3. ASSUME NEW p \in Procs, MsgGetFails(p)
      PROVE  UNCHANGED <<lastId, msg_id>> /\ Got \subseteq Got'
  BY <1>3 DEF MsgGetFails, After, kernel
<1>4. ASSUME NEW p \in Procs, MsgCtl(p) PROVE UNCHANGED <<lastId, msg_id>> /\ Got \subseteq Got'
  BY <1>4 DEF MsgCtl
<1>5. ASSUME NEW w \in Procs, FgetsEnter(w) \/ FgetsFails(w) \/ FgetsReturns(w)
      PROVE  UNCHANGED <<lastId, msg_id>> /\ Got \subseteq Got'
  BY <1>5 DEF FgetsEnter, FgetsFails, FgetsReturns, kernel
<1>6. ASSUME NEW w \in Procs, MsgSnd(w) PROVE UNCHANGED <<lastId, msg_id>> /\ Got \subseteq Got'
  BY <1>6 DEF MsgSnd, AfterSend
<1>7. ASSUME NEW r \in Procs, MsgRcv(r) PROVE UNCHANGED <<lastId, msg_id>> /\ Got \subseteq Got'
  BY <1>7 DEF MsgRcv
<1>8. ASSUME NEW p \in Procs, Kill(p) PROVE UNCHANGED <<lastId, msg_id>> /\ Got \subseteq Got'
  BY <1>8 DEF Kill
<1>9. CASE SrvThread \/ SrvExit \/ \E c \in Clients : CliThread(c) \/ CliExit(c)
  <2>1. UNCHANGED <<kernel, pc, msg_id>> \/ \E p \in Procs : Kill(p)
    BY <1>9, Members DEF SrvThread, SrvExit, SrvListen, SrvAccept, SrvRead, CliThread, CliExit,
                         CliConnect, CliSend, CliPipe, CliClose
  <2> QED
    BY <2>1, <1>8 DEF kernel
<1> QED
  BY <1>1, <1>2, <1>3, <1>4, <1>5, <1>6, <1>7, <1>9, Members DEF Next, QueueThread

LEMMA IdSafe ==
    ASSUME IpcInv, IdInv, [Next]_vars
    PROVE  IdInv'
<1>1. CASE \E p \in Procs : MsgGet(p)
  <2>1. PICK p \in Procs : MsgGet(p)
    BY <1>1
  <2>2. /\ pc[p] = "get" /\ pc' = [pc EXCEPT ![p] = After(p)]
        /\ lastId' = (IF queue = 0 THEN lastId + 1 ELSE lastId) /\ queue' = lastId'
        /\ msg_id' = [msg_id EXCEPT ![p] = queue']
    BY <2>1 DEF MsgGet
  <2>3. lastId \in Nat /\ msg_id \in [Procs -> Nat] /\ pc \in [Procs -> Steps]
    BY DEF IpcInv, QueueInv
  <2>4. p \notin Got /\ Got' = Got \cup {p}
    BY <2>2, <2>3 DEF Got, After
  <2>5. Cardinality(Got) \in Nat /\ Cardinality(Got') = Cardinality(Got) + 1
    BY <2>4, GotMore
  <2>6. lastId' <= Cardinality(Got')
    BY <2>2, <2>3, <2>5 DEF IdInv
  <2>7. \A q \in Procs : msg_id'[q] <= lastId'
    BY <2>2, <2>3 DEF IdInv
  <2> QED
    BY <2>6, <2>7 DEF IdInv
<1>2. CASE ~\E p \in Procs : MsgGet(p)
  <2>1. UNCHANGED <<lastId, msg_id>> /\ Got \subseteq Got'
    BY <1>2, StepsKept
  <2>2. Cardinality(Got) \in Nat /\ Cardinality(Got) <= Cardinality(Got')
    BY <2>1, GotGrows
  <2>3. lastId \in Nat /\ IsFiniteSet(Procs) /\ Got' \subseteq Procs
    BY IpcAssumption DEF IpcInv, QueueInv, IpcAssumption, Got
  <2>4. Cardinality(Got') \in Nat
    BY <2>3, FS_Subset, FS_CardinalityType
  <2> QED
    BY <2>1, <2>2, <2>3, <2>4 DEF IdInv
<1> QED BY <1>1, <1>2

\* A message is sent after a line was typed, or after fgets has failed.
LEMMA TextSafe ==
    ASSUME IpcInv, TextInv, [Next]_vars
    PROVE  TextInv'
<1>0. msgs \in Seq(Writers) /\ pc \in [Procs -> Steps] /\ Writers \subseteq Procs
  BY Members DEF IpcInv, QueueInv
<1> DEFINE Kept == /\ UNCHANGED text /\ ToSet(msgs') \subseteq ToSet(msgs)
                   /\ \A w \in Writers : pc'[w] = "send" => pc[w] = "send"
<1>1. ASSUME Kept PROVE TextInv'
  BY <1>1 DEF TextInv
<1>2. CASE UNCHANGED vars
  BY <1>1, <1>2 DEF vars, kernel
<1>3. ASSUME NEW p \in Procs, Start(p) \/ MsgGet(p) \/ MsgGetFails(p) \/ Kill(p) PROVE TextInv'
  BY <1>0, <1>1, <1>3 DEF Start, MsgGet, MsgGetFails, Kill, After, kernel
<1>4. ASSUME NEW p \in Procs, MsgCtl(p) PROVE TextInv'
  <2>1. \A q \in Procs : pc'[q] = "send" => pc[q] = "send"
    BY <1>0, <1>4 DEF MsgCtl
  <2>2. UNCHANGED text /\ msgs' \in {msgs, <<>>}
    BY <1>4 DEF MsgCtl
  <2> QED
    BY <1>0, <1>1, <2>1, <2>2, EmptySet
<1>5. ASSUME NEW w \in Writers, FgetsEnter(w) PROVE TextInv'
  BY <1>0, <1>1, <1>5 DEF FgetsEnter, kernel
<1>6. ASSUME NEW w \in Writers, FgetsFails(w) \/ FgetsReturns(w) PROVE TextInv'
  <2>1. PICK filled \in {"typed", "garbage"} : text' = [text EXCEPT ![w] = filled]
    BY <1>6 DEF FgetsFails, FgetsReturns
  <2>2. msgs' = msgs /\ pc' = [pc EXCEPT ![w] = "send"]
    BY <1>6 DEF FgetsFails, FgetsReturns, kernel
  <2> QED
    BY <1>0, <2>1, <2>2 DEF TextInv
<1>7. ASSUME NEW w \in Writers, MsgSnd(w) PROVE TextInv'
  <2>1. pc[w] = "send" /\ text' = text /\ msgs' \in {msgs, Append(msgs, w)}
    BY <1>7 DEF MsgSnd
  <2>2. ToSet(msgs') \subseteq ToSet(msgs) \cup {w}
    BY <1>0, <2>1, AppendSet
  <2>3. \A v \in Writers : pc'[v] = "send" => pc[v] = "send"
    BY <1>0, <1>7 DEF MsgSnd, AfterSend
  <2> QED
    BY <2>1, <2>2, <2>3 DEF TextInv
<1>8. ASSUME NEW r \in Readers, MsgRcv(r) PROVE TextInv'
  <2>1. text' = text /\ (msgs' = msgs \/ (msgs # <<>> /\ msgs' = Tail(msgs)))
    BY <1>8 DEF MsgRcv, IpcInv, QueueInv, Valid
  <2>2. ToSet(msgs') \subseteq ToSet(msgs)
    BY <1>0, <2>1, TailSet
  <2>3. \A v \in Writers : pc'[v] = "send" => pc[v] = "send"
    BY <1>0, <1>8 DEF MsgRcv
  <2> QED
    BY <1>1, <2>1, <2>2, <2>3
<1>9. CASE SrvThread \/ SrvExit \/ \E c \in Clients : CliThread(c) \/ CliExit(c)
  <2>1. UNCHANGED <<kernel, pc, text>> \/ \E p \in Procs : Kill(p)
    BY <1>9, Members DEF SrvThread, SrvExit, SrvListen, SrvAccept, SrvRead, CliThread, CliExit,
                         CliConnect, CliSend, CliPipe, CliClose
  <2> QED
    BY <1>1, <1>3, <2>1 DEF kernel
<1> QED
  BY <1>2, <1>3, <1>4, <1>5, <1>6, <1>7, <1>8, <1>9 DEF Next, QueueThread

\* The sockets' variables are those of their threads, and a killed process's.
LEMMA SocketTypes ==
    ASSUME SocketInv, [Next]_vars
    PROVE  SocketInv'
<1> USE DEF SocketInv
<1>1. CASE UNCHANGED tcp /\ UNCHANGED killed
  BY <1>1 DEF tcp
<1>2. ASSUME NEW p \in Procs, Start(p) PROVE SocketInv'
  BY <1>2 DEF Start
<1>3. ASSUME NEW p \in Procs, Kill(p) PROVE SocketInv'
  BY <1>3 DEF Kill
<1>4. ASSUME NEW p \in Procs, MsgGetFails(p) \/ QueueThread(p) PROVE UNCHANGED <<tcp, killed>>
  BY <1>4 DEF MsgGetFails, QueueThread, MsgGet, MsgCtl, FgetsEnter, FgetsFails, FgetsReturns,
              MsgSnd, MsgRcv
<1>5. CASE SrvThread
  <2>1. CASE SrvListen
    BY <2>1 DEF SrvListen, SrvGoes
  <2>2. CASE SrvAccept
    <3>1. backlog # <<>> /\ Head(backlog) \in Clients /\ Tail(backlog) \in Seq(Clients)
      BY <2>2 DEF SrvAccept
    <3> QED
      BY <2>2, <3>1 DEF SrvAccept, SrvGoes
  <2>3. CASE SrvRead
    BY <2>3 DEF SrvRead, SrvGoes
  <2> QED
    BY <1>5, <2>1, <2>2, <2>3 DEF SrvThread
<1>6. ASSUME NEW c \in Clients, CliThread(c) PROVE SocketInv'
  <2>1. CASE CliConnect(c)
    <3>1. backlog' \in Seq(Clients)
      BY <2>1 DEF CliConnect
    <3>2. cli' \in [Clients -> {"off", "connect", "send", "sendFailed", "close",
                               "closeFailed", "end", "dead"}]
      BY <2>1 DEF CliConnect, CliGoes
    <3> QED
      BY <2>1, <3>1, <3>2 DEF CliConnect
  <2>2. CASE CliSend(c)
    BY <2>2 DEF CliSend, CliGoes
  <2>3. CASE CliPipe(c)
    BY <2>3, <1>3, Members DEF CliPipe
  <2>4. CASE CliClose(c)
    BY <2>4 DEF CliClose, CliGoes
  <2> QED
    BY <1>6, <2>1, <2>2, <2>3, <2>4 DEF CliThread
<1>7. SrvExit => Kill(Server)
  BY DEF SrvExit
<1>8. \A c \in Clients : CliExit(c) => Kill(c)
  BY DEF CliExit
<1> QED
  BY <1>1, <1>2, <1>3, <1>4, <1>5, <1>6, <1>7, <1>8, Members DEF Next, vars

\* Who sleeps in msgrcv is a reader.
LEMMA BlockedSafe ==
    ASSUME blocked \in Seq(Readers), [Next]_vars
    PROVE  blocked' \in Seq(Readers)
<1>1. ASSUME NEW p \in Procs, Kill(p) PROVE blocked' \in Seq(Readers)
  <2>1. CASE \E i \in DOMAIN blocked : blocked' = RemoveAt(blocked, i)
    <3>1. PICK i \in 1 .. Len(blocked) : blocked' = RemoveAt(blocked, i)
      BY <2>1
    <3>2. /\ SubSeq(blocked, 1, i - 1) \in Seq(Readers)
          /\ SubSeq(blocked, i + 1, Len(blocked)) \in Seq(Readers)
      BY SMT
    <3> QED
      BY <3>1, <3>2 DEF RemoveAt
  <2> QED
    BY <1>1, <2>1 DEF Kill
<1>2. ASSUME NEW p \in Procs, QueueThread(p) PROVE blocked' \in Seq(Readers)
  <2>1. CASE UNCHANGED blocked \/ blocked' = <<>>
    BY <2>1, EmptySet
  <2>2. CASE p \in Writers /\ MsgSnd(p)
    <3>1. blocked' = blocked \/ (blocked # <<>> /\ blocked' = Tail(blocked))
      BY <2>2, Zenon DEF MsgSnd
    <3> QED
      BY <3>1
  <2>3. CASE p \in Readers /\ MsgRcv(p)
    <3>1. blocked' = blocked \/ blocked' = Append(blocked, p)
      BY <2>3, Zenon DEF MsgRcv
    <3> QED
      BY <2>3, <3>1
  <2> QED
    BY <1>2, <2>1, <2>2, <2>3 DEF QueueThread, MsgGet, MsgCtl, FgetsEnter, FgetsFails,
                                  FgetsReturns, kernel
<1>3. CASE UNCHANGED kernel
  BY <1>3 DEF kernel
<1>4. CASE SrvThread \/ SrvExit \/ \E c \in Clients : CliThread(c) \/ CliExit(c)
  <2>1. UNCHANGED kernel \/ \E p \in Procs : Kill(p)
    BY <1>4, Members DEF SrvThread, SrvExit, SrvListen, SrvAccept, SrvRead, CliThread, CliExit,
                         CliConnect, CliSend, CliPipe, CliClose
  <2> QED
    BY <1>1, <1>3, <2>1
<1>5. ASSUME NEW p \in Procs, Start(p) \/ MsgGetFails(p) PROVE UNCHANGED kernel
  BY <1>5 DEF Start, MsgGetFails
<1> QED
  BY <1>2, <1>3, <1>4, <1>5 DEF Next, vars

\* The inductive invariant with the types.
THEOREM TypeInvariance == Spec => []TypeInv
<1>1. Init => IdInv /\ TextInv /\ SocketInv /\ blocked \in Seq(Readers)
  <2> SUFFICES ASSUME Init PROVE IdInv /\ TextInv /\ SocketInv /\ blocked \in Seq(Readers)
    OBVIOUS
  <2>1. Got = {} /\ lastId = 0 /\ \A p \in Procs : msg_id[p] = 0
    BY DEF Init, Got
  <2>2. IdInv
    BY <2>1, FS_EmptySet DEF IdInv
  <2>3. msgs = <<>> /\ backlog = <<>> /\ blocked = <<>> /\ killed = FALSE
    BY DEF Init
  <2>4. backlog \in Seq(Clients) /\ blocked \in Seq(Readers) /\ killed \in BOOLEAN
    BY <2>3, EmptySet, Zenon
  <2>5. SocketInv
    BY <2>4 DEF Init, SocketInv
  <2>6. TextInv
    <3>1. \A w \in Writers : pc[w] # "send" /\ w \notin ToSet(msgs)
      BY <2>3, EmptySet, Members DEF Init
    <3> QED
      BY <3>1 DEF Init, TextInv
  <2> QED BY <2>2, <2>4, <2>5, <2>6
<1>2. Init => TypeInv
  BY <1>1, InitSafe DEF TypeInv
<1>3. TypeInv /\ [Next]_vars => TypeInv'
  BY IpcSafe, IdSafe, TextSafe, SocketTypes, BlockedSafe DEF TypeInv
<1> QED
  BY <1>2, <1>3, PTL DEF Spec

\* Every process creates at most one queue, each msg_id is one the kernel has given
\* out, and a message in the queue was filled in.
THEOREM TypeCorrect == Spec => []TypeOK
<1>1. TypeInv => TypeOK
  <2> SUFFICES ASSUME TypeInv PROVE TypeOK
    OBVIOUS
  <2>1. /\ lastId \in 0 .. Cardinality(Procs) /\ queue \in {0, lastId}
        /\ msg_id \in [Procs -> 0 .. lastId]
    <3>1. IsFiniteSet(Procs) /\ Got \subseteq Procs
      BY IpcAssumption DEF IpcAssumption, Got
    <3>2. /\ Cardinality(Procs) \in Nat /\ Cardinality(Got) \in Nat
          /\ Cardinality(Got) <= Cardinality(Procs)
      BY <3>1, FS_Subset, FS_CardinalityType
    <3>3. lastId \in Nat /\ msg_id \in [Procs -> Nat] /\ queue \in {0, lastId}
      BY DEF TypeInv, IpcInv, QueueInv
    <3> QED
      BY <3>2, <3>3 DEF TypeInv, IdInv
  <2>2. msgs \in Seq(Writers) /\ blocked \in Seq(Readers) /\ pc \in [Procs -> Steps]
    BY DEF TypeInv, IpcInv, QueueInv
  <2>3. /\ text \in [Writers -> {"none", "typed", "garbage"}]
        /\ \A w \in ToSet(msgs) : text[w] # "none"
    BY <2>2 DEF TypeInv, TextInv, ToSet
  <2>4. ToSet(backlog) \subseteq Clients
    BY DEF TypeInv, SocketInv, ToSet
  <2> QED
    BY <2>1, <2>2, <2>3, <2>4 DEF TypeInv, SocketInv, TypeOK, Steps
<1> QED BY <1>1, TypeInvariance, PTL

-----------------------------------------------------------------------------
(* ThreadMain: main of thread.c.                                           *)

USE U16Assumption DEF U16Assumption

-----------------------------------------------------------------------------

\* Below its limit calSub's count does not wrap.
LEMMA CountFits ==
    ASSUME NEW c \in 0 .. Limit, c < Limit
    PROVE  (c + 1) % U16 = c + 1 /\ c + 1 \in 0 .. Limit
<1>1. c + 1 \in 0 .. U16 - 1
  BY SMT DEF Limit
<1> QED
  BY <1>1, SMT DEF Limit

LEMMA LimitIsNat == Limit \in Nat
BY SMT DEF Limit

LEMMA ThreadInitSafe == ThreadInit => IndInv
<1> SUFFICES ASSUME ThreadInit PROVE IndInv
  OBVIOUS
<1>1. ThreadTypeOK
  <2>1. 0 \in 0 .. Limit
    BY LimitIsNat
  <2>2. count \in [Counters -> 0 .. Limit] /\ reg \in [Counters -> Int]
    BY <2>1 DEF ThreadInit
  <2>3. copy \in [var : Int, ptr : {"null", "a"}] /\ commonVar \in Int
    BY DEF ThreadInit
  <2> QED
    BY <2>2, <2>3, Zenon DEF ThreadInit, ThreadTypeOK, Before, Joined
<1>2. MutexInv /\ SumInv /\ JoinInv /\ CopyInv
  BY DEF ThreadInit, MutexInv, SumInv, JoinInv, CopyInv, Done, Joined, Counters
<1> QED BY <1>1, <1>2 DEF IndInv

\* Steps that leave the counters alone.
LEMMA CountingKept ==
    ASSUME IndInv, UNCHANGED counting
    PROVE  MutexInv' /\ SumInv'
BY DEF IndInv, counting, MutexInv, SumInv, Done

\* What a step of a counter means for main: it is past their creation, and not
\* past the join of this one.
LEMMA CounterRuns ==
    ASSUME IndInv, NEW t \in Counters, NEW from, NEW to, from \notin {"none", "end"},
           CounterStep(t, from, to),
           to \in {"loop", "load", "store", "unlock", "end"}
    PROVE  /\ step' \in [Counters -> {"none", "loop", "load", "store", "unlock", "end"}]
           /\ JoinInv' /\ CopyInv'
<1>1. step[t] = from /\ step' = [step EXCEPT ![t] = to] /\ UNCHANGED <<main, ptr2, child, copy>>
  BY DEF CounterStep, childVars
<1>2. step \in [Counters -> {"none", "loop", "load", "store", "unlock", "end"}]
  BY DEF IndInv, ThreadTypeOK
<1>3. step' \in [Counters -> {"none", "loop", "load", "store", "unlock", "end"}]
  BY <1>1, <1>2
<1>4. JoinInv'
  <2>1. main \notin {"create", "sigaction", "count"}
    BY <1>1 DEF IndInv, JoinInv
  <2>2. \A u \in Counters : step[u] = "end" => step'[u] = "end"
    BY <1>1, <1>2
  <2> QED
    BY <1>1, <2>1, <2>2 DEF IndInv, JoinInv, Counters
<1>5. CopyInv'
  BY <1>1 DEF IndInv, CopyInv
<1> QED BY <1>3, <1>4, <1>5

\* Each step of a counter.
LEMMA CountSafe ==
    ASSUME IndInv, NEW t \in Counters, Count(t)
    PROVE  IndInv'
<1> USE DEF CounterStep
<1>0. /\ step \in [Counters -> {"none", "loop", "load", "store", "unlock", "end"}]
      /\ count \in [Counters -> 0 .. Limit] /\ reg \in [Counters -> Int]
      /\ mutexVar \in Counters \cup {"free"} /\ commonVar \in Int
  BY DEF IndInv, ThreadTypeOK
<1>1. PICK from, to : /\ CounterStep(t, from, to) /\ from \notin {"none", "end"}
                      /\ to \in {"loop", "load", "store", "unlock", "end"}
  BY DEF Count, Lock, Load, Add, Unlock, Finish
<1>2. /\ step' \in [Counters -> {"none", "loop", "load", "store", "unlock", "end"}]
      /\ JoinInv' /\ CopyInv'
  BY <1>1, CounterRuns
<1>3. UNCHANGED <<main, handled, runSocket, runMsgQueue, ptr2, child, thread4, copy>>
  BY <1>1 DEF threads, childVars
<1>4. ASSUME /\ count' \in [Counters -> 0 .. Limit] /\ reg' \in [Counters -> Int]
             /\ mutexVar' \in Counters \cup {"free"} /\ commonVar' \in Int
      PROVE  ThreadTypeOK'
  BY <1>2, <1>3, <1>4 DEF IndInv, ThreadTypeOK, threads, childVars
<1>5. CASE Lock(t)
  <2>1. ThreadTypeOK'
    BY <1>0, <1>4, <1>5 DEF Lock
  <2>2. MutexInv'
    BY <1>0, <1>5 DEF Lock, More, IndInv, MutexInv, Counters
  <2>3. SumInv'
    BY <1>0, <1>5 DEF Lock, IndInv, SumInv, Done, Counters
  <2> QED BY <1>2, <2>1, <2>2, <2>3 DEF IndInv
<1>6. CASE Load(t)
  <2>1. ThreadTypeOK'
    BY <1>0, <1>4, <1>6 DEF Load
  <2>2. MutexInv'
    BY <1>0, <1>6 DEF Load, IndInv, MutexInv, Counters
  <2>3. SumInv'
    BY <1>0, <1>6 DEF Load, IndInv, SumInv, Done, Counters
  <2> QED BY <1>2, <2>1, <2>2, <2>3 DEF IndInv
<1>7. CASE Add(t)
  <2>1. ThreadTypeOK'
    BY <1>0, <1>4, <1>7 DEF Add
  <2>2. MutexInv'
    BY <1>0, <1>7 DEF Add, IndInv, MutexInv, Counters
  <2>3. SumInv'
    <3>1. commonVar' = commonVar + 1 /\ count' = count
      BY <1>7 DEF Add, IndInv, MutexInv
    <3>2. /\ Done(t)' = Done(t) + 1
          /\ \A u \in Counters \ {t} : Done(u)' = Done(u)
      BY <1>0, <1>7, <3>1 DEF Add, Done
    <3>3. Done("calSum") \in Int /\ Done("calSub") \in Int
      BY <1>0, LimitIsNat DEF Done, Counters
    <3> QED
      BY <1>0, <3>1, <3>2, <3>3 DEF IndInv, SumInv, Counters
  <2> QED BY <1>2, <2>1, <2>2, <2>3 DEF IndInv
<1>8. CASE Unlock(t)
  <2>1. count' = [count EXCEPT ![t] = count[t] + 1] /\ count[t] + 1 \in 0 .. Limit
    <3>1. count[t] \in 0 .. Limit /\ count[t] < Limit
      BY <1>0, <1>8 DEF Unlock, IndInv, MutexInv
    <3> QED
      BY <1>8, <3>1, CountFits DEF Unlock
  <2>2. ThreadTypeOK'
    BY <1>0, <1>4, <1>8, <2>1 DEF Unlock
  <2>3. MutexInv'
    BY <1>0, <1>8, <2>1 DEF Unlock, IndInv, MutexInv, Counters
  <2>4. SumInv'
    BY <1>0, <1>8, <2>1 DEF Unlock, IndInv, SumInv, Done, Counters
  <2> QED BY <1>2, <2>2, <2>3, <2>4 DEF IndInv
<1>9. CASE Finish(t)
  <2>1. ThreadTypeOK'
    BY <1>0, <1>4, <1>9 DEF Finish
  <2>2. MutexInv'
    BY <1>0, <1>9, LimitIsNat DEF Finish, More, IndInv, MutexInv, Counters
  <2>3. SumInv'
    BY <1>0, <1>9 DEF Finish, IndInv, SumInv, Done, Counters
  <2> QED BY <1>2, <2>1, <2>2, <2>3 DEF IndInv
<1> QED
  BY <1>5, <1>6, <1>7, <1>8, <1>9 DEF Count

\* The two other threads, and the ends of the process.
LEMMA SocketsSafe ==
    ASSUME IndInv, SocketEnds \/ SocketExits \/ MsgQueueEnds \/ Signal
    PROVE  IndInv'
<1>1. UNCHANGED <<counting, handled, ptr2, childVars>> /\ main' \in {main, "dead"}
  BY DEF SocketEnds, SocketExits, MsgQueueEnds, Signal, threads
<1>2. ThreadTypeOK'
  BY <1>1 DEF SocketEnds, SocketExits, MsgQueueEnds, Signal, threads, counting, childVars,
              IndInv, ThreadTypeOK
<1>3. JoinInv' /\ CopyInv'
  BY <1>1 DEF counting, childVars, IndInv, JoinInv, CopyInv, Joined
<1> QED
  BY <1>1, <1>2, <1>3, CountingKept DEF IndInv

\* Starting the counters: nothing is counted yet.
LEMMA CreateSafe ==
    ASSUME IndInv, CreateCounters
    PROVE  IndInv'
<1>1. \A t \in Counters : step[t] = "none" /\ step'[t] = "loop"
  BY DEF CreateCounters, MainStep, IndInv, JoinInv
<1>2. main' = "fork" /\ UNCHANGED <<handled, threads, count, reg, mutexVar, commonVar, ptr2,
                                    childVars>>
  BY DEF CreateCounters, MainStep
<1>3. ThreadTypeOK'
  BY <1>2 DEF CreateCounters, threads, childVars, IndInv, ThreadTypeOK, Before
<1>4. MutexInv' /\ SumInv'
  BY <1>1, <1>2 DEF IndInv, MutexInv, SumInv, Done, Counters
<1>5. JoinInv' /\ CopyInv'
  BY <1>2 DEF childVars, IndInv, JoinInv, CopyInv, Joined
<1> QED BY <1>3, <1>4, <1>5 DEF IndInv

\* The copy is taken when calSub may, and calSum need not, have ended.
LEMMA ForkSafe ==
    ASSUME IndInv, Fork
    PROVE  IndInv'
<1>1. /\ main' = "joinMsgQueue" /\ child' = "create"
      /\ copy' = [var |-> commonVar, ptr |-> IF step["calSub"] = "end" THEN "a" ELSE "null"]
      /\ UNCHANGED <<handled, threads, counting, ptr2, thread4>>
  BY DEF Fork, MainStep
<1>2. ThreadTypeOK'
  BY <1>1 DEF threads, counting, IndInv, ThreadTypeOK, Before
<1>3. JoinInv'
  BY <1>1 DEF IndInv, JoinInv, Joined
<1>4. CopyInv'
  <2>1. CASE step["calSub"] = "end"
    <3>1. Done("calSub") = Limit
      BY <2>1, LimitIsNat DEF IndInv, MutexInv, Done, Counters
    <3>2. Done("calSum") \in 0 .. Limit
      <4>1. count["calSum"] \in 0 .. Limit
        BY DEF IndInv, ThreadTypeOK, Counters
      <4>2. step["calSum"] = "unlock" => count["calSum"] < Limit
        BY DEF IndInv, MutexInv, Counters
      <4> QED BY <4>1, <4>2, LimitIsNat DEF Done
    <3>3. commonVar \in 10 + Limit .. 10 + 2 * Limit
      BY <3>1, <3>2, LimitIsNat DEF IndInv, SumInv
    <3> QED BY <1>1, <3>3 DEF CopyInv
  <2>2. CASE step["calSub"] # "end"
    BY <1>1, <2>2 DEF CopyInv
  <2> QED BY <2>1, <2>2
<1>5. MutexInv' /\ SumInv'
  BY <1>1, CountingKept
<1> QED BY <1>2, <1>3, <1>4, <1>5 DEF IndInv

\* The other steps of main: each join finds its thread at its end.
LEMMA MainSafe ==
    ASSUME IndInv, CreateSockets \/ SigAction \/ ForkFails \/ Join \/ JoinThread4 \/ PrintSum
    PROVE  IndInv'
<1>1. UNCHANGED <<counting, childVars>>
  BY DEF CreateSockets, SigAction, ForkFails, Join, JoinThread4, PrintSum, threads
<1>2. ThreadTypeOK'
  <2>1. /\ main' \in Before \cup {"joinSub", "dead"} \cup Joined
        /\ handled' \in BOOLEAN /\ ptr2' \in {"null", "a"}
    BY DEF CreateSockets, SigAction, ForkFails, Join, JoinThread4, PrintSum, MainStep,
           IndInv, ThreadTypeOK, Before, Joined
  <2>2. runSocket' \in {"none", "runs", "ended"} /\ runMsgQueue' \in {"none", "runs", "ended"}
    BY DEF CreateSockets, SigAction, ForkFails, Join, JoinThread4, PrintSum, threads,
           IndInv, ThreadTypeOK
  <2> QED
    BY <1>1, <2>1, <2>2 DEF counting, childVars, IndInv, ThreadTypeOK
<1>3. JoinInv'
  BY <1>1 DEF CreateSockets, SigAction, ForkFails, Join, JoinThread4, PrintSum, MainStep,
              counting, IndInv, JoinInv, Joined
<1>4. CopyInv'
  BY <1>1 DEF childVars, IndInv, CopyInv
<1> QED
  BY <1>1, <1>2, <1>3, <1>4, CountingKept DEF IndInv

LEMMA ChildSafe ==
    ASSUME IndInv, Child
    PROVE  IndInv'
<1>1. UNCHANGED <<main, handled, threads, counting, ptr2, copy>>
  BY DEF Child, ChildCreate, NewProExec, NewProFails, ChildJoin, ChildPrint, ChildStep
<1>2. ThreadTypeOK'
  <2>1. /\ child' \in {"none", "create", "join", "print", "spin", "crash", "exec"}
        /\ thread4' \in {"none", "runs", "ended"}
    BY DEF Child, ChildCreate, NewProExec, NewProFails, ChildJoin, ChildPrint, ChildStep,
           IndInv, ThreadTypeOK
  <2> QED
    BY <1>1, <2>1 DEF threads, counting, IndInv, ThreadTypeOK
<1>3. JoinInv'
  BY <1>1 DEF counting, IndInv, JoinInv
<1>4. CopyInv'
  BY <1>1 DEF Child, ChildCreate, NewProExec, NewProFails, ChildJoin, ChildPrint, ChildStep,
              IndInv, CopyInv
<1> QED
  BY <1>1, <1>2, <1>3, <1>4, CountingKept DEF IndInv

\* The inductive invariant of the program.
THEOREM ThreadsAreCounted == ThreadSpec => []IndInv
<1>1. IndInv /\ [ThreadNext]_threadVars => IndInv'
  <2> SUFFICES ASSUME IndInv, [ThreadNext]_threadVars PROVE IndInv'
    OBVIOUS
  <2>1. CASE \E t \in Counters : Count(t)
    BY <2>1, CountSafe
  <2>2. CASE SocketEnds \/ SocketExits \/ MsgQueueEnds \/ Signal
    BY <2>2, SocketsSafe
  <2>3. CASE Main
    BY <2>3, CreateSafe, ForkSafe, MainSafe DEF Main
  <2>4. CASE Child
    BY <2>4, ChildSafe
  <2>5. CASE UNCHANGED threadVars
    <3>1. UNCHANGED counting /\ UNCHANGED <<main, handled, threads, ptr2, childVars>>
      BY <2>5 DEF threadVars
    <3> QED
      BY <3>1, CountingKept DEF counting, threads, childVars, IndInv, ThreadTypeOK, JoinInv, CopyInv
  <2> QED
    BY <2>1, <2>2, <2>3, <2>4, <2>5 DEF ThreadNext
<1> QED
  BY <1>1, ThreadInitSafe, PTL DEF ThreadSpec

\* No increment of either thread is lost in the sum main prints, and the address
\* it reads is calSub's (lines 334-335), however far the threads count.
THEOREM PrintedSum == ThreadSpec => []SumIsComplete
<1>1. IndInv => SumIsComplete
  <2> SUFFICES ASSUME IndInv, main \in Joined
               PROVE  commonVar = 10 + 2 * Limit /\ ptr2 = "a"
    BY DEF SumIsComplete
  <2>1. step["calSum"] = "end" /\ step["calSub"] = "end" /\ ptr2 = "a"
    BY DEF IndInv, JoinInv
  <2>2. Done("calSum") = Limit /\ Done("calSub") = Limit
    BY <2>1, LimitIsNat DEF IndInv, MutexInv, Done, Counters
  <2> QED
    BY <2>1, <2>2, LimitIsNat DEF IndInv, SumInv
<1> QED
  BY <1>1, ThreadsAreCounted, PTL

\* A child that comes to line 335 has all of calSub's increments in its copy.
THEOREM CopiedSum == ThreadSpec => []ChildSum
<1>1. IndInv => ChildSum
  BY DEF IndInv, CopyInv, ChildSum
<1> QED
  BY <1>1, ThreadsAreCounted, PTL
=============================================================================
