----------------------------- MODULE ThreadMain -----------------------------
(***************************************************************************)
(* main of IPC_socket/thread.c: it starts four threads, two of which count *)
(* in one variable under a mutex, forks, joins them and prints the sum. It *)
(* then joins thread4, which only the child has created. IpcDemo has the   *)
(* insides of the other two threads, sockFD and messageQueue; here they    *)
(* run, and end, or end the process.                                       *)
(*                                                                         *)
(* getButton, lines 243-254, opens a driver without that ioctl and changes *)
(* nothing. No call of pthread_create fails.                               *)
(***************************************************************************)
EXTENDS Integers

CONSTANT U16 \* 2^16: what a uint16_t counts to

ASSUME U16Assumption == U16 \in Nat \ {0}

Limit == U16 - 1
Counters == {"calSum", "calSub"}

VARIABLES
    main,        \* the parent's next step; "dead" when the process ended
    handled,     \* signal 10 has its handler
    runSocket, runMsgQueue, \* "none", "runs", "ended"
    step, count, reg, \* of the counters; reg is what `+=' has loaded
    mutexVar, commonVar,
    ptr2,        \* "null", or "a": the address of calAB.a
    child, thread4, \* the child's next step, and its thread
    copy         \* the child's memory: its commonVar, and what it joins for ptr2

threads == <<runSocket, runMsgQueue>>
counting == <<step, count, reg, mutexVar, commonVar>>
childVars == <<child, thread4, copy>>
threadVars == <<main, handled, threads, counting, ptr2, childVars>>

Before == {"create", "sigaction", "count", "fork", "joinMsgQueue", "joinSocket", "joinSum"}
Joined == {"joinThread4", "print", "spin", "hang"}

ThreadTypeOK ==
    /\ main \in Before \cup {"joinSub", "dead"} \cup Joined
    /\ handled \in BOOLEAN
    /\ runSocket \in {"none", "runs", "ended"} /\ runMsgQueue \in {"none", "runs", "ended"}
    /\ step \in [Counters -> {"none", "loop", "load", "store", "unlock", "end"}]
    /\ count \in [Counters -> 0 .. Limit]
    /\ reg \in [Counters -> Int]
    /\ mutexVar \in Counters \cup {"free"}
    /\ commonVar \in Int
    /\ ptr2 \in {"null", "a"}
    /\ child \in {"none", "create", "join", "print", "spin", "crash", "exec"}
    /\ thread4 \in {"none", "runs", "ended"}
    /\ copy \in [var : Int, ptr : {"null", "a"}]

ThreadInit ==
    /\ main = "create" /\ handled = FALSE
    /\ runSocket = "none" /\ runMsgQueue = "none"
    /\ step = [t \in Counters |-> "none"]
    /\ count = [t \in Counters |-> 0] /\ reg = [t \in Counters |-> 0]
    /\ mutexVar = "free" /\ commonVar = 10
    /\ ptr2 = "null"
    /\ child = "none" /\ thread4 = "none" /\ copy = [var |-> 10, ptr |-> "null"]

-----------------------------------------------------------------------------
(* calSum and calSub, lines 207-240.                                       *)

CounterStep(t, from, to) ==
    /\ main # "dead"
    /\ step[t] = from /\ step' = [step EXCEPT ![t] = to]
    /\ UNCHANGED <<main, handled, threads, ptr2, childVars>>

\* Mutant: the limit of the loop is 65536.
More_Inclusive(t) == count[t] <= Limit

More(t) == count[t] < Limit

\* Mutant: the mutex is not looked at.
Lock_Never(t) ==
    /\ CounterStep(t, "loop", "load") /\ More(t)
    /\ mutexVar' = t
    /\ UNCHANGED <<count, reg, commonVar>>

Lock(t) ==
    /\ CounterStep(t, "loop", "load") /\ More(t)
    /\ mutexVar = "free" /\ mutexVar' = t
    /\ UNCHANGED <<count, reg, commonVar>>

\* commonVar += 1 loads and stores.
Load(t) ==
    /\ CounterStep(t, "load", "store")
    /\ reg' = [reg EXCEPT ![t] = commonVar]
    /\ UNCHANGED <<count, mutexVar, commonVar>>

Add(t) ==
    /\ CounterStep(t, "store", "unlock")
    /\ commonVar' = reg[t] + 1
    /\ UNCHANGED <<count, reg, mutexVar>>

\* Mutant: the mutex is not given back.
Unlock_Keep(t) ==
    /\ CounterStep(t, "unlock", "loop")
    /\ mutexVar' = mutexVar
    /\ count' = [count EXCEPT ![t] = IF t = "calSub" THEN (@ + 1) % U16 ELSE @ + 1]
    /\ UNCHANGED <<reg, commonVar>>

\* calSum counts in 32 bits, calSub in 16.
Unlock(t) ==
    /\ CounterStep(t, "unlock", "loop")
    /\ mutexVar' = "free"
    /\ count' = [count EXCEPT ![t] = IF t = "calSub" THEN (@ + 1) % U16 ELSE @ + 1]
    /\ UNCHANGED <<reg, commonVar>>

Finish(t) ==
    /\ CounterStep(t, "loop", "end") /\ ~More(t)
    /\ UNCHANGED <<count, reg, mutexVar, commonVar>>

Count(t) == Lock(t) \/ Load(t) \/ Add(t) \/ Unlock(t) \/ Finish(t)

-----------------------------------------------------------------------------
(* sockFD and messageQueue: IpcDemo has their steps.                       *)

SocketEnds ==
    /\ main # "dead" /\ runSocket = "runs" /\ runSocket' = "ended"
    /\ UNCHANGED <<main, handled, runMsgQueue, counting, ptr2, childVars>>

\* A failing call of sockFD exits, lines 66-120, and so does one that a signal
\* interrupts.
SocketExits ==
    /\ main # "dead" /\ runSocket = "runs" /\ main' = "dead"
    /\ UNCHANGED <<handled, threads, counting, ptr2, childVars>>

\* By a message, a removed queue, or a signal.
MsgQueueEnds ==
    /\ main # "dead" /\ runMsgQueue = "runs" /\ runMsgQueue' = "ended"
    /\ UNCHANGED <<main, handled, runSocket, counting, ptr2, childVars>>

\* Signal 10 (external). Its handler, lines 272-275, only prints; before line
\* 309 it ends the process.
Signal ==
    /\ main # "dead" /\ ~handled /\ main' = "dead"
    /\ UNCHANGED <<handled, threads, counting, ptr2, childVars>>

-----------------------------------------------------------------------------
(* main, lines 278-339.                                                    *)

MainStep(from, to) == main = from /\ main' = to

\* Lines 287-304.
CreateSockets ==
    /\ MainStep("create", "sigaction")
    /\ runSocket' = "runs" /\ runMsgQueue' = "runs"
    /\ UNCHANGED <<handled, counting, ptr2, childVars>>

\* Lines 306-309.
SigAction ==
    /\ MainStep("sigaction", "count")
    /\ handled' = TRUE
    /\ UNCHANGED <<threads, counting, ptr2, childVars>>

\* Lines 311-312.
CreateCounters ==
    /\ MainStep("count", "fork")
    /\ step' = [t \in Counters |-> "loop"]
    /\ UNCHANGED <<handled, threads, count, reg, mutexVar, commonVar, ptr2, childVars>>

\* Line 315. The child has this thread only, and a copy of the memory as it is.
Fork ==
    /\ MainStep("fork", "joinMsgQueue")
    /\ child' = "create"
    /\ copy' = [var |-> commonVar, ptr |-> IF step["calSub"] = "end" THEN "a" ELSE "null"]
    /\ UNCHANGED <<handled, threads, counting, ptr2, thread4>>

\* fork fails: pid is -1, and the parent goes on.
ForkFails ==
    /\ MainStep("fork", "joinMsgQueue")
    /\ UNCHANGED <<handled, threads, counting, ptr2, childVars>>

\* Lines 326-329.
Join ==
    /\ \/ MainStep("joinMsgQueue", "joinSocket") /\ runMsgQueue = "ended" /\ ptr2' = ptr2
       \/ MainStep("joinSocket", "joinSum") /\ runSocket = "ended" /\ ptr2' = ptr2
       \/ MainStep("joinSum", "joinSub") /\ step["calSum"] = "end" /\ ptr2' = ptr2
       \/ MainStep("joinSub", "joinThread4") /\ step["calSub"] = "end" /\ ptr2' = "a"
    /\ UNCHANGED <<handled, threads, counting, childVars>>

\* Line 333: thread4 is uninitialised in the parent, and the join may return,
\* wait or crash.
JoinThread4 ==
    /\ \/ MainStep("joinThread4", "print")
       \/ MainStep("joinThread4", "hang")
       \/ MainStep("joinThread4", "dead")
    /\ UNCHANGED <<handled, threads, counting, ptr2, childVars>>

\* Lines 334-338: the value behind ptr2 and the sum are printed.
PrintSum ==
    /\ main = "print" /\ main' = IF ptr2 = "a" THEN "spin" ELSE "dead"
    /\ UNCHANGED <<handled, threads, counting, ptr2, childVars>>

-----------------------------------------------------------------------------
(* The child, lines 316-338, and newPro, lines 259-270.                    *)

ChildStep(from, to) ==
    /\ child = from /\ child' = to
    /\ UNCHANGED <<main, handled, threads, counting, ptr2, copy>>

ChildCreate == ChildStep("create", "join") /\ thread4 = "none" /\ thread4' = "runs"

\* execv replaces the whole process.
NewProExec == ChildStep("join", "exec") /\ thread4 = "runs" /\ UNCHANGED thread4

NewProFails == ChildStep("join", "join") /\ thread4 = "runs" /\ thread4' = "ended"

\* The joins of threads that fork did not copy return at once, those of lines
\* 326-329 with what the ended ones left in the memory.
ChildJoin == ChildStep("join", "print") /\ thread4 = "ended" /\ UNCHANGED thread4

ChildPrint ==
    /\ ChildStep("print", IF copy.ptr = "a" THEN "spin" ELSE "crash")
    /\ UNCHANGED thread4

-----------------------------------------------------------------------------

Main ==
    \/ CreateSockets \/ SigAction \/ CreateCounters \/ Fork \/ ForkFails
    \/ Join \/ JoinThread4 \/ PrintSum

Child == ChildCreate \/ NewProExec \/ NewProFails \/ ChildJoin \/ ChildPrint

ThreadNext ==
    \/ \E t \in Counters : Count(t)
    \/ SocketEnds \/ SocketExits \/ MsgQueueEnds \/ Signal
    \/ Main \/ Child

ThreadSpec == ThreadInit /\ [][ThreadNext]_threadVars

\* Threads run, and a mutex that stays free is obtained. Whether sockFD and
\* messageQueue end is up to the clients.
ThreadFairSpec ==
    /\ ThreadSpec
    /\ \A t \in Counters : WF_threadVars(Count(t))
    /\ WF_threadVars(Main)

-----------------------------------------------------------------------------
(* Properties.                                                             *)

\* The increments a counter has made.
Done(t) == count[t] + IF step[t] = "unlock" THEN 1 ELSE 0

\* What the sums rest on: who is between lock and unlock holds the mutex, what it
\* has loaded is not stale, and commonVar has every increment once.
MutexInv ==
    \A t \in Counters :
        /\ step[t] \in {"load", "store", "unlock"} <=> mutexVar = t
        /\ step[t] = "store" => reg[t] = commonVar
        /\ step[t] \in {"load", "store", "unlock"} => count[t] < Limit
        /\ step[t] = "end" => count[t] = Limit

SumInv == commonVar = 10 + Done("calSum") + Done("calSub")

JoinInv ==
    /\ main \in {"create", "sigaction", "count"} => \A t \in Counters : step[t] = "none"
    /\ main \in {"joinSub"} \cup Joined => step["calSum"] = "end"
    /\ main \in Joined => step["calSub"] = "end" /\ ptr2 = "a"

CopyInv ==
    /\ copy.ptr = "a" => copy.var \in 10 + Limit .. 10 + 2 * Limit
    /\ child = "spin" => copy.ptr = "a"

IndInv == ThreadTypeOK /\ MutexInv /\ SumInv /\ JoinInv /\ CopyInv

\* Lines 328-335: once the counters are joined no increment is lost, and line
\* 334 has an address to read.
SumIsComplete ==
    main \in Joined => commonVar = 10 + 2 * Limit /\ ptr2 = "a"

\* A child whose execv failed and that comes to line 335 shows a sum with all of
\* calSub's increments in it: it crashes at line 334 unless calSub had ended.
ChildSum == child = "spin" => copy.var \in 10 + Limit .. 10 + 2 * Limit

\* The counters come to their ends, though they share the mutex and calSub's
\* count has but 16 bits, so main never waits at lines 328-329 for ever.
JoinsEnd ==
    runSocket = "ended" /\ runMsgQueue = "ended" ~> main \in Joined \cup {"dead"}
=============================================================================
