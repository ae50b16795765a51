-------------------------- MODULE SwSerial_proofs --------------------------
(***************************************************************************)
(* Theorems about SwSerial for every ring size, every set of bytes, every  *)
(* set of calls and both placements of the task.                           *)
(***************************************************************************)
EXTENDS SwSerial, SequenceTheorems, TLAPS

USE ByteAssumption, SizeAssumption, OpsAssumption

-----------------------------------------------------------------------------
(* Arithmetic of the ring: % in terms of comparisons.                      *)

\* A negative number above -n, reduced modulo n.
LEMMA ModNegative ==
    ASSUME NEW n \in Nat \ {0}, NEW x \in Int, -n <= x, x < 0
    PROVE  x % n = x + n
  BY SMT

\* The sum of two residues, when it reaches the modulus.
LEMMA ModOver ==
    ASSUME NEW n \in Nat \ {0}, NEW x \in 0 .. n - 1, NEW y \in 0 .. n - 1, n <= x + y
    PROVE  (x + y) % n = x + y - n
  BY SMT

\* The successor of a slot (line 114) wraps once, at the end of the ring.
LEMMA SuccSlot ==
    ASSUME NEW p \in Slots
    PROVE  /\ Succ(p) = IF p + 1 = BuffSize THEN 0 ELSE p + 1
           /\ Succ(p) \in Slots
  <1>1. (p + 1) % BuffSize = IF p + 1 = BuffSize THEN 0 ELSE p + 1
    BY SMT DEF Slots
  <1>2. QED
    BY <1>1, SMT DEF Succ, Slots

\* The distance between two slots wraps once, when the write index is behind.
LEMMA DistSlot ==
    ASSUME NEW i \in Slots, NEW o \in Slots
    PROVE  /\ Dist(i, o) = IF i >= o THEN i - o ELSE i - o + BuffSize
           /\ Dist(i, o) \in Slots
  <1>1. CASE i >= o
    <2>1. i - o \in 0 .. BuffSize - 1
      BY <1>1, SMT DEF Slots
    <2>2. (i - o) % BuffSize = i - o
      BY <2>1, SMT
    <2>3. QED
      BY <1>1, <2>1, <2>2, SMT DEF Dist, Slots
  <1>2. CASE i < o
    <2>1. i - o \in Int /\ -BuffSize <= i - o /\ i - o < 0
      BY <1>2, SMT DEF Slots
    <2>2. (i - o) % BuffSize = i - o + BuffSize
      BY <2>1, SMT
    <2>3. QED
      BY <1>2, <2>1, <2>2, SMT DEF Dist, Slots
  <1>3. QED
    BY <1>1, <1>2, SMT DEF Slots

\* sw_any's arithmetic (lines 237-238), done in uint32_t and int, is the
\* distance of the two indices it loaded: neither conversion loses anything.
LEMMA AnyResultIsDist ==
    ASSUME NEW i \in Slots, NEW o \in Slots
    PROVE  AnyResult(i, o) = Dist(i, o)
  <1>1. CASE i >= o
    <2>1. i - o \in 0 .. WordSize - 1 /\ 2 * (i - o) < WordSize
      BY <1>1, SMT DEF Slots
    <2>2. Word(i - o) = i - o
      BY <2>1, SMT DEF Word
    <2>3. AnyResult(i, o) = i - o
      BY <2>1, <2>2, SMT DEF AnyResult, ToInt
    <2>4. QED
      BY <1>1, <2>3, DistSlot, SMT DEF Slots
  <1>2. CASE i < o
    <2>1. /\ i - o \in Int /\ -WordSize <= i - o /\ i - o < 0
          /\ 2 * (i - o + WordSize) >= WordSize
      BY <1>2, SMT DEF Slots
    <2>2. Word(i - o) = i - o + WordSize
      <3>1. WordSize \in Nat \ {0}
        BY SMT
      <3>2. (i - o) % WordSize = i - o + WordSize
        BY <2>1, <3>1, ModNegative, Zenon
      <3>3. QED
        BY <3>2, Zenon DEF Word
    <2>3. ToInt(Word(i - o)) = i - o
      BY <2>1, <2>2, SMT DEF ToInt
    <2>4. /\ i - o + BuffSize \in 0 .. WordSize - 1
          /\ 2 * (i - o + BuffSize) < WordSize
      BY <1>2, SMT DEF Slots
    <2>5. Word(i - o + BuffSize) = i - o + BuffSize
      BY <2>4, SMT DEF Word
    <2>6. AnyResult(i, o) = i - o + BuffSize
      BY <1>2, <2>1, <2>3, <2>4, <2>5, SMT DEF AnyResult, ToInt
    <2>7. QED
      BY <1>2, <2>6, DistSlot, SMT DEF Slots
  <1>3. QED
    BY <1>1, <1>2, SMT DEF Slots

\* Storing a byte when the ring is not full adds one unread byte.
LEMMA DistStore ==
    ASSUME NEW i \in Slots, NEW o \in Slots, Succ(i) # o
    PROVE  Dist(Succ(i), o) = Dist(i, o) + 1
  <1>1. Succ(i) \in Slots /\ Succ(i) = IF i + 1 = BuffSize THEN 0 ELSE i + 1
    BY SuccSlot
  <1>2. Dist(i, o) = IF i >= o THEN i - o ELSE i - o + BuffSize
    BY DistSlot
  <1>3. Dist(Succ(i), o) = IF Succ(i) >= o THEN Succ(i) - o ELSE Succ(i) - o + BuffSize
    BY <1>1, DistSlot
  <1>4. QED
    BY <1>1, <1>2, <1>3, SMT DEF Slots

\* Reading a byte when the ring is not empty removes one.
LEMMA DistRead ==
    ASSUME NEW i \in Slots, NEW o \in Slots, i # o
    PROVE  Dist(i, Succ(o)) = Dist(i, o) - 1
  <1>1. Succ(o) \in Slots /\ Succ(o) = IF o + 1 = BuffSize THEN 0 ELSE o + 1
    BY SuccSlot
  <1>2. Dist(i, o) = IF i >= o THEN i - o ELSE i - o + BuffSize
    BY DistSlot
  <1>3. Dist(i, Succ(o)) = IF i >= Succ(o) THEN i - Succ(o) ELSE i - Succ(o) + BuffSize
    BY <1>1, DistSlot
  <1>4. QED
    BY <1>1, <1>2, <1>3, SMT DEF Slots

\* Two slots with the same successor are the same slot.
LEMMA SuccInjective ==
    ASSUME NEW i \in Slots, NEW o \in Slots, Succ(i) = Succ(o)
    PROVE  i = o
  BY SuccSlot, SMT DEF Slots

-----------------------------------------------------------------------------
(* The invariant.                                                          *)

LEMMA InitIndInv == Init => IndInv
  <1> SUFFICES ASSUME Init PROVE IndInv
    OBVIOUS
  <1>1. 0 \in Slots /\ 0 \in 0 .. BuffSize - 1
    BY SMT DEF Slots
  <1>2. 0 <= Dist(inPos, outPos)
    BY <1>1, DistSlot, SMT DEF Init, Slots
  <1>3. TypeOK
    BY <1>1, Zenon DEF Init, TypeOK
  <1>4. HandlerLocals /\ TaskLocals /\ HandlerOpen /\ ReadStable /\ PeekStable
    BY Zenon DEF Init, HandlerLocals, TaskLocals, HandlerOpen, ReadStable, PeekStable
  <1>5. DrainServed
    BY <1>2, SMT DEF Init, DrainServed, Count
  <1>6. QED
    BY <1>3, <1>4, <1>5 DEF IndInv

\* The handler's steps.
LEMMA IsrIndInv ==
    ASSUME IndInv, Isr
    PROVE  IndInv'
  <1> USE DEF IndInv, TypeOK, HandlerLocals, TaskLocals, HandlerOpen,
              ReadStable, PeekStable, DrainServed, Count,
              life, ring, taskVars
  <1>1. CASE \E b \in Byte : RxFrame(b)
    <2>1. PICK b \in Byte : RxFrame(b)
      BY <1>1
    <2>2. Succ(inPos) \in Slots
      BY SuccSlot
    <2>3. QED
      BY <2>1, <2>2 DEF RxFrame
  <1>2. CASE RxCheck
    BY <1>2 DEF RxCheck
  <1>3. CASE RxStore
    BY <1>3 DEF RxStore
  <1>4. CASE RxPublish
    <2>1. /\ next = Succ(inPos) /\ next # outPos
          /\ inPos \in Slots /\ outPos \in Slots /\ snap \in Slots
      BY <1>4 DEF RxPublish
    <2>2. Dist(inPos, outPos)' = Dist(inPos, outPos) + 1
      BY <1>4, <2>1, DistStore DEF RxPublish
    <2>3. /\ Dist(inPos, outPos) \in 0 .. BuffSize - 1
          /\ Dist(snap, outPos) \in 0 .. BuffSize - 1
      BY <2>1, DistSlot DEF Slots
    <2>4. want' <= Dist(inPos, outPos)'
      BY <1>4, <2>2, <2>3, SMT DEF RxPublish
    <2>5. (pc = "any" => Dist(snap, outPos) <= Dist(inPos, outPos))'
      BY <1>4, <2>2, <2>3, SMT DEF RxPublish
    <2>6. QED
      BY <1>4, <2>1, <2>4, <2>5 DEF RxPublish
  <1>5. CASE RxOverflow
    BY <1>5 DEF RxOverflow
  <1>6. QED
    BY <1>1, <1>2, <1>3, <1>4, <1>5 DEF Isr, Handles

\* sw_new, sw_open, sw_stop and sw_del.
LEMMA LifecycleIndInv ==
    ASSUME IndInv, Lifecycle
    PROVE  IndInv'
  <1> USE DEF IndInv, TypeOK, HandlerLocals, TaskLocals, HandlerOpen,
              ReadStable, PeekStable, DrainServed, Count,
              life, ring, isrVars, taskVars, TaskRuns, Calls
  <1>1. CASE SwNew
    <2>1. 0 \in Slots /\ Dist(0, 0) \in Nat
      <3>1. 0 \in Slots
        BY SMT DEF Slots
      <3>2. QED
        BY <3>1, DistSlot, SMT DEF Slots
    <2>2. isrPc = "idle" /\ want = 0 /\ seen = SW_EOF
      BY <1>1 DEF SwNew
    <2>3. want' <= Dist(inPos, outPos)'
      BY <1>1, <2>1, <2>2, SMT DEF SwNew
    <2>4. QED
      BY <1>1, <2>1, <2>2, <2>3 DEF SwNew
  <1>2. CASE SwOpen
    BY <1>2 DEF SwOpen
  <1>3. CASE SwStop
    <2>1. SameCore /\ isrPc = "idle"
      BY <1>3, OpsAssumption DEF SwStop
    <2>2. QED
      BY <1>3, <2>1 DEF SwStop
  <1>4. CASE SwDel
    BY <1>4 DEF SwDel
  <1>5. QED
    BY <1>1, <1>2, <1>3, <1>4 DEF Lifecycle

\* sw_read.
LEMMA ReadIndInv ==
    ASSUME IndInv, Read
    PROVE  IndInv'
  <1> USE DEF IndInv, TypeOK, HandlerLocals, TaskLocals, HandlerOpen,
              ReadStable, PeekStable, DrainServed, Count,
              life, ring, isrVars, taskVars, TaskRuns, Calls
  <1>1. Dist(inPos, outPos) \in 0 .. BuffSize - 1
    BY DistSlot DEF Slots
  <1>2. /\ (IF want > 0 THEN want - 1 ELSE 0) \in 0 .. BuffSize - 1
        /\ (IF want > 0 THEN want - 1 ELSE 0) <= Dist(inPos, outPos)
        /\ inPos # outPos => (IF want > 0 THEN want - 1 ELSE 0) <= Dist(inPos, outPos) - 1
    <2>1. inPos # outPos => Dist(inPos, outPos) > 0
      <3>1. /\ inPos \in Slots /\ outPos \in Slots
            /\ Dist(inPos, outPos) =
                 IF inPos >= outPos THEN inPos - outPos ELSE inPos - outPos + BuffSize
        BY DistSlot
      <3>2. QED
        BY <3>1, SMT DEF Slots
    <2>2. QED
      BY <1>1, <2>1, SMT
  <1>3. CASE ReadEmpty
    BY <1>2, <1>3 DEF ReadEmpty
  <1>4. CASE ReadCheck
    BY <1>4 DEF ReadCheck
  <1>5. CASE ReadLoad
    BY <1>5 DEF ReadLoad
  <1>6. CASE ReadAdvance
    <2>1. inPos # outPos /\ Succ(outPos) \in Slots
      BY <1>6, SuccSlot DEF ReadAdvance
    <2>2. Dist(inPos, outPos)' = Dist(inPos, outPos) - 1
      BY <1>6, <2>1, DistRead DEF ReadAdvance
    <2>3. want' \in 0 .. BuffSize - 1 /\ want' <= Dist(inPos, outPos)'
      BY <1>2, <1>6, <2>1, <2>2, Zenon DEF ReadAdvance
    <2>4. isrPc \in {"store", "publish"} => next # Succ(outPos)
      BY <2>1, SuccInjective
    <2>5. QED
      BY <1>6, <2>1, <2>3, <2>4 DEF ReadAdvance
  <1>7. QED
    BY <1>3, <1>4, <1>5, <1>6 DEF Read

\* sw_any.
LEMMA AnyIndInv ==
    ASSUME IndInv, Any
    PROVE  IndInv'
  <1> USE DEF IndInv, TypeOK, HandlerLocals, TaskLocals, HandlerOpen,
              ReadStable, PeekStable, DrainServed, Count,
              life, ring, isrVars, taskVars, TaskRuns, Calls
  <1>1. Dist(inPos, outPos) \in 0 .. BuffSize - 1 /\ Dist(snap, outPos) \in 0 .. BuffSize - 1
    BY DistSlot DEF Slots
  <1>2. CASE AnyLoad
    <2>1. Dist(snap, outPos)' <= Dist(inPos, outPos)'
      BY <1>1, <1>2, SMT DEF AnyLoad
    <2>2. QED
      BY <1>2, <2>1 DEF AnyLoad
  <1>3. CASE AnyReturn
    <2>1. want' = Dist(snap, outPos)
      BY <1>3, AnyResultIsDist DEF AnyReturn
    <2>2. QED
      BY <1>1, <1>3, <2>1 DEF AnyReturn
  <1>4. QED
    BY <1>2, <1>3 DEF Any

\* sw_peek.
LEMMA PeekIndInv ==
    ASSUME IndInv, Peek
    PROVE  IndInv'
  <1> USE DEF IndInv, TypeOK, HandlerLocals, TaskLocals, HandlerOpen,
              ReadStable, PeekStable, DrainServed, Count,
              life, ring, isrVars, taskVars, TaskRuns, Calls
  <1>1. CASE PeekEmpty
    BY <1>1 DEF PeekEmpty
  <1>2. CASE PeekCheck
    BY <1>2 DEF PeekCheck
  <1>3. CASE PeekLoad
    BY <1>3 DEF PeekLoad
  <1>4. QED
    BY <1>1, <1>2, <1>3 DEF Peek

\* sw_flush: its steps happen outside the handler, so they cannot make the
\* handler's copies stale.
LEMMA FlushIndInv ==
    ASSUME IndInv, Flush
    PROVE  IndInv'
  <1> USE DEF IndInv, TypeOK, HandlerLocals, TaskLocals, HandlerOpen,
              ReadStable, PeekStable, DrainServed, Count,
              life, ring, isrVars, taskVars, TaskRuns, Calls
  <1>1. 0 \in Slots
    BY SMT DEF Slots
  <1>2. SameCore /\ isrPc = "idle" /\ want = 0
    BY OpsAssumption DEF Flush, FlushOut, FlushIn, FlushFlag
  <1>3. Dist(inPos, 0) \in Nat /\ Dist(0, 0) \in Nat
    BY <1>1, DistSlot, SMT DEF Slots
  <1>4. CASE FlushOut
    <2>1. want' <= Dist(inPos, outPos)'
      BY <1>2, <1>3, <1>4, SMT DEF FlushOut
    <2>2. QED
      BY <1>1, <1>2, <1>4, <2>1 DEF FlushOut
  <1>5. CASE FlushIn
    <2>1. want' <= Dist(inPos, outPos)'
      BY <1>2, <1>3, <1>5, SMT DEF FlushIn
    <2>2. QED
      BY <1>1, <1>2, <1>5, <2>1 DEF FlushIn
  <1>6. CASE FlushFlag
    BY <1>6 DEF FlushFlag
  <1>7. QED
    BY <1>4, <1>5, <1>6 DEF Flush

LEMMA NextIndInv == IndInv /\ [Next]_vars => IndInv'
  <1> SUFFICES ASSUME IndInv, [Next]_vars PROVE IndInv'
    OBVIOUS
  <1>1. CASE Isr
    BY <1>1, IsrIndInv
  <1>2. CASE Task
    BY <1>2, LifecycleIndInv, ReadIndInv, AnyIndInv, PeekIndInv, FlushIndInv DEF Task
  <1>3. CASE UNCHANGED vars
    BY <1>3 DEF IndInv, TypeOK, HandlerLocals, TaskLocals, HandlerOpen, ReadStable,
      PeekStable, DrainServed, Count, vars, life, ring, isrVars, taskVars
  <1>4. QED
    BY <1>1, <1>2, <1>3 DEF Next

THEOREM Invariance == Spec => []IndInv
  <1>1. QED
    BY InitIndInv, NextIndInv, PTL DEF Spec

\* Each part of the invariant that states what callers rely on.

\* Indices stay inside the ring, and every local keeps its type.
THEOREM TypeCorrect == Spec => []TypeOK
  BY Invariance, PTL DEF IndInv

\* sw_read returns the byte it loaded, which was the oldest one all along.
THEOREM ReadIsStable == Spec => []ReadStable
  BY Invariance, PTL DEF IndInv

\* A peeked byte is the next byte read.
THEOREM PeekIsStable == Spec => []PeekStable
  BY Invariance, PTL DEF IndInv

\* sw_any never promises a byte that is not there.
THEOREM DrainIsServed == Spec => []DrainServed
  BY Invariance, PTL DEF IndInv

\* The handler never runs without its object.
THEOREM HandlerIsSafe == Spec => []HandlerHasObject
  <1>1. IndInv => HandlerHasObject
    BY DEF IndInv, HandlerOpen, HandlerHasObject
  <1>2. QED
    BY <1>1, Invariance, PTL

-----------------------------------------------------------------------------
(* The ring as a sequence.                                                 *)

LEMMA SlotAfterIs ==
    ASSUME NEW o \in Slots, NEW k \in Slots
    PROVE  /\ SlotAfter(o, k) = IF o + k < BuffSize THEN o + k ELSE o + k - BuffSize
           /\ SlotAfter(o, k) \in Slots
  <1>1. CASE o + k < BuffSize
    <2>1. o + k \in 0 .. BuffSize - 1
      BY <1>1, SMT DEF Slots
    <2>2. (o + k) % BuffSize = o + k
      BY <2>1, SMT
    <2>3. QED
      BY <1>1, <2>1, <2>2, SMT DEF SlotAfter, Slots
  <1>2. CASE BuffSize <= o + k
    <2>1. o + k \in Int /\ BuffSize <= o + k /\ o + k < 2 * BuffSize
      BY <1>2, SMT DEF Slots
    <2>2. (o + k) % BuffSize = o + k - BuffSize
      <3>1. BuffSize \in Nat \ {0}
        BY SMT
      <3>2. QED
        BY <1>2, <3>1, ModOver, Zenon DEF Slots
    <2>3. QED
      BY <1>2, <2>1, <2>2, SMT DEF SlotAfter, Slots
  <1>3. QED
    BY <1>1, <1>2, SMT DEF Slots

\* A segment is a sequence of bytes, as long as its ends are apart.
LEMMA SegmentType ==
    ASSUME NEW buf \in [Slots -> Byte], NEW i \in Slots, NEW o \in Slots
    PROVE  /\ Segment(buf, i, o) \in Seq(Byte)
           /\ Len(Segment(buf, i, o)) = Dist(i, o)
  <1>1. Dist(i, o) \in Slots
    BY DistSlot
  <1>2. ASSUME NEW k \in 1 .. Dist(i, o)
        PROVE  buf[SlotAfter(o, k - 1)] \in Byte
    <2>1. k - 1 \in Slots
      BY <1>1, SMT DEF Slots
    <2>2. QED
      BY <2>1, SlotAfterIs
  <1>3. Dist(i, o) \in Nat
    BY <1>1, SMT DEF Slots
  <1>4. QED
    BY <1>2, <1>3, SMT DEF Segment

\* Writing the slot at the upper end does not change the segment.
LEMMA SegmentStore ==
    ASSUME NEW buf \in [Slots -> Byte], NEW i \in Slots, NEW o \in Slots, NEW b \in Byte
    PROVE  Segment([buf EXCEPT ![i] = b], i, o) = Segment(buf, i, o)
  <1>1. ASSUME NEW k \in 1 .. Dist(i, o)
        PROVE  SlotAfter(o, k - 1) \in Slots /\ SlotAfter(o, k - 1) # i
    <2>1. Dist(i, o) \in Slots /\ Dist(i, o) = IF i >= o THEN i - o ELSE i - o + BuffSize
      BY DistSlot
    <2>2. k - 1 \in Slots
      BY <2>1, SMT DEF Slots
    <2>3. /\ SlotAfter(o, k - 1) \in Slots
          /\ SlotAfter(o, k - 1) =
               IF o + (k - 1) < BuffSize THEN o + (k - 1) ELSE o + (k - 1) - BuffSize
      BY <2>2, SlotAfterIs
    <2>4. QED
      BY <2>1, <2>3, SMT DEF Slots
  <1>2. QED
    BY <1>1, Zenon DEF Segment

\* Advancing the upper end appends the byte in its slot.
LEMMA SegmentAppend ==
    ASSUME NEW buf \in [Slots -> Byte], NEW i \in Slots, NEW o \in Slots, Succ(i) # o
    PROVE  Segment(buf, Succ(i), o) = Segment(buf, i, o) \o <<buf[i]>>
  <1> DEFINE n == Dist(i, o)
             s == Segment(buf, i, o)
  <1>1. n \in Slots /\ n \in Nat /\ n = IF i >= o THEN i - o ELSE i - o + BuffSize
    <2>1. n \in Slots /\ n = IF i >= o THEN i - o ELSE i - o + BuffSize
      BY DistSlot
    <2>2. QED
      BY <2>1, SMT DEF Slots
  <1>2. SlotAfter(o, n) = i
    <2>1. SlotAfter(o, n) = IF o + n < BuffSize THEN o + n ELSE o + n - BuffSize
      BY <1>1, SlotAfterIs
    <2> HIDE DEF n
    <2>2. QED
      BY <1>1, <2>1, SMT DEF Slots
  <1>3. Dist(Succ(i), o) = n + 1
    BY DistStore
  <1>4. s \in Seq(Byte) /\ Len(s) = n /\ s = [k \in 1 .. n |-> buf[SlotAfter(o, k - 1)]]
    BY SegmentType DEF Segment
  <1>5. s \o <<buf[i]>> = [k \in 1 .. n + 1 |-> buf[SlotAfter(o, k - 1)]]
    <2> HIDE DEF n, s
    <2>1. s \o <<buf[i]>> = [k \in 1 .. n + 1 |-> IF k <= n THEN s[k] ELSE buf[i]]
      BY <1>1, <1>4, SMT
    <2>2. ASSUME NEW k \in 1 .. n + 1
          PROVE  (IF k <= n THEN s[k] ELSE buf[i]) = buf[SlotAfter(o, k - 1)]
      <3>1. CASE k <= n
        BY <1>1, <1>4, <3>1, SMT
      <3>2. CASE ~(k <= n)
        <4>1. k - 1 = n
          BY <1>1, <3>2, SMT
        <4>2. QED
          BY <1>2, <3>2, <4>1
      <3>3. QED
        BY <3>1, <3>2
    <2>3. QED
      BY <2>1, <2>2, Zenon
  <1>6. QED
    BY <1>3, <1>5 DEF Segment

\* Advancing the lower end removes the first byte, the one in its slot.
LEMMA SegmentTail ==
    ASSUME NEW buf \in [Slots -> Byte], NEW i \in Slots, NEW o \in Slots, i # o
    PROVE  /\ Segment(buf, i, o) # <<>>
           /\ Head(Segment(buf, i, o)) = buf[o]
           /\ Tail(Segment(buf, i, o)) = Segment(buf, i, Succ(o))
  <1> DEFINE n == Dist(i, o)
             s == Segment(buf, i, o)
  <1>1. n \in Slots /\ n \in Nat /\ n > 0
    <2>1. n \in Slots /\ n = IF i >= o THEN i - o ELSE i - o + BuffSize
      BY DistSlot
    <2>2. QED
      BY <2>1, SMT DEF Slots
  <1>2. Dist(i, Succ(o)) = n - 1
    BY DistRead
  <1>3. s \in Seq(Byte) /\ Len(s) = n /\ s = [k \in 1 .. n |-> buf[SlotAfter(o, k - 1)]]
    BY SegmentType DEF Segment
  <1>4. SlotAfter(o, 0) = o
    BY SlotAfterIs, SMT DEF Slots
  <1>5. ASSUME NEW k \in 1 .. n - 1
        PROVE  SlotAfter(Succ(o), k - 1) = SlotAfter(o, k)
    <2>1. Succ(o) \in Slots /\ Succ(o) = IF o + 1 = BuffSize THEN 0 ELSE o + 1
      BY SuccSlot
    <2>2. k \in Slots /\ k - 1 \in Slots
      BY <1>1, SMT DEF Slots
    <2>3. SlotAfter(o, k) = IF o + k < BuffSize THEN o + k ELSE o + k - BuffSize
      BY <2>2, SlotAfterIs
    <2>4. SlotAfter(Succ(o), k - 1) =
            IF Succ(o) + (k - 1) < BuffSize THEN Succ(o) + (k - 1)
            ELSE Succ(o) + (k - 1) - BuffSize
      BY <2>1, <2>2, SlotAfterIs
    <2>5. QED
      BY <2>1, <2>2, <2>3, <2>4, SMT DEF Slots
  <1>6. Tail(s) = [k \in 1 .. n - 1 |-> s[k + 1]]
    <2> HIDE DEF n, s
    <2>1. QED
      BY <1>1, <1>3, SMT
  <1>7. ASSUME NEW k \in 1 .. n - 1
        PROVE  s[k + 1] = buf[SlotAfter(Succ(o), k - 1)]
    <2> HIDE DEF n, s
    <2>1. k + 1 \in 1 .. n /\ (k + 1) - 1 = k
      BY <1>1, SMT
    <2>2. QED
      BY <1>3, <1>5, <2>1
  <1>8. Tail(s) = Segment(buf, i, Succ(o))
    BY <1>2, <1>6, <1>7, Zenon DEF Segment
  <1>9. s # <<>> /\ Head(s) = buf[o]
    <2> HIDE DEF n, s
    <2>1. s # <<>>
      <3>1. Len(s) # 0
        BY <1>1, <1>3, SMT
      <3>2. QED
        BY <1>3, <3>1, EmptySeq
    <2>2. 1 \in 1 .. n /\ 1 - 1 = 0
      BY <1>1, SMT
    <2>3. Head(s) = s[1]
      BY <1>1, <1>3, SMT
    <2>4. s[1] = buf[o]
      BY <1>3, <1>4, <2>2
    <2>5. QED
      BY <2>1, <2>3, <2>4
  <1>10. QED
    BY <1>8, <1>9

\* A segment whose ends meet is empty.
LEMMA SegmentEmpty ==
    ASSUME NEW buf, NEW i \in Slots
    PROVE  Segment(buf, i, i) = <<>>
  <1>1. Dist(i, i) = 0
    BY DistSlot, SMT DEF Slots
  <1>2. QED
    BY <1>1, SMT DEF Segment

-----------------------------------------------------------------------------
(* The ring implements the queue.                                          *)

LEMMA InitRefines == Init => Fifo!Init
  <1> SUFFICES ASSUME Init PROVE Fifo!Init
    OBVIOUS
  <1>1. Segment(buffer, inPos, outPos) = <<>>
    <2>1. 0 \in Slots
      BY SMT DEF Slots
    <2>2. QED
      BY <2>1, SegmentEmpty DEF Init
  <1>2. QED
    BY <1>1 DEF Init, Fifo!Init, Unread, Inflight, Flushing

\* What a queue step may depend on, when it does not change.
LEMMA StutterRefines ==
    ASSUME UNCHANGED <<pc, buffer, inPos, outPos, overflow, ret, isrPc, rec>>
    PROVE  UNCHANGED Fifo!vars
  BY DEF Fifo!vars, Unread, Inflight, Flushing

\* The handler: a frame arrives, is accepted when its index is published, and
\* is rejected when the test of line 115 finds the ring full.
LEMMA IsrRefines ==
    ASSUME IndInv, Isr
    PROVE  [Fifo!Next]_(Fifo!vars)
  <1> USE DEF life, ring, taskVars
  <1>1. /\ inPos \in Slots /\ outPos \in Slots /\ buffer \in [Slots -> Byte]
        /\ rec \in Byte /\ BuffSize \in Nat \ {0}
    BY DEF IndInv, TypeOK
  <1>2. /\ Segment(buffer, inPos, outPos) \in Seq(Byte)
        /\ Len(Segment(buffer, inPos, outPos)) = Dist(inPos, outPos)
    BY <1>1, SegmentType
  <1>3. CASE \E b \in Byte : RxFrame(b)
    <2>1. PICK b \in Byte : RxFrame(b)
      BY <1>3
    <2>2. Fifo!Arrive(b)
      BY <2>1 DEF RxFrame, Fifo!Arrive, Unread, Inflight, Flushing
    <2>3. QED
      BY <2>2 DEF Fifo!Next
  <1>4. CASE RxCheck
    <2>1. CASE next # outPos
      BY <1>4, <2>1 DEF RxCheck, Fifo!vars, Unread, Inflight, Flushing
    <2>2. CASE next = outPos
      <3>1. Succ(inPos) = outPos
        BY <1>4, <2>2 DEF RxCheck, IndInv, HandlerLocals
      <3>2. Dist(inPos, outPos) = BuffSize - 1
        <4>1. Succ(inPos) = IF inPos + 1 = BuffSize THEN 0 ELSE inPos + 1
          BY <1>1, SuccSlot
        <4>2. Dist(inPos, outPos) =
                IF inPos >= outPos THEN inPos - outPos ELSE inPos - outPos + BuffSize
          BY <1>1, DistSlot
        <4>3. QED
          BY <1>1, <3>1, <4>1, <4>2, SMT DEF Slots
      <3>3. Len(Unread) = BuffSize - 1 \/ Flushing = "discard"
        BY <1>2, <3>2 DEF Unread, Flushing
      <3>4. Inflight # <<>> /\ Inflight' = <<>>
        BY <1>4, <2>2 DEF RxCheck, Inflight
      <3>5. Fifo!Reject
        BY <1>4, <2>2, <3>3, <3>4 DEF RxCheck, Fifo!Reject, Unread, Flushing
      <3>6. QED
        BY <3>5 DEF Fifo!Next
    <2>3. QED
      BY <2>1, <2>2
  <1>5. CASE RxStore
    <2>1. Segment(buffer, inPos, outPos)' = Segment(buffer, inPos, outPos)
      BY <1>1, <1>5, SegmentStore DEF RxStore
    <2>2. QED
      BY <1>5, <2>1 DEF RxStore, Fifo!vars, Unread, Inflight, Flushing
  <1>6. CASE RxPublish
    <2>1. next = Succ(inPos) /\ Succ(inPos) # outPos /\ buffer[inPos] = rec
      BY <1>6 DEF RxPublish, IndInv, HandlerLocals
    <2>2. Segment(buffer, inPos, outPos)' = Segment(buffer, inPos, outPos) \o <<rec>>
      BY <1>1, <1>6, <2>1, SegmentAppend DEF RxPublish
    <2>3. Dist(inPos, outPos) < BuffSize - 1 /\ 0 < BuffSize - 1
      <3>1. /\ Dist(inPos, outPos) + 1 = Dist(Succ(inPos), outPos)
            /\ Dist(inPos, outPos) \in Slots /\ Dist(Succ(inPos), outPos) \in Slots
        BY <1>1, <2>1, DistStore, DistSlot, SuccSlot
      <3>2. QED
        BY <1>1, <3>1, SMT DEF Slots
    <2>4. Len(Unread) < BuffSize - 1
      <3>1. Len(<<>>) = 0
        BY SMT
      <3>2. QED
        BY <1>2, <2>3, <3>1 DEF Unread
    <2>5. Inflight = <<rec>> /\ Inflight' = <<>> /\ Inflight # <<>>
      BY <1>6 DEF RxPublish, Inflight
    <2>6. Unread' = IF Flushing = "discard" THEN Unread ELSE Unread \o Inflight
      BY <1>6, <2>2, <2>5 DEF RxPublish, Unread, Flushing
    <2>7. Fifo!Accept
      BY <1>6, <2>4, <2>5, <2>6 DEF RxPublish, Fifo!Accept, Flushing
    <2>8. QED
      BY <2>7 DEF Fifo!Next
  <1>7. CASE RxOverflow
    <2>1. Fifo!Flag
      BY <1>7 DEF RxOverflow, Fifo!Flag, Unread, Inflight, Flushing
    <2>2. QED
      BY <2>1 DEF Fifo!Next
  <1>8. QED
    BY <1>3, <1>4, <1>5, <1>6, <1>7 DEF Isr, Handles

\* The task: a read takes the head when it moves outPos, a flush empties the
\* queue when it resets outPos and ends with the flag.
LEMMA TaskRefines ==
    ASSUME IndInv, Task
    PROVE  [Fifo!Next]_(Fifo!vars)
  <1> USE DEF life, ring, isrVars, taskVars, Calls, TaskRuns
  <1>1. /\ inPos \in Slots /\ outPos \in Slots /\ buffer \in [Slots -> Byte]
        /\ 0 \in Slots
    BY SMT DEF IndInv, TypeOK, Slots
  <1>2. CASE SwNew
    <2>1. isrPc = "idle"
      BY <1>2 DEF SwNew, IndInv, HandlerOpen
    <2>2. Unread' = <<>>
      BY <1>1, <1>2, SegmentEmpty DEF SwNew, Unread
    <2>3. Fifo!Renew
      BY <1>2, <2>1, <2>2 DEF SwNew, Fifo!Renew, Inflight, Flushing
    <2>4. QED
      BY <2>3 DEF Fifo!Next
  <1>3. CASE SwOpen \/ SwStop \/ SwDel
    BY <1>3, StutterRefines DEF SwOpen, SwStop, SwDel
  <1>4. CASE ReadEmpty
    <2>1. Unread = <<>>
      BY <1>1, <1>4, SegmentEmpty DEF ReadEmpty, Unread
    <2>2. Fifo!TakeNone
      BY <1>4, <2>1 DEF ReadEmpty, Fifo!TakeNone, Unread, Inflight, Flushing
    <2>3. QED
      BY <2>2 DEF Fifo!Next
  <1>5. CASE ReadCheck \/ ReadLoad
    BY <1>5 DEF ReadCheck, ReadLoad, Fifo!vars, Unread, Inflight, Flushing
  <1>6. CASE ReadAdvance
    <2>1. inPos # outPos /\ ch = buffer[outPos]
      BY <1>6 DEF ReadAdvance, IndInv, ReadStable
    <2>2. /\ Segment(buffer, inPos, outPos) # <<>>
          /\ Head(Segment(buffer, inPos, outPos)) = ch
          /\ Tail(Segment(buffer, inPos, outPos)) = Segment(buffer, inPos, outPos)'
      BY <1>1, <1>6, <2>1, SegmentTail DEF ReadAdvance
    <2>3. Unread # <<>> /\ Head(Unread) = ch /\ Tail(Unread) = Unread'
      BY <1>6, <2>2 DEF ReadAdvance, Unread
    <2>4. Fifo!Take
      BY <1>6, <2>3 DEF ReadAdvance, Fifo!Take, Inflight, Flushing
    <2>5. QED
      BY <2>4 DEF Fifo!Next
  <1>7. CASE Any
    BY <1>7 DEF Any, AnyLoad, AnyReturn, Fifo!vars, Unread, Inflight, Flushing
  <1>8. CASE Peek
    BY <1>8 DEF Peek, PeekEmpty, PeekCheck, PeekLoad, Fifo!vars, Unread, Inflight, Flushing
  <1>9. CASE FlushOut
    <2>1. Fifo!FlushBegin
      BY <1>9 DEF FlushOut, Fifo!FlushBegin, Unread, Inflight, Flushing
    <2>2. QED
      BY <2>1 DEF Fifo!Next
  <1>10. CASE FlushIn
    <2>1. Unread = <<>> /\ Unread' = <<>>
      BY <1>1, <1>10, SegmentEmpty DEF FlushIn, Unread, IndInv, TaskLocals
    <2>2. Fifo!FlushEmptied
      BY <1>10, <2>1 DEF FlushIn, Fifo!FlushEmptied, Inflight, Flushing
    <2>3. QED
      BY <2>2 DEF Fifo!Next
  <1>11. CASE FlushFlag
    <2>1. Fifo!FlushEnd
      BY <1>11 DEF FlushFlag, Fifo!FlushEnd, Unread, Inflight, Flushing
    <2>2. QED
      BY <2>1 DEF Fifo!Next
  <1>12. QED
    BY <1>2, <1>3, <1>4, <1>5, <1>6, <1>7, <1>8, <1>9, <1>10, <1>11
      DEF Task, Lifecycle, Read, Flush

\* For every ring size and every interleaving the module allows, the ring is
\* a queue of BuffSize - 1 bytes: nothing is lost, duplicated or reordered
\* but by an overflow, which is flagged, or a flush.
THEOREM RingIsFifo == Spec => ImplementsFifo
  <1>1. IndInv /\ [Next]_vars => [Fifo!Next]_(Fifo!vars)
    <2> SUFFICES ASSUME IndInv, [Next]_vars PROVE [Fifo!Next]_(Fifo!vars)
      OBVIOUS
    <2>1. CASE UNCHANGED vars
      BY <2>1, StutterRefines DEF vars, life, ring, isrVars, taskVars
    <2>2. QED
      BY <2>1, IsrRefines, TaskRefines DEF Next
  <1>2. QED
    BY <1>1, InitRefines, Invariance, PTL DEF Spec, ImplementsFifo, Fifo!Spec

=============================================================================
