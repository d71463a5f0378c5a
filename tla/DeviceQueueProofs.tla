------------------------- MODULE DeviceQueueProofs -------------------------
(***************************************************************************)
(* The flow control of NetDeviceQueue loses no wake-up, counts the bytes   *)
(* in flight across the wrap of its totals, is never stopped with nothing  *)
(* left to complete and keeps the device near its limit, whatever the byte *)
(* limits, the width of the counters, the packet sizes and the capacity of *)
(* the device are, and whatever the undefined subtraction and the          *)
(* uninitialized m_adjLimit turn out to be.                                *)
(***************************************************************************)
EXTENDS DeviceQueue, SumTheorems

LEMMA StepKeepsWakeup == NoLostWakeup /\ [Next]_vars => NoLostWakeup'
  <1> SUFFICES ASSUME NoLostWakeup, [Next]_vars PROVE NoLostWakeup'
    OBVIOUS
  <1> USE DEF NoLostWakeup, IsStopped
  <1>1. CASE Arrive
    BY <1>1 DEF Arrive
  <1>2. ASSUME NEW size \in Sizes, Pass(size) PROVE NoLostWakeup'
    BY <1>2 DEF Pass
  <1>3. CASE FindStopped
    BY <1>3 DEF FindStopped
  <1>4. CASE Transmit
    <2> DEFINE sent == Head(inside)
    <2>1. PICK l \in Completed(m_queueLimits, sent) :
            /\ m_stoppedByQueueLimits' =
                 (m_stoppedByQueueLimits /\ Available(l) < 0)
            /\ disc' = IF Available(l) < 0 THEN disc ELSE "running"
      BY <1>4 DEF Transmit, NotifyTransmittedBytes
    <2>2. m_stoppedByDevice' = m_stoppedByDevice
      BY <1>4 DEF Transmit
    <2>3. CASE Available(l) < 0
      BY <2>1, <2>2, <2>3
    <2>4. CASE ~(Available(l) < 0)
      BY <2>1, <2>4
    <2> QED
      BY <2>3, <2>4
  <1>5. CASE Wake
    BY <1>5 DEF Wake
  <1>6. CASE ResetQueueLimits
    BY <1>6 DEF ResetQueueLimits
  <1>7. CASE HoldTime
    BY <1>7 DEF HoldTime
  <1>8. CASE UNCHANGED vars
    BY <1>8 DEF vars
  <1> QED
    BY <1>1, <1>2, <1>3, <1>4, <1>5, <1>6, <1>7, <1>8 DEF Next

(* A queue disc that waits for the wake callback always waits at a stopped *)
(* queue: NotifyTransmittedBytes and Wake never open it without the call.  *)
THEOREM NoWakeupLost == Spec => []NoLostWakeup
  <1>1. Init => NoLostWakeup
    BY DEF Init, NoLostWakeup
  <1> QED
    BY <1>1, StepKeepsWakeup, PTL DEF Spec

-----------------------------------------------------------------------------
(* Counters *)

Half == Word \div 2

LEMMA Words ==
  /\ Word \in Nat \ {0} /\ Half \in Nat \ {0} /\ Word = 2 * Half
  /\ MaxLimit \in Nat /\ MaxLimit < Half /\ MinLimit \in 0..(Word - 1)
  /\ Uint32 = 0..(Word - 1)
  BY LimitsAssumption DEF Half, UINTMAX, Uint32

LEMMA UnsignedIs ==
  ASSUME NEW x \in Int
  PROVE  Unsigned(x) \in Uint32 /\ (x \in 0..(Word - 1) => Unsigned(x) = x)
  BY Words, DivMod, ModSmall DEF Unsigned

LEMMA UnsignedSums ==
  ASSUME NEW x \in Int, NEW y \in Int
  PROVE  /\ Unsigned(Unsigned(x) + y) = Unsigned(x + y)
         /\ Unsigned(x - Unsigned(y)) = Unsigned(x - y)
  BY Words, ModPlus, ModLess DEF Unsigned

LEMMA SignedType ==
  ASSUME NEW a \in Uint32
  PROVE  Signed(a) \in Int /\ Signed(a) < Half /\ (a < Half => Signed(a) = a)
  BY Words DEF Signed, Half

(* A difference of less than half the word is read back as it is. *)
LEMMA SignedBack ==
  ASSUME NEW x \in Int, -Half <= x, x < Half
  PROVE  Signed(Unsigned(x)) = x
  <1>1. CASE x >= 0
    <2>1. x \in 0..(Word - 1) /\ x < Half
      BY <1>1, Words
    <2> QED
      BY <2>1, UnsignedIs, SignedType, Words
  <1>2. CASE x < 0
    <2> DEFINE y == x + Word
    <2>1. y \in 0..(Word - 1) /\ y >= Half /\ y \in Int
      BY <1>2, Words
    <2>2. Unsigned(x) = Unsigned(y)
      BY Words, ModAround DEF Unsigned
    <2> HIDE DEF y
    <2>3. Unsigned(y) = y
      BY <2>1, UnsignedIs
    <2>4. Signed(y) = y - Word
      BY <2>1 DEF Signed, Half
    <2> QED
      BY <2>2, <2>3, <2>4, Words DEF y
  <1> QED
    BY <1>1, <1>2

LEMMA PosdiffIs ==
  ASSUME NEW a \in Uint32, NEW b \in Uint32
  PROVE  /\ PosdiffOf(a, b) \in Nat
         /\ b < Half => PosdiffOf(a, b) \in Uint32
         /\ \A x \in Posdiff(a, b) : x \in Nat
  <1>1. Signed(a) \in Int /\ Signed(b) \in Int /\ Signed(a) < Half
    BY SignedType
  <1>2. b < Half => Signed(b) = b /\ b \in Nat
    BY SignedType, Words
  <1>3. PosdiffOf(a, b) = IF Signed(a) - Signed(b) >= 0 THEN Signed(a) - Signed(b)
                                                       ELSE 0
    BY DEF PosdiffOf, Larger
  <1> DEFINE wrapped == Signed(Unsigned(a - b))
  <1>4. a - b \in Int /\ Unsigned(a - b) \in Uint32 /\ wrapped \in Int
    BY Words, UnsignedIs, SignedType
  <1>5. Posdiff(a, b) = {IF wrapped >= 0 THEN wrapped ELSE 0,
                         IF Signed(a) > Signed(b) THEN Unsigned(wrapped) ELSE 0}
    BY DEF Posdiff, Larger
  <1> HIDE DEF wrapped
  <1>6. Unsigned(wrapped) \in Nat
    BY <1>4, UnsignedIs, Words
  <1> QED
    BY <1>1, <1>2, <1>3, <1>4, <1>5, <1>6, Words

(* With the limit in force, Available is the limit less what the device    *)
(* holds, as long as both are far below the word.                          *)
LEMMA AvailableIs ==
  ASSUME NEW l \in Limits, NEW bytes \in Nat, bytes <= Half,
         l.m_limit \in 0..MaxLimit,
         l.m_adjLimit = Unsigned(l.m_limit + l.m_numCompleted),
         InProgress(l) = Unsigned(bytes)
  PROVE  Available(l) = l.m_limit - bytes
  <1> DEFINE limit == l.m_limit
             q == l.m_numQueued
             c == l.m_numCompleted
  <1>1. limit \in Int /\ q \in Int /\ c \in Int /\ bytes \in Int
    BY Words DEF Limits
  <1>2. Available(l) = Signed(Unsigned(Unsigned(limit + c) - q))
    BY DEF Available
  <1>3. Unsigned(q - c) = Unsigned(bytes)
    BY DEF InProgress
  <1>4. limit \in 0..MaxLimit
    OBVIOUS
  <1> HIDE DEF limit, q, c
  <1>5. Unsigned(Unsigned(limit + c) + (0 - q)) = Unsigned((limit + c) + (0 - q))
    BY <1>1, UnsignedSums
  <1>6. /\ Unsigned(limit + c) + (0 - q) = Unsigned(limit + c) - q
        /\ (limit + c) + (0 - q) = limit - (q - c)
    BY <1>1, UnsignedIs, Words
  <1>7. Unsigned(limit - (q - c)) = Unsigned(limit - bytes)
    <2>1. Unsigned(limit - Unsigned(q - c)) = Unsigned(limit - (q - c))
      BY <1>1, UnsignedSums
    <2>2. Unsigned(limit - Unsigned(bytes)) = Unsigned(limit - bytes)
      BY <1>1, UnsignedSums
    <2> QED
      BY <1>3, <2>1, <2>2
  <1>8. Signed(Unsigned(limit - bytes)) = limit - bytes
    <2>1. limit - bytes \in Int /\ -Half <= limit - bytes /\ limit - bytes < Half
      BY <1>1, <1>4, Words
    <2> QED
      BY <2>1, SignedBack
  <1> QED
    BY <1>2, <1>5, <1>6, <1>7, <1>8 DEF limit

-----------------------------------------------------------------------------
(* The operations of the limits *)

LEMMA WithinBoundsIs ==
  ASSUME NEW x \in Int
  PROVE  WithinBounds(x) \in 0..MaxLimit
  BY Words DEF WithinBounds, Smaller, Larger

LEMMA CompletedIs ==
  ASSUME NEW l \in Limits, l.m_limit \in 0..MaxLimit, NEW count \in Nat,
         NEW k \in Completed(l, count)
  PROVE  /\ k \in Limits /\ k.m_limit \in 0..MaxLimit
         /\ k.m_numQueued = l.m_numQueued
         /\ k.m_numCompleted = Unsigned(l.m_numCompleted + count)
         /\ k.m_adjLimit = Unsigned(k.m_limit + k.m_numCompleted)
  <1> DEFINE completed   == Unsigned(l.m_numCompleted + count)
             ovlimit     == PosdiffOf(InProgress(l), l.m_limit)
             inprogress  == Unsigned(l.m_numQueued - completed)
             prevInprogress   == Unsigned(l.m_prevNumQueued - l.m_numCompleted)
             allPrevCompleted ==
               Signed(Unsigned(completed - l.m_prevNumQueued)) >= 0
             starved == \/ ovlimit # 0 /\ inprogress = 0
                        \/ l.m_prevOvlimit # 0 /\ allPrevCompleted
             busy    == inprogress # 0 /\ prevInprogress # 0 /\ ~allPrevCompleted
             slackLastObjs == IF l.m_prevOvlimit = 0 THEN 0
                              ELSE PosdiffOf(l.m_prevLastObjCnt, l.m_prevOvlimit)
             slack   == Larger(PosdiffOf(Unsigned(l.m_limit + l.m_prevOvlimit),
                                         Unsigned(2 * count)),
                               slackLastObjs)
             lowest  == Smaller(l.m_lowestSlack, slack)
             limits  == IF starved
                        THEN {Unsigned(l.m_limit + more + l.m_prevOvlimit) :
                                more \in Posdiff(completed, l.m_prevNumQueued)}
                        ELSE IF busy /\ l.held
                        THEN {PosdiffOf(l.m_limit, lowest)}
                        ELSE {l.m_limit}
             restart == starved \/ (busy /\ l.held)
  <1>1. PICK limit \in {WithinBounds(x) : x \in limits} :
          k = [l EXCEPT
                 !.m_limit = limit,
                 !.m_adjLimit = Adjusted(limit, completed),
                 !.m_prevOvlimit = IF limit = l.m_limit THEN ovlimit ELSE 0,
                 !.m_prevLastObjCnt = l.m_lastObjCnt,
                 !.m_numCompleted = completed,
                 !.m_prevNumQueued = l.m_numQueued,
                 !.m_lowestSlack = IF restart THEN UINTMAX
                                   ELSE IF busy THEN lowest ELSE @,
                 !.held = IF restart THEN FALSE ELSE @]
    BY Zenon DEF Completed
  <1>2. /\ l.m_numQueued \in Uint32 /\ l.m_numCompleted \in Uint32
        /\ l.m_limit \in Uint32 /\ l.m_limit < Half /\ l.m_prevOvlimit \in Uint32
        /\ l.m_lastObjCnt \in Uint32 /\ l.m_prevLastObjCnt \in Uint32
        /\ l.m_prevNumQueued \in Uint32 /\ l.m_lowestSlack \in Uint32
        /\ l.held \in BOOLEAN
    BY Words DEF Limits
  <1>3. completed \in Uint32
    BY <1>2, Words, UnsignedIs
  <1>4. ovlimit \in Uint32
    <2>1. InProgress(l) \in Uint32
      BY <1>2, Words, UnsignedIs DEF InProgress
    <2> QED
      BY <1>2, <2>1, PosdiffIs
  <1>5. lowest \in Uint32
    <2>1. slackLastObjs \in Nat
      BY <1>2, PosdiffIs
    <2> HIDE DEF slackLastObjs
    <2>2. /\ Unsigned(l.m_limit + l.m_prevOvlimit) \in Uint32
          /\ Unsigned(2 * count) \in Uint32
      <3>1. l.m_limit + l.m_prevOvlimit \in Int /\ 2 * count \in Int
        BY <1>2, Words
      <3> QED
        BY <3>1, UnsignedIs
    <2>3. PosdiffOf(Unsigned(l.m_limit + l.m_prevOvlimit), Unsigned(2 * count)) \in Nat
      BY <2>2, PosdiffIs
    <2>4. slack \in Nat
      BY <2>1, <2>3 DEF Larger
    <2> HIDE DEF slack
    <2> QED
      BY <1>2, <2>4, Words DEF Smaller
  <1> HIDE DEF completed, ovlimit, lowest, starved, busy
  <1>6. \A x \in limits : x \in Int
    <2>1. ASSUME NEW more \in Posdiff(completed, l.m_prevNumQueued)
          PROVE  Unsigned(l.m_limit + more + l.m_prevOvlimit) \in Int
      <3>0. more \in Int
        BY <1>2, <1>3, PosdiffIs
      <3>1. l.m_limit + more + l.m_prevOvlimit \in Int
        BY <1>2, <3>0, Words
      <3> QED
        BY <3>1, UnsignedIs, Words
    <2>2. PosdiffOf(l.m_limit, lowest) \in Int
      BY <1>2, <1>5, PosdiffIs
    <2>3. l.m_limit \in Int
      BY <1>2, Words
    <2> QED
      BY <2>1, <2>2, <2>3
  <1> HIDE DEF limits
  <1>7. limit \in 0..MaxLimit /\ limit \in Uint32
    BY <1>6, WithinBoundsIs, Words
  <1>8. Adjusted(limit, completed) = Unsigned(limit + completed)
        /\ Unsigned(limit + completed) \in Uint32
    BY <1>3, <1>7, UnsignedIs, Words DEF Adjusted
  <1> DEFINE adj == Adjusted(limit, completed)
             prevOv == IF limit = l.m_limit THEN ovlimit ELSE 0
             low == IF restart THEN UINTMAX ELSE IF busy THEN lowest
                    ELSE l.m_lowestSlack
             held == IF restart THEN FALSE ELSE l.held
  <1>9. /\ adj \in Uint32 /\ prevOv \in Uint32 /\ low \in Uint32
        /\ held \in BOOLEAN
    <2>1. adj \in Uint32
      BY <1>8
    <2>2. prevOv \in Uint32
      BY <1>4, Words
    <2> HIDE DEF restart
    <2>3. UINTMAX \in Uint32
      BY Words DEF UINTMAX
    <2>4. low \in Uint32
      BY <1>2, <1>5, <2>3
    <2>5. held \in BOOLEAN
      BY <1>2
    <2> QED
      BY <2>1, <2>2, <2>4, <2>5
  <1>10. k = [l EXCEPT !.m_limit = limit, !.m_adjLimit = adj,
                       !.m_prevOvlimit = prevOv,
                       !.m_prevLastObjCnt = l.m_lastObjCnt,
                       !.m_numCompleted = completed,
                       !.m_prevNumQueued = l.m_numQueued,
                       !.m_lowestSlack = low, !.held = held]
    BY <1>1, Zenon
  <1>11. adj = Unsigned(limit + completed)
    BY <1>8
  <1> HIDE DEF adj, prevOv, low, held
  <1>12. /\ k \in Limits /\ k.m_limit = limit /\ k.m_adjLimit = adj
         /\ k.m_numQueued = l.m_numQueued /\ k.m_numCompleted = completed
    BY <1>2, <1>3, <1>7, <1>9, <1>10 DEF Limits
  <1> QED
    BY <1>7, <1>11, <1>12 DEF completed

LEMMA QueuedIs ==
  ASSUME NEW l \in Limits, NEW count \in Uint32
  PROVE  LET k == Queued(l, count)
         IN  /\ k \in Limits /\ k.m_limit = l.m_limit
             /\ k.m_adjLimit = l.m_adjLimit
             /\ k.m_numCompleted = l.m_numCompleted
             /\ k.m_numQueued = Unsigned(l.m_numQueued + count)
  <1> DEFINE more == Unsigned(l.m_numQueued + count)
  <1>1. more \in Uint32
    <2>1. l.m_numQueued + count \in Int
      BY Words DEF Limits
    <2> QED
      BY <2>1, UnsignedIs
  <1>2. Queued(l, count) = [l EXCEPT !.m_lastObjCnt = count, !.m_numQueued = more]
    BY DEF Queued
  <1> HIDE DEF more
  <1>3. Queued(l, count).m_numQueued = more
    BY <1>2 DEF Limits
  <1> QED
    BY <1>1, <1>2, <1>3 DEF Limits, more

LEMMA ResetIs ==
  ASSUME NEW a \in Uint32, NEW l, l.m_adjLimit = a
  PROVE  /\ Reset(l) \in Limits /\ Reset(l).m_limit = 0
         /\ InProgress(Reset(l)) = Unsigned(0)
  BY Words DEF Reset, Limits, UINTMAX, InProgress

(* What is queued and what is completed change the bytes in flight. *)
LEMMA Shifted ==
  ASSUME NEW d \in Int, NEW bytes \in Int, NEW m \in Int,
         Unsigned(d) = Unsigned(bytes)
  PROVE  Unsigned(d + m) = Unsigned(bytes + m)
  <1>1. Unsigned(Unsigned(d) + m) = Unsigned(d + m)
    BY UnsignedSums
  <1>2. Unsigned(Unsigned(bytes) + m) = Unsigned(bytes + m)
    BY UnsignedSums
  <1> QED
    BY <1>1, <1>2

LEMMA MoreInFlight ==
  ASSUME NEW q \in Int, NEW c \in Int, NEW bytes \in Int, NEW n \in Int,
         Unsigned(q - c) = Unsigned(bytes)
  PROVE  Unsigned(Unsigned(q + n) - c) = Unsigned(bytes + n)
  <1> DEFINE d == q - c
  <1>1. d \in Int /\ Unsigned(d) = Unsigned(bytes)
    OBVIOUS
  <1>2. Unsigned(Unsigned(q + n) + (0 - c)) = Unsigned((q + n) + (0 - c))
    BY UnsignedSums
  <1>3. /\ Unsigned(q + n) + (0 - c) = Unsigned(q + n) - c
        /\ (q + n) + (0 - c) = d + n
    BY UnsignedIs, Words
  <1> HIDE DEF d
  <1>4. Unsigned(d + n) = Unsigned(bytes + n)
    BY <1>1, Shifted
  <1> QED
    BY <1>2, <1>3, <1>4

-----------------------------------------------------------------------------
(* The queue of the device *)

(* The bytes in flight are those the device holds; the limit never exceeds *)
(* the largest; a device that is full has stopped the queue.               *)
FlowInv ==
  /\ TypeOK
  /\ m_queueLimits.m_limit \in 0..MaxLimit
  /\ ~m_stoppedByDevice => Len(inside) < Capacity
  /\ InFlightAccounted /\ StoppedHasInFlight

LEMMA SizesAre == \A size \in Sizes : size \in Uint32 /\ size \in 1..MaxObject
  BY Words, LimitsAssumption, DeviceAssumption

LEMMA BytesAre ==
  ASSUME NEW q \in Seq(Sizes), Len(q) <= Capacity
  PROVE  q \in Seq(Int) /\ Sum(q) \in Nat /\ Sum(q) <= Half
  <1>1. MaxObject \in Nat /\ Capacity \in Nat
    BY LimitsAssumption, DeviceAssumption, Words
  <1>2. Sizes \subseteq Int
    BY SizesAre, Words
  <1>3. q \in Seq(Int) /\ Len(q) \in Nat
    BY <1>2, SeqMonotonic, LenProperties
  <1>4. \A i \in 1..Len(q) : q[i] \in 0..MaxObject
    BY <1>1, SizesAre, LenProperties
  <1>5. Sum(q) \in Nat /\ Sum(q) <= Len(q) * MaxObject
    BY <1>1, <1>3, <1>4, SumBound
  <1>6. Len(q) * MaxObject <= Capacity * MaxObject
    BY <1>1, <1>3
  <1>7. Len(q) * MaxObject \in Int /\ Capacity * MaxObject \in Int
    BY <1>1, <1>3
  <1> DEFINE held == Len(q) * MaxObject
             most == Capacity * MaxObject
  <1>8. most <= Half
    BY <1>1, <1>7, DeviceAssumption, LimitsAssumption DEF Half
  <1>9. /\ held \in Int /\ most \in Int /\ held <= most
        /\ Sum(q) \in Nat /\ Sum(q) <= held
    BY <1>5, <1>6, <1>7
  <1> HIDE DEF held, most
  <1>10. Sum(q) <= Half
    BY <1>8, <1>9, Words
  <1> QED
    BY <1>3, <1>9, <1>10

LEMMA InitFlow == Init => FlowInv
  <1> SUFFICES ASSUME Init PROVE FlowInv
    OBVIOUS
  <1>1. PICK garbage \in Uint32 :
          m_queueLimits = Reset([m_adjLimit |-> garbage, m_numCompleted |-> 0])
    BY DEF Init, NewLimits
  <1>2. /\ m_queueLimits \in Limits /\ m_queueLimits.m_limit = 0
        /\ InProgress(m_queueLimits) = Unsigned(0)
    BY <1>1, ResetIs
  <1>3. inside = << >> /\ << >> \in Seq(Sizes) /\ Len(<< >>) = 0 /\ Bytes = 0
    BY SumEmpty, EmptySeq DEF Init, Bytes
  <1>4. Capacity \in Nat \ {0}
    BY DeviceAssumption
  <1>5. /\ m_stoppedByDevice = FALSE /\ m_stoppedByQueueLimits = FALSE
        /\ disc = "idle"
    BY DEF Init
  <1>6. TypeOK
    <2>1. /\ m_stoppedByDevice \in BOOLEAN /\ m_stoppedByQueueLimits \in BOOLEAN
          /\ disc \in {"idle", "running", "waiting"}
      BY <1>5
    <2>2. inside \in Seq(Sizes) /\ Len(inside) <= Capacity
      BY <1>3, <1>4
    <2> QED
      BY <1>2, <2>1, <2>2 DEF TypeOK
  <1>7. InFlightAccounted /\ StoppedHasInFlight
    BY <1>2, <1>3, <1>5 DEF InFlightAccounted, StoppedHasInFlight
  <1>8. m_queueLimits.m_limit \in 0..MaxLimit
    BY <1>2, Words
  <1>9. Len(inside) < Capacity
    BY <1>3, <1>4
  <1> QED
    BY <1>6, <1>7, <1>8, <1>9 DEF FlowInv

(* Pass: the device holds one packet more. *)
LEMMA Passes ==
  ASSUME FlowInv, NEW size \in Sizes, Pass(size)
  PROVE  /\ FlowInv'
         /\ Bytes \in Nat /\ Bytes' = Bytes + size /\ Bytes' <= Half
         /\ m_queueLimits'.m_adjLimit = m_queueLimits.m_adjLimit
         /\ m_queueLimits'.m_limit = m_queueLimits.m_limit
         /\ m_queueLimits'.m_numCompleted = m_queueLimits.m_numCompleted
         /\ m_stoppedByQueueLimits' =
              (m_stoppedByQueueLimits \/ Available(m_queueLimits') < 0)
  <1>1. /\ inside \in Seq(Sizes) /\ Len(inside) < Capacity /\ m_queueLimits \in Limits
        /\ ~m_stoppedByDevice /\ ~m_stoppedByQueueLimits
    BY DEF FlowInv, TypeOK, Pass, IsStopped
  <1>2. /\ inside' = Append(inside, size) /\ inside' \in Seq(Sizes)
        /\ Len(inside') = Len(inside) + 1 /\ Len(inside) \in Nat
        /\ inside' # << >>
    BY <1>1, AppendProperties, EmptySeq, LenProperties DEF Pass
  <1>3. Len(inside') <= Capacity /\ Len(inside') \in Nat /\ Capacity \in Nat
    BY <1>1, <1>2, DeviceAssumption
  <1>4. /\ inside \in Seq(Int) /\ Bytes \in Nat /\ size \in Int
        /\ Bytes' = Bytes + size /\ Bytes' <= Half
    <2>1. inside \in Seq(Int) /\ Bytes \in Nat /\ size \in Int
      BY <1>1, BytesAre, SizesAre, Words, DeviceAssumption, LenProperties DEF Bytes
    <2>2. Sum(inside') <= Half
      BY <1>2, <1>3, BytesAre
    <2>3. Sum(inside') = Sum(inside) + size
      BY <1>2, <2>1, SumAppend
    <2> QED
      BY <2>1, <2>2, <2>3 DEF Bytes
  <1>5. /\ m_queueLimits' = Queued(m_queueLimits, size)
        /\ m_stoppedByQueueLimits' =
              (m_stoppedByQueueLimits \/ Available(m_queueLimits') < 0)
        /\ m_stoppedByDevice' = (Len(inside') >= Capacity)
        /\ disc' \in {"running", "idle"}
    BY DEF Pass, NotifyQueuedBytes
  <1>6. /\ m_queueLimits' \in Limits
        /\ m_queueLimits'.m_adjLimit = m_queueLimits.m_adjLimit
        /\ m_queueLimits'.m_limit = m_queueLimits.m_limit
        /\ m_queueLimits'.m_numCompleted = m_queueLimits.m_numCompleted
        /\ m_queueLimits'.m_numQueued = Unsigned(m_queueLimits.m_numQueued + size)
    BY <1>1, <1>5, SizesAre, QueuedIs
  <1>7. InFlightAccounted'
    <2>1. m_queueLimits.m_numQueued \in Int /\ m_queueLimits.m_numCompleted \in Int
      BY <1>1, Words DEF Limits
    <2>2. Unsigned(m_queueLimits.m_numQueued - m_queueLimits.m_numCompleted)
            = Unsigned(Bytes)
      BY DEF FlowInv, InFlightAccounted, InProgress
    <2>3. Unsigned(Unsigned(m_queueLimits.m_numQueued + size)
                     - m_queueLimits.m_numCompleted) = Unsigned(Bytes + size)
      BY <1>4, <2>1, <2>2, MoreInFlight
    <2> QED
      BY <1>4, <1>6, <2>3 DEF InFlightAccounted, InProgress
  <1>8. TypeOK'
    BY <1>2, <1>3, <1>5, <1>6, <1>1 DEF TypeOK, FlowInv
  <1>9. ~m_stoppedByDevice' => Len(inside') < Capacity
    <2>1. CASE Len(inside') >= Capacity
      BY <1>5, <2>1
    <2>2. CASE ~(Len(inside') >= Capacity)
      <3>1. Len(inside') < Capacity
        BY <1>3, <2>2
      <3> QED
        BY <3>1
    <2> QED
      BY <2>1, <2>2
  <1>10. m_queueLimits'.m_limit \in 0..MaxLimit
    BY <1>6 DEF FlowInv
  <1>11. StoppedHasInFlight'
    BY <1>2 DEF StoppedHasInFlight
  <1>12. FlowInv'
    BY <1>7, <1>8, <1>9, <1>10, <1>11 DEF FlowInv
  <1> QED
    BY <1>4, <1>5, <1>6, <1>12

(* Transmit: the device holds one packet less, and the limit is in force.  *)
LEMMA Transmits ==
  ASSUME FlowInv, Transmit
  PROVE  /\ FlowInv'
         /\ Bytes \in Nat /\ Bytes' \in Nat /\ Bytes' <= Bytes
         /\ Available(m_queueLimits') = m_queueLimits'.m_limit - Bytes'
         /\ m_stoppedByQueueLimits' =
              (m_stoppedByQueueLimits /\ Available(m_queueLimits') < 0)
  <1> DEFINE sent == Head(inside)
             l == m_queueLimits
             k == m_queueLimits'
  <1>1. /\ inside \in Seq(Sizes) /\ Len(inside) <= Capacity /\ l \in Limits
        /\ inside # << >> /\ inside' = Tail(inside)
        /\ l.m_limit \in 0..MaxLimit
    BY DEF FlowInv, TypeOK, Transmit
  <1>2. /\ sent \in Sizes /\ inside' \in Seq(Sizes)
        /\ Len(inside') = Len(inside) - 1 /\ Len(inside) \in Nat
    BY <1>1, HeadTailProperties, LenProperties
  <1>3. Len(inside') < Capacity /\ Capacity \in Nat
    BY <1>1, <1>2, DeviceAssumption
  <1>4. sent \in Nat
    BY <1>2, SizesAre, Words
  <1>5. /\ Bytes \in Nat /\ Bytes' \in Nat /\ Bytes' = Bytes - sent /\ Bytes' <= Half
    <2>1. inside \in Seq(Int) /\ Sum(inside) \in Nat
      BY <1>1, BytesAre
    <2>2. Sum(inside') \in Nat /\ Sum(inside') <= Half
      <3>1. Len(inside') <= Capacity
        BY <1>2, <1>3
      <3> QED
        BY <1>2, <3>1, BytesAre
    <2>3. Sum(inside) = sent + Sum(inside')
      BY <1>1, <2>1, SumTail
    <2> HIDE DEF sent
    <2> QED
      BY <1>4, <2>1, <2>2, <2>3 DEF Bytes
  <1>6. PICK k1 \in Completed(l, sent) :
          /\ k = k1
          /\ m_stoppedByQueueLimits' =
               (m_stoppedByQueueLimits /\ Available(k1) < 0)
          /\ disc' = IF Available(k1) < 0 THEN disc ELSE "running"
    BY DEF Transmit, NotifyTransmittedBytes
  <1> HIDE DEF sent
  <1>7. /\ k \in Limits /\ k.m_limit \in 0..MaxLimit
        /\ k.m_numQueued = l.m_numQueued
        /\ k.m_numCompleted = Unsigned(l.m_numCompleted + sent)
        /\ k.m_adjLimit = Unsigned(k.m_limit + k.m_numCompleted)
    BY <1>1, <1>4, <1>6, CompletedIs
  <1>8. InProgress(k) = Unsigned(Bytes')
    <2>1. l.m_numQueued \in Int /\ l.m_numCompleted \in Int
      BY <1>1, Words DEF Limits
    <2>2. Unsigned(l.m_numQueued - l.m_numCompleted) = Unsigned(Bytes)
      BY DEF FlowInv, InFlightAccounted, InProgress
    <2>3. Unsigned(l.m_numQueued - Unsigned(l.m_numCompleted + sent))
            = Unsigned(Bytes - sent)
      <3> DEFINE q == l.m_numQueued
                 c == l.m_numCompleted
      <3>1. q \in Int /\ c \in Int /\ Bytes \in Int /\ sent \in Int
        BY <1>4, <1>5, <2>1
      <3>2. Unsigned(q - c) = Unsigned(Bytes)
        BY <2>2
      <3> HIDE DEF q, c
      <3>3. Unsigned(q - Unsigned(c + sent)) = Unsigned(q - (c + sent))
        BY <3>1, UnsignedSums
      <3> DEFINE d == q - c
                 less == 0 - sent
      <3>4. /\ q - (c + sent) = d + less /\ Bytes - sent = Bytes + less
            /\ d \in Int /\ less \in Int /\ Unsigned(d) = Unsigned(Bytes)
        BY <3>1, <3>2
      <3> HIDE DEF d, less
      <3>5. Unsigned(d + less) = Unsigned(Bytes + less)
        BY <3>1, <3>4, Shifted
      <3>6. Unsigned(q - Unsigned(c + sent)) = Unsigned(Bytes - sent)
        BY <3>3, <3>4, <3>5
      <3> QED
        BY <3>6 DEF q, c
    <2> QED
      BY <1>5, <1>7, <2>3 DEF InProgress
  <1>9. Available(k) = k.m_limit - Bytes'
    BY <1>5, <1>7, <1>8, AvailableIs
  <1>10. ASSUME inside' = << >> PROVE ~m_stoppedByQueueLimits'
    <2>1. Bytes' = 0
      BY <1>10, SumEmpty DEF Bytes
    <2>2. ~(Available(k) < 0)
      BY <1>7, <1>9, <2>1, Words
    <2> QED
      BY <1>6, <2>2
  <1>11. TypeOK'
    <2>1. disc' \in {"idle", "running", "waiting"}
      BY <1>6 DEF FlowInv, TypeOK
    <2>2. m_stoppedByQueueLimits' \in BOOLEAN
      BY <1>6 DEF FlowInv, TypeOK
    <2>3. m_stoppedByDevice' \in BOOLEAN
      BY DEF Transmit, FlowInv, TypeOK
    <2>4. Len(inside') <= Capacity
      BY <1>2, <1>3
    <2> QED
      BY <1>2, <1>7, <2>1, <2>2, <2>3, <2>4 DEF TypeOK
  <1>12. FlowInv'
    BY <1>3, <1>7, <1>8, <1>10, <1>11
       DEF FlowInv, InFlightAccounted, StoppedHasInFlight
  <1> QED
    BY <1>4, <1>5, <1>6, <1>9, <1>12

LEMMA Resets ==
  ASSUME FlowInv, ResetQueueLimits
  PROVE  FlowInv' /\ Bytes' = 0
  <1>1. /\ inside = << >> /\ inside' = << >> /\ m_queueLimits \in Limits
        /\ m_queueLimits' = Reset(m_queueLimits)
        /\ UNCHANGED <<m_stoppedByDevice, m_stoppedByQueueLimits, inside, disc>>
    BY DEF ResetQueueLimits, FlowInv, TypeOK
  <1>2. Bytes' = 0
    BY <1>1, SumEmpty DEF Bytes
  <1>3. m_queueLimits.m_adjLimit \in Uint32
    BY <1>1 DEF Limits
  <1>4. /\ m_queueLimits' \in Limits /\ m_queueLimits'.m_limit = 0
        /\ InProgress(m_queueLimits') = Unsigned(0)
    BY <1>1, <1>3, ResetIs
  <1> QED
    BY <1>1, <1>2, <1>4, Words
       DEF FlowInv, TypeOK, InFlightAccounted, StoppedHasInFlight

(* Steps that change neither the limits nor what the device holds. *)
LEMMA Elsewhere ==
  ASSUME FlowInv, UNCHANGED <<m_queueLimits, m_stoppedByQueueLimits, inside>>,
         disc' \in {"idle", "running", "waiting"}, m_stoppedByDevice' \in BOOLEAN,
         ~m_stoppedByDevice' => Len(inside) < Capacity
  PROVE  FlowInv'
  BY DEF FlowInv, TypeOK, InFlightAccounted, StoppedHasInFlight, Bytes

LEMMA StepFlow == FlowInv /\ [Next]_vars => FlowInv'
  <1> SUFFICES ASSUME FlowInv, [Next]_vars PROVE FlowInv'
    OBVIOUS
  <1>1. ASSUME NEW size \in Sizes, Pass(size) PROVE FlowInv'
    BY <1>1, Passes
  <1>2. CASE Transmit
    BY <1>2, Transmits
  <1>3. CASE ResetQueueLimits
    BY <1>3, Resets
  <1>4. CASE Arrive \/ FindStopped \/ Wake
    BY <1>4, Elsewhere DEF Arrive, FindStopped, Wake, FlowInv, TypeOK
  <1>5. CASE HoldTime
    <2>1. /\ m_queueLimits \in Limits
          /\ m_queueLimits' = [m_queueLimits EXCEPT !.held = TRUE]
          /\ UNCHANGED <<m_stoppedByDevice, m_stoppedByQueueLimits, inside, disc>>
      BY <1>5 DEF HoldTime, FlowInv, TypeOK
    <2>2. /\ m_queueLimits' \in Limits
          /\ m_queueLimits'.m_limit = m_queueLimits.m_limit
          /\ InProgress(m_queueLimits') = InProgress(m_queueLimits)
      BY <2>1 DEF Limits, InProgress
    <2> QED
      BY <2>1, <2>2
         DEF FlowInv, TypeOK, InFlightAccounted, StoppedHasInFlight, Bytes
  <1>6. CASE UNCHANGED vars
    BY <1>6, Elsewhere DEF vars, FlowInv, TypeOK
  <1> QED
    BY <1>1, <1>2, <1>3, <1>4, <1>5, <1>6 DEF Next

(* The device queue keeps its types, the counters of the limits their      *)
(* widths, whatever the undefined subtraction yields.                      *)
THEOREM FlowTypes == Spec => []TypeOK
  <1>1. FlowInv => TypeOK
    BY DEF FlowInv
  <1> QED
    BY <1>1, InitFlow, StepFlow, PTL DEF Spec

(* The two running totals tell the bytes that the device holds, also after *)
(* they have wrapped and after ResetQueueLimits.                           *)
THEOREM InFlightIsHeld == Spec => []InFlightAccounted
  <1>1. FlowInv => InFlightAccounted
    BY DEF FlowInv
  <1> QED
    BY <1>1, InitFlow, StepFlow, PTL DEF Spec

(* A queue that the limits have stopped has a completion to come that can  *)
(* open it: the last one always does.                                      *)
THEOREM StoppedWillComplete == Spec => []StoppedHasInFlight
  <1>1. FlowInv => StoppedHasInFlight
    BY DEF FlowInv
  <1> QED
    BY <1>1, InitFlow, StepFlow, PTL DEF Spec

LEMMA StepBounded == FlowInv /\ [Next]_vars => (InForce /\ Bounded => Bounded')
  <1> SUFFICES ASSUME FlowInv, [Next]_vars, InForce, Bounded PROVE Bounded'
    OBVIOUS
  <1>1. ASSUME NEW size \in Sizes, Pass(size) PROVE Bounded'
    <2>1. /\ FlowInv'
          /\ Bytes \in Nat /\ Bytes' = Bytes + size /\ Bytes' <= Half
          /\ m_queueLimits'.m_adjLimit = m_queueLimits.m_adjLimit
          /\ m_queueLimits'.m_limit = m_queueLimits.m_limit
          /\ m_queueLimits'.m_numCompleted = m_queueLimits.m_numCompleted
          /\ m_stoppedByQueueLimits' =
               (m_stoppedByQueueLimits \/ Available(m_queueLimits') < 0)
      BY <1>1, Passes
    <2>2. size \in Nat /\ MaxLimit \in Nat
      BY SizesAre, Words
    <2>3. Bytes <= MaxLimit
      BY <1>1 DEF Bounded, Pass, IsStopped
    <2>4. Available(m_queueLimits') = m_queueLimits'.m_limit - Bytes'
      BY <2>1, <2>2, AvailableIs
         DEF FlowInv, TypeOK, InFlightAccounted, InForce
    <2>5. CASE Available(m_queueLimits') < 0
      <3>1. m_stoppedByQueueLimits'
        BY <2>1, <2>5
      <3>2. Bytes' <= MaxLimit + size
        BY <2>1, <2>2, <2>3
      <3> QED
        BY <3>1, <3>2 DEF Bounded
    <2>6. CASE ~(Available(m_queueLimits') < 0)
      <3>1. m_queueLimits'.m_limit \in 0..MaxLimit
        BY <2>1 DEF FlowInv
      <3>2. Bytes' <= MaxLimit
        BY <2>1, <2>2, <2>4, <2>6, <3>1
      <3> QED
        BY <3>2 DEF Bounded
    <2> QED
      BY <2>5, <2>6
  <1>2. CASE Transmit
    <2>1. /\ FlowInv'
          /\ Bytes \in Nat /\ Bytes' \in Nat /\ Bytes' <= Bytes
          /\ Available(m_queueLimits') = m_queueLimits'.m_limit - Bytes'
          /\ m_stoppedByQueueLimits' =
               (m_stoppedByQueueLimits /\ Available(m_queueLimits') < 0)
      BY <1>2, Transmits
    <2>2. m_queueLimits'.m_limit \in 0..MaxLimit /\ MaxLimit \in Nat
      BY <2>1, Words DEF FlowInv
    <2>3. CASE Bytes <= MaxLimit \/ ~(Available(m_queueLimits') < 0)
      <3>1. Bytes' <= MaxLimit
        BY <2>1, <2>2, <2>3
      <3> QED
        BY <3>1 DEF Bounded
    <2>4. CASE ~(Bytes <= MaxLimit) /\ Available(m_queueLimits') < 0
      <3>1. PICK size \in Sizes : m_stoppedByQueueLimits /\ Bytes <= MaxLimit + size
        BY <2>4 DEF Bounded
      <3>2. size \in Nat
        BY SizesAre, Words
      <3>3. m_stoppedByQueueLimits'
        BY <2>1, <2>4, <3>1
      <3>4. Bytes' <= MaxLimit + size
        BY <2>1, <2>2, <3>1, <3>2
      <3> QED
        BY <3>3, <3>4 DEF Bounded
    <2> QED
      BY <2>3, <2>4
  <1>3. CASE ResetQueueLimits
    BY <1>3, Resets, Words DEF Bounded
  <1>4. CASE Arrive \/ FindStopped \/ Wake \/ HoldTime \/ UNCHANGED vars
    BY <1>4 DEF Arrive, FindStopped, Wake, HoldTime, vars, Bounded, Bytes
  <1> QED
    BY <1>1, <1>2, <1>3, <1>4 DEF Next

(* Once m_adjLimit is a computed one, no sequence of queued and completed   *)
(* packets makes the device hold more than MaxLimit bytes, and one packet   *)
(* over it when the queue is stopped.                                       *)
THEOREM LimitIsKept == Spec => StaysBounded
  <1>1. FlowInv /\ [Next]_vars => [InForce /\ Bounded => Bounded']_vars
    BY StepBounded
  <1> QED
    BY <1>1, InitFlow, StepFlow, PTL DEF Spec, StaysBounded
=============================================================================
