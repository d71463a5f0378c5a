------------------------ MODULE DropTailQueueProofs ------------------------
(***************************************************************************)
(* Packets leave a DropTailQueue in the order in which they came, for      *)
(* every set of packet sizes and every sequence of operations, changes of  *)
(* mode and limits included; the counters, which wrap, describe what it    *)
(* holds and what came and left; and, unless sizes and limits are at their *)
(* extremes, it stays within its capacity and changes its mode only empty. *)
(***************************************************************************)
EXTENDS DropTailQueue, SumTheorems

Items == Seq(Sizes)

(* The order, and what the queue operations need to know to keep it: that  *)
(* m_nPackets, which they ask, counts the items.                           *)
QInv ==
  /\ m_packets \in Items
  /\ m_nPackets = Len(m_packets)
  /\ since \in [held : Items, came : Items, left : Items, lost : Items]
  /\ FifoOrder

LEMMA OneMore ==
  ASSUME NEW s \in Items, NEW x \in Sizes
  PROVE  /\ <<x>> \in Items
         /\ Append(s, x) \in Items
         /\ Append(s, x) = s \o <<x>>
         /\ Len(Append(s, x)) = Len(s) + 1
  BY AppendProperties, AppendIsConcat DEF Items

LEMMA Associative ==
  ASSUME NEW s \in Items, NEW t \in Items, NEW u \in Items
  PROVE  (s \o t) \o u = s \o (t \o u)
  BY ConcatAssociative DEF Items

LEMMA HeadThenTail ==
  ASSUME NEW s \in Items, s # << >>
  PROVE  /\ Head(s) \in Sizes
         /\ Tail(s) \in Items
         /\ Len(Tail(s)) = Len(s) - 1
         /\ s = <<Head(s)>> \o Tail(s)
  <1>1. /\ Head(s) \in Sizes
        /\ Tail(s) \in Items
        /\ Len(Tail(s)) = Len(s) - 1
        /\ \A i \in 1..Len(Tail(s)) : Tail(s)[i] = s[i + 1]
    BY HeadTailProperties DEF Items
  <1>2. Len(s) \in Nat /\ Len(s) > 0
    BY EmptySeq, LenProperties DEF Items
  <1> DEFINE t == <<Head(s)>> \o Tail(s)
  <1>3. <<Head(s)>> \in Items /\ Len(<<Head(s)>>) = 1
    BY <1>1 DEF Items
  <1>4. /\ t \in Items /\ Len(t) = Len(s)
        /\ \A i \in 1..Len(s) : t[i] = IF i <= 1 THEN <<Head(s)>>[i]
                                                 ELSE Tail(s)[i - 1]
    BY <1>1, <1>2, <1>3, ConcatProperties DEF Items
  <1>5. \A i \in 1..Len(s) : s[i] = t[i]
    <2> SUFFICES ASSUME NEW i \in 1..Len(s) PROVE s[i] = t[i]
      OBVIOUS
    <2>1. CASE i = 1
      BY <1>2, <1>4, <2>1
    <2>2. CASE i > 1
      <3>1. t[i] = Tail(s)[i - 1]
        BY <1>4, <2>2
      <3>2. i - 1 \in 1..Len(Tail(s))
        BY <1>1, <1>2, <2>2
      <3> QED
        BY <1>1, <3>1, <3>2
    <2> QED
      BY <2>1, <2>2
  <1>6. s = t
    BY <1>4, <1>5, SeqEqual DEF Items
  <1> QED
    BY <1>1, <1>6

LEMMA InitQInv == Init => QInv
  BY ConcatEmptySeq DEF Init, QInv, FifoOrder, Nothing, Items

LEMMA StoredKeepsQInv ==
  ASSUME QInv, NEW size \in Sizes, EnqueueStored(size)
  PROVE  QInv'
  <1>0. /\ m_packets \in Items
        /\ since.held \in Items /\ since.came \in Items /\ since.left \in Items
    BY DEF QInv
  <1>1. /\ m_packets' \in Items
        /\ m_nPackets' = Len(m_packets')
        /\ since' \in [held : Items, came : Items, left : Items, lost : Items]
    BY OneMore DEF QInv, EnqueueStored
  <1>2. /\ since'.held = since.held /\ since'.left = since.left
        /\ since'.came = since.came \o <<size>>
        /\ m_packets' = m_packets \o <<size>>
        /\ <<size>> \in Items
    BY <1>0, OneMore DEF QInv, EnqueueStored
  <1>3. since.held \o (since.came \o <<size>>)
          = (since.held \o since.came) \o <<size>>
    BY <1>0, <1>2, Associative
  <1>4. since.left \o (m_packets \o <<size>>)
          = (since.left \o m_packets) \o <<size>>
    BY <1>0, <1>2, Associative
  <1>5. since.held \o since.came = since.left \o m_packets
    BY DEF QInv, FifoOrder
  <1>6. since'.held \o since'.came = since'.left \o m_packets'
    BY <1>2, <1>3, <1>4, <1>5
  <1> QED
    BY <1>1, <1>6 DEF QInv, FifoOrder

(* The front of the queue goes to the end of what left. *)
LEMMA FrontKeepsOrder ==
  ASSUME QInv, m_nPackets # 0
  PROVE  /\ Head(m_packets) \in Sizes
         /\ Tail(m_packets) \in Items
         /\ m_nPackets - 1 = Len(Tail(m_packets))
         /\ Append(since.left, Head(m_packets)) \in Items
         /\ Append(since.left, Head(m_packets)) \o Tail(m_packets)
              = since.left \o m_packets
  <1>1. m_packets \in Items /\ m_packets # << >> /\ since.left \in Items
    BY DEF QInv, Items
  <1> DEFINE x == Head(m_packets)
             t == Tail(m_packets)
  <1>2. /\ x \in Sizes /\ t \in Items /\ Len(t) = Len(m_packets) - 1
        /\ m_packets = <<x>> \o t
    BY <1>1, HeadThenTail
  <1>3. /\ <<x>> \in Items /\ Append(since.left, x) \in Items
        /\ Append(since.left, x) = since.left \o <<x>>
    BY <1>1, <1>2, OneMore
  <1> HIDE DEF x, t
  <1>4. (since.left \o <<x>>) \o t = since.left \o (<<x>> \o t)
    BY <1>1, <1>2, <1>3, Associative
  <1>5. Append(since.left, x) \o t = since.left \o m_packets
    BY <1>2, <1>3, <1>4
  <1>6. m_nPackets - 1 = Len(t)
    BY <1>2 DEF QInv
  <1> QED
    BY <1>2, <1>3, <1>5, <1>6 DEF x, t

LEMMA DequeueKeepsQInv ==
  ASSUME QInv, Dequeue
  PROVE  QInv'
  BY FrontKeepsOrder DEF QInv, FifoOrder, Dequeue, TakeFront

LEMMA RemoveKeepsQInv ==
  ASSUME QInv, Remove
  PROVE  QInv'
  <1>1. Append(since.lost, Head(m_packets)) \in Items
    BY FrontKeepsOrder, OneMore DEF QInv, Remove, TakeFront
  <1> QED
    BY <1>1, FrontKeepsOrder DEF QInv, FifoOrder, Remove, TakeFront

LEMMA DequeueAllKeepsQInv ==
  ASSUME QInv, DequeueAll
  PROVE  QInv'
  <1>1. since.left \o m_packets \in Items
    BY ConcatProperties DEF QInv, Items
  <1>2. (since.left \o m_packets) \o << >> = since.left \o m_packets
    BY <1>1, ConcatEmptySeq DEF Items
  <1>3. m_packets' = << >> /\ << >> \in Items /\ m_nPackets' = Len(<< >>)
    BY EmptySeq DEF DequeueAll, Items
  <1> QED
    BY <1>1, <1>2, <1>3 DEF QInv, FifoOrder, DequeueAll

LEMMA ResetKeepsQInv ==
  ASSUME QInv, ResetStatistics
  PROVE  QInv'
  <1>1. << >> \in Items /\ m_packets \o << >> = << >> \o m_packets
    BY EmptySeq, ConcatEmptySeq DEF QInv, Items
  <1>2. since' = Nothing(m_packets) /\ UNCHANGED contents
    BY DEF ResetStatistics
  <1> QED
    BY <1>1, <1>2 DEF QInv, FifoOrder, Nothing, contents

LEMMA StepKeepsQInv == QInv /\ [Next]_vars => QInv'
  <1> SUFFICES ASSUME QInv, [Next]_vars PROVE QInv'
    OBVIOUS
  <1>1. ASSUME NEW size \in Sizes, EnqueueStored(size) PROVE QInv'
    BY <1>1, StoredKeepsQInv
  <1>2. ASSUME NEW size \in Sizes, EnqueueDropped(size) PROVE QInv'
    <2>1. Append(since.lost, size) \in Items
      BY OneMore DEF QInv
    <2> QED
      BY <1>2, <2>1 DEF QInv, FifoOrder, EnqueueDropped, contents
  <1>3. CASE Dequeue
    BY <1>3, DequeueKeepsQInv
  <1>4. CASE Remove
    BY <1>4, RemoveKeepsQInv
  <1>5. CASE DequeueAll
    BY <1>5, DequeueAllKeepsQInv
  <1>6. CASE ResetStatistics
    BY <1>6, ResetKeepsQInv
  <1>7. ASSUME NEW mode \in Modes, SetMode(mode) PROVE QInv'
    BY <1>7 DEF QInv, FifoOrder, SetMode, contents
  <1>8. ASSUME NEW max \in PacketLimits, SetMaxPackets(max) PROVE QInv'
    BY <1>8 DEF QInv, FifoOrder, SetMaxPackets, contents
  <1>9. ASSUME NEW max \in ByteLimits, SetMaxBytes(max) PROVE QInv'
    BY <1>9 DEF QInv, FifoOrder, SetMaxBytes, contents
  <1>10. CASE UNCHANGED vars
    BY <1>10 DEF QInv, FifoOrder, vars, contents
  <1> QED
    BY <1>1, <1>2, <1>3, <1>4, <1>5, <1>6, <1>7, <1>8, <1>9, <1>10 DEF Next

(* Packets leave the queue in the order in which they came, whichever of   *)
(* Dequeue, Remove and DequeueAll takes them out and whatever Enqueue      *)
(* refuses: nothing overtakes, is repeated or disappears.                  *)
THEOREM FirstInFirstOut == Spec => []FifoOrder
  <1>1. QInv => FifoOrder
    BY DEF QInv
  <1> QED
    BY InitQInv, StepKeepsQInv, <1>1, PTL DEF Spec

-----------------------------------------------------------------------------
(* The counters *)

(* What m_nBytes and the totals count, and the values the limits may have. *)
Counts ==
  /\ m_nBytes = Wrap(Sum(m_packets))
  /\ TotalsAccount
  /\ m_mode \in Modes /\ m_maxPackets \in Nat /\ m_maxBytes \in ByteLimits

LEMMA WrapPlus ==
  ASSUME NEW x \in Int, NEW y \in Int
  PROVE  Wrap(Wrap(x) + y) = Wrap(x + y) /\ Wrap(x) \in 0..(Word - 1)
  BY QueueAssumption, ModPlus, DivMod DEF Wrap

(* What leaves is subtracted, below zero and back. *)
LEMMA WrapMinus ==
  ASSUME NEW x \in Int, NEW y \in Int
  PROVE  Wrap(Wrap(x) + Word - y) = Wrap(x - y)
  <1>1. /\ Word \in Nat \ {0} /\ x - y \in Int
        /\ (x - y) + Word = x + (Word - y)
    BY QueueAssumption
  <1>2. Wrap(x + (Word - y)) = Wrap(x - y)
    BY <1>1, ModAround DEF Wrap
  <1>3. Wrap(Wrap(x) + (Word - y)) = Wrap(x + (Word - y)) /\ Wrap(x) \in Int
    BY <1>1, WrapPlus
  <1>4. Wrap(x) + (Word - y) = Wrap(x) + Word - y
    BY <1>1, <1>3
  <1> QED
    BY <1>2, <1>3, <1>4

LEMMA ItemsAreNumbers ==
  ASSUME NEW q \in Items
  PROVE  /\ q \in Seq(Int) /\ Sum(q) \in Int /\ Len(q) \in Nat
         /\ \A i \in 1..Len(q) : q[i] \in 0..Word
  <1>1. Len(q) \in Nat /\ \A i \in 1..Len(q) : q[i] \in Sizes
    BY DEF Items
  <1>2. Sizes \subseteq Int /\ Sizes \subseteq 0..Word
    BY QueueAssumption
  <1>3. q \in Seq(Int)
    BY <1>2, SeqMonotonic DEF Items
  <1> QED
    BY <1>1, <1>2, <1>3, SumType

(* One packet more, in the queue or in a total. *)
LEMMA OneMoreCounted ==
  ASSUME NEW q \in Items, NEW size \in Sizes
  PROVE  /\ Wrap(Wrap(Sum(q)) + size) = Wrap(Sum(Append(q, size)))
         /\ Wrap(Wrap(Len(q)) + 1) = Wrap(Len(Append(q, size)))
  <1>1. size \in Int /\ Sum(q) \in Int /\ Len(q) \in Int /\ q \in Seq(Int)
    BY QueueAssumption, ItemsAreNumbers
  <1>2. Sum(Append(q, size)) = Sum(q) + size /\ Len(Append(q, size)) = Len(q) + 1
    BY <1>1, SumAppend, OneMore
  <1> QED
    BY <1>1, <1>2, WrapPlus

LEMMA OneLessCounted ==
  ASSUME NEW q \in Items, q # << >>
  PROVE  Wrap(Wrap(Sum(q)) + Word - Head(q)) = Wrap(Sum(Tail(q)))
  <1>1. Head(q) \in Sizes /\ Tail(q) \in Items
    BY HeadThenTail
  <1>2. /\ q \in Seq(Int) /\ Sum(q) \in Int /\ Sum(Tail(q)) \in Int
        /\ Head(q) \in Int
    BY <1>1, QueueAssumption, ItemsAreNumbers
  <1>3. Sum(Tail(q)) = Sum(q) - Head(q)
    BY <1>1, <1>2, SumTail
  <1> QED
    BY <1>1, <1>2, <1>3, WrapMinus

LEMMA ZeroWraps == Wrap(0) = 0 /\ Wrap(Sum(<< >>)) = 0 /\ Wrap(Len(<< >>)) = 0
  <1>1. 0 \in 0..(Word - 1)
    BY QueueAssumption
  <1>2. Wrap(0) = 0
    BY <1>1, QueueAssumption, ModSmall DEF Wrap
  <1> QED
    BY <1>2, SumEmpty, EmptySeq

LEMMA InitCounts == Init => Counts
  BY ZeroWraps, QueueAssumption
     DEF Init, Counts, TotalsAccount, Nothing, NoTotal, Modes

(* The queue loses its first item. *)
LEMMA FrontKeepsBytes ==
  ASSUME QInv, Counts, TakeFront
  PROVE  /\ m_nBytes' = Wrap(Sum(m_packets'))
         /\ UNCHANGED <<m_mode, m_maxPackets, m_maxBytes>>
  BY OneLessCounted DEF QInv, Counts, TakeFront, capacity

LEMMA StepCounts == QInv /\ Counts /\ [Next]_vars => Counts'
  <1> SUFFICES ASSUME QInv, Counts, [Next]_vars PROVE Counts'
    OBVIOUS
  <1>0. /\ m_packets \in Items /\ since.came \in Items /\ since.lost \in Items
        /\ since.left \in Items
    BY DEF QInv
  <1>1. ASSUME NEW size \in Sizes, EnqueueStored(size) PROVE Counts'
    <2>1. m_nBytes' = Wrap(Sum(m_packets'))
      BY <1>0, <1>1, OneMoreCounted DEF EnqueueStored, Counts
    <2>2. TotalsAccount'
      BY <1>0, <1>1, OneMoreCounted
         DEF EnqueueStored, Counts, TotalsAccount, Received, QInv
    <2> QED
      BY <1>1, <2>1, <2>2 DEF EnqueueStored, Counts, capacity
  <1>2. ASSUME NEW size \in Sizes, EnqueueDropped(size) PROVE Counts'
    <2>1. TotalsAccount'
      BY <1>0, <1>2, OneMoreCounted
         DEF EnqueueDropped, Counts, TotalsAccount, Dropped, QInv
    <2> QED
      BY <1>2, <2>1 DEF EnqueueDropped, Counts, capacity, contents
  <1>3. CASE Dequeue
    <2>1. TotalsAccount'
      BY <1>3 DEF Dequeue, Counts, TotalsAccount, QInv
    <2> QED
      BY <1>3, <2>1, FrontKeepsBytes DEF Dequeue, Counts
  <1>4. CASE Remove
    <2>1. Head(m_packets) \in Sizes
      BY <1>4, FrontKeepsOrder DEF Remove, TakeFront
    <2>2. TotalsAccount'
      BY <1>0, <1>4, <2>1, OneMoreCounted
         DEF Remove, Counts, TotalsAccount, Dropped, QInv
    <2> QED
      BY <1>4, <2>2, FrontKeepsBytes DEF Remove, Counts
  <1>5. CASE DequeueAll
    <2>1. Sum(m_packets) \in Int
      BY <1>0, ItemsAreNumbers
    <2> DEFINE bytes == Wrap(Sum(m_packets))
    <2>2. bytes \in Int
      BY <2>1, WrapPlus
    <2>3. Wrap(bytes + Word - bytes) = Wrap(Sum(m_packets) - bytes)
      BY <2>1, <2>2, WrapMinus
    <2>4. Wrap(Sum(m_packets) - bytes) = Wrap(Sum(m_packets) - Sum(m_packets))
      BY <2>1, QueueAssumption, ModLess DEF Wrap
    <2>5. m_nBytes' = Wrap(bytes + Word - bytes) /\ m_packets' = << >>
      BY <1>5 DEF DequeueAll, Counts
    <2> HIDE DEF bytes
    <2>6. m_nBytes' = Wrap(Sum(m_packets'))
      BY <2>1, <2>3, <2>4, <2>5, ZeroWraps
    <2>7. TotalsAccount'
      BY <1>5 DEF DequeueAll, Counts, TotalsAccount, QInv
    <2> QED
      BY <1>5, <2>6, <2>7 DEF DequeueAll, Counts, capacity
  <1>6. CASE ResetStatistics
    <2>1. TotalsAccount'
      BY <1>6, ZeroWraps DEF ResetStatistics, TotalsAccount, Nothing, NoTotal
    <2> QED
      BY <1>6, <2>1 DEF ResetStatistics, Counts, capacity, contents
  <1>7. ASSUME NEW mode \in Modes, SetMode(mode) PROVE Counts'
    BY <1>7 DEF SetMode, Counts, TotalsAccount, contents
  <1>8. ASSUME NEW max \in PacketLimits, SetMaxPackets(max) PROVE Counts'
    BY <1>8, QueueAssumption DEF SetMaxPackets, Counts, TotalsAccount, contents
  <1>9. ASSUME NEW max \in ByteLimits, SetMaxBytes(max) PROVE Counts'
    BY <1>9 DEF SetMaxBytes, Counts, TotalsAccount, contents
  <1>10. CASE UNCHANGED vars
    BY <1>10 DEF vars, contents, capacity, Counts, TotalsAccount
  <1> QED
    BY <1>1, <1>2, <1>3, <1>4, <1>5, <1>6, <1>7, <1>8, <1>9, <1>10 DEF Next

(* The counters that decide what Enqueue accepts, m_nPackets and m_nBytes, *)
(* describe the packets that DropTailQueue holds, the wrapping of the byte *)
(* counter included.                                                       *)
THEOREM CountersDescribe == Spec => []CountersAgree
  <1>1. QInv /\ Counts => CountersAgree
    BY DEF QInv, Counts, CountersAgree
  <1> QED
    BY <1>1, InitQInv, InitCounts, StepKeepsQInv, StepCounts, PTL DEF Spec

(* The totals count what was received and dropped since the last reset,    *)
(* a removed packet both as received and as dropped.                       *)
THEOREM TotalsAreExact == Spec => []TotalsAccount
  <1>1. Counts => TotalsAccount
    BY DEF Counts
  <1> QED
    BY <1>1, InitQInv, InitCounts, StepKeepsQInv, StepCounts, PTL DEF Spec

-----------------------------------------------------------------------------
(* The capacity *)

(* Packets are not empty, and no limit is within a packet of the top of    *)
(* the word.                                                               *)
OrdinarySizes ==
  /\ \A size \in Sizes : size > 0
  /\ \A size \in Sizes, max \in ByteLimits : max + size < Word

(* Only a queue that holds nothing holds no bytes. *)
LEMMA BytesOfFront ==
  ASSUME OrdinarySizes, NEW q \in Items, q # << >>
  PROVE  Sum(Tail(q)) \in Nat /\ Sum(Tail(q)) < Sum(q)
  <1>1. Head(q) \in Sizes /\ Tail(q) \in Items
    BY HeadThenTail
  <1>2. /\ q \in Seq(Int) /\ Tail(q) \in Seq(Int) /\ Sum(Tail(q)) \in Int
        /\ \A i \in 1..Len(Tail(q)) : Tail(q)[i] \in 0..Word
    BY <1>1, ItemsAreNumbers
  <1>3. Sum(Tail(q)) \in Nat
    BY <1>2, QueueAssumption, SumBound
  <1>4. Head(q) \in Int /\ Head(q) > 0
    <2>1. Head(q) > 0
      BY <1>1 DEF OrdinarySizes
    <2>2. Sizes \subseteq Int
      BY QueueAssumption
    <2> QED
      BY <1>1, <2>1, <2>2
  <1>5. Sum(q) = Head(q) + Sum(Tail(q))
    BY <1>2, SumTail
  <1> QED
    BY <1>3, <1>4, <1>5

(* In the mode of bytes the counter has not wrapped. *)
LEMMA BytesNotWrapped ==
  ASSUME QInv, Counts, CapacityKept, m_mode = "QUEUE_MODE_BYTES"
  PROVE  m_nBytes = Sum(m_packets) /\ m_nBytes \in Nat
  <1>1. /\ m_packets \in Seq(Int)
        /\ \A i \in 1..Len(m_packets) : m_packets[i] \in 0..Word
    BY ItemsAreNumbers DEF QInv
  <1>2. Sum(m_packets) \in Nat
    BY <1>1, QueueAssumption, SumBound
  <1>3. Sum(m_packets) \in 0..(Word - 1)
    BY <1>2, QueueAssumption DEF CapacityKept, Counts
  <1> QED
    BY <1>2, <1>3, QueueAssumption, ModSmall DEF Counts, Wrap

(* Only an empty queue passes the conditions of SetMode.                   *)
LEMMA ModeOfEmpty ==
  ASSUME OrdinarySizes, QInv, Counts, CapacityKept,
         NEW mode \in Modes, SetMode(mode), mode # m_mode
  PROVE  m_packets = << >>
  <1>1. CASE m_mode = "QUEUE_MODE_PACKETS"
    <2>1. mode = "QUEUE_MODE_BYTES"
      BY <1>1 DEF Modes
    <2>2. m_nPackets = 0
      BY <1>1, <2>1 DEF SetMode
    <2> QED
      BY <2>2, EmptySeq DEF QInv, Items
  <1>2. CASE m_mode = "QUEUE_MODE_BYTES"
    <2>1. mode = "QUEUE_MODE_PACKETS"
      BY <1>2 DEF Modes
    <2>2. m_nBytes = 0
      BY <1>2, <2>1 DEF SetMode
    <2>3. Sum(m_packets) = 0 /\ m_packets \in Items
      BY <1>2, <2>2, BytesNotWrapped DEF QInv
    <2> QED
      BY <2>3, BytesOfFront
  <1> QED
    BY <1>1, <1>2 DEF Counts, Modes

LEMMA EmptyKeepsCapacity ==
  ASSUME m_packets' = << >>, m_maxPackets' \in Nat, m_maxBytes' \in Nat
  PROVE  CapacityKept'
  BY SumEmpty, EmptySeq DEF CapacityKept

LEMMA FrontKeepsCapacity ==
  ASSUME OrdinarySizes, QInv, Counts, CapacityKept, TakeFront
  PROVE  CapacityKept'
  <1>1. m_packets \in Items /\ m_packets # << >>
    BY EmptySeq DEF QInv, TakeFront
  <1>2. /\ m_packets' = Tail(m_packets)
        /\ UNCHANGED <<m_mode, m_maxPackets, m_maxBytes>>
    BY DEF TakeFront, capacity
  <1>3. Len(Tail(m_packets)) = Len(m_packets) - 1 /\ Len(m_packets) \in Nat
    BY <1>1, HeadThenTail, ItemsAreNumbers
  <1>4. /\ Sum(Tail(m_packets)) \in Nat
        /\ Sum(Tail(m_packets)) < Sum(m_packets) /\ Sum(m_packets) \in Int
    BY <1>1, BytesOfFront, ItemsAreNumbers
  <1>5. m_maxPackets \in Nat /\ m_maxBytes \in Int
    BY QueueAssumption DEF Counts
  <1> QED
    BY <1>2, <1>3, <1>4, <1>5 DEF CapacityKept

LEMMA StoredKeepsCapacity ==
  ASSUME OrdinarySizes, QInv, Counts, CapacityKept,
         NEW size \in Sizes, EnqueueStored(size)
  PROVE  CapacityKept'
  <1>0. /\ m_packets \in Items /\ size \in Int /\ m_packets \in Seq(Int)
        /\ m_maxBytes \in Int /\ m_maxPackets \in Int
        /\ m_maxBytes + size < Word /\ size > 0
    BY QueueAssumption, ItemsAreNumbers DEF QInv, Counts, OrdinarySizes
  <1>1. /\ m_packets' = Append(m_packets, size) /\ ~Full(size)
        /\ UNCHANGED <<m_mode, m_maxPackets, m_maxBytes>>
    BY DEF EnqueueStored, capacity
  <1>2. CASE m_mode = "QUEUE_MODE_PACKETS"
    <2>1. Len(m_packets') = Len(m_packets) + 1 /\ Len(m_packets) \in Nat
      BY <1>0, <1>1, OneMore, ItemsAreNumbers
    <2>2. ~(Len(m_packets) >= m_maxPackets)
      BY <1>1, <1>2 DEF Full, QInv
    <2> QED
      BY <1>0, <1>1, <1>2, <2>1, <2>2 DEF CapacityKept
  <1>3. CASE m_mode = "QUEUE_MODE_BYTES"
    <2>1. m_nBytes = Sum(m_packets) /\ m_nBytes \in Nat /\ m_nBytes <= m_maxBytes
      BY <1>3, BytesNotWrapped DEF CapacityKept
    <2>2. m_nBytes + size \in 0..(Word - 1)
      BY <1>0, <2>1, QueueAssumption
    <2>3. Wrap(m_nBytes + size) = m_nBytes + size
      BY <2>2, QueueAssumption, ModSmall DEF Wrap
    <2>4. ~(m_nBytes + size > m_maxBytes)
      BY <1>1, <1>3, <2>3 DEF Full
    <2>5. Sum(m_packets') = m_nBytes + size
      BY <1>0, <1>1, <2>1, SumAppend
    <2> QED
      BY <1>0, <1>1, <1>3, <2>1, <2>4, <2>5 DEF CapacityKept
  <1> QED
    BY <1>2, <1>3 DEF Counts, Modes

LEMMA StepCapacity ==
  OrdinarySizes /\ QInv /\ Counts /\ CapacityKept /\ [Next]_vars => CapacityKept'
  <1> SUFFICES ASSUME OrdinarySizes, QInv, Counts, CapacityKept, [Next]_vars
               PROVE  CapacityKept'
    OBVIOUS
  <1>0. m_maxPackets \in Nat /\ m_maxBytes \in Nat
    BY QueueAssumption DEF Counts
  <1>1. ASSUME NEW size \in Sizes, EnqueueStored(size) PROVE CapacityKept'
    BY <1>1, StoredKeepsCapacity
  <1>2. ASSUME NEW size \in Sizes, EnqueueDropped(size) PROVE CapacityKept'
    BY <1>2 DEF EnqueueDropped, CapacityKept, contents, capacity
  <1>3. CASE Dequeue \/ Remove
    BY <1>3, FrontKeepsCapacity DEF Dequeue, Remove
  <1>4. CASE DequeueAll
    BY <1>0, <1>4, EmptyKeepsCapacity DEF DequeueAll, capacity
  <1>5. CASE ResetStatistics
    BY <1>5 DEF ResetStatistics, CapacityKept, contents, capacity
  <1>6. ASSUME NEW mode \in Modes, SetMode(mode) PROVE CapacityKept'
    <2>0. /\ UNCHANGED <<m_packets, m_maxPackets, m_maxBytes>> /\ m_mode' = mode
      BY <1>6 DEF SetMode, contents
    <2>1. CASE mode = m_mode
      BY <2>0, <2>1 DEF CapacityKept
    <2>2. CASE mode # m_mode
      BY <1>0, <1>6, <2>0, <2>2, ModeOfEmpty, EmptyKeepsCapacity
    <2> QED
      BY <2>1, <2>2
  <1>7. ASSUME NEW max \in PacketLimits, SetMaxPackets(max) PROVE CapacityKept'
    BY <1>7 DEF SetMaxPackets, CapacityKept, QInv, contents
  <1>8. ASSUME NEW max \in ByteLimits, SetMaxBytes(max) PROVE CapacityKept'
    BY <1>8, BytesNotWrapped DEF SetMaxBytes, CapacityKept, contents
  <1>9. CASE UNCHANGED vars
    BY <1>9 DEF vars, contents, capacity, CapacityKept
  <1> QED
    BY <1>1, <1>2, <1>3, <1>4, <1>5, <1>6, <1>7, <1>8, <1>9 DEF Next

LEMMA InitCapacity == Init => CapacityKept
  BY SumEmpty, EmptySeq, QueueAssumption DEF Init, CapacityKept

(* The queue never holds more than its capacity, in either mode, whenever  *)
(* mode and limits are changed, if packets are not empty and limits are    *)
(* away from the top of the word (Enqueue's 32-bit sum wraps there).       *)
THEOREM NeverOverCapacity ==
  ASSUME OrdinarySizes
  PROVE  Spec => []CapacityKept
  <1> QED
    BY InitQInv, InitCounts, InitCapacity,
       StepKeepsQInv, StepCounts, StepCapacity, PTL DEF Spec

(* SetMode changes the mode of an empty queue only (queue.cc, "Cannot      *)
(* change queue mode in a queue with packets"), though it asks m_nBytes.   *)
THEOREM ModeNeedsEmpty ==
  ASSUME OrdinarySizes
  PROVE  Spec => ModeChangesWhenEmpty
  <1>1. QInv /\ Counts /\ CapacityKept /\ [Next]_vars
          => [m_mode' # m_mode => m_packets = << >>]_vars
    <2> SUFFICES ASSUME QInv, Counts, CapacityKept, Next, m_mode' # m_mode
                 PROVE  m_packets = << >>
      OBVIOUS
    <2>1. ASSUME NEW mode \in Modes, SetMode(mode) PROVE m_packets = << >>
      BY <2>1, ModeOfEmpty DEF SetMode
    <2> QED
      BY <2>1 DEF Next, EnqueueStored, EnqueueDropped, Dequeue, Remove, TakeFront,
                  DequeueAll, ResetStatistics, SetMaxPackets, SetMaxBytes, capacity
  <1> QED
    BY <1>1, InitQInv, InitCounts, InitCapacity,
       StepKeepsQInv, StepCounts, StepCapacity, PTL DEF Spec, ModeChangesWhenEmpty
=============================================================================
