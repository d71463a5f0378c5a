--------------------------- MODULE DropTailQueue ---------------------------
(***************************************************************************)
(* The first-in-first-out queue of queue.cc and drop-tail-queue.cc: every  *)
(* public operation of Queue that changes its state, with DropTailQueue's  *)
(* DoEnqueue, DoDequeue and DoRemove in their places.  A queued item is    *)
(* the size of its packet, all that the queue looks at.                    *)
(***************************************************************************)
EXTENDS Naturals, Sequences, Sums

CONSTANTS Sizes,          \* the packet sizes that are offered
          PacketLimits,   \* the values MaxPackets is set to
          ByteLimits,     \* the values MaxBytes is set to
          Word,           \* 2^32: the range of uint32_t
          MaxOffered      \* bound on the packets offered between two resets

ASSUME QueueAssumption ==
  /\ Word \in Nat \ {0}
  /\ Sizes \subseteq 0..(Word - 1)
  /\ PacketLimits \subseteq 0..(Word - 1) /\ PacketLimits # {}
  /\ ByteLimits \subseteq 0..(Word - 1) /\ ByteLimits # {}
  /\ MaxOffered \in Nat

VARIABLES m_packets,      \* DropTailQueue: the items
          m_nPackets, m_nBytes,                 \* Queue: what is stored
          m_mode, m_maxPackets, m_maxBytes,     \* Queue: the capacity
          total,          \* m_nTotal...: the statistics
          since           \* history: the packets since ResetStatistics

contents == <<m_packets, m_nPackets, m_nBytes>>
capacity == <<m_mode, m_maxPackets, m_maxBytes>>
vars     == <<contents, capacity, total, since>>

Modes == {"QUEUE_MODE_PACKETS", "QUEUE_MODE_BYTES"}
NoTotal == [receivedPackets |-> 0, receivedBytes |-> 0,
            droppedPackets |-> 0, droppedBytes |-> 0]

Wrap(x) == x % Word

(* What was stored at the last reset, and what came, left and was lost     *)
(* since, each in its order.                                               *)
Nothing(q) == [held |-> q, came |-> << >>, left |-> << >>, lost |-> << >>]

Init ==
  /\ m_packets = << >> /\ m_nPackets = 0 /\ m_nBytes = 0
  /\ m_mode = "QUEUE_MODE_PACKETS"
  /\ m_maxPackets \in PacketLimits /\ m_maxBytes \in ByteLimits
  /\ total = NoTotal
  /\ since = Nothing(<< >>)

-----------------------------------------------------------------------------
(* Drop *)
Dropped(t, size) ==
  [t EXCEPT !.droppedPackets = Wrap(@ + 1), !.droppedBytes = Wrap(@ + size)]

Received(t, size) ==
  [t EXCEPT !.receivedPackets = Wrap(@ + 1), !.receivedBytes = Wrap(@ + size)]

FullBelow(size) ==                          \* variant: the new packet left out
  \/ m_mode = "QUEUE_MODE_PACKETS" /\ m_nPackets >= m_maxPackets
  \/ m_mode = "QUEUE_MODE_BYTES" /\ m_nBytes > m_maxBytes

Full(size) ==
  \/ m_mode = "QUEUE_MODE_PACKETS" /\ m_nPackets >= m_maxPackets
  \/ m_mode = "QUEUE_MODE_BYTES" /\ Wrap(m_nBytes + size) > m_maxBytes

Offered == Len(since.came) + Len(since.lost) < MaxOffered

EnqueueStored(size) ==
  /\ Offered /\ ~Full(size)
  /\ m_packets' = Append(m_packets, size)
  /\ m_nPackets' = m_nPackets + 1
  /\ m_nBytes' = Wrap(m_nBytes + size)
  /\ total' = Received(total, size)
  /\ since' = [since EXCEPT !.came = Append(@, size)]
  /\ UNCHANGED capacity

EnqueueDropped(size) ==
  /\ Offered /\ Full(size)
  /\ total' = Dropped(total, size)
  /\ since' = [since EXCEPT !.lost = Append(@, size)]
  /\ UNCHANGED <<contents, capacity>>

TakeBack ==                                 \* variant: the last item leaves
  /\ m_nPackets # 0
  /\ m_packets' = SubSeq(m_packets, 1, Len(m_packets) - 1)
  /\ m_nPackets' = m_nPackets - 1
  /\ m_nBytes' = Wrap(m_nBytes + Word - Head(m_packets))
  /\ UNCHANGED capacity

(* The queue without its first item. *)
TakeFront ==
  /\ m_nPackets # 0
  /\ m_packets' = Tail(m_packets)
  /\ m_nPackets' = m_nPackets - 1
  /\ m_nBytes' = Wrap(m_nBytes + Word - Head(m_packets))
  /\ UNCHANGED capacity

Dequeue ==
  /\ TakeFront
  /\ since' = [since EXCEPT !.left = Append(@, Head(m_packets))]
  /\ UNCHANGED total

RemoveQuietly ==                            \* variant: Drop is not called
  /\ TakeFront
  /\ since' = [since EXCEPT !.left = Append(@, Head(m_packets)),
                            !.lost = Append(@, Head(m_packets))]
  /\ UNCHANGED total

Remove ==
  /\ TakeFront
  /\ total' = Dropped(total, Head(m_packets))
  /\ since' = [since EXCEPT !.left = Append(@, Head(m_packets)),
                            !.lost = Append(@, Head(m_packets))]

DequeueAllKeepingBytes ==                   \* variant: bytes not subtracted
  /\ m_nPackets # 0
  /\ m_packets' = << >> /\ m_nPackets' = 0
  /\ since' = [since EXCEPT !.left = @ \o m_packets]
  /\ UNCHANGED <<m_nBytes, capacity, total>>

(* Dequeue until the queue is empty. *)
DequeueAll ==
  /\ m_nPackets # 0
  /\ m_packets' = << >> /\ m_nPackets' = 0
  /\ m_nBytes' = Wrap(m_nBytes + Word - Wrap(Sum(m_packets)))
  /\ since' = [since EXCEPT !.left = @ \o m_packets]
  /\ UNCHANGED <<capacity, total>>

ResetStatistics ==
  /\ total' = NoTotal
  /\ since' = Nothing(m_packets)
  /\ UNCHANGED <<contents, capacity>>

SetModeUnchecked(mode) ==                   \* variant: no abort
  /\ m_mode' = mode
  /\ UNCHANGED <<contents, m_maxPackets, m_maxBytes, total, since>>

(* NS_ABORT_MSG_IF ends the program: the guard of a setter is that it does *)
(* not.                                                                    *)
SetMode(mode) ==
  /\ mode = "QUEUE_MODE_BYTES" /\ m_mode = "QUEUE_MODE_PACKETS" =>
       m_nPackets = 0
  /\ mode = "QUEUE_MODE_PACKETS" /\ m_mode = "QUEUE_MODE_BYTES" =>
       m_nBytes = 0
  /\ m_mode' = mode
  /\ UNCHANGED <<contents, m_maxPackets, m_maxBytes, total, since>>

SetMaxPackets(max) ==
  /\ m_mode = "QUEUE_MODE_PACKETS" => max >= m_nPackets
  /\ m_maxPackets' = max
  /\ UNCHANGED <<contents, m_mode, m_maxBytes, total, since>>

SetMaxBytes(max) ==
  /\ m_mode = "QUEUE_MODE_BYTES" => max >= m_nBytes
  /\ m_maxBytes' = max
  /\ UNCHANGED <<contents, m_mode, m_maxPackets, total, since>>

Next ==
  \/ \E size \in Sizes : EnqueueStored(size) \/ EnqueueDropped(size)
  \/ Dequeue \/ Remove \/ DequeueAll \/ ResetStatistics
  \/ \E mode \in Modes : SetMode(mode)
  \/ \E max \in PacketLimits : SetMaxPackets(max)
  \/ \E max \in ByteLimits : SetMaxBytes(max)

Spec == Init /\ [][Next]_vars
-----------------------------------------------------------------------------
(* The two counters of Queue, which decide what is accepted, describe what *)
(* DropTailQueue really holds (the assertion in DoEnqueue, DoDequeue and   *)
(* DoRemove, and the one on m_nBytes in Dequeue).                          *)
CountersAgree ==
  /\ m_nPackets = Len(m_packets)
  /\ m_nBytes = Wrap(Sum(m_packets))

(* doc/queue.rst: "The Enqueue method does not allow to store a packet if  *)
(* the queue capacity is exceeded", in whichever mode, whenever mode and   *)
(* limits were changed.                                                    *)
CapacityKept ==
  /\ m_mode = "QUEUE_MODE_PACKETS" => Len(m_packets) <= m_maxPackets
  /\ m_mode = "QUEUE_MODE_BYTES" => Sum(m_packets) <= m_maxBytes

(* queue.h: the totals count exactly what was received and dropped since   *)
(* the last reset, removed packets both as received and as dropped.        *)
TotalsAccount ==
  /\ total.receivedPackets = Wrap(Len(since.came))
  /\ total.receivedBytes = Wrap(Sum(since.came))
  /\ total.droppedPackets = Wrap(Len(since.lost))
  /\ total.droppedBytes = Wrap(Sum(since.lost))

(* doc/queue.rst: "a basic first-in-first-out (FIFO) queue".  Packets      *)
(* leave in the order in which they came, none twice and none missed,      *)
(* whichever of Dequeue, Remove and DequeueAll takes them out.             *)
FifoOrder == since.held \o since.came = since.left \o m_packets

(* queue.cc, SetMode: "Cannot change queue mode in a queue with packets."  *)
ModeChangesWhenEmpty == [][m_mode' # m_mode => m_packets = << >>]_vars
=============================================================================
