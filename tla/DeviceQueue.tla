---------------------------- MODULE DeviceQueue ----------------------------
(***************************************************************************)
(* A device's transmission queue as the upper layer sees it: the flow      *)
(* control of NetDeviceQueue (net-device.cc) with a DynamicQueueLimits     *)
(* object.  The device and the queue disc above it are not part of the     *)
(* repository; they are modelled as net-device.h asks them to use the      *)
(* interface: the queue disc passes packets on until it finds the queue    *)
(* stopped and then waits for the wake callback; the device reports bytes  *)
(* as it queues and transmits them, stops the queue when it is full and    *)
(* wakes it when it has room again.                                        *)
(***************************************************************************)
EXTENDS DynamicQueueLimits, Sequences, Sums

CONSTANTS Sizes,         \* packet sizes
          Capacity       \* how many packets the device holds

ASSUME DeviceAssumption ==
  /\ Sizes \subseteq 1..MaxObject /\ Sizes # {}
  /\ Capacity \in Nat \ {0}
  /\ Capacity * MaxObject <= Word \div 4    \* what it holds is far below 2^32

VARIABLES m_stoppedByDevice, m_stoppedByQueueLimits, m_queueLimits,
          inside,        \* the device: the sizes of the packets it holds
          disc           \* the queue disc: "idle", "running" or "waiting"

vars == <<m_stoppedByDevice, m_stoppedByQueueLimits, m_queueLimits,
          inside, disc>>

IsStopped == m_stoppedByDevice \/ m_stoppedByQueueLimits

Bytes == Sum(inside)

Init ==
  /\ m_stoppedByDevice = FALSE
  /\ m_stoppedByQueueLimits = FALSE
  /\ m_queueLimits \in NewLimits
  /\ inside = << >>
  /\ disc = "idle"

-----------------------------------------------------------------------------
NotifyQueuedBytes(bytes) ==
  LET l == Queued(m_queueLimits, bytes)
  IN  /\ m_queueLimits' = l
      /\ m_stoppedByQueueLimits' = (m_stoppedByQueueLimits \/ Available(l) < 0)

NotifyTransmittedSilently(bytes) ==              \* variant: no callback
  \E l \in Completed(m_queueLimits, bytes) :
     /\ m_queueLimits' = l
     /\ m_stoppedByQueueLimits' = (m_stoppedByQueueLimits /\ Available(l) < 0)
     /\ UNCHANGED disc

NotifyTransmittedEarly(bytes) ==                 \* variant: Available asked
  \E l \in Completed(m_queueLimits, bytes) :      \* before Completed
     LET open == Available(m_queueLimits) >= 0
     IN  /\ m_queueLimits' = l
         /\ m_stoppedByQueueLimits' = (m_stoppedByQueueLimits /\ ~open)
         /\ disc' = IF open THEN "running" ELSE disc

(* The wake callback makes the queue disc run. *)
NotifyTransmittedBytes(bytes) ==
  \E l \in Completed(m_queueLimits, bytes) :
     /\ m_queueLimits' = l
     /\ m_stoppedByQueueLimits' = (m_stoppedByQueueLimits /\ Available(l) < 0)
     /\ disc' = IF Available(l) < 0 THEN disc ELSE "running"

-----------------------------------------------------------------------------
(* The queue disc has a packet to send. *)
Arrive ==
  /\ disc = "idle"
  /\ disc' = "running"
  /\ UNCHANGED <<m_stoppedByDevice, m_stoppedByQueueLimits, m_queueLimits,
                 inside>>

(* It passes one on; the device accepts it, and stops the queue if it has  *)
(* no room for another.                                                    *)
Pass(size) ==
  /\ disc = "running" /\ ~IsStopped
  /\ inside' = Append(inside, size)
  /\ NotifyQueuedBytes(size)
  /\ m_stoppedByDevice' = (Len(inside') >= Capacity)
  /\ disc' \in {"running", "idle"}

FindStopped ==
  /\ disc = "running" /\ IsStopped
  /\ disc' = "waiting"
  /\ UNCHANGED <<m_stoppedByDevice, m_stoppedByQueueLimits, m_queueLimits,
                 inside>>

(* The device transmits the packet it has held longest. *)
Transmit ==
  /\ inside # << >>
  /\ inside' = Tail(inside)
  /\ NotifyTransmittedBytes(Head(inside))
  /\ UNCHANGED m_stoppedByDevice

Wake ==
  /\ m_stoppedByDevice /\ Len(inside) < Capacity
  /\ m_stoppedByDevice' = FALSE
  /\ disc' = "running"
  /\ UNCHANGED <<m_stoppedByQueueLimits, m_queueLimits, inside>>

(* The limits may be reset while the device holds nothing. *)
ResetQueueLimits ==
  /\ inside = << >>
  /\ m_queueLimits' = Reset(m_queueLimits)
  /\ UNCHANGED <<m_stoppedByDevice, m_stoppedByQueueLimits, inside, disc>>

(* The hold time passes. *)
HoldTime ==
  /\ m_queueLimits' = [m_queueLimits EXCEPT !.held = TRUE]
  /\ UNCHANGED <<m_stoppedByDevice, m_stoppedByQueueLimits, inside, disc>>

Next ==
  \/ Arrive \/ (\E size \in Sizes : Pass(size)) \/ FindStopped
  \/ Transmit \/ Wake \/ ResetQueueLimits \/ HoldTime

(* The device goes on transmitting and wakes the queue when it has room;   *)
(* nothing else is assumed.                                                *)
Fairness == WF_vars(Transmit) /\ WF_vars(Wake)

Spec == Init /\ [][Next]_vars /\ Fairness
-----------------------------------------------------------------------------
TypeOK ==
  /\ m_stoppedByDevice \in BOOLEAN /\ m_stoppedByQueueLimits \in BOOLEAN
  /\ m_queueLimits \in Limits
  /\ inside \in Seq(Sizes) /\ Len(inside) <= Capacity
  /\ disc \in {"idle", "running", "waiting"}

(* The two running totals, which wrap, always tell the bytes that the      *)
(* device holds.                                                           *)
InFlightAccounted == InProgress(m_queueLimits) = Unsigned(Bytes)

(* No wake-up is lost: a queue disc that waits for the callback waits at a *)
(* stopped queue, so the call that opens the queue also wakes it.          *)
NoLostWakeup == disc = "waiting" => IsStopped

(* A queue is stopped only while the device holds something whose          *)
(* completion will open it again.                                          *)
StoppedHasInFlight == m_stoppedByQueueLimits => inside # << >>

(* A stopped queue is opened again. *)
QueueReopens == IsStopped ~> ~IsStopped

(* Once the limit is in force (m_adjLimit is a computed one), the device   *)
(* never comes to hold more than MaxLimit, and one packet over it when the *)
(* queue is stopped.                                                       *)
InForce == m_queueLimits.m_adjLimit =
             Unsigned(m_queueLimits.m_limit + m_queueLimits.m_numCompleted)
Bounded ==
  \/ Bytes <= MaxLimit
  \/ m_stoppedByQueueLimits /\ \E size \in Sizes : Bytes <= MaxLimit + size
StaysBounded == [][InForce /\ Bounded => Bounded']_vars
=============================================================================
