-------------------------- MODULE SimpleNetDevice --------------------------
(***************************************************************************)
(* The slotted-ALOHA MAC of a linear wireless sensor network, as written   *)
(* in src/network/utils/simple-net-device.cc: the state of one device and  *)
(* every handler as a function from a network state to a network state.    *)
(*                                                                         *)
(* A network state is a record s with                                      *)
(*    s.dev   the device of every node of the line, and                    *)
(*    s.cal   the calendar of the events that are scheduled.               *)
(* A C++ handler that calls another handler is the composition of the two  *)
(* functions, in the order of the calls.                                   *)
(*                                                                         *)
(* Nodes are positions on the line: the sensor with m_sid = i stands at i, *)
(* the left gateway at 0 and the right one at N + 1 (both have m_sid 0).   *)
(* Sensors 1 and N are the ones the scenarios call SetLastNode (true) on.  *)
(***************************************************************************)
EXTENDS EventCalendar, FiniteSets

CONSTANTS N,            \* number of sensors on the line
          Round,        \* SetRound: back-off rounds before giving up
          MaxPackets,   \* DropTailQueue::m_maxPackets of m_queue
          MaxDid,       \* bound on data identities; m_Did has 16 bits
          NoPacket      \* the null m_txPacket

ASSUME LineAssumption ==
  /\ N \in Nat /\ N >= 2
  /\ Round \in Nat
  /\ MaxPackets \in Nat \ {0}
  /\ MaxDid \in 1..(2^16 - 1)

(* Every back-off fits into the calendar. *)
ASSUME BackoffAssumption ==
  \A j \in 1..Round : 2^j - 1 \in Nat /\ (2^j - 1) * Second <= Horizon

Sensor  == 1..N
Gateway == {0, N + 1}
Node    == 0..(N + 1)

Left(n)  == n - 1                       \* m_laddress
Right(n) == n + 1                       \* m_raddress
OppositeSame(n, peer) == peer                      \* variant: sent back
Opposite(n, peer) == IF peer = Left(n) THEN Right(n) ELSE Left(n)
last_node(n) == n \in {1, N}

(***************************************************************************)
(* Packets: the fields of LwsnHeader that control anything.                *)
(***************************************************************************)
PacketType == {"ORIGINAL_TRANSMISSION", "FORWARDING", "IACK"}
DataId     == 1..MaxDid
Packet     == [type : PacketType, osid : Sensor, did : DataId]

ASSUME NoPacketAssumption == NoPacket \notin Packet

SameData(p, q) == p.osid = q.osid /\ p.did = q.did
Data(p)        == <<p.osid, p.did>>
As(p, type)    == [p EXCEPT !.type = type]

(***************************************************************************)
(* The state of a device after its constructor.                            *)
(***************************************************************************)
Device == [send_flag : BOOLEAN, wait_ack : BOOLEAN,
           rack_flag : BOOLEAN, lack_flag : BOOLEAN,
           receive_flag : BOOLEAN, receive_flag_1 : BOOLEAN,
           k : Nat \ {0}, ndid : 1..(MaxDid + 1),
           txarray : (0..N) \X (0..MaxDid),
           m_txPacket : Packet \cup {NoPacket}, m_queue : Seq(Packet)]

NewDevice == [send_flag |-> FALSE, wait_ack |-> FALSE,
              rack_flag |-> FALSE, lack_flag |-> FALSE,
              receive_flag |-> FALSE, receive_flag_1 |-> FALSE,
              k |-> 1, ndid |-> 1, txarray |-> <<0, 0>>,
              m_txPacket |-> NoPacket, m_queue |-> << >>]

(***************************************************************************)
(* Events: a handler, the node it runs on and its arguments.               *)
(***************************************************************************)
RadioKind == {"ReceiveStart", "ReceiveCheck", "Receive"}
HopKind   == {"AckSend", "Forwarding", "AckCheck", "ReSend"}
OwnKind   == {"OriginalAckCheck", "ReOriginalSend"}
BareKind  == {"SetSleep", "WaitSend"}
TimerKind == {"AckCheck", "ReSend", "OriginalAckCheck", "ReOriginalSend"}

RadioEvent == [kind : RadioKind, node : Node, pkt : Packet, peer : Sensor]
HopEvent   == [kind : HopKind, node : Sensor, pkt : Packet, peer : Node]
OwnEvent   == [kind : OwnKind, node : Sensor, pkt : Packet]
BareEvent  == [kind : BareKind, node : Sensor]
Event      == RadioEvent \cup HopEvent \cup OwnEvent \cup BareEvent

Hop(kind, n, p, peer) == [kind |-> kind, node |-> n, pkt |-> p, peer |-> peer]
Own(kind, n, p)       == [kind |-> kind, node |-> n, pkt |-> p]
Bare(kind, n)         == [kind |-> kind, node |-> n]

Networks == [dev : [Node -> Device], cal : Calendars(Event)]

PostOn(s, t, event) == [s EXCEPT !.cal = Post(@, t, event)]
WithDevice(s, n, d) == [s EXCEPT !.dev[n] = d]

(***************************************************************************)
(* The queue.  A full drop-tail queue refuses the packet.                  *)
(***************************************************************************)
EnqueueUnbounded(q, p) == Append(q, p)             \* variant: no limit

Enqueue(q, p) == IF Len(q) >= MaxPackets THEN q ELSE Append(q, p)

Queued(q, p) == \E i \in 1..Len(q) : SameData(q[i], p)

QueueCheckBlind(q, p) == Enqueue(q, p)             \* variant: no look-up

(* QueueCheck cycles the queue through temp_queue looking for the data and *)
(* appends the packet only if no queued packet carries the same data.      *)
QueueCheck(q, p) == IF Queued(q, p) THEN q ELSE Enqueue(q, p)

DequeueIfHead(q, p) ==
  IF q # << >> /\ SameData(Head(q), p) THEN Tail(q) ELSE q

(***************************************************************************)
(* Sending.  The channel delivers at once: only the addressee reacts to    *)
(* ReceiveStart.  One second later the sender sleeps.                      *)
(***************************************************************************)
ChannelSend(s, n, p, to) ==
  PostOn(PostOn(s, 0, Hop("ReceiveStart", to, p, n)),
         Second, Bare("SetSleep", n))

AckSend(s, n, p, to) ==
  ChannelSend([s EXCEPT !.dev[n].send_flag = TRUE], n, As(p, "IACK"), to)

(* No acknowledgement is expected from a gateway. *)
ExpectsAck(n, to) ==
  \/ ~last_node(n)
  \/ n = 1 /\ to = Right(n)
  \/ n # 1 /\ to = Left(n)

WaitAckStale(s, n, p, to) ==                       \* variant: flags kept
  IF ExpectsAck(n, to)
  THEN PostOn([s EXCEPT !.dev[n].wait_ack = TRUE],
              2 * Second, Hop("AckCheck", n, p, to))
  ELSE PostOn([s EXCEPT !.dev[n].m_txPacket = NoPacket],
              2 * Second, Bare("WaitSend", n))

WaitAck(s, n, p, to) ==
  LET d == [s.dev[n] EXCEPT !.lack_flag = FALSE, !.rack_flag = FALSE]
  IN  IF ExpectsAck(n, to)
      THEN PostOn(WithDevice(s, n, [d EXCEPT !.wait_ack = TRUE]),
                  2 * Second, Hop("AckCheck", n, p, to))
      ELSE PostOn(WithDevice(s, n, [d EXCEPT !.m_txPacket = NoPacket]),
                  2 * Second, Bare("WaitSend", n))

OriginalWaitAck(s, n, p) ==
  PostOn([s EXCEPT !.dev[n].wait_ack = TRUE,
                   !.dev[n].lack_flag = (n = 1),
                   !.dev[n].rack_flag = (n = N)],
         3 * Second, Own("OriginalAckCheck", n, p))

ForwardingUnrecorded(s, n, p, to) ==               \* variant: m_txPacket not set
  LET f == As(p, "FORWARDING")
      d == [s.dev[n] EXCEPT !.send_flag = TRUE, !.txarray = Data(p)]
  IN  IF s.dev[n].txarray = Data(p)
      THEN AckSend(s, n, p, to)
      ELSE WaitAck(ChannelSend(WithDevice(s, n, d), n, f, to), n, f, to)

ForwardingAsOwn(s, n, p, to) ==                    \* variant: SetOsid (m_sid)
  LET d == [s.dev[n] EXCEPT !.send_flag = TRUE]
      f == [As(p, "FORWARDING") EXCEPT !.osid = n]
  IN  IF d.txarray = Data(p)
      THEN AckSend(s, n, p, to)
      ELSE WaitAck(ChannelSend(
                     WithDevice(s, n, [d EXCEPT !.txarray = Data(f),
                                                !.m_txPacket = f]),
                     n, f, to),
                   n, f, to)

(* The relay step: a packet already relayed last is only acknowledged, and *)
(* the acknowledgement goes where the packet would have gone.              *)
Forwarding(s, n, p, to) ==
  LET d == [s.dev[n] EXCEPT !.send_flag = TRUE]
      f == As(p, "FORWARDING")
  IN  IF d.txarray = Data(p)
      THEN AckSend(s, n, p, to)
      ELSE WaitAck(ChannelSend(
                     WithDevice(s, n, [d EXCEPT !.txarray = Data(p),
                                                !.m_txPacket = f]),
                     n, f, to),
                   n, f, to)

(* A busy device queues the packet; a free one sends the HEAD of its queue *)
(* after appending the packet.                                             *)
OriginalTransmission(s, n, p) ==
  LET d == s.dev[n]
      q == Append(d.m_queue, p)
      x == Head(q)
  IN  IF d.send_flag \/ d.wait_ack \/ Len(d.m_queue) >= MaxPackets
      THEN WithDevice(s, n, [d EXCEPT !.m_queue = Enqueue(@, p)])
      ELSE LET t == WithDevice(s, n, [d EXCEPT
                        !.send_flag = TRUE, !.m_queue = Tail(q),
                        !.m_txPacket = x, !.txarray = <<n, d.ndid - 1>>])
           IN  OriginalWaitAck(
                 ChannelSend(ChannelSend(t, n, x, Right(n)), n, x, Left(n)),
                 n, x)

(* The application's call: header = false. *)
Originate(s, n) ==
  LET p == [type |-> "ORIGINAL_TRANSMISSION", osid |-> n,
            did |-> s.dev[n].ndid]
  IN  OriginalTransmission([s EXCEPT !.dev[n].ndid = @ + 1], n, p)

(* Take the next queued packet.  A foreign original becomes a forwarding;  *)
(* a forwarding is relayed and then acknowledged to where it came from.    *)
Relabelled(n, p) == IF p.osid = n THEN p ELSE As(p, "FORWARDING")

WaitSend(s, n) ==
  LET d == s.dev[n]
      p == Relabelled(n, Head(d.m_queue))
      t == WithDevice(s, n, [d EXCEPT !.m_queue = Tail(@), !.m_txPacket = p])
  IN  IF d.send_flag \/ d.m_queue = << >>
      THEN s
      ELSE IF p.type = "ORIGINAL_TRANSMISSION"
      THEN OriginalTransmission(t, n, [p EXCEPT !.osid = n])
      ELSE IF p.osid > n
      THEN AckSend(Forwarding(t, n, p, Left(n)), n, p, Right(n))
      ELSE AckSend(Forwarding(t, n, p, Right(n)), n, p, Left(n))

SetSleep(s, n) == [s EXCEPT !.dev[n].send_flag = FALSE]

(***************************************************************************)
(* Receiving.  A transmission occupies the receiver for 0.9 s; a second    *)
(* one that starts meanwhile marks a collision and both are lost.          *)
(***************************************************************************)
ReceiveStart(s, n, p, from) ==
  IF s.dev[n].receive_flag
  THEN [s EXCEPT !.dev[n].receive_flag_1 = TRUE]
  ELSE PostOn([s EXCEPT !.dev[n].receive_flag = TRUE],
              9, Hop("ReceiveCheck", n, p, from))

ReceiveCheckStuck(s, n, p, from) ==                \* variant: flag not cleared
  IF s.dev[n].receive_flag_1
  THEN [s EXCEPT !.dev[n].receive_flag_1 = FALSE]
  ELSE PostOn(s, 0, Hop("Receive", n, p, from))

ReceiveCheck(s, n, p, from) ==
  LET t == [s EXCEPT !.dev[n].receive_flag = FALSE,
                     !.dev[n].receive_flag_1 = FALSE]
  IN  IF s.dev[n].receive_flag_1
      THEN t
      ELSE PostOn(t, 0, Hop("Receive", n, p, from))

(* Receive when m_sid = 0: a gateway keeps every data packet once. *)
ReceiveAtGateway(s, n, p) ==
  IF p.type = "IACK"
  THEN s
  ELSE [s EXCEPT !.dev[n].m_queue = QueueCheck(@, p)]

(* While an acknowledgement is awaited, other data is only queued. *)
ReceiveWhileWaiting(s, n, p) ==
  LET tx == s.dev[n].m_txPacket
  IN  IF tx # NoPacket /\ SameData(tx, p)
      THEN s
      ELSE [s EXCEPT !.dev[n].m_queue = QueueCheck(@, p)]

(* Acknowledge and relay, after t tenths. *)
AcceptData(s, n, p, from, t) ==
  PostOn(PostOn([s EXCEPT !.dev[n].send_flag = TRUE],
                t, Hop("AckSend", n, p, from)),
         t, Hop("Forwarding", n, p, Opposite(n, from)))

ReceiveOriginalAtOnce(s, n, p, from) ==            \* variant: both sides in
  IF s.dev[n].wait_ack                             \* the same slot
  THEN ReceiveWhileWaiting(s, n, p)
  ELSE AcceptData(s, n, p, from, 1)

ReceiveOriginalHeedless(s, n, p, from) ==          \* variant: wait_ack ignored
  AcceptData(s, n, p, from, IF from = Right(n) THEN 1 ELSE Second + 1)

ReceiveOriginalOffSlot(s, n, p, from) ==           \* variant: 1.0 s delay
  IF s.dev[n].wait_ack
  THEN ReceiveWhileWaiting(s, n, p)
  ELSE AcceptData(s, n, p, from, IF from = Right(n) THEN 1 ELSE Second)

ReceiveOriginal(s, n, p, from) ==
  IF s.dev[n].wait_ack
  THEN ReceiveWhileWaiting(s, n, p)
  ELSE AcceptData(s, n, p, from,
                  IF from = Right(n) THEN 1 ELSE Second + 1)

ReceiveForwarding(s, n, p, from) ==
  IF s.dev[n].wait_ack
  THEN ReceiveWhileWaiting(s, n, p)
  ELSE AcceptData([s EXCEPT !.dev[n].m_queue = DequeueIfHead(@, p)],
                  n, p, from, 1)

AckReceive(s, n, from) ==
  IF from = Right(n)
  THEN [s EXCEPT !.dev[n].rack_flag = TRUE]
  ELSE [s EXCEPT !.dev[n].lack_flag = TRUE]

(* Without an awaited acknowledgement the queue's head is removed if the   *)
(* acknowledgement is for it.                                              *)
ReceiveIack(s, n, p, from) ==
  IF ~s.dev[n].wait_ack
  THEN [s EXCEPT !.dev[n].m_queue = DequeueIfHead(@, p)]
  ELSE IF SameData(s.dev[n].m_txPacket, p)
  THEN AckReceive(s, n, from)
  ELSE s

Receive(s, n, p, from) ==
  IF s.dev[n].send_flag THEN s
  ELSE IF n \in Gateway THEN ReceiveAtGateway(s, n, p)
  ELSE CASE p.type = "ORIGINAL_TRANSMISSION" -> ReceiveOriginal(s, n, p, from)
         [] p.type = "FORWARDING" -> ReceiveForwarding(s, n, p, from)
         [] p.type = "IACK" -> ReceiveIack(s, n, p, from)

(***************************************************************************)
(* Acknowledgement timers and back-off.                                    *)
(***************************************************************************)
GiveUp == 100           \* what RandTime answers when the rounds are used up

(* RandTime's possible answers, in seconds, and what it does to k. *)
RandTimes(d) == IF d.k > Round THEN {GiveUp} ELSE 0..(2^d.k - 1)
AfterRandTimeEndless(d) == d                       \* variant: k stays
AfterRandTime(d) == [d EXCEPT !.k = IF @ > Round THEN 1 ELSE @ + 1]

ConcludedKeepingK(d) ==                            \* variant: k not reset
  [d EXCEPT !.wait_ack = FALSE, !.m_txPacket = NoPacket]

ConcludedWaiting(d) ==                             \* variant: wait_ack kept
  [d EXCEPT !.k = 1, !.m_txPacket = NoPacket]

(* The exchange is over, acknowledged or not. *)
Concluded(d) ==
  [d EXCEPT !.k = 1, !.wait_ack = FALSE, !.m_txPacket = NoPacket]

ClearAck(d, n, to) ==
  IF to = Right(n) THEN [d EXCEPT !.rack_flag = FALSE]
                   ELSE [d EXCEPT !.lack_flag = FALSE]

Acked(d, n, to) == IF to = Right(n) THEN d.rack_flag ELSE d.lack_flag

Conclude(s, n, d) == WaitSend(WithDevice(s, n, Concluded(d)), n)

(* Ask RandTime; on its sentinel give up, else post the retry. *)
RetryOr(gaveUp, s, n, delay, retry) ==
  IF delay = GiveUp
  THEN gaveUp
  ELSE PostOn(WithDevice(s, n, AfterRandTime(s.dev[n])),
              delay * Second, retry)

AckCheck(s, n, p, to, delay) ==
  LET d    == s.dev[n]
      done == Conclude(s, n, ClearAck(d, n, to))
  IN  IF Acked(d, n, to)
      THEN done
      ELSE RetryOr(done, s, n, delay, Hop("ReSend", n, p, to))

(* The flags are cleared AFTER WaitSend when no side has acknowledged, and *)
(* not at all when one side has.                                           *)
OriginalAckCheck(s, n, p, delay) ==
  LET d    == s.dev[n]
      done == Conclude(s, n, d)
      none == [done EXCEPT !.dev[n].rack_flag = FALSE,
                           !.dev[n].lack_flag = FALSE]
      both == Conclude(s, n, [d EXCEPT !.rack_flag = FALSE,
                                       !.lack_flag = FALSE])
      side == IF d.rack_flag THEN Left(n) ELSE Right(n)
  IN  IF d.rack_flag /\ d.lack_flag
      THEN both
      ELSE IF d.rack_flag \/ d.lack_flag
      THEN RetryOr(done, s, n, delay, Hop("ReSend", n, p, side))
      ELSE RetryOr(none, s, n, delay, Own("ReOriginalSend", n, p))

ReSendAsleep(s, n, p, to) ==                       \* variant: send_flag not set
  LET d == s.dev[n]
      f == As(p, "FORWARDING")
  IN  IF Acked(d, n, to)
      THEN Conclude(s, n, ClearAck(d, n, to))
      ELSE WaitAck(
             ChannelSend(ChannelSend(s, n, As(p, "IACK"), Opposite(n, to)),
                         n, f, to),
             n, f, to)

(* A retransmission also acknowledges the packet to the other side. *)
ReSend(s, n, p, to) ==
  LET d == s.dev[n]
      f == As(p, "FORWARDING")
  IN  IF Acked(d, n, to)
      THEN Conclude(s, n, ClearAck(d, n, to))
      ELSE WaitAck(
             ChannelSend(
               ChannelSend([s EXCEPT !.dev[n].send_flag = TRUE],
                           n, As(p, "IACK"), Opposite(n, to)),
               n, f, to),
             n, f, to)

ReOriginalSend(s, n, p) ==
  LET d     == s.dev[n]
      clear == WithDevice(s, n, [d EXCEPT !.rack_flag = FALSE,
                                          !.lack_flag = FALSE])
      o     == As(p, "ORIGINAL_TRANSMISSION")
  IN  IF d.rack_flag /\ d.lack_flag
      THEN Conclude(s, n, clear.dev[n])
      ELSE IF d.lack_flag
      THEN ReSend(clear, n, p, Right(n))
      ELSE IF d.rack_flag
      THEN ReSend(clear, n, p, Left(n))
      ELSE OriginalWaitAck(
             ChannelSend(
               ChannelSend([s EXCEPT !.dev[n].send_flag = TRUE],
                           n, o, Right(n)),
               n, o, Left(n)),
             n, o)
=============================================================================
