------------------------- MODULE SlottedAlohaProofs -------------------------
(***************************************************************************)
(* Proofs about SlottedAloha for every line, back-off limit, queue limit   *)
(* and scenario, in three parts, each with its theorems at its end: types, *)
(* slots, hops and the refinement; the stop-and-wait exchange; receptions, *)
(* which rest on both.  In each, one lemma per handler shows that it keeps *)
(* the inductive invariant, and the step lemma takes them together.        *)
(***************************************************************************)
EXTENDS SlottedAloha, SequenceTheorems, FiniteSetTheorems, TLAPS

(***************************************************************************)
(* The inductive invariant, as sets the network state stays in.  They are  *)
(* relative to a history h (who has had which data), the next identities   *)
(* nd, and the clock c: a device holds only data of its own history, an    *)
(* event is scheduled only at its phase of the slot, and its packet is in  *)
(* the history of the node that sent or holds it.                          *)
(***************************************************************************)
Histories  == [Node -> SUBSET (Sensor \X DataId)]
Identities == [Node -> 1..(MaxDid + 1)]
Clocks     == 0..(Second - 1)

Holding(K) == {p \in Packet : Data(p) \in K}
Queues(K)  == {q \in Seq(Holding(K)) : Len(q) <= MaxPackets}

DeviceOf(K, i) ==
  [send_flag : BOOLEAN, wait_ack : BOOLEAN,
   rack_flag : BOOLEAN, lack_flag : BOOLEAN,
   receive_flag : BOOLEAN, receive_flag_1 : BOOLEAN,
   k : Nat \ {0}, ndid : {i}, txarray : (0..N) \X (0..MaxDid),
   m_txPacket : Holding(K) \cup {NoPacket}, m_queue : Queues(K)]

Adjacent(n, m) == m = Left(n) \/ m = Right(n)

Radios(h, c) == {e \in RadioEvent : /\ c = PhaseOf(e.kind)
                                    /\ Adjacent(e.node, e.peer)
                                    /\ Data(e.pkt) \in h[e.peer]}
Hops(h, c)   == {e \in HopEvent : /\ c = PhaseOf(e.kind)
                                  /\ Adjacent(e.node, e.peer)
                                  /\ Data(e.pkt) \in h[e.node]}
Owns(h, c)   == {e \in OwnEvent : /\ c = PhaseOf(e.kind)
                                  /\ Data(e.pkt) \in h[e.node]}
Bares(c)     == {e \in BareEvent : c = PhaseOf(e.kind)}

Events(h, c) == Radios(h, c) \cup Hops(h, c) \cup Owns(h, c) \cup Bares(c)

Devices(h, nd) ==
  {f \in [Node -> Device] : \A n \in Node : f[n] \in DeviceOf(h[n], nd[n])}
Agendas(h, c) ==
  {f \in Calendars(Event) :
     \A t \in Delay : f[t] \in Seq(Events(h, (c + t) % Second))}
Nets(h, nd, c) == [dev : Devices(h, nd), cal : Agendas(h, c)]

-----------------------------------------------------------------------------
(* Building blocks.                                                        *)

LEMMA PostOnNets ==
  ASSUME NEW h \in Histories, NEW nd \in Identities, NEW c \in Clocks,
         NEW s \in Nets(h, nd, c), NEW t \in Delay,
         NEW e \in Event, e \in Events(h, (c + t) % Second)
  PROVE  PostOn(s, t, e) \in Nets(h, nd, c)
  <1>0. s.cal \in Agendas(h, c)
    BY DEF Nets
  <1>1. Post(s.cal, t, e) \in Calendars(Event)
    BY <1>0 DEF Agendas, Calendars, Post
  <1>2. ASSUME NEW u \in Delay
        PROVE  Post(s.cal, t, e)[u] \in Seq(Events(h, (c + u) % Second))
    <2> DEFINE E == Events(h, (c + u) % Second)
    <2>1. s.cal[u] \in Seq(E)
      BY <1>0 DEF Agendas
    <2>2. CASE u = t
      <3>1. Post(s.cal, t, e)[u] = Append(s.cal[u], e)
        BY <1>0, <2>2 DEF Post, Agendas, Calendars
      <3>2. e \in E
        BY <2>2
      <3> HIDE DEF E
      <3>3. Append(s.cal[u], e) \in Seq(E)
        BY <2>1, <3>2
      <3> QED
        BY <3>1, <3>3 DEF E
    <2>3. CASE u # t
      BY <1>0, <2>1, <2>3 DEF Post, Agendas, Calendars
    <2> QED
      BY <2>2, <2>3
  <1>3. Post(s.cal, t, e) \in Agendas(h, c)
    BY <1>1, <1>2 DEF Agendas
  <1> QED
    BY <1>3 DEF Nets, PostOn

LEMMA NetsHaveDevices ==
  ASSUME NEW h \in Histories, NEW nd \in Identities, NEW c \in Clocks,
         NEW s \in Nets(h, nd, c), NEW n \in Node
  PROVE  s.dev[n] \in DeviceOf(h[n], nd[n])
  BY DEF Nets, Devices

LEMMA WithDeviceNets ==
  ASSUME NEW h \in Histories, NEW nd \in Identities, NEW c \in Clocks,
         NEW s \in Nets(h, nd, c), NEW n \in Node,
         NEW d \in DeviceOf(h[n], nd[n])
  PROVE  WithDevice(s, n, d) \in Nets(h, nd, c)
  <1>1. d \in Device
    BY DEF DeviceOf, Device, Queues, Holding, Identities
  <1>2. [s.dev EXCEPT ![n] = d] \in Devices(h, nd)
    BY <1>1 DEF Nets, Devices
  <1> QED
    BY <1>2 DEF Nets, WithDevice

LEMMA AsKeepsData ==
  ASSUME NEW p \in Packet, NEW type \in PacketType
  PROVE  /\ As(p, type) \in Packet
         /\ Data(As(p, type)) = Data(p)
         /\ As(p, type).osid = p.osid
         /\ As(p, type).type = type
  BY DEF Packet, As, Data

(* Every event a handler schedules is in its set.                          *)
LEMMA RadioTyped ==
  ASSUME NEW h \in Histories, NEW kind \in RadioKind, NEW n \in Node,
         NEW p \in Packet, NEW peer \in Sensor,
         Adjacent(n, peer), Data(p) \in h[peer]
  PROVE  /\ Hop(kind, n, p, peer) \in Event
         /\ Hop(kind, n, p, peer) \in Events(h, PhaseOf(kind))
  BY DEF Hop, Event, RadioEvent, Events, Radios

LEMMA HopTyped ==
  ASSUME NEW h \in Histories, NEW kind \in HopKind, NEW n \in Sensor,
         NEW p \in Packet, NEW peer \in Node,
         Adjacent(n, peer), Data(p) \in h[n]
  PROVE  /\ Hop(kind, n, p, peer) \in Event
         /\ Hop(kind, n, p, peer) \in Events(h, 0)
  BY DEF Hop, Event, HopEvent, HopKind, Events, Hops, PhaseOf

LEMMA OwnTyped ==
  ASSUME NEW h \in Histories, NEW kind \in OwnKind, NEW n \in Sensor,
         NEW p \in Packet, Data(p) \in h[n]
  PROVE  /\ Own(kind, n, p) \in Event
         /\ Own(kind, n, p) \in Events(h, 0)
  BY DEF Own, Event, OwnEvent, OwnKind, Events, Owns, PhaseOf

LEMMA BareTyped ==
  ASSUME NEW h \in Histories, NEW kind \in BareKind, NEW n \in Sensor
  PROVE  /\ Bare(kind, n) \in Event
         /\ Bare(kind, n) \in Events(h, 0)
  BY DEF Bare, Event, BareEvent, BareKind, Events, Bares, PhaseOf

(* The delays of the handlers, and what they do to the phase.              *)
LEMMA Delays ==
  /\ 0 \in Delay /\ 1 \in Delay /\ 9 \in Delay /\ Second \in Delay
  /\ Second + 1 \in Delay /\ 2 * Second \in Delay /\ 3 * Second \in Delay
  /\ (0 + 0) % Second = 0 /\ (0 + 9) % Second = 9 /\ (9 + 0) % Second = 9
  /\ (0 + Second) % Second = 0 /\ (0 + 2 * Second) % Second = 0
  /\ (0 + 3 * Second) % Second = 0 /\ (9 + 1) % Second = 0
  /\ (9 + (Second + 1)) % Second = 0
  /\ 0 \in Clocks /\ 9 \in Clocks
  BY HorizonAssumption DEF Delay, Second, Clocks

LEMMA Line ==
  /\ N \in Nat /\ N >= 2
  /\ Sensor \subseteq Node
  /\ \A n \in Sensor : /\ Left(n) \in Node /\ Right(n) \in Node
                       /\ Adjacent(n, Left(n)) /\ Adjacent(n, Right(n))
  /\ \A n, m \in Node : Adjacent(n, m) => Adjacent(m, n)
  BY LineAssumption DEF Sensor, Node, Left, Right, Adjacent
-----------------------------------------------------------------------------
(* The handlers that run at slot boundaries.                               *)

LEMMA ChannelSendNets ==
  ASSUME NEW h \in Histories, NEW nd \in Identities, NEW s \in Nets(h, nd, 0),
         NEW n \in Sensor, NEW p \in Packet, Data(p) \in h[n],
         NEW to \in Node, Adjacent(n, to)
  PROVE  ChannelSend(s, n, p, to) \in Nets(h, nd, 0)
  <1> DEFINE e == Hop("ReceiveStart", to, p, n)
             t == PostOn(s, 0, e)
  <1>1. e \in Event /\ e \in Events(h, 0)
    BY Line, RadioTyped DEF RadioKind, PhaseOf
  <1>2. t \in Nets(h, nd, 0)
    BY <1>1, PostOnNets, Delays
  <1>3. Bare("SetSleep", n) \in Event /\ Bare("SetSleep", n) \in Events(h, 0)
    BY BareTyped DEF BareKind
  <1> HIDE DEF t
  <1>4. PostOn(t, Second, Bare("SetSleep", n)) \in Nets(h, nd, 0)
    BY <1>2, <1>3, PostOnNets, Delays
  <1> QED
    BY <1>4 DEF ChannelSend, t

LEMMA AckSendNets ==
  ASSUME NEW h \in Histories, NEW nd \in Identities, NEW s \in Nets(h, nd, 0),
         NEW n \in Sensor, NEW p \in Packet, Data(p) \in h[n],
         NEW to \in Node, Adjacent(n, to)
  PROVE  AckSend(s, n, p, to) \in Nets(h, nd, 0)
  <1> DEFINE d == [s.dev[n] EXCEPT !.send_flag = TRUE]
             t == WithDevice(s, n, d)
  <1>1. n \in Node
    BY Line
  <1>2. s.dev[n] \in DeviceOf(h[n], nd[n])
    BY <1>1, NetsHaveDevices, Delays
  <1>3. t \in Nets(h, nd, 0)
    <2>1. d \in DeviceOf(h[n], nd[n])
      BY <1>2 DEF DeviceOf
    <2> QED
      BY <1>1, <2>1, WithDeviceNets, Delays
  <1>4. AckSend(s, n, p, to) = ChannelSend(t, n, As(p, "IACK"), to)
    BY DEF AckSend, WithDevice
  <1> HIDE DEF t
  <1> QED
    BY <1>3, <1>4, ChannelSendNets, AsKeepsData DEF PacketType

LEMMA WaitAckNets ==
  ASSUME NEW h \in Histories, NEW nd \in Identities, NEW s \in Nets(h, nd, 0),
         NEW n \in Sensor, NEW p \in Packet, Data(p) \in h[n],
         NEW to \in Node, Adjacent(n, to)
  PROVE  WaitAck(s, n, p, to) \in Nets(h, nd, 0)
  <1> DEFINE d == [s.dev[n] EXCEPT !.lack_flag = FALSE, !.rack_flag = FALSE]
             d1 == [d EXCEPT !.wait_ack = TRUE]
             d2 == [d EXCEPT !.m_txPacket = NoPacket]
  <1>1. n \in Node
    BY Line
  <1>2. s.dev[n] \in DeviceOf(h[n], nd[n])
    BY <1>1, NetsHaveDevices, Delays
  <1>3. d1 \in DeviceOf(h[n], nd[n]) /\ d2 \in DeviceOf(h[n], nd[n])
    BY <1>2 DEF DeviceOf
  <1> HIDE DEF d1, d2
  <1>4. PostOn(WithDevice(s, n, d1), 2 * Second, Hop("AckCheck", n, p, to))
          \in Nets(h, nd, 0)
    <2>1. WithDevice(s, n, d1) \in Nets(h, nd, 0)
      BY <1>1, <1>3, WithDeviceNets, Delays
    <2>2. /\ Hop("AckCheck", n, p, to) \in Event
          /\ Hop("AckCheck", n, p, to) \in Events(h, 0)
      BY HopTyped DEF HopKind
    <2> QED
      BY <2>1, <2>2, PostOnNets, Delays
  <1>5. PostOn(WithDevice(s, n, d2), 2 * Second, Bare("WaitSend", n))
          \in Nets(h, nd, 0)
    <2>1. WithDevice(s, n, d2) \in Nets(h, nd, 0)
      BY <1>1, <1>3, WithDeviceNets, Delays
    <2>2. Bare("WaitSend", n) \in Event /\ Bare("WaitSend", n) \in Events(h, 0)
      BY BareTyped DEF BareKind
    <2> QED
      BY <2>1, <2>2, PostOnNets, Delays
  <1> QED
    BY <1>4, <1>5 DEF WaitAck, d1, d2

LEMMA OriginalWaitAckNets ==
  ASSUME NEW h \in Histories, NEW nd \in Identities, NEW s \in Nets(h, nd, 0),
         NEW n \in Sensor, NEW p \in Packet, Data(p) \in h[n]
  PROVE  OriginalWaitAck(s, n, p) \in Nets(h, nd, 0)
  <1> DEFINE d == [s.dev[n] EXCEPT !.wait_ack = TRUE, !.lack_flag = (n = 1),
                                   !.rack_flag = (n = N)]
             t == WithDevice(s, n, d)
  <1>1. n \in Node
    BY Line
  <1>2. s.dev[n] \in DeviceOf(h[n], nd[n])
    BY <1>1, NetsHaveDevices, Delays
  <1>3. t \in Nets(h, nd, 0)
    <2>1. d \in DeviceOf(h[n], nd[n])
      BY <1>2 DEF DeviceOf
    <2> QED
      BY <1>1, <2>1, WithDeviceNets, Delays
  <1>4. /\ Own("OriginalAckCheck", n, p) \in Event
        /\ Own("OriginalAckCheck", n, p) \in Events(h, 0)
    BY OwnTyped DEF OwnKind
  <1>5. OriginalWaitAck(s, n, p) =
          PostOn(t, 3 * Second, Own("OriginalAckCheck", n, p))
    <2>1. s = [dev |-> s.dev, cal |-> s.cal] /\ s.dev \in [Node -> Device]
      BY DEF Nets, Devices
    <2>2. [s EXCEPT !.dev[n].wait_ack = TRUE, !.dev[n].lack_flag = (n = 1),
                    !.dev[n].rack_flag = (n = N)] = [s EXCEPT !.dev[n] = d]
      BY <1>1, <2>1
    <2> QED
      BY <2>2 DEF OriginalWaitAck, WithDevice
  <1> HIDE DEF t
  <1> QED
    BY <1>3, <1>4, <1>5, PostOnNets, Delays

LEMMA ForwardingNets ==
  ASSUME NEW h \in Histories, NEW nd \in Identities, NEW s \in Nets(h, nd, 0),
         NEW n \in Sensor, NEW p \in Packet, Data(p) \in h[n],
         NEW to \in Node, Adjacent(n, to)
  PROVE  Forwarding(s, n, p, to) \in Nets(h, nd, 0)
  <1> DEFINE f == As(p, "FORWARDING")
             d == [s.dev[n] EXCEPT !.send_flag = TRUE]
             d1 == [d EXCEPT !.txarray = Data(p), !.m_txPacket = f]
             t == WithDevice(s, n, d1)
             t1 == ChannelSend(t, n, f, to)
  <1>1. n \in Node
    BY Line
  <1>2. s.dev[n] \in DeviceOf(h[n], nd[n])
    BY <1>1, NetsHaveDevices, Delays
  <1>3. f \in Packet /\ Data(f) \in h[n]
    BY AsKeepsData DEF PacketType
  <1>4. t \in Nets(h, nd, 0)
    <2>1. f \in Holding(h[n])
      BY <1>3 DEF Holding
    <2>2. Data(p) \in (0..N) \X (0..MaxDid)
      BY Line, LineAssumption DEF Data, Packet, DataId, Sensor
    <2> HIDE DEF f
    <2>3. d1 \in DeviceOf(h[n], nd[n])
      BY <1>2, <2>1, <2>2 DEF DeviceOf
    <2> HIDE DEF d1
    <2> QED
      BY <1>1, <2>3, WithDeviceNets, Delays
  <1> HIDE DEF f, t
  <1>5. t1 \in Nets(h, nd, 0)
    BY <1>3, <1>4, ChannelSendNets
  <1> HIDE DEF t1
  <1>6. WaitAck(t1, n, f, to) \in Nets(h, nd, 0)
    BY <1>3, <1>5, WaitAckNets
  <1>7. AckSend(s, n, p, to) \in Nets(h, nd, 0)
    BY AckSendNets
  <1> QED
    BY <1>6, <1>7 DEF Forwarding, t1, t, f
-----------------------------------------------------------------------------
(* Queues: what the drop-tail operations keep.                             *)

LEMMA QueueOperations ==
  ASSUME NEW K, NEW q \in Queues(K), NEW p \in Holding(K)
  PROVE  /\ Enqueue(q, p) \in Queues(K)
         /\ QueueCheck(q, p) \in Queues(K)
         /\ Len(q) < MaxPackets => /\ Head(Append(q, p)) \in Holding(K)
                                   /\ Tail(Append(q, p)) \in Queues(K)
  <1> DEFINE H == Holding(K)
  <1>1. q \in Seq(H) /\ Len(q) <= MaxPackets /\ p \in H /\ Len(q) \in Nat
    BY DEF Queues
  <1>2. MaxPackets \in Nat
    BY LineAssumption
  <1>3. Queues(K) = {x \in Seq(H) : Len(x) <= MaxPackets}
    BY DEF Queues
  <1> HIDE DEF H
  <1>4. /\ Append(q, p) \in Seq(H) /\ Append(q, p) # << >>
        /\ Len(Append(q, p)) = Len(q) + 1
    BY <1>1, AppendProperties
  <1>5. Enqueue(q, p) \in Queues(K)
    BY <1>1, <1>2, <1>3, <1>4 DEF Enqueue
  <1>6. QueueCheck(q, p) \in Queues(K)
    BY <1>5 DEF QueueCheck
  <1>7. ASSUME Len(q) < MaxPackets
        PROVE  Head(Append(q, p)) \in H /\ Tail(Append(q, p)) \in Queues(K)
    <2>1. /\ Head(Append(q, p)) \in H
          /\ Tail(Append(q, p)) \in Seq(H)
          /\ Len(Tail(Append(q, p))) = Len(Append(q, p)) - 1
      BY <1>4, HeadTailProperties
    <2> QED
      BY <1>1, <1>3, <1>4, <2>1
  <1> QED
    BY <1>5, <1>6, <1>7 DEF H

LEMMA HeadOperations ==
  ASSUME NEW K, NEW q \in Queues(K), q # << >>
  PROVE  Head(q) \in Holding(K) /\ Tail(q) \in Queues(K)
  <1> DEFINE H == Holding(K)
  <1>1. q \in Seq(H) /\ Len(q) <= MaxPackets /\ Len(q) \in Nat
    BY DEF Queues
  <1>2. MaxPackets \in Nat
    BY LineAssumption
  <1>3. Queues(K) = {x \in Seq(H) : Len(x) <= MaxPackets}
    BY DEF Queues
  <1> HIDE DEF H
  <1>4. /\ Head(q) \in H /\ Tail(q) \in Seq(H)
        /\ Len(Tail(q)) = Len(q) - 1
    BY <1>1, HeadTailProperties
  <1>5. Tail(q) \in Queues(K)
    BY <1>1, <1>2, <1>3, <1>4
  <1> QED
    BY <1>4, <1>5 DEF H

LEMMA DequeueIfHeadTyped ==
  ASSUME NEW K, NEW q \in Queues(K), NEW p
  PROVE  DequeueIfHead(q, p) \in Queues(K)
  BY HeadOperations DEF DequeueIfHead

LEMMA OriginalTransmissionNets ==
  ASSUME NEW h \in Histories, NEW nd \in Identities, NEW s \in Nets(h, nd, 0),
         NEW n \in Sensor, NEW p \in Holding(h[n])
  PROVE  OriginalTransmission(s, n, p) \in Nets(h, nd, 0)
  <1> DEFINE d == s.dev[n]
             q == Append(d.m_queue, p)
             x == Head(q)
             e == [d EXCEPT !.m_queue = Enqueue(@, p)]
             f == [d EXCEPT !.send_flag = TRUE, !.m_queue = Tail(q),
                            !.m_txPacket = x, !.txarray = <<n, d.ndid - 1>>]
             t == WithDevice(s, n, f)
             t1 == ChannelSend(t, n, x, Right(n))
             t2 == ChannelSend(t1, n, x, Left(n))
  <1>1. n \in Node
    BY Line
  <1>2. d \in DeviceOf(h[n], nd[n])
    BY <1>1, NetsHaveDevices, Delays
  <1>3. d.m_queue \in Queues(h[n])
    BY <1>2 DEF DeviceOf
  <1>4. WithDevice(s, n, e) \in Nets(h, nd, 0)
    <2>1. Enqueue(d.m_queue, p) \in Queues(h[n])
      BY <1>3, QueueOperations
    <2>2. e \in DeviceOf(h[n], nd[n])
      BY <1>2, <2>1 DEF DeviceOf
    <2> HIDE DEF e
    <2> QED
      BY <1>1, <2>2, WithDeviceNets, Delays
  <1>5. ASSUME Len(d.m_queue) < MaxPackets
        PROVE  OriginalWaitAck(t2, n, x) \in Nets(h, nd, 0)
    <2>1. x \in Holding(h[n]) /\ Tail(q) \in Queues(h[n])
      BY <1>3, <1>5, QueueOperations
    <2>2. <<n, d.ndid - 1>> \in (0..N) \X (0..MaxDid)
      <3>1. d.ndid = nd[n] /\ nd[n] \in 1..(MaxDid + 1)
        BY <1>1, <1>2 DEF DeviceOf, Identities
      <3>2. MaxDid \in Int
        BY LineAssumption
      <3> QED
        BY <3>1, <3>2, Line DEF Sensor
    <2> HIDE DEF x, q
    <2>3. f \in DeviceOf(h[n], nd[n])
      BY <1>2, <2>1, <2>2 DEF DeviceOf
    <2> HIDE DEF f
    <2>4. t \in Nets(h, nd, 0)
      BY <1>1, <2>3, WithDeviceNets, Delays
    <2> HIDE DEF t
    <2>5. x \in Packet /\ Data(x) \in h[n]
      BY <2>1 DEF Holding
    <2>6. t1 \in Nets(h, nd, 0)
      BY <2>4, <2>5, ChannelSendNets, Line
    <2> HIDE DEF t1
    <2>7. t2 \in Nets(h, nd, 0)
      BY <2>5, <2>6, ChannelSendNets, Line
    <2> HIDE DEF t2
    <2> QED
      BY <2>5, <2>7, OriginalWaitAckNets
  <1>6. Len(d.m_queue) \in Nat /\ MaxPackets \in Nat
    BY <1>3, LineAssumption DEF Queues
  <1>7. CASE d.send_flag \/ d.wait_ack \/ Len(d.m_queue) >= MaxPackets
    BY <1>4, <1>7 DEF OriginalTransmission
  <1>8. CASE ~(d.send_flag \/ d.wait_ack \/ Len(d.m_queue) >= MaxPackets)
    <2>1. OriginalTransmission(s, n, p) = OriginalWaitAck(t2, n, x)
      BY <1>8 DEF OriginalTransmission
    <2>2. Len(d.m_queue) < MaxPackets
      BY <1>6, <1>8
    <2> HIDE DEF t2, x
    <2>3. OriginalWaitAck(t2, n, x) \in Nets(h, nd, 0)
      BY <1>5, <2>2
    <2> QED
      BY <2>1, <2>3
  <1> QED
    BY <1>7, <1>8

LEMMA WaitSendNets ==
  ASSUME NEW h \in Histories, NEW nd \in Identities, NEW s \in Nets(h, nd, 0),
         NEW n \in Sensor
  PROVE  WaitSend(s, n) \in Nets(h, nd, 0)
  <1> DEFINE d == s.dev[n]
             p == Relabelled(n, Head(d.m_queue))
             f == [d EXCEPT !.m_queue = Tail(@), !.m_txPacket = p]
             t == WithDevice(s, n, f)
             L == AckSend(Forwarding(t, n, p, Left(n)), n, p, Right(n))
             R == AckSend(Forwarding(t, n, p, Right(n)), n, p, Left(n))
             O == OriginalTransmission(t, n, [p EXCEPT !.osid = n])
  <1>1. n \in Node
    BY Line
  <1>2. d \in DeviceOf(h[n], nd[n])
    BY <1>1, NetsHaveDevices, Delays
  <1>3. CASE d.send_flag \/ d.m_queue = << >>
    BY <1>3 DEF WaitSend
  <1>4. CASE ~d.send_flag /\ d.m_queue # << >>
    <2> DEFINE x == Head(d.m_queue)
    <2>1. d.m_queue \in Queues(h[n])
      BY <1>2 DEF DeviceOf
    <2>2. x \in Holding(h[n]) /\ Tail(d.m_queue) \in Queues(h[n])
      BY <1>4, <2>1, HeadOperations
    <2> HIDE DEF x
    <2>3. p = Relabelled(n, x)
      BY DEF x
    <2>4. /\ p \in Packet /\ Data(p) \in h[n] /\ p \in Holding(h[n])
          /\ p.type = "ORIGINAL_TRANSMISSION" =>
               p.osid = n \/ x.type = "ORIGINAL_TRANSMISSION"
          /\ p.osid # n => p.type = "FORWARDING"
      BY <2>2, <2>3, AsKeepsData DEF Holding, Relabelled, PacketType
    <2> HIDE DEF p
    <2>5. f \in DeviceOf(h[n], nd[n])
      BY <1>2, <2>2, <2>4 DEF DeviceOf
    <2> HIDE DEF f
    <2>6. t \in Nets(h, nd, 0)
      BY <1>1, <2>5, WithDeviceNets, Delays
    <2> HIDE DEF t
    <2>7. L \in Nets(h, nd, 0)
      <3>1. Forwarding(t, n, p, Left(n)) \in Nets(h, nd, 0)
        BY <2>4, <2>6, ForwardingNets, Line
      <3> QED
        BY <2>4, <3>1, AckSendNets, Line
    <2>8. R \in Nets(h, nd, 0)
      <3>1. Forwarding(t, n, p, Right(n)) \in Nets(h, nd, 0)
        BY <2>4, <2>6, ForwardingNets, Line
      <3> QED
        BY <2>4, <3>1, AckSendNets, Line
    <2>9. ASSUME p.type = "ORIGINAL_TRANSMISSION"
          PROVE  O \in Nets(h, nd, 0)
      <3>1. p.osid = n
        BY <2>4, <2>9
      <3>2. [p EXCEPT !.osid = n] = p
        BY <2>4, <3>1 DEF Packet
      <3> QED
        BY <2>4, <2>6, <3>2, OriginalTransmissionNets
    <2>10. WaitSend(s, n) = IF p.type = "ORIGINAL_TRANSMISSION" THEN O
                            ELSE IF p.osid > n THEN L ELSE R
      BY <1>4 DEF WaitSend, p, t, f
    <2> QED
      BY <2>7, <2>8, <2>9, <2>10
  <1> QED
    BY <1>3, <1>4
-----------------------------------------------------------------------------
(* Receiving.                                                              *)

LEMMA ReceiveStartNets ==
  ASSUME NEW h \in Histories, NEW nd \in Identities, NEW s \in Nets(h, nd, 0),
         NEW n \in Node, NEW p \in Packet, NEW from \in Sensor,
         Adjacent(n, from), Data(p) \in h[from]
  PROVE  ReceiveStart(s, n, p, from) \in Nets(h, nd, 0)
  <1> DEFINE d1 == [s.dev[n] EXCEPT !.receive_flag_1 = TRUE]
             d2 == [s.dev[n] EXCEPT !.receive_flag = TRUE]
             t == WithDevice(s, n, d2)
             e == Hop("ReceiveCheck", n, p, from)
  <1>1. s.dev[n] \in DeviceOf(h[n], nd[n])
    BY NetsHaveDevices, Delays
  <1>2. d1 \in DeviceOf(h[n], nd[n]) /\ d2 \in DeviceOf(h[n], nd[n])
    BY <1>1 DEF DeviceOf
  <1>3. WithDevice(s, n, d1) \in Nets(h, nd, 0) /\ t \in Nets(h, nd, 0)
    BY <1>2, WithDeviceNets, Delays
  <1>4. e \in Event /\ e \in Events(h, 9)
    BY RadioTyped DEF RadioKind, PhaseOf
  <1>5. ReceiveStart(s, n, p, from) =
          IF s.dev[n].receive_flag THEN WithDevice(s, n, d1)
                                   ELSE PostOn(t, 9, e)
    BY DEF ReceiveStart, WithDevice
  <1> HIDE DEF t, e, d1
  <1>6. PostOn(t, 9, e) \in Nets(h, nd, 0)
    BY <1>3, <1>4, PostOnNets, Delays
  <1> QED
    BY <1>3, <1>5, <1>6

LEMMA ReceiveCheckNets ==
  ASSUME NEW h \in Histories, NEW nd \in Identities, NEW s \in Nets(h, nd, 9),
         NEW n \in Node, NEW p \in Packet, NEW from \in Sensor,
         Adjacent(n, from), Data(p) \in h[from]
  PROVE  ReceiveCheck(s, n, p, from) \in Nets(h, nd, 9)
  <1> DEFINE d == [s.dev[n] EXCEPT !.receive_flag = FALSE,
                                   !.receive_flag_1 = FALSE]
             t == WithDevice(s, n, d)
             e == Hop("Receive", n, p, from)
  <1>1. s.dev[n] \in DeviceOf(h[n], nd[n])
    BY NetsHaveDevices, Delays
  <1>2. d \in DeviceOf(h[n], nd[n])
    BY <1>1 DEF DeviceOf
  <1>3. t \in Nets(h, nd, 9)
    BY <1>2, WithDeviceNets, Delays
  <1>4. e \in Event /\ e \in Events(h, 9)
    BY RadioTyped DEF RadioKind, PhaseOf
  <1>5. ReceiveCheck(s, n, p, from) =
          IF s.dev[n].receive_flag_1 THEN t ELSE PostOn(t, 0, e)
    <2>1. s = [dev |-> s.dev, cal |-> s.cal] /\ s.dev \in [Node -> Device]
      BY DEF Nets, Devices
    <2> QED
      BY <2>1 DEF ReceiveCheck, WithDevice
  <1> HIDE DEF t, e
  <1>6. PostOn(t, 0, e) \in Nets(h, nd, 9)
    BY <1>3, <1>4, PostOnNets, Delays
  <1> QED
    BY <1>3, <1>5, <1>6

LEMMA ReplaceQueue ==
  ASSUME NEW h \in Histories, NEW nd \in Identities, NEW s \in Nets(h, nd, 9),
         NEW n \in Node, NEW q \in Queues(h[n])
  PROVE  [s EXCEPT !.dev[n].m_queue = q] \in Nets(h, nd, 9)
  <1> DEFINE d == [s.dev[n] EXCEPT !.m_queue = q]
  <1>1. s.dev[n] \in DeviceOf(h[n], nd[n])
    BY NetsHaveDevices, Delays
  <1>2. d \in DeviceOf(h[n], nd[n])
    BY <1>1 DEF DeviceOf
  <1>3. [s EXCEPT !.dev[n].m_queue = q] = WithDevice(s, n, d)
    BY DEF WithDevice
  <1> HIDE DEF d
  <1> QED
    BY <1>2, <1>3, WithDeviceNets, Delays

LEMMA QueueOf ==
  ASSUME NEW h \in Histories, NEW nd \in Identities, NEW s \in Nets(h, nd, 9),
         NEW n \in Node
  PROVE  s.dev[n].m_queue \in Queues(h[n])
  <1>1. s.dev[n] \in DeviceOf(h[n], nd[n])
    BY NetsHaveDevices, Delays
  <1> QED
    BY <1>1 DEF DeviceOf

LEMMA ReceiveQueued ==
  ASSUME NEW h \in Histories, NEW nd \in Identities, NEW s \in Nets(h, nd, 9),
         NEW n \in Node, NEW p \in Holding(h[n])
  PROVE  /\ ReceiveAtGateway(s, n, p) \in Nets(h, nd, 9)
         /\ ReceiveWhileWaiting(s, n, p) \in Nets(h, nd, 9)
  <1> DEFINE q == QueueCheck(s.dev[n].m_queue, p)
  <1>1. q \in Queues(h[n])
    BY QueueOf, QueueOperations
  <1>2. [s EXCEPT !.dev[n].m_queue = QueueCheck(@, p)] =
          [s EXCEPT !.dev[n].m_queue = q]
    OBVIOUS
  <1> HIDE DEF q
  <1>3. [s EXCEPT !.dev[n].m_queue = q] \in Nets(h, nd, 9)
    BY <1>1, ReplaceQueue
  <1> QED
    BY <1>2, <1>3 DEF ReceiveAtGateway, ReceiveWhileWaiting

LEMMA AcceptDataNets ==
  ASSUME NEW h \in Histories, NEW nd \in Identities, NEW s \in Nets(h, nd, 9),
         NEW n \in Sensor, NEW p \in Packet, Data(p) \in h[n],
         NEW from \in Sensor, Adjacent(n, from),
         NEW t \in {1, Second + 1}
  PROVE  AcceptData(s, n, p, from, t) \in Nets(h, nd, 9)
  <1> DEFINE d == [s.dev[n] EXCEPT !.send_flag = TRUE]
             u == WithDevice(s, n, d)
             e == Hop("AckSend", n, p, from)
             f == Hop("Forwarding", n, p, Opposite(n, from))
             v == PostOn(u, t, e)
  <1>1. n \in Node
    BY Line
  <1>2. s.dev[n] \in DeviceOf(h[n], nd[n])
    BY <1>1, NetsHaveDevices, Delays
  <1>3. u \in Nets(h, nd, 9)
    <2>1. d \in DeviceOf(h[n], nd[n])
      BY <1>2 DEF DeviceOf
    <2> HIDE DEF d
    <2> QED
      BY <1>1, <2>1, WithDeviceNets, Delays
  <1>4. t \in Delay /\ (9 + t) % Second = 0
    BY Delays
  <1>5. e \in Event /\ e \in Events(h, 0)
    BY HopTyped, Line DEF HopKind
  <1>6. f \in Event /\ f \in Events(h, 0)
    <2>1. Opposite(n, from) \in Node /\ Adjacent(n, Opposite(n, from))
      BY Line DEF Opposite
    <2> QED
      BY <2>1, HopTyped, Line DEF HopKind
  <1>7. AcceptData(s, n, p, from, t) = PostOn(v, t, f)
    BY DEF AcceptData, WithDevice
  <1> HIDE DEF u, e, f
  <1>8. v \in Nets(h, nd, 9)
    BY <1>3, <1>4, <1>5, PostOnNets, Delays
  <1> HIDE DEF v
  <1>9. PostOn(v, t, f) \in Nets(h, nd, 9)
    BY <1>4, <1>6, <1>8, PostOnNets, Delays
  <1> QED
    BY <1>7, <1>9

LEMMA ReceiveNets ==
  ASSUME NEW h \in Histories, NEW nd \in Identities, NEW s \in Nets(h, nd, 9),
         NEW n \in Node, NEW p \in Packet, NEW from \in Sensor,
         Adjacent(n, from),
         s.dev[n].send_flag \/ p.type = "IACK" \/ Data(p) \in h[n]
  PROVE  Receive(s, n, p, from) \in Nets(h, nd, 9)
  <1>1. CASE s.dev[n].send_flag
    BY <1>1 DEF Receive
  <1>2. CASE ~s.dev[n].send_flag /\ n \in Gateway
    <2>1. ReceiveAtGateway(s, n, p) \in Nets(h, nd, 9)
      <3>1. CASE p.type = "IACK"
        BY <3>1 DEF ReceiveAtGateway
      <3>2. CASE p.type # "IACK"
        BY <1>2, <3>2, ReceiveQueued DEF Holding
      <3> QED
        BY <3>1, <3>2
    <2> QED
      BY <1>2, <2>1 DEF Receive
  <1>3. CASE ~s.dev[n].send_flag /\ n \notin Gateway
    <2>1. n \in Sensor
      BY <1>3, LineAssumption DEF Gateway, Node, Sensor
    <2>2. CASE p.type = "IACK"
      <3> DEFINE dr == [s.dev[n] EXCEPT !.rack_flag = TRUE]
                 dl == [s.dev[n] EXCEPT !.lack_flag = TRUE]
                 q == DequeueIfHead(s.dev[n].m_queue, p)
      <3>1. s.dev[n] \in DeviceOf(h[n], nd[n])
        BY NetsHaveDevices, Delays
      <3>2. dr \in DeviceOf(h[n], nd[n]) /\ dl \in DeviceOf(h[n], nd[n])
        BY <3>1 DEF DeviceOf
      <3>3. AckReceive(s, n, from) \in Nets(h, nd, 9)
        <4>1. AckReceive(s, n, from) =
                IF from = Right(n) THEN WithDevice(s, n, dr)
                                   ELSE WithDevice(s, n, dl)
          BY DEF AckReceive, WithDevice
        <4> HIDE DEF dr, dl
        <4> QED
          BY <3>2, <4>1, WithDeviceNets, Delays
      <3>4. [s EXCEPT !.dev[n].m_queue = q] \in Nets(h, nd, 9)
        <4>1. q \in Queues(h[n])
          BY QueueOf, DequeueIfHeadTyped
        <4> HIDE DEF q
        <4> QED
          BY <4>1, ReplaceQueue
      <3>5. ReceiveIack(s, n, p, from) \in Nets(h, nd, 9)
        BY <3>3, <3>4 DEF ReceiveIack
      <3>6. Receive(s, n, p, from) = ReceiveIack(s, n, p, from)
        BY <1>3, <2>2 DEF Receive
      <3> QED
        BY <3>5, <3>6
    <2>3. CASE p.type = "ORIGINAL_TRANSMISSION"
      <3>1. Data(p) \in h[n] /\ p \in Holding(h[n])
        BY <1>3, <2>3 DEF Holding
      <3>2. ReceiveWhileWaiting(s, n, p) \in Nets(h, nd, 9)
        BY <3>1, ReceiveQueued
      <3>3. AcceptData(s, n, p, from,
                       IF from = Right(n) THEN 1 ELSE Second + 1)
              \in Nets(h, nd, 9)
        BY <2>1, <3>1, AcceptDataNets
      <3>4. Receive(s, n, p, from) = ReceiveOriginal(s, n, p, from)
        BY <1>3, <2>3 DEF Receive
      <3> QED
        BY <3>2, <3>3, <3>4 DEF ReceiveOriginal
    <2>4. CASE p.type = "FORWARDING"
      <3> DEFINE q == DequeueIfHead(s.dev[n].m_queue, p)
                 t == [s EXCEPT !.dev[n].m_queue = q]
      <3>1. Data(p) \in h[n] /\ p \in Holding(h[n])
        BY <1>3, <2>4 DEF Holding
      <3>2. ReceiveWhileWaiting(s, n, p) \in Nets(h, nd, 9)
        BY <3>1, ReceiveQueued
      <3>3. t \in Nets(h, nd, 9)
        <4>1. q \in Queues(h[n])
          BY QueueOf, DequeueIfHeadTyped
        <4> HIDE DEF q
        <4> QED
          BY <4>1, ReplaceQueue
      <3>4. Receive(s, n, p, from) = ReceiveForwarding(s, n, p, from)
        BY <1>3, <2>4 DEF Receive
      <3>5. ReceiveForwarding(s, n, p, from) =
              IF s.dev[n].wait_ack THEN ReceiveWhileWaiting(s, n, p)
                                   ELSE AcceptData(t, n, p, from, 1)
        BY DEF ReceiveForwarding
      <3> HIDE DEF t
      <3>6. AcceptData(t, n, p, from, 1) \in Nets(h, nd, 9)
        BY <2>1, <3>1, <3>3, AcceptDataNets
      <3> QED
        BY <3>2, <3>4, <3>5, <3>6
    <2> QED
      BY <2>2, <2>3, <2>4 DEF Packet, PacketType
  <1> QED
    BY <1>1, <1>2, <1>3
-----------------------------------------------------------------------------
(* Acknowledgement timers and back-off.                                    *)

LEMMA BackoffFits ==
  ASSUME NEW d, d.k \in Nat \ {0}, NEW delay \in RandTimes(d), delay # GiveUp
  PROVE  delay * Second \in Delay /\ (0 + delay * Second) % Second = 0
  <1>1. d.k \in 1..Round /\ delay \in 0..(2^d.k - 1)
    BY LineAssumption DEF RandTimes
  <1> DEFINE b == 2^d.k - 1
  <1>2. b \in Nat /\ b * Second <= Horizon
    BY <1>1, BackoffAssumption
  <1>3. delay \in 0..b
    BY <1>1
  <1> HIDE DEF b
  <1> QED
    BY <1>2, <1>3, HorizonAssumption DEF Second, Delay

LEMMA DeviceOperations ==
  ASSUME NEW K, NEW i, NEW d \in DeviceOf(K, i), NEW n, NEW to
  PROVE  /\ AfterRandTime(d) \in DeviceOf(K, i)
         /\ Concluded(d) \in DeviceOf(K, i)
         /\ ClearAck(d, n, to) \in DeviceOf(K, i)
         /\ [d EXCEPT !.rack_flag = FALSE, !.lack_flag = FALSE]
              \in DeviceOf(K, i)
  <1>1. AfterRandTime(d) \in DeviceOf(K, i)
    BY LineAssumption DEF DeviceOf, AfterRandTime
  <1>2. Concluded(d) \in DeviceOf(K, i)
    <2>1. [d EXCEPT !.wait_ack = FALSE, !.m_txPacket = NoPacket]
            \in DeviceOf(K, i)
      BY DEF DeviceOf
    <2>2. \A f \in DeviceOf(K, i) : [f EXCEPT !.k = 1] \in DeviceOf(K, i)
      BY DEF DeviceOf
    <2>3. Concluded(d) = [[d EXCEPT !.wait_ack = FALSE, !.m_txPacket = NoPacket]
                            EXCEPT !.k = 1]
      BY DEF DeviceOf, Concluded
    <2> QED
      BY <2>1, <2>2, <2>3
  <1>3. ClearAck(d, n, to) \in DeviceOf(K, i)
    BY DEF DeviceOf, ClearAck
  <1>4. [d EXCEPT !.rack_flag = FALSE, !.lack_flag = FALSE] \in DeviceOf(K, i)
    BY DEF DeviceOf
  <1> QED
    BY <1>1, <1>2, <1>3, <1>4

LEMMA ConcludeNets ==
  ASSUME NEW h \in Histories, NEW nd \in Identities, NEW s \in Nets(h, nd, 0),
         NEW n \in Sensor, NEW d \in DeviceOf(h[n], nd[n])
  PROVE  Conclude(s, n, d) \in Nets(h, nd, 0)
  <1>1. WithDevice(s, n, Concluded(d)) \in Nets(h, nd, 0)
    BY Line, DeviceOperations, WithDeviceNets, Delays
  <1> QED
    BY <1>1, WaitSendNets DEF Conclude

LEMMA RetryOrNets ==
  ASSUME NEW h \in Histories, NEW nd \in Identities, NEW s \in Nets(h, nd, 0),
         NEW n \in Sensor, NEW gaveUp \in Nets(h, nd, 0),
         NEW delay \in RandTimes(s.dev[n]),
         NEW retry \in Event, retry \in Events(h, 0)
  PROVE  RetryOr(gaveUp, s, n, delay, retry) \in Nets(h, nd, 0)
  <1> DEFINE t == WithDevice(s, n, AfterRandTime(s.dev[n]))
  <1>1. s.dev[n] \in DeviceOf(h[n], nd[n])
    BY NetsHaveDevices, Delays, Line
  <1>2. t \in Nets(h, nd, 0)
    BY <1>1, Line, DeviceOperations, WithDeviceNets, Delays
  <1> HIDE DEF t
  <1>3. ASSUME delay # GiveUp
        PROVE  PostOn(t, delay * Second, retry) \in Nets(h, nd, 0)
    <2>1. s.dev[n].k \in Nat \ {0}
      BY <1>1 DEF DeviceOf
    <2>2. delay * Second \in Delay /\ (0 + delay * Second) % Second = 0
      BY <1>3, <2>1, BackoffFits
    <2> QED
      BY <1>2, <2>2, PostOnNets, Delays
  <1> QED
    BY <1>3 DEF RetryOr, t

LEMMA AckCheckNets ==
  ASSUME NEW h \in Histories, NEW nd \in Identities, NEW s \in Nets(h, nd, 0),
         NEW n \in Sensor, NEW p \in Packet, Data(p) \in h[n],
         NEW to \in Node, Adjacent(n, to), NEW delay \in RandTimes(s.dev[n])
  PROVE  AckCheck(s, n, p, to, delay) \in Nets(h, nd, 0)
  <1> DEFINE done == Conclude(s, n, ClearAck(s.dev[n], n, to))
  <1>1. s.dev[n] \in DeviceOf(h[n], nd[n])
    BY NetsHaveDevices, Delays, Line
  <1>2. done \in Nets(h, nd, 0)
    BY <1>1, DeviceOperations, ConcludeNets
  <1>3. /\ Hop("ReSend", n, p, to) \in Event
        /\ Hop("ReSend", n, p, to) \in Events(h, 0)
    BY HopTyped DEF HopKind
  <1> HIDE DEF done
  <1>4. RetryOr(done, s, n, delay, Hop("ReSend", n, p, to)) \in Nets(h, nd, 0)
    BY <1>2, <1>3, RetryOrNets
  <1> QED
    BY <1>2, <1>4 DEF AckCheck, done

LEMMA OriginalAckCheckNets ==
  ASSUME NEW h \in Histories, NEW nd \in Identities, NEW s \in Nets(h, nd, 0),
         NEW n \in Sensor, NEW p \in Packet, Data(p) \in h[n],
         NEW delay \in RandTimes(s.dev[n])
  PROVE  OriginalAckCheck(s, n, p, delay) \in Nets(h, nd, 0)
  <1> DEFINE d    == s.dev[n]
             done == Conclude(s, n, d)
             none == [done EXCEPT !.dev[n].rack_flag = FALSE,
                                  !.dev[n].lack_flag = FALSE]
             both == Conclude(s, n, [d EXCEPT !.rack_flag = FALSE,
                                              !.lack_flag = FALSE])
             side == IF d.rack_flag THEN Left(n) ELSE Right(n)
             one  == Hop("ReSend", n, p, side)
             all  == Own("ReOriginalSend", n, p)
  <1>0. n \in Node
    BY Line
  <1>1. d \in DeviceOf(h[n], nd[n])
    BY NetsHaveDevices, Delays, Line
  <1>2. done \in Nets(h, nd, 0) /\ both \in Nets(h, nd, 0)
    BY <1>1, DeviceOperations, ConcludeNets
  <1>3. none \in Nets(h, nd, 0)
    <2> DEFINE f == [done.dev[n] EXCEPT !.rack_flag = FALSE,
                                        !.lack_flag = FALSE]
    <2> HIDE DEF done
    <2>1. done.dev[n] \in DeviceOf(h[n], nd[n])
      BY <1>0, <1>2, NetsHaveDevices, Delays
    <2>2. f \in DeviceOf(h[n], nd[n])
      BY <2>1, DeviceOperations
    <2>3. none = WithDevice(done, n, f)
      <3>1. /\ done = [dev |-> done.dev, cal |-> done.cal]
            /\ done.dev \in [Node -> Device]
        BY <1>2 DEF Nets, Devices
      <3> QED
        BY <1>0, <3>1 DEF WithDevice
    <2> HIDE DEF f, none
    <2> QED
      BY <1>0, <1>2, <2>2, <2>3, WithDeviceNets, Delays
  <1>4. one \in Event /\ one \in Events(h, 0)
    BY HopTyped, Line DEF HopKind
  <1>5. all \in Event /\ all \in Events(h, 0)
    BY OwnTyped DEF OwnKind
  <1>6. OriginalAckCheck(s, n, p, delay) =
          IF d.rack_flag /\ d.lack_flag THEN both
          ELSE IF d.rack_flag \/ d.lack_flag
          THEN RetryOr(done, s, n, delay, one)
          ELSE RetryOr(none, s, n, delay, all)
    BY DEF OriginalAckCheck
  <1> HIDE DEF done, none, both, one, all
  <1>7. RetryOr(done, s, n, delay, one) \in Nets(h, nd, 0)
    BY <1>2, <1>4, RetryOrNets
  <1>8. RetryOr(none, s, n, delay, all) \in Nets(h, nd, 0)
    BY <1>3, <1>5, RetryOrNets
  <1> QED
    BY <1>2, <1>6, <1>7, <1>8

LEMMA WakeNets ==
  ASSUME NEW h \in Histories, NEW nd \in Identities, NEW s \in Nets(h, nd, 0),
         NEW n \in Sensor
  PROVE  [s EXCEPT !.dev[n].send_flag = TRUE] \in Nets(h, nd, 0)
  <1> DEFINE d == [s.dev[n] EXCEPT !.send_flag = TRUE]
  <1>1. s.dev[n] \in DeviceOf(h[n], nd[n])
    BY NetsHaveDevices, Delays, Line
  <1>2. d \in DeviceOf(h[n], nd[n])
    BY <1>1 DEF DeviceOf
  <1>3. [s EXCEPT !.dev[n].send_flag = TRUE] = WithDevice(s, n, d)
    BY DEF WithDevice
  <1> HIDE DEF d
  <1>4. WithDevice(s, n, d) \in Nets(h, nd, 0)
    BY <1>2, WithDeviceNets, Delays, Line
  <1> QED
    BY <1>3, <1>4

LEMMA ReSendNets ==
  ASSUME NEW h \in Histories, NEW nd \in Identities, NEW s \in Nets(h, nd, 0),
         NEW n \in Sensor, NEW p \in Packet, Data(p) \in h[n],
         NEW to \in Node, Adjacent(n, to)
  PROVE  ReSend(s, n, p, to) \in Nets(h, nd, 0)
  <1> DEFINE f    == As(p, "FORWARDING")
             a    == As(p, "IACK")
             done == Conclude(s, n, ClearAck(s.dev[n], n, to))
             t    == [s EXCEPT !.dev[n].send_flag = TRUE]
             t1   == ChannelSend(t, n, a, Opposite(n, to))
             t2   == ChannelSend(t1, n, f, to)
  <1>1. s.dev[n] \in DeviceOf(h[n], nd[n])
    BY NetsHaveDevices, Delays, Line
  <1>2. done \in Nets(h, nd, 0)
    BY <1>1, DeviceOperations, ConcludeNets
  <1>3. /\ f \in Packet /\ Data(f) \in h[n]
        /\ a \in Packet /\ Data(a) \in h[n]
    BY AsKeepsData DEF PacketType
  <1>4. t \in Nets(h, nd, 0)
    BY WakeNets
  <1>5. Opposite(n, to) \in Node /\ Adjacent(n, Opposite(n, to))
    BY Line DEF Opposite
  <1>6. ReSend(s, n, p, to) =
          IF Acked(s.dev[n], n, to) THEN done ELSE WaitAck(t2, n, f, to)
    BY DEF ReSend
  <1> HIDE DEF f, a, done, t
  <1>7. t1 \in Nets(h, nd, 0)
    BY <1>3, <1>4, <1>5, ChannelSendNets
  <1> HIDE DEF t1
  <1>8. t2 \in Nets(h, nd, 0)
    BY <1>3, <1>7, ChannelSendNets
  <1> HIDE DEF t2
  <1>9. WaitAck(t2, n, f, to) \in Nets(h, nd, 0)
    BY <1>3, <1>8, WaitAckNets
  <1> QED
    BY <1>2, <1>6, <1>9

LEMMA ReOriginalSendNets ==
  ASSUME NEW h \in Histories, NEW nd \in Identities, NEW s \in Nets(h, nd, 0),
         NEW n \in Sensor, NEW p \in Packet, Data(p) \in h[n]
  PROVE  ReOriginalSend(s, n, p) \in Nets(h, nd, 0)
  <1> DEFINE d     == s.dev[n]
             e     == [d EXCEPT !.rack_flag = FALSE, !.lack_flag = FALSE]
             clear == WithDevice(s, n, e)
             o     == As(p, "ORIGINAL_TRANSMISSION")
             t     == [s EXCEPT !.dev[n].send_flag = TRUE]
             t1    == ChannelSend(t, n, o, Right(n))
             t2    == ChannelSend(t1, n, o, Left(n))
  <1>1. d \in DeviceOf(h[n], nd[n])
    BY NetsHaveDevices, Delays, Line
  <1>2. e \in DeviceOf(h[n], nd[n])
    BY <1>1, DeviceOperations
  <1>3. clear \in Nets(h, nd, 0)
    BY <1>2, WithDeviceNets, Delays, Line
  <1>4. o \in Packet /\ Data(o) \in h[n]
    BY AsKeepsData DEF PacketType
  <1>5. t \in Nets(h, nd, 0)
    BY WakeNets
  <1>6. ReOriginalSend(s, n, p) =
          IF d.rack_flag /\ d.lack_flag THEN Conclude(s, n, clear.dev[n])
          ELSE IF d.lack_flag THEN ReSend(clear, n, p, Right(n))
          ELSE IF d.rack_flag THEN ReSend(clear, n, p, Left(n))
          ELSE OriginalWaitAck(t2, n, o)
    BY DEF ReOriginalSend
  <1> HIDE DEF clear, o, t
  <1>7. t1 \in Nets(h, nd, 0)
    BY <1>4, <1>5, ChannelSendNets, Line
  <1> HIDE DEF t1
  <1>8. t2 \in Nets(h, nd, 0)
    BY <1>4, <1>7, ChannelSendNets, Line
  <1> HIDE DEF t2
  <1>9. OriginalWaitAck(t2, n, o) \in Nets(h, nd, 0)
    BY <1>4, <1>8, OriginalWaitAckNets
  <1>10. /\ ReSend(clear, n, p, Right(n)) \in Nets(h, nd, 0)
         /\ ReSend(clear, n, p, Left(n)) \in Nets(h, nd, 0)
    BY <1>3, ReSendNets, Line
  <1>11. Conclude(s, n, clear.dev[n]) \in Nets(h, nd, 0)
    <2>1. clear.dev[n] \in DeviceOf(h[n], nd[n])
      BY <1>3, NetsHaveDevices, Delays, Line
    <2> QED
      BY <2>1, ConcludeNets
  <1> QED
    BY <1>6, <1>9, <1>10, <1>11

LEMMA SetSleepNets ==
  ASSUME NEW h \in Histories, NEW nd \in Identities, NEW s \in Nets(h, nd, 0),
         NEW n \in Sensor
  PROVE  SetSleep(s, n) \in Nets(h, nd, 0)
  <1> DEFINE d == [s.dev[n] EXCEPT !.send_flag = FALSE]
  <1>1. s.dev[n] \in DeviceOf(h[n], nd[n])
    BY NetsHaveDevices, Delays, Line
  <1>2. d \in DeviceOf(h[n], nd[n])
    BY <1>1 DEF DeviceOf
  <1>3. SetSleep(s, n) = WithDevice(s, n, d)
    BY DEF SetSleep, WithDevice
  <1> HIDE DEF d
  <1> QED
    BY <1>2, <1>3, WithDeviceNets, Delays, Line
-----------------------------------------------------------------------------
(* The event list, the history and the application.                        *)

LEMMA PopNets ==
  ASSUME NEW h \in Histories, NEW nd \in Identities, NEW c \in Clocks,
         NEW s \in Nets(h, nd, c), Due(s.cal)
  PROVE  /\ First(s.cal) \in Events(h, c)
         /\ [dev |-> s.dev, cal |-> Pop(s.cal)] \in Nets(h, nd, c)
  <1> DEFINE E == Events(h, c)
  <1>1. s.cal \in Agendas(h, c) /\ s.dev \in Devices(h, nd)
    BY DEF Nets
  <1>2. 0 \in Delay /\ (c + 0) % Second = c
    BY Delays DEF Clocks, Second
  <1>3. s.cal[0] \in Seq(E) /\ s.cal[0] # << >>
    <2>1. s.cal[0] \in Seq(Events(h, (c + 0) % Second))
      BY <1>1, Delays DEF Agendas
    <2> QED
      BY <2>1, <1>2 DEF Due
  <1> HIDE DEF E
  <1>4. Head(s.cal[0]) \in E /\ Tail(s.cal[0]) \in Seq(E)
    BY <1>3, HeadTailProperties
  <1>5. Pop(s.cal) \in Agendas(h, c)
    <2>1. s.cal \in [Delay -> Seq(Event)]
      BY <1>1 DEF Agendas, Calendars
    <2>2. Tail(s.cal[0]) \in Seq(Event)
      BY <1>2, <1>3, <2>1, HeadTailProperties
    <2>3. Pop(s.cal) \in Calendars(Event)
      BY <2>1, <2>2 DEF Pop, Calendars
    <2>4. ASSUME NEW t \in Delay
          PROVE  Pop(s.cal)[t] \in Seq(Events(h, (c + t) % Second))
      <3>1. CASE t = 0
        <4>1. Pop(s.cal)[t] = Tail(s.cal[0])
          BY <2>1, <3>1, <1>2 DEF Pop
        <4>2. E = Events(h, (c + t) % Second)
          BY <1>2, <3>1 DEF E
        <4> QED
          BY <1>4, <4>1, <4>2
      <3>2. CASE t # 0
        <4>1. Pop(s.cal)[t] = s.cal[t]
          BY <2>1, <3>2 DEF Pop
        <4> QED
          BY <1>1, <4>1 DEF Agendas
      <3> QED
        BY <3>1, <3>2
    <2> QED
      BY <2>3, <2>4 DEF Agendas
  <1> QED
    BY <1>1, <1>4, <1>5 DEF First, Nets, E

LEMMA AdvanceNets ==
  ASSUME NEW h \in Histories, NEW c \in Clocks, NEW f \in Agendas(h, c),
         NEW t \in Nat
  PROVE  Advance(f, t) \in Agendas(h, (c + t) % Second)
  <1>1. f \in [Delay -> Seq(Event)]
    BY DEF Agendas, Calendars
  <1>2. ASSUME NEW u \in Delay
        PROVE  /\ Advance(f, t)[u] \in Seq(Event)
               /\ Advance(f, t)[u]
                    \in Seq(Events(h, (((c + t) % Second) + u) % Second))
    <2>1. CASE u + t <= Horizon
      <3>1. u + t \in Delay
        BY <2>1, HorizonAssumption DEF Delay
      <3>2. Advance(f, t)[u] = f[u + t]
        BY <2>1 DEF Advance
      <3>3. (((c + t) % Second) + u) % Second = (c + (u + t)) % Second
        BY DEF Second, Clocks, Delay
      <3> QED
        BY <1>1, <3>1, <3>2, <3>3 DEF Agendas
    <2>2. CASE ~(u + t <= Horizon)
      BY <2>2 DEF Advance
    <2> QED
      BY <2>1, <2>2
  <1>3. Advance(f, t) \in [Delay -> Seq(Event)]
    BY <1>2 DEF Advance
  <1> QED
    BY <1>2, <1>3 DEF Agendas, Calendars

LEMMA HistoryGrows ==
  ASSUME NEW h \in Histories, NEW g \in Histories, NEW nd \in Identities,
         NEW c \in Clocks, NEW s \in Nets(h, nd, c),
         \A n \in Node : h[n] \subseteq g[n]
  PROVE  s \in Nets(g, nd, c)
  <1>1. s.dev \in Devices(g, nd)
    <2>1. ASSUME NEW n \in Node
          PROVE  s.dev[n] \in DeviceOf(g[n], nd[n])
      <3>1. s.dev[n] \in DeviceOf(h[n], nd[n])
        BY NetsHaveDevices
      <3>2. Holding(h[n]) \subseteq Holding(g[n])
        BY DEF Holding
      <3>3. Queues(h[n]) \subseteq Queues(g[n])
        BY <3>2 DEF Queues
      <3> QED
        BY <3>1, <3>2, <3>3 DEF DeviceOf
    <2> QED
      BY <2>1 DEF Nets, Devices
  <1>2. s.cal \in Agendas(g, c)
    <2>1. s.cal \in Agendas(h, c)
      BY DEF Nets
    <2>2. ASSUME NEW t \in Delay
          PROVE  s.cal[t] \in Seq(Events(g, (c + t) % Second))
      <3> DEFINE b == (c + t) % Second
      <3>1. Events(h, b) \subseteq Events(g, b)
        <4>1. Radios(h, b) \subseteq Radios(g, b)
          BY Line DEF Radios, RadioEvent
        <4>2. Hops(h, b) \subseteq Hops(g, b)
          BY Line DEF Hops, HopEvent
        <4>3. Owns(h, b) \subseteq Owns(g, b)
          BY Line DEF Owns, OwnEvent
        <4> QED
          BY <4>1, <4>2, <4>3 DEF Events
      <3>2. s.cal[t] \in Seq(Events(h, b))
        BY <2>1 DEF Agendas
      <3> HIDE DEF b
      <3>3. s.cal[t] \in Seq(Events(g, b))
        BY <3>1, <3>2
      <3> QED
        BY <3>3 DEF b
    <2> QED
      BY <2>1, <2>2 DEF Agendas
  <1> QED
    BY <1>1, <1>2 DEF Nets

LEMMA OriginateNets ==
  ASSUME NEW h \in Histories, NEW nd \in Identities, NEW s \in Nets(h, nd, 0),
         NEW n \in Sensor, nd[n] <= MaxDid
  PROVE  LET g  == [h EXCEPT ![n] = @ \cup {<<n, s.dev[n].ndid>>}]
             ne == [nd EXCEPT ![n] = @ + 1]
         IN  /\ g \in Histories
             /\ ne \in Identities
             /\ Originate(s, n) \in Nets(g, ne, 0)
  <1> DEFINE i  == s.dev[n].ndid
             g  == [h EXCEPT ![n] = @ \cup {<<n, i>>}]
             ne == [nd EXCEPT ![n] = @ + 1]
             p  == [type |-> "ORIGINAL_TRANSMISSION", osid |-> n, did |-> i]
             t  == [s EXCEPT !.dev[n].ndid = @ + 1]
  <1>0. n \in Node
    BY Line
  <1>1. s.dev[n] \in DeviceOf(h[n], nd[n])
    BY <1>0, NetsHaveDevices, Delays
  <1>2. i = nd[n] /\ i \in 1..MaxDid /\ i + 1 \in 1..(MaxDid + 1)
    <2>1. i = nd[n]
      BY <1>1 DEF DeviceOf
    <2>2. nd[n] \in 1..(MaxDid + 1) /\ MaxDid \in Int
      BY <1>0, LineAssumption DEF Identities
    <2> QED
      BY <2>1, <2>2
  <1>3. g \in Histories
    BY <1>0, <1>2 DEF Histories, DataId
  <1>4. ne \in Identities
    BY <1>0, <1>2 DEF Identities
  <1>5. p \in Holding(g[n])
    <2>1. p \in Packet
      BY <1>2 DEF Packet, PacketType, DataId
    <2>2. Data(p) \in g[n]
      BY <1>0 DEF Data, Histories
    <2> QED
      BY <2>1, <2>2 DEF Holding
  <1>6. t \in Nets(g, ne, 0)
    <2>1. s \in Nets(g, nd, 0)
      <3>1. \A m \in Node : h[m] \subseteq g[m]
        BY DEF Histories
      <3> QED
        BY <1>3, <3>1, HistoryGrows, Delays
    <2> HIDE DEF g
    <2>2. s.dev \in [Node -> Device] /\ s = [dev |-> s.dev, cal |-> s.cal]
      BY <2>1 DEF Nets, Devices
    <2>3. /\ t.dev = [s.dev EXCEPT ![n] = [s.dev[n] EXCEPT !.ndid = i + 1]]
          /\ t = [dev |-> t.dev, cal |-> s.cal]
      BY <2>2
    <2> HIDE DEF t
    <2>4. ASSUME NEW m \in Node
          PROVE  t.dev[m] \in DeviceOf(g[m], ne[m]) /\ t.dev[m] \in Device
      <3>1. s.dev[m] \in DeviceOf(g[m], nd[m])
        BY <1>3, <2>1, NetsHaveDevices, Delays
      <3>2. CASE m = n
        <4>1. t.dev[m] = [s.dev[m] EXCEPT !.ndid = i + 1]
          BY <2>2, <2>3, <3>2
        <4>2. ne[m] = i + 1
          BY <1>0, <1>2, <3>2 DEF Identities
        <4>3. t.dev[m] \in DeviceOf(g[m], i + 1)
          BY <3>1, <3>2, <4>1, <1>2 DEF DeviceOf
        <4>4. s.dev[m] \in Device
          BY <2>2
        <4>5. t.dev[m] \in Device
          BY <4>1, <4>4, <1>2, <3>2 DEF Device
        <4> QED
          BY <4>2, <4>3, <4>5
      <3>3. CASE m # n
        <4>1. t.dev[m] = s.dev[m] /\ ne[m] = nd[m]
          BY <2>2, <2>3, <3>3 DEF Identities
        <4> QED
          BY <2>2, <3>1, <4>1
      <3> QED
        BY <3>2, <3>3
    <2>5. t.dev \in [Node -> Device]
      BY <2>2, <2>3, <2>4
    <2>6. t.dev \in Devices(g, ne)
      BY <2>4, <2>5 DEF Devices
    <2>7. s.cal \in Agendas(g, 0)
      BY <2>1 DEF Nets
    <2> QED
      BY <2>3, <2>6, <2>7 DEF Nets
  <1>7. Originate(s, n) = OriginalTransmission(t, n, p)
    BY DEF Originate
  <1> HIDE DEF g, ne, p, t
  <1>8. Originate(s, n) \in Nets(g, ne, 0)
    BY <1>3, <1>4, <1>5, <1>6, <1>7, OriginalTransmissionNets
  <1> QED
    BY <1>3, <1>4, <1>8 DEF g, ne, i
-----------------------------------------------------------------------------
(* The inductive invariant.                                                *)

NoPhantom(h, nd)  == \A n \in Node : \A x \in h[n] : x[2] < nd[x[1]]
PathsComplete(h)  ==
  \A n, m \in Node : \A x \in h[n] : Relay!Between(m, x[1], n) => x \in h[m]
NextIdentities(f) == [n \in Node |-> f[n].ndid]

IInv ==
  /\ clock \in Clocks
  /\ fresh \in BOOLEAN
  /\ heard \in Histories
  /\ NextIdentities(device) \in Identities
  /\ Now \in Nets(heard, NextIdentities(device), clock)
  /\ NoPhantom(heard, NextIdentities(device))
  /\ PathsComplete(heard)

LEMMA NetsKnowIdentities ==
  ASSUME NEW h \in Histories, NEW nd \in Identities, NEW c \in Clocks,
         NEW s \in Nets(h, nd, c)
  PROVE  /\ NextIdentities(s.dev) = nd
         /\ s = [dev |-> s.dev, cal |-> s.cal]
  <1>1. \A n \in Node : s.dev[n].ndid = nd[n]
    BY NetsHaveDevices DEF DeviceOf
  <1> QED
    BY <1>1 DEF Nets, NextIdentities, Identities

(* A handler that stays in the sets of the invariant keeps the invariant.  *)
LEMMA HandlerKeepsIInv ==
  ASSUME IInv,
         NEW s \in Nets(heard, NextIdentities(device), clock),
         Becomes(s), UNCHANGED heard
  PROVE  IInv'
  <1> DEFINE nd == NextIdentities(device)
  <1>1. NextIdentities(s.dev) = nd /\ s = [dev |-> s.dev, cal |-> s.cal]
    BY NetsKnowIdentities DEF IInv
  <1>2. /\ device' = s.dev /\ calendar' = s.cal
        /\ fresh' = FALSE /\ clock' = clock
    BY DEF Becomes
  <1>3. NextIdentities(device)' = nd
    BY <1>1, <1>2 DEF NextIdentities
  <1>4. Now' = s
    BY <1>1, <1>2 DEF Now
  <1>5. (Now \in Nets(heard, NextIdentities(device), clock))'
    BY <1>2, <1>3, <1>4
  <1> QED
    BY <1>2, <1>3, <1>5 DEF IInv

(* Relaying to a neighbour and originating leave no gap in any path.       *)
LEMMA RelayKeepsPaths ==
  ASSUME NEW h \in Histories, PathsComplete(h),
         NEW n \in Node, NEW peer \in Sensor, Adjacent(n, peer),
         NEW x \in h[peer]
  PROVE  /\ [h EXCEPT ![n] = @ \cup {x}] \in Histories
         /\ PathsComplete([h EXCEPT ![n] = @ \cup {x}])
         /\ x \notin h[n] => x[1] # n /\ peer = Relay!Upstream(n, x[1])
  <1> DEFINE g == [h EXCEPT ![n] = @ \cup {x}]
  <1>1. x \in Sensor \X DataId /\ x[1] \in Sensor
    BY Line DEF Histories
  <1>2. g \in Histories
    BY <1>1 DEF Histories
  <1>3. n \in Int /\ peer \in Int /\ x[1] \in Int
    BY <1>1, Line DEF Node, Sensor
  <1>4. ASSUME x \notin h[n]
        PROVE  x[1] # n /\ peer = Relay!Upstream(n, x[1])
    <2>1. ~Relay!Between(n, x[1], peer)
      BY <1>4, Line DEF PathsComplete
    <2> QED
      BY <1>3, <2>1 DEF Relay!Between, Relay!Upstream, Adjacent, Left, Right
  <1>5. ASSUME NEW a \in Node, NEW m \in Node, NEW y \in g[a],
               Relay!Between(m, y[1], a)
        PROVE  y \in g[m]
    <2>1. CASE y \in h[a]
      <3>1. y \in h[m]
        BY <1>5, <2>1 DEF PathsComplete
      <3> QED
        BY <3>1 DEF Histories
    <2>2. CASE y \notin h[a]
      <3>1. a = n /\ y = x
        BY <2>2 DEF Histories
      <3>2. x[1] # n /\ peer = Relay!Upstream(n, x[1])
        BY <1>4, <2>2, <3>1
      <3>3. m = n \/ Relay!Between(m, x[1], peer)
        <4>1. m \in Int
          BY DEF Node
        <4> QED
          BY <1>3, <1>5, <3>1, <3>2, <4>1 DEF Relay!Between, Relay!Upstream
      <3>4. CASE m = n
        BY <3>1, <3>4
      <3>5. CASE m # n
        <4>1. x \in h[m]
          BY <3>3, <3>5, Line DEF PathsComplete
        <4> QED
          BY <3>1, <3>5, <4>1 DEF Histories
      <3> QED
        BY <3>4, <3>5
    <2> QED
      BY <2>1, <2>2
  <1> QED
    BY <1>2, <1>4, <1>5 DEF PathsComplete

LEMMA OriginKeepsPaths ==
  ASSUME NEW h \in Histories, PathsComplete(h),
         NEW n \in Sensor, NEW i \in DataId
  PROVE  PathsComplete([h EXCEPT ![n] = @ \cup {<<n, i>>}])
  <1> DEFINE x == <<n, i>>
             g == [h EXCEPT ![n] = @ \cup {x}]
  <1>1. n \in Node /\ n \in Int
    BY Line DEF Sensor
  <1>2. ASSUME NEW a \in Node, NEW m \in Node, NEW y \in g[a],
               Relay!Between(m, y[1], a)
        PROVE  y \in g[m]
    <2>1. CASE y \in h[a]
      <3>1. y \in h[m]
        BY <1>2, <2>1 DEF PathsComplete
      <3> QED
        BY <3>1 DEF Histories
    <2>2. CASE y \notin h[a]
      <3>1. a = n /\ y = x
        BY <2>2 DEF Histories
      <3>2. m = n
        BY <1>1, <1>2, <3>1 DEF Relay!Between, Node
      <3> QED
        BY <3>1, <3>2
    <2> QED
      BY <2>1, <2>2
  <1> QED
    BY <1>2 DEF PathsComplete
-----------------------------------------------------------------------------
LEMMA InitIInv == Init => IInv
  <1> SUFFICES ASSUME Init PROVE IInv
    OBVIOUS
  <1> DEFINE nd == [n \in Node |-> 1]
  <1>1. clock = 0 /\ clock \in Clocks /\ fresh \in BOOLEAN
    BY Delays DEF Init
  <1>2. heard \in Histories /\ \A n \in Node : heard[n] = {}
    BY DEF Init, Histories
  <1>3. NextIdentities(device) = nd
    BY DEF Init, NextIdentities, NewDevice
  <1>4. nd \in Identities
    BY LineAssumption DEF Identities
  <1>5. device \in Devices(heard, nd)
    <2>1. << >> \in Queues(heard[1]) /\ \A K : << >> \in Queues(K)
      BY LineAssumption DEF Queues
    <2>2. <<0, 0>> \in (0..N) \X (0..MaxDid) /\ 1 \in 1..(MaxDid + 1)
      BY LineAssumption
    <2>3. NewDevice \in Device
      BY <2>2 DEF NewDevice, Device
    <2>4. \A n \in Node : NewDevice \in DeviceOf(heard[n], 1)
      BY <2>1, <2>2 DEF NewDevice, DeviceOf
    <2> QED
      BY <2>3, <2>4 DEF Init, Devices
  <1>6. calendar \in Agendas(heard, 0)
    <2>1. calendar = [t \in Delay |-> << >>]
      BY DEF Init, EmptyCalendar
    <2>2. \A S : << >> \in Seq(S)
      OBVIOUS
    <2>3. calendar \in Calendars(Event)
      <3> DEFINE E == Event
      <3>1. << >> \in Seq(E)
        BY <2>2
      <3> HIDE DEF E
      <3>2. calendar \in [Delay -> Seq(E)]
        BY <2>1, <3>1
      <3> QED
        BY <3>2 DEF E, Calendars
    <2>4. ASSUME NEW t \in Delay
          PROVE  calendar[t] \in Seq(Events(heard, (0 + t) % Second))
      <3> DEFINE E == Events(heard, (0 + t) % Second)
      <3>1. << >> \in Seq(E)
        BY <2>2
      <3> HIDE DEF E
      <3>2. calendar[t] \in Seq(E)
        BY <2>1, <3>1
      <3> QED
        BY <3>2 DEF E
    <2> QED
      BY <2>3, <2>4 DEF Agendas
  <1>7. Now \in Nets(heard, nd, clock)
    BY <1>1, <1>5, <1>6 DEF Now, Nets
  <1>8. NoPhantom(heard, nd) /\ PathsComplete(heard)
    BY <1>2 DEF NoPhantom, PathsComplete
  <1> QED
    BY <1>1, <1>2, <1>3, <1>4, <1>7, <1>8 DEF IInv

(* What an event that is about to run looks like.                          *)
LEMMA EventParts ==
  ASSUME NEW h \in Histories, NEW c \in Clocks, NEW e \in Events(h, c)
  PROVE  /\ c = PhaseOf(e.kind)
         /\ e.kind \in RadioKind =>
              /\ e.node \in Node /\ e.pkt \in Packet /\ e.peer \in Sensor
              /\ Adjacent(e.node, e.peer) /\ Data(e.pkt) \in h[e.peer]
         /\ e.kind \in HopKind =>
              /\ e.node \in Sensor /\ e.pkt \in Packet /\ e.peer \in Node
              /\ Adjacent(e.node, e.peer) /\ Data(e.pkt) \in h[e.node]
         /\ e.kind \in OwnKind =>
              /\ e.node \in Sensor /\ e.pkt \in Packet
              /\ Data(e.pkt) \in h[e.node]
         /\ e.kind \in BareKind => e.node \in Sensor
  BY DEF Events, Radios, Hops, Owns, Bares, RadioEvent, HopEvent, OwnEvent,
         BareEvent, RadioKind, HopKind, OwnKind, BareKind

(* The next event, popped: the situation in which every handler starts.    *)
LEMMA EventRuns ==
  ASSUME IInv, Due(calendar)
  PROVE  /\ Event1 \in Events(heard, clock)
         /\ Popped \in Nets(heard, NextIdentities(device), clock)
         /\ Popped.dev = device
  <1>1. Now.dev = device /\ Now.cal = calendar
    BY DEF Now
  <1> QED
    BY <1>1, PopNets DEF IInv, Event1, Popped

(* Each event that runs.                                                   *)
LEMMA EventKeepsIInv ==
  ASSUME IInv, RunEvent
  PROVE  IInv'
  <1> DEFINE nd == NextIdentities(device)
             e  == Event1
             s  == Popped
  <1>1. /\ heard \in Histories /\ nd \in Identities /\ clock \in Clocks
        /\ PathsComplete(heard) /\ NoPhantom(heard, nd)
    BY DEF IInv
  <1>2. Due(calendar)
    BY DEF RunEvent, RunReceiveStart, RunReceiveCheck, RunReceiveCorrupt,
           RunReceive, RunSetSleep, RunAckSend, RunForwarding, RunWaitSend,
           RunAckCheck, RunOriginalAckCheck, RunReSend, RunReOriginalSend,
           Calls
  <1>3. e \in Events(heard, clock) /\ s \in Nets(heard, nd, clock)
        /\ s.dev = device
    BY <1>2, EventRuns
  <1>4. /\ clock = PhaseOf(e.kind)
        /\ e.kind \in RadioKind =>
             /\ e.node \in Node /\ e.pkt \in Packet /\ e.peer \in Sensor
             /\ Adjacent(e.node, e.peer) /\ Data(e.pkt) \in heard[e.peer]
        /\ e.kind \in HopKind =>
             /\ e.node \in Sensor /\ e.pkt \in Packet /\ e.peer \in Node
             /\ Adjacent(e.node, e.peer) /\ Data(e.pkt) \in heard[e.node]
        /\ e.kind \in OwnKind =>
             /\ e.node \in Sensor /\ e.pkt \in Packet
             /\ Data(e.pkt) \in heard[e.node]
        /\ e.kind \in BareKind => e.node \in Sensor
    BY <1>1, <1>3, EventParts
  <1>5. ASSUME NEW r \in Nets(heard, nd, clock), Becomes(r), UNCHANGED heard
        PROVE  IInv'
    BY <1>5, HandlerKeepsIInv
  <1>6. First(calendar) = e
    BY DEF Event1
  <1> HIDE DEF nd, e, s
  <1>7. CASE RunReceiveStart
    <2>1. e.kind = "ReceiveStart" /\ clock = 0
      BY <1>4, <1>6, <1>7 DEF RunReceiveStart, Calls, PhaseOf
    <2>2. ReceiveStart(s, e.node, e.pkt, e.peer) \in Nets(heard, nd, clock)
      BY <1>1, <1>3, <1>4, <2>1, ReceiveStartNets DEF RadioKind
    <2> QED
      BY <1>5, <1>7, <2>2 DEF RunReceiveStart, e, s
  <1>8. CASE RunReceiveCheck
    <2>1. e.kind = "ReceiveCheck" /\ clock = 9
      BY <1>4, <1>6, <1>8 DEF RunReceiveCheck, Calls, PhaseOf
    <2>2. ReceiveCheck(s, e.node, e.pkt, e.peer) \in Nets(heard, nd, clock)
      BY <1>1, <1>3, <1>4, <2>1, ReceiveCheckNets DEF RadioKind
    <2> QED
      BY <1>5, <1>8, <2>2 DEF RunReceiveCheck, e, s
  <1>9. CASE RunReceiveCorrupt
    BY <1>3, <1>5, <1>9 DEF RunReceiveCorrupt, s
  <1>10. CASE RunReceive
    <2> DEFINE n == e.node
               x == Data(e.pkt)
               g == [heard EXCEPT ![n] = @ \cup {x}]
               r == Receive(s, n, e.pkt, e.peer)
    <2>1. e.kind = "Receive" /\ clock = 9
      BY <1>4, <1>6, <1>10 DEF RunReceive, Calls, PhaseOf
    <2>2. /\ n \in Node /\ e.pkt \in Packet /\ e.peer \in Sensor
          /\ Adjacent(n, e.peer) /\ x \in heard[e.peer]
      BY <1>4, <2>1 DEF RadioKind
    <2>3. CASE device[n].send_flag \/ e.pkt.type = "IACK"
      <3>1. r \in Nets(heard, nd, clock)
        BY <1>1, <1>3, <2>1, <2>2, <2>3, ReceiveNets
      <3>2. UNCHANGED heard
        BY <1>1, <1>10, <2>2, <2>3 DEF RunReceive, Histories, e
      <3> QED
        BY <1>5, <1>10, <3>1, <3>2 DEF RunReceive, e, s
    <2>4. CASE ~(device[n].send_flag \/ e.pkt.type = "IACK")
      <3>1. heard' = g /\ Becomes(r)
        BY <1>10, <2>4 DEF RunReceive, e, s
      <3>2. g \in Histories /\ PathsComplete(g)
        BY <1>1, <2>2, RelayKeepsPaths
      <3>3. \A m \in Node : heard[m] \subseteq g[m]
        BY <1>1 DEF Histories
      <3>4. s \in Nets(g, nd, clock)
        BY <1>1, <1>3, <3>2, <3>3, HistoryGrows
      <3>5. x \in g[n]
        BY <1>1, <2>2 DEF Histories
      <3>6. NoPhantom(g, nd)
        BY <1>1, <2>2, Line DEF NoPhantom, Histories
      <3> HIDE DEF g, n, x
      <3>7. r \in Nets(g, nd, clock)
        BY <1>1, <2>1, <2>2, <3>2, <3>4, <3>5, ReceiveNets DEF x
      <3> HIDE DEF r
      <3>8. NextIdentities(r.dev) = nd /\ r = [dev |-> r.dev, cal |-> r.cal]
        BY <1>1, <3>2, <3>7, NetsKnowIdentities
      <3>9. /\ device' = r.dev /\ calendar' = r.cal /\ fresh' = FALSE
            /\ clock' = clock
        BY <3>1 DEF Becomes
      <3>10. NextIdentities(device)' = nd
        BY <3>8, <3>9 DEF NextIdentities
      <3>11. Now' = r
        BY <3>8, <3>9 DEF Now
      <3> QED
        BY <1>1, <3>1, <3>2, <3>6, <3>7, <3>9, <3>10, <3>11 DEF IInv
    <2> QED
      BY <2>3, <2>4
  <1>11. CASE RunSetSleep
    <2>1. e.kind = "SetSleep" /\ clock = 0
      BY <1>4, <1>6, <1>11 DEF RunSetSleep, Calls, PhaseOf
    <2>2. SetSleep(s, e.node) \in Nets(heard, nd, clock)
      BY <1>1, <1>3, <1>4, <2>1, SetSleepNets DEF BareKind
    <2> QED
      BY <1>5, <1>11, <2>2 DEF RunSetSleep, e, s
  <1>12. CASE RunAckSend
    <2>1. e.kind = "AckSend" /\ clock = 0
      BY <1>4, <1>6, <1>12 DEF RunAckSend, Calls, PhaseOf
    <2>2. AckSend(s, e.node, e.pkt, e.peer) \in Nets(heard, nd, clock)
      BY <1>1, <1>3, <1>4, <2>1, AckSendNets DEF HopKind
    <2> QED
      BY <1>5, <1>12, <2>2 DEF RunAckSend, e, s
  <1>13. CASE RunForwarding
    <2>1. e.kind = "Forwarding" /\ clock = 0
      BY <1>4, <1>6, <1>13 DEF RunForwarding, Calls, PhaseOf
    <2>2. Forwarding(s, e.node, e.pkt, e.peer) \in Nets(heard, nd, clock)
      BY <1>1, <1>3, <1>4, <2>1, ForwardingNets DEF HopKind
    <2> QED
      BY <1>5, <1>13, <2>2 DEF RunForwarding, e, s
  <1>14. CASE RunWaitSend
    <2>1. e.kind = "WaitSend" /\ clock = 0
      BY <1>4, <1>6, <1>14 DEF RunWaitSend, Calls, PhaseOf
    <2>2. WaitSend(s, e.node) \in Nets(heard, nd, clock)
      BY <1>1, <1>3, <1>4, <2>1, WaitSendNets DEF BareKind
    <2> QED
      BY <1>5, <1>14, <2>2 DEF RunWaitSend, e, s
  <1>15. CASE RunAckCheck
    <2>1. e.kind = "AckCheck" /\ clock = 0
      BY <1>4, <1>6, <1>15 DEF RunAckCheck, Calls, PhaseOf
    <2>2. PICK delay \in RandTimes(device[e.node]) :
            Becomes(AckCheck(s, e.node, e.pkt, e.peer, delay))
      BY <1>15 DEF RunAckCheck, e, s
    <2>3. AckCheck(s, e.node, e.pkt, e.peer, delay) \in Nets(heard, nd, clock)
      BY <1>1, <1>3, <1>4, <2>1, <2>2, AckCheckNets DEF HopKind
    <2> QED
      BY <1>5, <1>15, <2>2, <2>3 DEF RunAckCheck
  <1>16. CASE RunOriginalAckCheck
    <2>1. e.kind = "OriginalAckCheck" /\ clock = 0
      BY <1>4, <1>6, <1>16 DEF RunOriginalAckCheck, Calls, PhaseOf
    <2>2. PICK delay \in RandTimes(device[e.node]) :
            Becomes(OriginalAckCheck(s, e.node, e.pkt, delay))
      BY <1>16 DEF RunOriginalAckCheck, e, s
    <2>3. OriginalAckCheck(s, e.node, e.pkt, delay) \in Nets(heard, nd, clock)
      BY <1>1, <1>3, <1>4, <2>1, <2>2, OriginalAckCheckNets DEF OwnKind
    <2> QED
      BY <1>5, <1>16, <2>2, <2>3 DEF RunOriginalAckCheck
  <1>17. CASE RunReSend
    <2>1. e.kind = "ReSend" /\ clock = 0
      BY <1>4, <1>6, <1>17 DEF RunReSend, Calls, PhaseOf
    <2>2. ReSend(s, e.node, e.pkt, e.peer) \in Nets(heard, nd, clock)
      BY <1>1, <1>3, <1>4, <2>1, ReSendNets DEF HopKind
    <2> QED
      BY <1>5, <1>17, <2>2 DEF RunReSend, e, s
  <1>18. CASE RunReOriginalSend
    <2>1. e.kind = "ReOriginalSend" /\ clock = 0
      BY <1>4, <1>6, <1>18 DEF RunReOriginalSend, Calls, PhaseOf
    <2>2. ReOriginalSend(s, e.node, e.pkt) \in Nets(heard, nd, clock)
      BY <1>1, <1>3, <1>4, <2>1, ReOriginalSendNets DEF OwnKind
    <2> QED
      BY <1>5, <1>18, <2>2 DEF RunReOriginalSend, e, s
  <1> QED
    BY <1>7, <1>8, <1>9, <1>10, <1>11, <1>12, <1>13, <1>14, <1>15, <1>16,
       <1>17, <1>18 DEF RunEvent

(* The other actions.                                                      *)
LEMMA ArriveKeepsIInv ==
  ASSUME IInv, NEW n \in Sensor, Arrive(n)
  PROVE  IInv'
  <1> DEFINE nd == NextIdentities(device)
             i  == device[n].ndid
             g  == [heard EXCEPT ![n] = @ \cup {<<n, i>>}]
             ne == [nd EXCEPT ![n] = @ + 1]
             r  == Originate(Now, n)
  <1>1. /\ heard \in Histories /\ nd \in Identities /\ clock \in Clocks
        /\ PathsComplete(heard) /\ NoPhantom(heard, nd)
        /\ Now \in Nets(heard, nd, clock)
    BY DEF IInv
  <1>2. n \in Node /\ Now.dev = device /\ Now.cal = calendar
    BY Line DEF Now
  <1>3. nd[n] = i /\ i \in Nat /\ i >= 1
    BY <1>1, <1>2 DEF NextIdentities, Identities
  <1>4. i <= MaxDid /\ i \in DataId
    <2>1. MaxData[n] \in 0..MaxDid /\ MaxDid \in Int
      BY ScenarioAssumption, LineAssumption
    <2>2. i <= MaxData[n]
      BY DEF Arrive
    <2> QED
      BY <1>3, <2>1, <2>2 DEF DataId
  <1>5. clock = 0 /\ clock' = clock /\ fresh' = fresh /\ heard' = g
        /\ device' = r.dev /\ calendar' = r.cal
    BY DEF Arrive
  <1>6. g \in Histories /\ ne \in Identities /\ r \in Nets(g, ne, clock)
    <2>1. nd[n] <= MaxDid
      BY <1>3, <1>4
    <2> HIDE DEF nd
    <2> QED
      BY <1>1, <1>2, <1>5, <2>1, OriginateNets
  <1>7. PathsComplete(g)
    BY <1>1, <1>4, OriginKeepsPaths
  <1>8. NoPhantom(g, ne)
    <2>1. ASSUME NEW m \in Node, NEW x \in g[m]
          PROVE  x[2] < ne[x[1]]
      <3>1. CASE x \in heard[m]
        <4>1. x \in Sensor \X DataId
          BY <1>1, <3>1 DEF Histories
        <4>2. x[1] \in Node /\ x[2] \in Nat
          BY <4>1, Line DEF DataId
        <4>3. x[2] < nd[x[1]]
          BY <1>1, <3>1 DEF NoPhantom
        <4>4. ne[x[1]] \in Nat /\ nd[x[1]] \in Nat /\ ne[x[1]] >= nd[x[1]]
          <5> HIDE DEF nd
          <5> QED
            BY <1>1, <4>2 DEF Identities
        <4> HIDE DEF ne, nd
        <4> QED
          BY <4>2, <4>3, <4>4
      <3>2. CASE x \notin heard[m]
        <4>1. x = <<n, i>>
          BY <1>1, <3>2 DEF Histories
        <4>2. ne[n] = i + 1
          <5> HIDE DEF nd
          <5> QED
            BY <1>1, <1>2, <1>3 DEF Identities
        <4> HIDE DEF ne
        <4> QED
          BY <1>3, <4>1, <4>2
      <3> QED
        BY <3>1, <3>2
    <2> QED
      BY <2>1 DEF NoPhantom
  <1> HIDE DEF g, ne, r, nd
  <1>9. NextIdentities(r.dev) = ne /\ r = [dev |-> r.dev, cal |-> r.cal]
    BY <1>1, <1>6, NetsKnowIdentities
  <1>10. NextIdentities(device)' = ne
    BY <1>5, <1>9 DEF NextIdentities
  <1>11. Now' = r
    BY <1>5, <1>9 DEF Now
  <1>12. fresh \in BOOLEAN
    BY DEF IInv
  <1> QED
    BY <1>1, <1>5, <1>6, <1>7, <1>8, <1>10, <1>11, <1>12 DEF IInv

LEMMA ReportKeepsIInv ==
  ASSUME IInv, NEW n \in Gateway, Report(n)
  PROVE  IInv'
  <1> DEFINE nd == NextIdentities(device)
             d  == [device[n] EXCEPT !.m_queue = << >>]
  <1>1. /\ heard \in Histories /\ nd \in Identities /\ clock \in Clocks
        /\ Now \in Nets(heard, nd, clock)
    BY DEF IInv
  <1>2. n \in Node
    BY LineAssumption DEF Gateway, Node
  <1>3. Now.dev = device /\ Now.cal = calendar
    BY DEF Now
  <1>4. device[n] \in DeviceOf(heard[n], nd[n])
    BY <1>1, <1>2, <1>3, NetsHaveDevices
  <1>5. << >> \in Queues(heard[n])
    BY LineAssumption DEF Queues
  <1>6. d \in DeviceOf(heard[n], nd[n])
    BY <1>4, <1>5 DEF DeviceOf
  <1>7. WithDevice(Now, n, d) \in Nets(heard, nd, clock)
    BY <1>1, <1>2, <1>6, WithDeviceNets
  <1>8. device \in [Node -> Device]
    BY <1>1, <1>3 DEF Nets, Devices
  <1>9. /\ device' = [device EXCEPT ![n] = d] /\ calendar' = calendar
        /\ clock' = clock /\ fresh' = fresh /\ heard' = heard
    BY <1>2, <1>8 DEF Report
  <1> HIDE DEF d
  <1>10. Now' = WithDevice(Now, n, d)
    BY <1>9 DEF Now, WithDevice
  <1> HIDE DEF nd
  <1>11. NextIdentities(WithDevice(Now, n, d).dev) = nd
    BY <1>1, <1>7, NetsKnowIdentities
  <1>12. NextIdentities(device)' = nd
    <2>1. WithDevice(Now, n, d).dev = device'
      BY <1>9 DEF WithDevice, Now
    <2> QED
      BY <1>11, <2>1 DEF NextIdentities
  <1>13. IInv
    OBVIOUS
  <1> QED
    BY <1>1, <1>7, <1>9, <1>10, <1>12, <1>13 DEF IInv, nd

LEMMA TickKeepsIInv ==
  ASSUME IInv, Tick
  PROVE  IInv'
  <1> DEFINE nd == NextIdentities(device)
  <1>1. /\ heard \in Histories /\ nd \in Identities /\ clock \in Clocks
        /\ Now \in Nets(heard, nd, clock)
    BY DEF IInv
  <1>2. PICK t \in 1..Second : calendar' = Advance(calendar, t)
                               /\ clock' = (clock + t) % Second
    BY DEF Tick
  <1>3. device' = device /\ heard' = heard /\ fresh' = TRUE
    BY DEF Tick
  <1>4. clock' \in Clocks
    BY <1>1, <1>2 DEF Clocks, Second
  <1>5. Now.cal = calendar /\ Now.dev = device
    BY DEF Now
  <1>6. calendar \in Agendas(heard, clock)
    BY <1>1, <1>5 DEF Nets
  <1>7. t \in Nat
    BY DEF Second
  <1>8. calendar' \in Agendas(heard, clock')
    BY <1>1, <1>2, <1>6, <1>7, AdvanceNets
  <1>9. NextIdentities(device)' = nd
    BY <1>3 DEF NextIdentities
  <1> HIDE DEF nd
  <1>10. Now' \in Nets(heard, nd, clock')
    <2>1. Now' = [dev |-> device, cal |-> calendar']
      BY <1>3 DEF Now
    <2>2. device \in Devices(heard, nd)
      BY <1>1, <1>5 DEF Nets
    <2> QED
      BY <1>8, <2>1, <2>2 DEF Nets
  <1> QED
    BY <1>1, <1>3, <1>4, <1>9, <1>10 DEF IInv, nd

LEMMA StepKeepsIInv == IInv /\ [Next]_vars => IInv'
  <1> SUFFICES ASSUME IInv, [Next]_vars PROVE IInv'
    OBVIOUS
  <1>1. CASE UNCHANGED vars
    BY <1>1 DEF IInv, vars, Now, NextIdentities
  <1>2. CASE Next
    BY <1>2, ArriveKeepsIInv, ReportKeepsIInv, TickKeepsIInv, EventKeepsIInv
    DEF Next
  <1> QED
    BY <1>1, <1>2

LEMMA AlwaysIInv == Spec => []IInv
  BY InitIInv, StepKeepsIInv, PTL DEF Spec
-----------------------------------------------------------------------------
(* The variables keep their types, and no queue of any device ever exceeds *)
(* the drop-tail limit, for every line, back-off, limit and scenario.      *)
THEOREM TypeCorrect == Spec => []TypeOK
  <1>1. IInv => TypeOK
    <2> SUFFICES ASSUME IInv PROVE TypeOK
      OBVIOUS
    <2>1. Now.dev = device /\ Now.cal = calendar
      BY DEF Now
    <2>2. Now \in Nets(heard, NextIdentities(device), clock)
      BY DEF IInv
    <2>3. device \in Devices(heard, NextIdentities(device))
          /\ calendar \in Calendars(Event)
      BY <2>1, <2>2 DEF Nets, Agendas
    <2>4. ASSUME NEW n \in Node
          PROVE  Len(device[n].m_queue) <= MaxPackets
      BY <2>3 DEF Devices, DeviceOf, Queues
    <2> QED
      BY <2>3, <2>4 DEF TypeOK, IInv, Devices, Clocks, Histories
  <1> QED
    BY <1>1, AlwaysIInv, PTL

(* Transmissions start and timers run only at slot boundaries, and packets *)
(* are received 0.9 s into a slot, whatever the nodes do to each other.    *)
THEOREM SlotsAligned == Spec => []SlotAligned
  <1>1. IInv => SlotAligned
    <2> SUFFICES ASSUME IInv, NEW e \in Entries(calendar)
                 PROVE  (clock + e[1]) % Second =
                          PhaseOf(Entry(calendar, e).kind)
      BY DEF SlotAligned
    <2>1. calendar \in Agendas(heard, clock)
      BY DEF IInv, Nets, Now
    <2>2. PICK t \in Delay : e \in {t} \X (1..Len(calendar[t]))
      BY DEF Entries
    <2>3. e[1] = t /\ e[2] \in 1..Len(calendar[t])
      BY <2>2
    <2> DEFINE E == Events(heard, (clock + t) % Second)
    <2>4. calendar[t] \in Seq(E)
      BY <2>1 DEF Agendas
    <2>5. Entry(calendar, e) = calendar[t][e[2]]
      BY <2>3 DEF Entry
    <2> HIDE DEF E
    <2>6. Entry(calendar, e) \in E
      BY <2>3, <2>4, <2>5
    <2>7. \A b \in E : PhaseOf(b.kind) = (clock + t) % Second
      BY DEF E, Events, Radios, Hops, Owns, Bares
    <2> QED
      BY <2>3, <2>6, <2>7
  <1> QED
    BY <1>1, AlwaysIInv, PTL

(* Data moves outward over the line hop by hop: every node between a node  *)
(* that has a datum and its originator has had it.                         *)
THEOREM HopByHop == Spec => []NoHopSkipped
  <1>1. IInv => NoHopSkipped
    BY DEF IInv, PathsComplete, NoHopSkipped, Relay!PathComplete, Relay!Node,
           Node
  <1> QED
    BY <1>1, AlwaysIInv, PTL

(* The network implements LineRelay: a sensor originates data under fresh  *)
(* identities, and a node gets data only from its neighbour on the side of *)
(* the originator; every other step leaves the histories alone.            *)
THEOREM Implementation == Spec => ImplementsLineRelay
  <1>1. Init => Relay!Init
    BY DEF Init, Relay!Init, Relay!Node, Node
  <1>2. IInv /\ [Next]_vars => [Relay!Next]_heard
    <2> SUFFICES ASSUME IInv, [Next]_vars, heard' # heard
                 PROVE  Relay!Next
      OBVIOUS
    <2> DEFINE nd == NextIdentities(device)
    <2>1. /\ heard \in Histories /\ nd \in Identities /\ clock \in Clocks
          /\ PathsComplete(heard) /\ NoPhantom(heard, nd)
      BY DEF IInv
    <2>2. (\E n \in Sensor : Arrive(n)) \/ RunReceive
      BY DEF vars, Next, RunEvent, Report, Tick, RunReceiveStart,
             RunReceiveCheck, RunReceiveCorrupt, RunSetSleep, RunAckSend,
             RunForwarding, RunWaitSend, RunAckCheck, RunOriginalAckCheck,
             RunReSend, RunReOriginalSend
    <2>3. ASSUME NEW n \in Sensor, Arrive(n)
          PROVE  Relay!Next
      <3> DEFINE i == device[n].ndid
      <3>1. heard' = [heard EXCEPT ![n] = @ \cup {<<n, i>>}]
        BY <2>3 DEF Arrive
      <3>2. n \in Node /\ nd[n] = i
        BY Line DEF NextIdentities
      <3>3. i \in Nat /\ i >= 1
        BY <2>1, <3>2 DEF Identities
      <3>4. i \in Relay!DataId
        <4>1. MaxData[n] \in 0..MaxDid /\ MaxDid \in Int
          BY ScenarioAssumption, LineAssumption
        <4>2. i <= MaxData[n]
          BY <2>3 DEF Arrive
        <4> QED
          BY <3>3, <4>1, <4>2 DEF Relay!DataId
      <3>5. Relay!Fresh(<<n, i>>)
        <4>1. ASSUME NEW m \in Node, <<n, i>> \in heard[m]
              PROVE  FALSE
          <5>1. i < nd[n]
            BY <2>1, <4>1 DEF NoPhantom
          <5> QED
            BY <3>2, <3>3, <5>1
        <4> QED
          BY <4>1 DEF Relay!Fresh, Relay!Node, Node
      <3>6. Relay!Originate(n)
        BY <3>1, <3>4, <3>5 DEF Relay!Originate
      <3> QED
        BY <3>6 DEF Relay!Next, Relay!Sensor, Sensor
    <2>4. CASE RunReceive
      <3> DEFINE e == Event1
                 x == Data(e.pkt)
      <3>1. e.kind = "Receive" /\ Due(calendar)
        BY <2>4 DEF RunReceive, Calls, Event1
      <3>2. e \in Events(heard, clock)
        BY <3>1, EventRuns
      <3>3. /\ e.node \in Node /\ e.peer \in Sensor
            /\ Adjacent(e.node, e.peer) /\ x \in heard[e.peer]
        BY <2>1, <3>1, <3>2, EventParts DEF RadioKind
      <3>4. heard' = [heard EXCEPT ![e.node] =
                        IF device[e.node].send_flag \/ e.pkt.type = "IACK"
                        THEN @
                        ELSE @ \cup {x}]
        BY <2>4 DEF RunReceive
      <3> HIDE DEF e, x
      <3>5. /\ heard' = [heard EXCEPT ![e.node] = @ \cup {x}]
            /\ x \notin heard[e.node]
        BY <2>1, <3>3, <3>4 DEF Histories
      <3>6. x[1] # e.node /\ e.peer = Relay!Upstream(e.node, x[1])
        BY <2>1, <3>3, <3>5, RelayKeepsPaths
      <3>7. x[1] \in Sensor
        BY <2>1, <3>3, Line DEF Histories
      <3>8. Relay!Hop(e.node, x[1])
        BY <3>3, <3>5, <3>6 DEF Relay!Hop
      <3> QED
        BY <3>3, <3>7, <3>8
        DEF Relay!Next, Relay!Sensor, Relay!Node, Sensor, Node
    <2> QED
      BY <2>2, <2>3, <2>4
  <1> QED
    BY <1>1, <1>2, AlwaysIInv, PTL DEF Spec, ImplementsLineRelay, Relay!Spec

-----------------------------------------------------------------------------
(***************************************************************************)
(* The stop-and-wait exchange.  Its inductive invariant says where in the  *)
(* calendar the events of one node are; the lemmas follow a handler        *)
(* through the calls it makes.                                             *)
(***************************************************************************)
(***************************************************************************)
(* The places, in the queue of those due after t, of a node's own events.  *)
(***************************************************************************)
At(cal, K, n, t) ==
  {i \in 1..Len(cal[t]) : cal[t][i].kind \in K /\ cal[t][i].node = n}

ActKind == {"AckSend", "Forwarding", "WaitSend"} \cup TimerKind
MacKind == ActKind \cup {"SetSleep"}

Ack(cal, n, t)   == At(cal, {"AckSend"}, n, t)
Fwd(cal, n, t)   == At(cal, {"Forwarding"}, n, t)
Wait(cal, n, t)  == At(cal, {"WaitSend"}, n, t)
Timer(cal, n, t) == At(cal, TimerKind, n, t)
Sleep(cal, n, t) == At(cal, {"SetSleep"}, n, t)
Act(cal, n, t)   == At(cal, ActKind, n, t)

(***************************************************************************)
(* The exchange of node n with device d.  fr: no event has run yet at this *)
(* instant.                                                                *)
(***************************************************************************)
TimerFor(d, n, e) ==
  /\ d.m_txPacket # NoPacket /\ SameData(d.m_txPacket, e.pkt)
  /\ e.kind \in {"AckCheck", "ReSend"} => ExpectsAck(n, e.peer)
  /\ e.kind \in OwnKind => (n = 1 => d.lack_flag) /\ (n = N => d.rack_flag)

(* The one timer of an exchange runs after its sends have ended.           *)
Timers(d, cal, n) ==
  /\ \A t \in Delay : \A i \in Timer(cal, n, t) :
        /\ d.wait_ack /\ TimerFor(d, n, cal[t][i])
        /\ \A u \in Delay : \A j \in Timer(cal, n, u) : u = t /\ j = i
        /\ \A u \in Delay : Sleep(cal, n, u) # {} => u < t
  /\ d.wait_ack => \E t \in Delay : Timer(cal, n, t) # {}

(* The sends of one instant end together, before anything the node does at *)
(* that instant; until then send_flag is up.                               *)
Sleeps(d, cal, n, fr) ==
  /\ \A t \in Delay : \A i \in Sleep(cal, n, t) :
        /\ t <= Second
        /\ t > 0 => d.send_flag
        /\ ~d.send_flag => ~fr /\ Act(cal, n, 0) = {}
        /\ \A u \in Delay : Sleep(cal, n, u) # {} => u = t
        /\ \A j \in Act(cal, n, t) : j < i
  /\ d.send_flag =>
        \E t \in Delay : Sleep(cal, n, t) # {} \/ Fwd(cal, n, t) # {}

(* A reply is an AckSend and a Forwarding, next to each other; no exchange *)
(* is under way and no send begins before they run.                        *)
Replies(d, cal, n) ==
  /\ \A t \in Delay : \A i \in Fwd(cal, n, t) :
        /\ d.send_flag /\ ~d.wait_ack
        /\ \A u \in Delay : \A j \in Fwd(cal, n, u) : u = t /\ j = i
        /\ \A u \in Delay : Sleep(cal, n, u) # {} => t = 0 /\ u = Second
        /\ \A u \in Delay : Wait(cal, n, u) # {} => u <= t
  /\ \A t \in Delay : \A i \in Ack(cal, n, t) :
        /\ i + 1 \in Fwd(cal, n, t)
        /\ \A u \in Delay : Sleep(cal, n, u) = {}

(* A WaitSend left over when an exchange starts is due while send_flag is  *)
(* up, so that it does nothing.                                            *)
Waits(d, cal, n, fr) ==
  \A t \in Delay : Wait(cal, n, t) # {} =>
     /\ t <= 2 * Second
     /\ d.wait_ack => t = 0 /\ Sleep(cal, n, Second) # {}
     /\ t > Second => Sleep(cal, n, t - Second) # {}
     /\ t = Second => \/ Sleep(cal, n, 0) # {}
                      \/ ~fr /\ Act(cal, n, 0) = {}

Backoff(d) == d.k <= Round + 1 /\ (~d.wait_ack => d.k = 1)

Exchange(d, cal, n, fr) ==
  /\ Timers(d, cal, n) /\ Sleeps(d, cal, n, fr)
  /\ Replies(d, cal, n) /\ Waits(d, cal, n, fr) /\ Backoff(d)

(* Nothing of n is scheduled but ends of sends that begin now, and         *)
(* WaitSends that are due now: a send may begin.                           *)
Free(cal, n) ==
  \A t \in Delay :
     /\ Fwd(cal, n, t) = {} /\ Ack(cal, n, t) = {} /\ Timer(cal, n, t) = {}
     /\ Sleep(cal, n, t) # {} => t = Second
     /\ Wait(cal, n, t) # {} => t = 0

Alone(cal, n) == \A t \in Delay : At(cal, MacKind, n, t) = {}
-----------------------------------------------------------------------------
(* What the calendar's operations do to the places.                        *)

LEMMA Places ==
  ASSUME NEW cal \in Calendars(Event), NEW n, NEW t \in Delay
  PROVE  /\ Act(cal, n, t) = Ack(cal, n, t) \cup Fwd(cal, n, t)
                             \cup Wait(cal, n, t) \cup Timer(cal, n, t)
         /\ At(cal, MacKind, n, t) = Act(cal, n, t) \cup Sleep(cal, n, t)
         /\ Len(cal[t]) \in Nat
         /\ \A K : At(cal, K, n, t) \subseteq 1..Len(cal[t])
  <1>1. cal[t] \in Seq(Event)
    BY DEF Calendars
  <1> QED
    BY <1>1 DEF At, Act, Ack, Fwd, Wait, Timer, Sleep, ActKind, MacKind

LEMMA PostPlaces ==
  ASSUME NEW cal \in Calendars(Event), NEW t \in Delay, NEW e \in Event
  PROVE  /\ Post(cal, t, e) \in Calendars(Event)
         /\ \A n, K : \A u \in Delay :
              At(Post(cal, t, e), K, n, u) =
                At(cal, K, n, u) \cup
                (IF u = t /\ e.kind \in K /\ e.node = n
                 THEN {Len(cal[t]) + 1} ELSE {})
         /\ \A u \in Delay : \A i \in 1..Len(cal[u]) :
              Post(cal, t, e)[u][i] = cal[u][i]
         /\ Post(cal, t, e)[t][Len(cal[t]) + 1] = e
  <1> DEFINE c == Post(cal, t, e)
  <1>1. \A u \in Delay : cal[u] \in Seq(Event) /\ Len(cal[u]) \in Nat
    BY DEF Calendars
  <1>2. c[t] = Append(cal[t], e) /\ \A u \in Delay : u # t => c[u] = cal[u]
    BY DEF Post, Calendars
  <1>3. c \in Calendars(Event)
    BY <1>1 DEF Post, Calendars
  <1>4. /\ Len(Append(cal[t], e)) = Len(cal[t]) + 1
        /\ \A i \in 1..Len(cal[t]) : Append(cal[t], e)[i] = cal[t][i]
        /\ Append(cal[t], e)[Len(cal[t]) + 1] = e
    BY <1>1, AppendProperties
  <1> HIDE DEF c
  <1>5. ASSUME NEW n, NEW K, NEW u \in Delay
        PROVE  At(c, K, n, u) = At(cal, K, n, u) \cup
                                (IF u = t /\ e.kind \in K /\ e.node = n
                                 THEN {Len(cal[t]) + 1} ELSE {})
    <2>1. CASE u # t
      BY <1>2, <2>1 DEF At
    <2>2. CASE u = t
      <3>1. 1..Len(c[t]) = 1..Len(cal[t]) \cup {Len(cal[t]) + 1}
        BY <1>1, <1>2, <1>4
      <3> QED
        BY <1>2, <1>4, <2>2, <3>1 DEF At
    <2> QED
      BY <2>1, <2>2
  <1> QED
    BY <1>2, <1>3, <1>4, <1>5 DEF c

LEMMA PopPlaces ==
  ASSUME NEW cal \in Calendars(Event), Due(cal)
  PROVE  /\ Pop(cal) \in Calendars(Event)
         /\ First(cal) = cal[0][1] /\ Len(cal[0]) \in Nat \ {0}
         /\ \A n, K : At(Pop(cal), K, n, 0) =
                        {i \in 1..(Len(cal[0]) - 1) : i + 1 \in At(cal, K, n, 0)}
         /\ \A n, K : \A u \in Delay : u # 0 => At(Pop(cal), K, n, u) = At(cal, K, n, u)
         /\ \A u \in Delay : u # 0 => Pop(cal)[u] = cal[u]
         /\ \A i \in 1..(Len(cal[0]) - 1) : Pop(cal)[0][i] = cal[0][i + 1]
  <1>1. 0 \in Delay
    BY Delays
  <1>2. cal[0] \in Seq(Event) /\ cal[0] # << >>
    BY <1>1 DEF Due, Calendars
  <1>3. /\ Len(cal[0]) \in Nat \ {0} /\ First(cal) = cal[0][1]
        /\ Tail(cal[0]) \in Seq(Event) /\ Len(Tail(cal[0])) = Len(cal[0]) - 1
        /\ \A i \in 1..(Len(cal[0]) - 1) : Tail(cal[0])[i] = cal[0][i + 1]
    BY <1>2, HeadTailProperties DEF First
  <1>4. Pop(cal)[0] = Tail(cal[0]) /\ \A u \in Delay : u # 0 => Pop(cal)[u] = cal[u]
    BY <1>1 DEF Pop, Calendars
  <1>5. Pop(cal) \in Calendars(Event)
    BY <1>3 DEF Pop, Calendars
  <1>6. ASSUME NEW n, NEW K
        PROVE  At(Pop(cal), K, n, 0) =
                 {i \in 1..(Len(cal[0]) - 1) : i + 1 \in At(cal, K, n, 0)}
    BY <1>3, <1>4 DEF At
  <1>7. ASSUME NEW n, NEW K, NEW u \in Delay, u # 0
        PROVE  At(Pop(cal), K, n, u) = At(cal, K, n, u)
    BY <1>4, <1>7 DEF At
  <1> QED
    BY <1>3, <1>4, <1>5, <1>6, <1>7

LEMMA AdvancePlaces ==
  ASSUME NEW cal \in Calendars(Event), NEW t \in Delay
  PROVE  /\ Advance(cal, t) \in Calendars(Event)
         /\ \A n, K : \A u \in Delay :
              /\ u + t \in Delay => At(Advance(cal, t), K, n, u) = At(cal, K, n, u + t)
              /\ u + t \notin Delay => At(Advance(cal, t), K, n, u) = {}
         /\ \A u \in Delay : u + t \in Delay => Advance(cal, t)[u] = cal[u + t]
  <1>0. Horizon \in Nat
    BY HorizonAssumption
  <1>1. ASSUME NEW u \in Delay
        PROVE  /\ u + t \in Delay => Advance(cal, t)[u] = cal[u + t]
               /\ u + t \notin Delay => Advance(cal, t)[u] = << >>
    BY <1>0 DEF Advance, Delay
  <1>2. Advance(cal, t) \in Calendars(Event)
    <2>1. \A u \in Delay : cal[u] \in Seq(Event)
      BY DEF Calendars
    <2>2. << >> \in Seq(Event)
      OBVIOUS
    <2>3. \A u \in Delay : Advance(cal, t)[u] \in Seq(Event)
      BY <1>1, <2>1, <2>2
    <2> QED
      BY <2>3 DEF Advance, Calendars
  <1> QED
    BY <1>1, <1>2 DEF At
-----------------------------------------------------------------------------
(* What keeps an exchange as it is.                                        *)

(* The event is a reception, or another node's.                            *)
Foreign(e, n) == e.kind \in RadioKind \/ e.node # n

LEMMA PostKeepsExchange ==
  ASSUME NEW cal \in Calendars(Event), NEW t \in Delay, NEW e \in Event,
         NEW n, NEW d, NEW fr, Foreign(e, n)
  PROVE  /\ \A K \in SUBSET MacKind : \A u \in Delay :
              At(Post(cal, t, e), K, n, u) = At(cal, K, n, u)
         /\ Exchange(d, cal, n, fr) => Exchange(d, Post(cal, t, e), n, fr)
         /\ Free(cal, n) => Free(Post(cal, t, e), n)
  <1> DEFINE c == Post(cal, t, e)
  <1>1. \A K \in SUBSET MacKind : \A u \in Delay : At(c, K, n, u) = At(cal, K, n, u)
    <2>1. ASSUME NEW K \in SUBSET MacKind
          PROVE  ~(e.kind \in K /\ e.node = n)
      BY DEF Foreign, RadioKind, MacKind, ActKind, TimerKind
    <2>2. ASSUME NEW K \in SUBSET MacKind, NEW u \in Delay
          PROVE  At(c, K, n, u) = At(cal, K, n, u)
      <3>1. At(c, K, n, u) =
              At(cal, K, n, u) \cup (IF u = t /\ e.kind \in K /\ e.node = n
                                     THEN {Len(cal[t]) + 1} ELSE {})
        BY PostPlaces
      <3> QED
        BY <2>1, <3>1
    <2> QED
      BY <2>2
  <1>2. \A u \in Delay : \A i \in 1..Len(cal[u]) : c[u][i] = cal[u][i]
    BY PostPlaces
  <1> HIDE DEF c
  <1>3. ASSUME NEW u \in Delay
        PROVE  /\ Ack(c, n, u) = Ack(cal, n, u) /\ Fwd(c, n, u) = Fwd(cal, n, u)
               /\ Wait(c, n, u) = Wait(cal, n, u)
               /\ Timer(c, n, u) = Timer(cal, n, u)
               /\ Sleep(c, n, u) = Sleep(cal, n, u)
               /\ Act(c, n, u) = Act(cal, n, u)
    BY <1>1 DEF Ack, Fwd, Wait, Timer, Sleep, Act, ActKind, MacKind
  <1>4. \A u \in Delay : \A i \in Timer(cal, n, u) : c[u][i] = cal[u][i]
    BY <1>2 DEF Timer, At
  <1>5. 0 \in Delay /\ Second \in Delay
    BY Delays
  <1>6. Timers(d, cal, n) => Timers(d, c, n)
    BY <1>3, <1>4 DEF Timers
  <1>7. Sleeps(d, cal, n, fr) => Sleeps(d, c, n, fr)
    BY <1>3, <1>5 DEF Sleeps
  <1>8. Replies(d, cal, n) => Replies(d, c, n)
    BY <1>3 DEF Replies
  <1>9. Waits(d, cal, n, fr) => Waits(d, c, n, fr)
    <2>1. \A u \in Delay : u > Second => u - Second \in Delay
      BY HorizonAssumption DEF Delay, Second
    <2> QED
      BY <1>3, <1>5, <2>1 DEF Waits
  <1>10. Free(cal, n) => Free(c, n)
    BY <1>3 DEF Free
  <1> QED
    BY <1>1, <1>6, <1>7, <1>8, <1>9, <1>10 DEF Exchange, c

LEMMA PopKeepsExchange ==
  ASSUME NEW cal \in Calendars(Event), Due(cal), NEW n, NEW d, NEW fr,
         Exchange(d, cal, n, fr), NEW fx, ~fx,
         \/ First(cal).node # n
         \/ First(cal).kind \notin TimerKind \cup {"Forwarding", "SetSleep"}
  PROVE  Exchange(d, Pop(cal), n, fx)
  <1> DEFINE c == Pop(cal)
             K0 == TimerKind \cup {"Forwarding", "SetSleep"}
  <1>0. /\ 0 \in Delay /\ Second \in Delay
        /\ \A u \in Delay : u \in Nat /\ (u > Second => u - Second \in Delay /\ u - Second # 0)
    BY HorizonAssumption DEF Delay, Second
  <1>1. /\ First(cal) = cal[0][1] /\ Len(cal[0]) \in Nat \ {0}
        /\ \A K : At(c, K, n, 0) = {i \in 1..(Len(cal[0]) - 1) : i + 1 \in At(cal, K, n, 0)}
        /\ \A K : \A u \in Delay : u # 0 => At(c, K, n, u) = At(cal, K, n, u)
        /\ \A u \in Delay : u # 0 => c[u] = cal[u]
        /\ \A i \in 1..(Len(cal[0]) - 1) : c[0][i] = cal[0][i + 1]
    BY PopPlaces
  <1> HIDE DEF c
  <1>2. ASSUME NEW K, K \subseteq K0
        PROVE  /\ 1 \notin At(cal, K, n, 0)
               /\ \A i \in At(cal, K, n, 0) : i - 1 \in At(c, K, n, 0)
    <2>1. 1 \notin At(cal, K, n, 0)
      BY <1>1, <1>2 DEF At
    <2>2. At(cal, K, n, 0) \subseteq 1..Len(cal[0])
      BY DEF At
    <2>3. ASSUME NEW i \in At(cal, K, n, 0)
          PROVE  i - 1 \in At(c, K, n, 0)
      <3>1. i \in 2..Len(cal[0]) /\ Len(cal[0]) \in Nat
        BY <1>1, <2>1, <2>2
      <3>2. i - 1 \in 1..(Len(cal[0]) - 1) /\ (i - 1) + 1 = i
        BY <3>1
      <3> QED
        BY <1>1, <3>2
    <2> QED
      BY <2>1, <2>3
  <1>3. ASSUME NEW K, NEW u \in Delay
        PROVE  /\ \A i \in At(c, K, n, u) :
                    IF u = 0 THEN i \in Nat /\ i + 1 \in At(cal, K, n, u) /\ c[u][i] = cal[u][i + 1]
                    ELSE i \in At(cal, K, n, u) /\ c[u][i] = cal[u][i]
               /\ At(cal, K, n, u) = {} => At(c, K, n, u) = {}
               /\ K \subseteq K0 /\ At(cal, K, n, u) # {} => At(c, K, n, u) # {}
    <2>1. CASE u = 0
      BY <1>1, <1>2, <2>1
    <2>2. CASE u # 0
      BY <1>1, <2>2
    <2> QED
      BY <2>1, <2>2
  <1>4. \A u \in Delay :
          /\ Sleep(c, n, u) # {} <=> Sleep(cal, n, u) # {}
          /\ Timer(c, n, u) # {} <=> Timer(cal, n, u) # {}
          /\ Fwd(c, n, u) # {} <=> Fwd(cal, n, u) # {}
          /\ Wait(c, n, u) # {} => Wait(cal, n, u) # {}
          /\ Act(cal, n, u) = {} => Act(c, n, u) = {}
    BY <1>3 DEF Sleep, Timer, Fwd, Wait, Act
  <1>5. Timers(d, c, n)
    <2>0. Timers(d, cal, n)
      BY DEF Exchange
    <2>1. ASSUME NEW t \in Delay, NEW i \in Timer(c, n, t)
          PROVE  /\ d.wait_ack /\ TimerFor(d, n, c[t][i])
                 /\ \A u \in Delay : \A j \in Timer(c, n, u) : u = t /\ j = i
                 /\ \A u \in Delay : Sleep(c, n, u) # {} => u < t
      <3> DEFINE I == IF t = 0 THEN i + 1 ELSE i
      <3>1. I \in Timer(cal, n, t) /\ c[t][i] = cal[t][I] /\ (t = 0 => i \in Nat)
        BY <1>3 DEF Timer
      <3>2. ASSUME NEW u \in Delay, NEW j \in Timer(c, n, u)
            PROVE  u = t /\ j = i
        <4>1. /\ IF u = 0 THEN j + 1 \in Timer(cal, n, u) ELSE j \in Timer(cal, n, u)
              /\ u = 0 => j \in Nat
          BY <1>3 DEF Timer
        <4>2. u = t /\ (IF u = 0 THEN j + 1 ELSE j) = I
          BY <2>0, <3>1, <4>1 DEF Timers
        <4> QED
          BY <3>1, <4>1, <4>2
      <3> HIDE DEF I
      <3> QED
        BY <1>4, <2>0, <3>1, <3>2 DEF Timers
    <2> QED
      BY <1>4, <2>0, <2>1 DEF Timers
  <1>6. Sleeps(d, c, n, fx)
    <2>0. Sleeps(d, cal, n, fr)
      BY DEF Exchange
    <2>1. ASSUME NEW t \in Delay, NEW i \in Sleep(c, n, t)
          PROVE  /\ t <= Second
                 /\ t > 0 => d.send_flag
                 /\ ~d.send_flag => Act(c, n, 0) = {}
                 /\ \A u \in Delay : Sleep(c, n, u) # {} => u = t
                 /\ \A j \in Act(c, n, t) : j < i
      <3> DEFINE I == IF t = 0 THEN i + 1 ELSE i
      <3>1. I \in Sleep(cal, n, t) /\ (t = 0 => i \in Nat)
        BY <1>3 DEF Sleep
      <3>2. ASSUME NEW j \in Act(c, n, t)
            PROVE  j < i
        <4>1. /\ (IF t = 0 THEN j + 1 ELSE j) \in Act(cal, n, t)
              /\ t = 0 => j \in Nat
          BY <1>3 DEF Act
        <4>2. (IF t = 0 THEN j + 1 ELSE j) < I
          BY <2>0, <3>1, <4>1 DEF Sleeps
        <4> QED
          BY <3>1, <4>1, <4>2
      <3> HIDE DEF I
      <3> QED
        BY <1>0, <1>4, <2>0, <3>1, <3>2 DEF Sleeps
    <2>2. d.send_flag => \E t \in Delay : Sleep(c, n, t) # {} \/ Fwd(c, n, t) # {}
      BY <1>4, <2>0 DEF Sleeps
    <2> QED
      BY <2>1, <2>2 DEF Sleeps
  <1>7. Replies(d, c, n)
    <2>0. Replies(d, cal, n)
      BY DEF Exchange
    <2>1. ASSUME NEW t \in Delay, NEW i \in Fwd(c, n, t)
          PROVE  /\ d.send_flag /\ ~d.wait_ack
                 /\ \A u \in Delay : \A j \in Fwd(c, n, u) : u = t /\ j = i
                 /\ \A u \in Delay : Sleep(c, n, u) # {} => t = 0 /\ u = Second
                 /\ \A u \in Delay : Wait(c, n, u) # {} => u <= t
      <3> DEFINE I == IF t = 0 THEN i + 1 ELSE i
      <3>1. I \in Fwd(cal, n, t) /\ (t = 0 => i \in Nat)
        BY <1>3 DEF Fwd
      <3>2. ASSUME NEW u \in Delay, NEW j \in Fwd(c, n, u)
            PROVE  u = t /\ j = i
        <4>1. /\ IF u = 0 THEN j + 1 \in Fwd(cal, n, u) ELSE j \in Fwd(cal, n, u)
              /\ u = 0 => j \in Nat
          BY <1>3 DEF Fwd
        <4>2. u = t /\ (IF u = 0 THEN j + 1 ELSE j) = I
          BY <2>0, <3>1, <4>1 DEF Replies
        <4> QED
          BY <3>1, <4>1, <4>2
      <3> HIDE DEF I
      <3> QED
        BY <1>4, <2>0, <3>1, <3>2 DEF Replies
    <2>2. ASSUME NEW t \in Delay, NEW i \in Ack(c, n, t)
          PROVE  /\ i + 1 \in Fwd(c, n, t)
                 /\ \A u \in Delay : Sleep(c, n, u) = {}
      <3> DEFINE I == IF t = 0 THEN i + 1 ELSE i
      <3>1. I \in Ack(cal, n, t) /\ (t = 0 => i \in Nat)
        BY <1>3 DEF Ack
      <3>2. I + 1 \in Fwd(cal, n, t) /\ \A u \in Delay : Sleep(cal, n, u) = {}
        <4> HIDE DEF I
        <4> QED
          BY <2>0, <3>1 DEF Replies
      <3>3. i + 1 \in Fwd(c, n, t)
        <4>1. CASE t = 0
          <5>1. (I + 1) - 1 \in At(c, {"Forwarding"}, n, 0)
            BY <1>2, <3>2, <4>1 DEF Fwd
          <5>2. (I + 1) - 1 = i + 1
            BY <3>1, <4>1
          <5> QED
            BY <4>1, <5>1, <5>2 DEF Fwd
        <4>2. CASE t # 0
          BY <1>1, <3>2, <4>2 DEF Fwd
        <4> QED
          BY <4>1, <4>2
      <3> QED
        BY <1>4, <3>2, <3>3
    <2> QED
      BY <2>1, <2>2 DEF Replies
  <1>8. Waits(d, c, n, fx)
    BY <1>0, <1>4 DEF Waits, Exchange
  <1> QED
    BY <1>5, <1>6, <1>7, <1>8 DEF Exchange, c
-----------------------------------------------------------------------------
(* The next event is the node's own.                                       *)

(* What runs, and ends a send, is due at whole seconds.                    *)
Aligned(cal, n, c) ==
  \A t \in Delay : At(cal, MacKind, n, t) # {} => (c + t) % Second = 0

LEMMA WholeSeconds ==
  ASSUME NEW u \in Nat
  PROVE  /\ (0 + u) % Second = 0 /\ u < Second => u = 0
         /\ (9 + u) % Second = 0 /\ u < Second => u = 1
         /\ (9 + u) % Second = 0 /\ u <= 2 * Second => u = 1 \/ u = Second + 1
  BY DEF Second

LEMMA NetsAligned ==
  ASSUME NEW h \in Histories, NEW nd \in Identities, NEW c \in Clocks,
         NEW s \in Nets(h, nd, c), NEW n
  PROVE  s.cal \in Calendars(Event) /\ Aligned(s.cal, n, c)
  <1>1. s.cal \in Agendas(h, c)
    BY DEF Nets
  <1>2. ASSUME NEW t \in Delay, NEW i \in At(s.cal, MacKind, n, t)
        PROVE  (c + t) % Second = 0
    <2> DEFINE E == Events(h, (c + t) % Second)
    <2>1. s.cal[t] \in Seq(E) /\ i \in 1..Len(s.cal[t]) /\ s.cal[t][i].kind \in MacKind
      BY <1>1, <1>2 DEF Agendas, At
    <2> HIDE DEF E
    <2>2. s.cal[t][i] \in E
      BY <2>1
    <2>3. \A b \in E : PhaseOf(b.kind) = (c + t) % Second
      BY DEF E, Events, Radios, Hops, Owns, Bares
    <2>4. \A kind \in MacKind : PhaseOf(kind) = 0
      BY DEF PhaseOf, MacKind, ActKind, TimerKind
    <2> QED
      BY <2>1, <2>2, <2>3, <2>4
  <1> QED
    BY <1>1, <1>2 DEF Aligned, Agendas

LEMMA FirstPlace ==
  ASSUME NEW cal \in Calendars(Event), Due(cal), NEW n, First(cal).node = n,
         NEW K, First(cal).kind \in K
  PROVE  1 \in At(cal, K, n, 0) /\ cal[0][1] = First(cal) /\ 0 \in Delay
  BY PopPlaces, Delays DEF At

(* The popped calendar's events were there before.                         *)
LEMMA PoppedPlaces ==
  ASSUME NEW cal \in Calendars(Event), Due(cal), NEW n, NEW K, NEW t \in Delay
  PROVE  /\ At(Pop(cal), K, n, t) # {} => At(cal, K, n, t) # {}
         /\ t # 0 => At(Pop(cal), K, n, t) = At(cal, K, n, t)
         /\ \A i \in At(Pop(cal), K, n, 0) : i \in Nat \ {0} /\ i + 1 \in At(cal, K, n, 0)
  BY PopPlaces

LEMMA PopTimerAlone ==
  ASSUME NEW cal \in Calendars(Event), Due(cal), NEW n, NEW d, NEW fr,
         Exchange(d, cal, n, fr), First(cal).node = n, First(cal).kind \in TimerKind
  PROVE  /\ d.wait_ack /\ ~d.send_flag /\ TimerFor(d, n, First(cal))
         /\ Alone(Pop(cal), n)
  <1>0. 0 \in Delay /\ Second \in Delay /\ \A u \in Delay : u \in Nat
    BY Delays DEF Delay
  <1>1. 1 \in Timer(cal, n, 0) /\ cal[0][1] = First(cal)
    BY FirstPlace DEF Timer
  <1>2. /\ d.wait_ack /\ TimerFor(d, n, First(cal))
        /\ \A u \in Delay : \A j \in Timer(cal, n, u) : u = 0 /\ j = 1
        /\ \A u \in Delay : Sleep(cal, n, u) = {}
    BY <1>0, <1>1 DEF Exchange, Timers
  <1>3. \A u \in Delay : Fwd(cal, n, u) = {}
    BY <1>2 DEF Exchange, Replies
  <1>4. \A u \in Delay : Ack(cal, n, u) = {}
    BY <1>3 DEF Exchange, Replies
  <1>5. \A u \in Delay : Wait(cal, n, u) = {}
    BY <1>0, <1>2 DEF Exchange, Waits
  <1>6. ~d.send_flag
    BY <1>2, <1>3 DEF Exchange, Sleeps
  <1>7. ASSUME NEW u \in Delay
        PROVE  At(Pop(cal), MacKind, n, u) = {}
    <2>1. /\ Ack(Pop(cal), n, u) = {} /\ Fwd(Pop(cal), n, u) = {}
          /\ Wait(Pop(cal), n, u) = {} /\ Sleep(Pop(cal), n, u) = {}
      BY <1>2, <1>3, <1>4, <1>5, PoppedPlaces DEF Ack, Fwd, Wait, Sleep
    <2>2. ASSUME NEW i \in Timer(Pop(cal), n, u)
          PROVE  FALSE
      <3>1. CASE u = 0
        <4>1. i \in Nat \ {0} /\ i + 1 \in Timer(cal, n, 0)
          BY <2>2, <3>1, PoppedPlaces DEF Timer
        <4>2. i + 1 = 1
          BY <1>0, <1>2, <4>1
        <4> QED
          BY <4>1, <4>2
      <3>2. CASE u # 0
        BY <1>2, <2>2, <3>2, PoppedPlaces DEF Timer
      <3> QED
        BY <3>1, <3>2
    <2>3. Pop(cal) \in Calendars(Event)
      BY PopPlaces
    <2> QED
      BY <2>1, <2>2, <2>3, Places
  <1> QED
    BY <1>2, <1>6, <1>7 DEF Alone

LEMMA PopForwardingFree ==
  ASSUME NEW cal \in Calendars(Event), Due(cal), NEW n, NEW d, NEW fr,
         Exchange(d, cal, n, fr), First(cal).node = n, First(cal).kind = "Forwarding"
  PROVE  d.send_flag /\ ~d.wait_ack /\ d.k = 1 /\ Free(Pop(cal), n)
  <1>0. 0 \in Delay /\ \A u \in Delay : u \in Nat
    BY Delays DEF Delay
  <1>1. 1 \in Fwd(cal, n, 0)
    BY FirstPlace DEF Fwd
  <1>2. /\ d.send_flag /\ ~d.wait_ack
        /\ \A u \in Delay : \A j \in Fwd(cal, n, u) : u = 0 /\ j = 1
        /\ \A u \in Delay : Sleep(cal, n, u) # {} => u = Second
        /\ \A u \in Delay : Wait(cal, n, u) # {} => u <= 0
    BY <1>0, <1>1 DEF Exchange, Replies
  <1>3. d.k = 1 /\ \A u \in Delay : Timer(cal, n, u) = {}
    BY <1>2 DEF Exchange, Backoff, Timers
  <1>4. ASSUME NEW u \in Delay
        PROVE  /\ Fwd(Pop(cal), n, u) = {} /\ Ack(Pop(cal), n, u) = {}
               /\ Timer(Pop(cal), n, u) = {}
               /\ Sleep(Pop(cal), n, u) # {} => u = Second
               /\ Wait(Pop(cal), n, u) # {} => u = 0
    <2>1. /\ Timer(Pop(cal), n, u) = {}
          /\ Sleep(Pop(cal), n, u) # {} => u = Second
          /\ Wait(Pop(cal), n, u) # {} => u = 0
      BY <1>0, <1>2, <1>3, PoppedPlaces DEF Timer, Sleep, Wait
    <2>2. ASSUME NEW i \in Fwd(Pop(cal), n, u) \cup Ack(Pop(cal), n, u)
          PROVE  FALSE
      <3> DEFINE I == IF u = 0 THEN i + 1 ELSE i
      <3>1. /\ I \in Fwd(cal, n, u) \cup Ack(cal, n, u)
            /\ u = 0 => i \in Nat \ {0}
        BY <2>2, PoppedPlaces DEF Fwd, Ack
      <3>2. Ack(cal, n, u) \subseteq Nat \ {0}
        <4>1. cal[u] \in Seq(Event)
          BY DEF Calendars
        <4> QED
          BY <4>1 DEF Ack, At
      <3>3. I \in Ack(cal, n, u) => I + 1 \in Fwd(cal, n, u)
        BY DEF Exchange, Replies
      <3>4. u = 0 /\ (I = 1 \/ (I \in Nat \ {0} /\ I + 1 = 1))
        BY <1>2, <3>1, <3>2, <3>3
      <3> QED
        BY <3>1, <3>4
    <2> QED
      BY <2>1, <2>2
  <1> QED
    BY <1>2, <1>3, <1>4 DEF Free

(* A WaitSend that finds send_flag down.                                   *)
LEMMA PopWaitFree ==
  ASSUME NEW cal \in Calendars(Event), Due(cal), NEW n, NEW d, NEW fr,
         Exchange(d, cal, n, fr), First(cal).node = n, First(cal).kind = "WaitSend",
         ~d.send_flag, Aligned(cal, n, 0)
  PROVE  /\ ~d.wait_ack /\ d.k = 1 /\ Free(Pop(cal), n)
         /\ \A t \in Delay : Sleep(Pop(cal), n, t) = {}
  <1>0. 0 \in Delay /\ Second \in Delay /\ \A u \in Delay : u \in Nat
    BY Delays DEF Delay
  <1>1. 1 \in Wait(cal, n, 0) /\ 1 \in Act(cal, n, 0)
    BY FirstPlace DEF Wait, Act, ActKind
  <1>2. \A u \in Delay : Sleep(cal, n, u) = {}
    BY <1>1 DEF Exchange, Sleeps
  <1>3. ~d.wait_ack
    BY <1>0, <1>1, <1>2 DEF Exchange, Waits
  <1>4. d.k = 1 /\ \A u \in Delay : Timer(cal, n, u) = {} /\ Fwd(cal, n, u) = {}
    BY <1>3 DEF Exchange, Backoff, Timers, Replies
  <1>5. \A u \in Delay : Ack(cal, n, u) = {}
    BY <1>4 DEF Exchange, Replies
  <1>6. \A u \in Delay : Wait(cal, n, u) # {} => u = 0
    <2>1. \A u \in Delay : u > Second => u - Second \in Delay
      BY HorizonAssumption DEF Delay, Second
    <2>2. \A u \in Delay : Wait(cal, n, u) # {} => u <= 2 * Second /\ u < Second
      BY <1>0, <1>1, <1>2, <2>1 DEF Exchange, Waits, Second
    <2>3. \A u \in Delay : Wait(cal, n, u) # {} => (0 + u) % Second = 0
      BY Places DEF Aligned, Act
    <2> QED
      BY <1>0, <2>2, <2>3, WholeSeconds
  <1> QED
    BY <1>2, <1>3, <1>4, <1>5, <1>6, PoppedPlaces
    DEF Free, Fwd, Ack, Timer, Sleep, Wait

(* Before the events of an instant, with both flags down.                  *)
LEMMA QuietFree ==
  ASSUME NEW cal \in Calendars(Event), NEW n, NEW d,
         NEW fr, fr, Exchange(d, cal, n, fr),
         ~d.send_flag, ~d.wait_ack, Aligned(cal, n, 0)
  PROVE  d.k = 1 /\ Free(cal, n) /\ \A t \in Delay : Sleep(cal, n, t) = {}
  <1>0. 0 \in Delay /\ Second \in Delay /\ \A u \in Delay : u \in Nat
    BY Delays DEF Delay
  <1>2. \A u \in Delay : Sleep(cal, n, u) = {}
    BY DEF Exchange, Sleeps
  <1>4. d.k = 1 /\ \A u \in Delay : Timer(cal, n, u) = {} /\ Fwd(cal, n, u) = {}
    BY DEF Exchange, Backoff, Timers, Replies
  <1>5. \A u \in Delay : Ack(cal, n, u) = {}
    BY <1>4 DEF Exchange, Replies
  <1>6. \A u \in Delay : Wait(cal, n, u) # {} => u = 0
    <2>1. \A u \in Delay : u > Second => u - Second \in Delay
      BY HorizonAssumption DEF Delay, Second
    <2>2. \A u \in Delay : Wait(cal, n, u) # {} => u <= 2 * Second /\ u < Second
      BY <1>0, <1>2, <2>1 DEF Exchange, Waits, Second
    <2>3. \A u \in Delay : Wait(cal, n, u) # {} => (0 + u) % Second = 0
      BY Places DEF Aligned, Act
    <2> QED
      BY <1>0, <2>2, <2>3, WholeSeconds
  <1> QED
    BY <1>2, <1>4, <1>5, <1>6 DEF Free

(* The end of a send.                                                      *)
LEMMA PopSleepExchange ==
  ASSUME NEW cal \in Calendars(Event), Due(cal), NEW n, NEW d \in Device, NEW fr,
         Exchange(d, cal, n, fr), NEW fx, ~fx, First(cal).node = n, First(cal).kind = "SetSleep"
  PROVE  Exchange([d EXCEPT !.send_flag = FALSE], Pop(cal), n, fx)
  <1> DEFINE f == [d EXCEPT !.send_flag = FALSE]
             c == Pop(cal)
  <1>0. 0 \in Delay /\ Second \in Delay /\ Second # 0 /\ \A u \in Delay : u \in Nat
    BY Delays DEF Delay, Second
  <1>1. 1 \in Sleep(cal, n, 0)
    BY FirstPlace DEF Sleep
  <1>2. /\ \A u \in Delay : Sleep(cal, n, u) # {} => u = 0
        /\ \A j \in Act(cal, n, 0) : j < 1
    BY <1>0, <1>1 DEF Exchange, Sleeps
  <1>3. Act(cal, n, 0) = {}
    <2>1. cal[0] \in Seq(Event)
      BY <1>0 DEF Calendars
    <2> QED
      BY <1>2, <2>1 DEF Act, At
  <1>4. \A u \in Delay : Fwd(cal, n, u) = {}
    <2>1. \A u \in Delay : \A i \in Fwd(cal, n, u) : u = 0 /\ 0 = Second
      BY <1>0, <1>1 DEF Exchange, Replies
    <2> QED
      BY <1>0, <2>1
  <1>5. \A u \in Delay : Ack(cal, n, u) = {}
    BY <1>4 DEF Exchange, Replies
  <1>6. /\ f.wait_ack = d.wait_ack /\ f.m_txPacket = d.m_txPacket /\ f.k = d.k
        /\ f.lack_flag = d.lack_flag /\ f.rack_flag = d.rack_flag /\ ~f.send_flag
    BY DEF Device
  <1> HIDE DEF f
  <1>7. \A e : TimerFor(d, n, e) => TimerFor(f, n, e)
    BY <1>6 DEF TimerFor
  <1>8. ASSUME NEW t \in Delay, t # 0
        PROVE  /\ Timer(c, n, t) = Timer(cal, n, t) /\ Sleep(c, n, t) = {}
               /\ Wait(c, n, t) = Wait(cal, n, t) /\ c[t] = cal[t]
    BY <1>2, <1>8, PopPlaces DEF Timer, Sleep, Wait
  <1>9. /\ Act(c, n, 0) = {} /\ Timer(c, n, 0) = {} /\ Wait(c, n, 0) = {}
        /\ Timer(cal, n, 0) = {} /\ Wait(cal, n, 0) = {}
    <2>1. Act(c, n, 0) = {}
      BY <1>0, <1>3, PoppedPlaces DEF Act
    <2> QED
      BY <1>0, <1>3, <2>1, PopPlaces, Places
  <1>10. \A t \in Delay : Fwd(c, n, t) = {} /\ Ack(c, n, t) = {}
    BY <1>4, <1>5, PoppedPlaces DEF Fwd, Ack
  <1>11. \A i \in Sleep(c, n, 0) : i \in Nat \ {0}
    BY <1>0, PoppedPlaces DEF Sleep
  <1> HIDE DEF c
  <1>12. Timers(f, c, n)
    <2>0. Timers(d, cal, n)
      BY DEF Exchange
    <2>1. \A t \in Delay : Timer(c, n, t) # {} => t # 0 /\ t > 0
      BY <1>0, <1>9
    <2>2. f.wait_ack => \E t \in Delay : Timer(c, n, t) # {}
      <3>1. d.wait_ack => \E t \in Delay : Timer(cal, n, t) # {}
        BY <2>0 DEF Timers
      <3> QED
        BY <1>6, <1>8, <1>9, <3>1
    <2>3. ASSUME NEW t \in Delay, NEW i \in Timer(c, n, t)
          PROVE  /\ f.wait_ack /\ TimerFor(f, n, c[t][i])
                 /\ \A u \in Delay : \A j \in Timer(c, n, u) : u = t /\ j = i
                 /\ \A u \in Delay : Sleep(c, n, u) # {} => u < t
      <3>1. t # 0 /\ t > 0 /\ i \in Timer(cal, n, t) /\ c[t] = cal[t]
        BY <1>8, <2>1
      <3>2. \A u \in Delay : \A j \in Timer(c, n, u) : j \in Timer(cal, n, u)
        BY <1>8, <2>1
      <3> QED
        BY <1>6, <1>7, <1>8, <2>0, <3>1, <3>2 DEF Timers
    <2> QED
      BY <2>2, <2>3 DEF Timers
  <1>13. Sleeps(f, c, n, fx)
    <2>1. \A t \in Delay : Sleep(c, n, t) # {} => t = 0
      BY <1>8
    <2> QED
      BY <1>0, <1>6, <1>9, <2>1 DEF Sleeps, Second
  <1>14. Replies(f, c, n)
    BY <1>10 DEF Replies
  <1>15. Waits(f, c, n, fx)
    <2>1. ASSUME NEW t \in Delay, Wait(c, n, t) # {}
          PROVE  t <= Second /\ ~f.wait_ack
      <3>1. t # 0 /\ Wait(cal, n, t) # {}
        BY <1>8, <1>9, <2>1
      <3>2. t > Second => t - Second \in Delay /\ t - Second # 0
        BY HorizonAssumption DEF Delay, Second
      <3>3. t > Second => Sleep(cal, n, t - Second) # {}
        BY <3>1 DEF Exchange, Waits
      <3>4. d.wait_ack => t = 0
        BY <3>1 DEF Exchange, Waits
      <3> QED
        BY <1>0, <1>2, <1>6, <3>1, <3>2, <3>3, <3>4
    <2> QED
      BY <1>0, <1>9, <2>1 DEF Waits, Second
  <1> QED
    BY <1>6, <1>12, <1>13, <1>14, <1>15 DEF Exchange, Backoff, c, f
-----------------------------------------------------------------------------
(* What a node's own posts make of its exchange.                           *)

(* The places when c is cal with an event of n posted to t.                *)
Posted(cal, c, n, kind, t, e) ==
  /\ c \in Calendars(Event)
  /\ \A u \in Delay : \A K : kind \notin K => At(c, K, n, u) = At(cal, K, n, u)
  /\ \A u \in Delay : \A K : u # t => At(c, K, n, u) = At(cal, K, n, u)
  /\ \A K : kind \in K => At(c, K, n, t) = At(cal, K, n, t) \cup {Len(cal[t]) + 1}
  /\ \A u \in Delay : \A i \in 1..Len(cal[u]) : c[u][i] = cal[u][i]
  /\ c[t][Len(cal[t]) + 1] = e

LEMMA PostOwn ==
  ASSUME NEW cal \in Calendars(Event), NEW t \in Delay, NEW e \in Event,
         NEW n, e.node = n, NEW kind, e.kind = kind
  PROVE  Posted(cal, Post(cal, t, e), n, kind, t, e)
  <1> DEFINE c == Post(cal, t, e)
  <1>1. /\ c \in Calendars(Event)
        /\ \A u \in Delay : \A i \in 1..Len(cal[u]) : c[u][i] = cal[u][i]
        /\ c[t][Len(cal[t]) + 1] = e
    BY PostPlaces
  <1>2. ASSUME NEW K, NEW u \in Delay
        PROVE  At(c, K, n, u) =
                 At(cal, K, n, u) \cup (IF u = t /\ e.kind \in K /\ e.node = n
                                        THEN {Len(cal[t]) + 1} ELSE {})
    BY PostPlaces
  <1> HIDE DEF c
  <1>3. ASSUME NEW K, NEW u \in Delay, kind \notin K \/ u # t
        PROVE  At(c, K, n, u) = At(cal, K, n, u)
    <2>1. ~(u = t /\ e.kind \in K /\ e.node = n)
      BY <1>3
    <2>2. At(c, K, n, u) = At(cal, K, n, u) \cup {}
      BY <1>2, <2>1
    <2> QED
      BY <2>2
  <1>4. ASSUME NEW K, kind \in K
        PROVE  At(c, K, n, t) = At(cal, K, n, t) \cup {Len(cal[t]) + 1}
    BY <1>2, <1>4
  <1>5. \A u \in Delay : \A K : kind \notin K => At(c, K, n, u) = At(cal, K, n, u)
    BY <1>3
  <1>6. \A u \in Delay : \A K : u # t => At(c, K, n, u) = At(cal, K, n, u)
    BY <1>3
  <1>7. \A K : kind \in K =>
          At(c, K, n, t) = At(cal, K, n, t) \cup {Len(cal[t]) + 1}
    BY <1>4
  <1> QED
    BY <1>1, <1>5, <1>6, <1>7 DEF Posted, c

(* A send begins or goes on.                                               *)
LEMMA PostSleepFree ==
  ASSUME NEW cal \in Calendars(Event), NEW n \in Sensor, Free(cal, n)
  PROVE  /\ Post(cal, Second, Bare("SetSleep", n)) \in Calendars(Event)
         /\ Free(Post(cal, Second, Bare("SetSleep", n)), n)
         /\ Sleep(Post(cal, Second, Bare("SetSleep", n)), n, Second) # {}
  <1> DEFINE e == Bare("SetSleep", n)
             c == Post(cal, Second, e)
  <1>1. Second \in Delay /\ e \in Event /\ e.kind = "SetSleep" /\ e.node = n
    BY Delays DEF Bare, Event, BareEvent, BareKind
  <1>2. /\ c \in Calendars(Event)
        /\ \A u \in Delay : \A K : "SetSleep" \notin K => At(c, K, n, u) = At(cal, K, n, u)
        /\ \A u \in Delay : \A K : u # Second => At(c, K, n, u) = At(cal, K, n, u)
        /\ At(c, {"SetSleep"}, n, Second) # {}
    <2>1. Posted(cal, c, n, e.kind, Second, e)
      BY <1>1, PostOwn
    <2> QED
      BY <1>1, <2>1 DEF Posted
  <1> HIDE DEF c
  <1>3. Free(c, n)
    BY <1>1, <1>2 DEF Free, Fwd, Ack, Timer, Sleep, Wait, TimerKind
  <1> QED
    BY <1>2, <1>3 DEF Sleep, c

(* Free, with send_flag up and sends under way: the three ways on.         *)
LEMMA SentExchange ==
  ASSUME NEW cal \in Calendars(Event), NEW n, NEW d, NEW fr, Free(cal, n),
         Sleep(cal, n, Second) # {}, d.send_flag, ~d.wait_ack, d.k = 1
  PROVE  Exchange(d, cal, n, fr)
  <1>0. 0 \in Delay /\ Second \in Delay /\ 0 <= 2 * Second /\ ~(0 > Second) /\ 0 # Second
        /\ Second <= Second /\ 1 <= Round + 1
    BY Delays, LineAssumption DEF Second
  <1>1. Act(cal, n, Second) = {}
    BY <1>0, Places DEF Free
  <1> QED
    BY <1>0, <1>1 DEF Free, Exchange, Timers, Sleeps, Replies, Waits, Backoff

LEMMA SentWaitExchange ==
  ASSUME NEW cal \in Calendars(Event), NEW n \in Sensor, NEW d, NEW fr, Free(cal, n),
         Sleep(cal, n, Second) # {}, d.send_flag, ~d.wait_ack, d.k = 1
  PROVE  Exchange(d, Post(cal, 2 * Second, Bare("WaitSend", n)), n, fr)
  <1> DEFINE e == Bare("WaitSend", n)
             c == Post(cal, 2 * Second, e)
  <1>1. 2 * Second \in Delay /\ e \in Event /\ e.kind = "WaitSend" /\ e.node = n
    BY Delays DEF Bare, Event, BareEvent, BareKind
  <1>2. /\ c \in Calendars(Event)
        /\ \A u \in Delay : \A K : "WaitSend" \notin K => At(c, K, n, u) = At(cal, K, n, u)
        /\ \A u \in Delay : \A K : u # 2 * Second => At(c, K, n, u) = At(cal, K, n, u)
    <2>1. Posted(cal, c, n, e.kind, 2 * Second, e)
      BY <1>1, PostOwn
    <2> QED
      BY <1>1, <2>1 DEF Posted
  <1> HIDE DEF c
  <1>3. 0 \in Delay /\ Second \in Delay /\ 0 <= 2 * Second /\ ~(0 > Second) /\ 0 # Second
        /\ Second <= Second /\ Second # 2 * Second /\ 2 * Second <= 2 * Second
        /\ 2 * Second - Second = Second /\ 1 <= Round + 1
    BY Delays, LineAssumption DEF Second
  <1>4. \A t \in Delay : /\ Fwd(c, n, t) = {} /\ Ack(c, n, t) = {} /\ Timer(c, n, t) = {}
                         /\ Sleep(c, n, t) = Sleep(cal, n, t)
                         /\ Wait(c, n, t) # {} => t = 0 \/ t = 2 * Second
    BY <1>2 DEF Free, Fwd, Ack, Timer, Sleep, Wait, TimerKind
  <1>5. Act(c, n, Second) = {}
    BY <1>2, <1>3, <1>4, Places
  <1> QED
    BY <1>3, <1>4, <1>5
    DEF Free, Exchange, Timers, Sleeps, Replies, Waits, Backoff, c

(* The timer of an exchange is set.                                        *)
LEMMA SentTimerExchange ==
  ASSUME NEW cal \in Calendars(Event), NEW n, NEW d, NEW fr, Free(cal, n),
         Sleep(cal, n, Second) # {}, d.send_flag, d.wait_ack, d.k <= Round + 1,
         NEW e \in Event, e.kind \in TimerKind, e.node = n, TimerFor(d, n, e),
         NEW t \in Delay, t > Second
  PROVE  Exchange(d, Post(cal, t, e), n, fr)
  <1> DEFINE c == Post(cal, t, e)
  <1>0. /\ e.kind \notin {"SetSleep"} /\ e.kind \notin {"WaitSend"}
        /\ e.kind \notin {"Forwarding"} /\ e.kind \notin {"AckSend"}
    BY DEF TimerKind
  <1>1. /\ c \in Calendars(Event)
        /\ \A u \in Delay : \A K : e.kind \notin K => At(c, K, n, u) = At(cal, K, n, u)
        /\ \A u \in Delay : \A K : u # t => At(c, K, n, u) = At(cal, K, n, u)
        /\ At(c, TimerKind, n, t) = At(cal, TimerKind, n, t) \cup {Len(cal[t]) + 1}
        /\ c[t][Len(cal[t]) + 1] = e
    <2>1. Posted(cal, c, n, e.kind, t, e)
      BY PostOwn
    <2> QED
      BY <2>1 DEF Posted
  <1> HIDE DEF c
  <1>2. 0 \in Delay /\ Second \in Delay /\ 0 <= 2 * Second /\ ~(0 > Second) /\ 0 # Second
        /\ Second <= Second /\ Second # t
    BY Delays DEF Second
  <1>3. \A u \in Delay : /\ Fwd(c, n, u) = {} /\ Ack(c, n, u) = {}
                         /\ Sleep(c, n, u) = Sleep(cal, n, u)
                         /\ Wait(c, n, u) = Wait(cal, n, u)
                         /\ u # t => Timer(c, n, u) = {}
    BY <1>0, <1>1 DEF Free, Fwd, Ack, Timer, Sleep, Wait
  <1>4. Timer(c, n, t) = {Len(cal[t]) + 1}
    BY <1>1 DEF Free, Timer
  <1>5. Act(c, n, Second) = {}
    BY <1>1, <1>2, <1>3, Places DEF Free
  <1>6. Timers(d, c, n)
    BY <1>1, <1>3, <1>4 DEF Timers, Free
  <1> QED
    BY <1>2, <1>3, <1>5, <1>6
    DEF Free, Exchange, Sleeps, Replies, Waits, Backoff, c

(* A back-off, or an exchange that ends with nothing left to send.         *)
LEMMA BackoffExchange ==
  ASSUME NEW cal \in Calendars(Event), NEW n, NEW d, NEW fr, Alone(cal, n),
         ~d.send_flag, d.wait_ack, d.k <= Round + 1,
         NEW e \in Event, e.kind \in TimerKind, e.node = n, TimerFor(d, n, e),
         NEW t \in Delay
  PROVE  Exchange(d, Post(cal, t, e), n, fr)
  <1> DEFINE c == Post(cal, t, e)
  <1>0. /\ e.kind \notin {"SetSleep"} /\ e.kind \notin {"WaitSend"}
        /\ e.kind \notin {"Forwarding"} /\ e.kind \notin {"AckSend"}
    BY DEF TimerKind
  <1>1. /\ c \in Calendars(Event)
        /\ \A u \in Delay : \A K : e.kind \notin K => At(c, K, n, u) = At(cal, K, n, u)
        /\ \A u \in Delay : \A K : u # t => At(c, K, n, u) = At(cal, K, n, u)
        /\ At(c, TimerKind, n, t) = At(cal, TimerKind, n, t) \cup {Len(cal[t]) + 1}
        /\ c[t][Len(cal[t]) + 1] = e
    <2>1. Posted(cal, c, n, e.kind, t, e)
      BY PostOwn
    <2> QED
      BY <2>1 DEF Posted
  <1> HIDE DEF c
  <1>2. \A u \in Delay : /\ Fwd(cal, n, u) = {} /\ Ack(cal, n, u) = {} /\ Sleep(cal, n, u) = {}
                         /\ Wait(cal, n, u) = {} /\ Timer(cal, n, u) = {}
    BY Places DEF Alone
  <1>3. \A u \in Delay : /\ Fwd(c, n, u) = {} /\ Ack(c, n, u) = {} /\ Sleep(c, n, u) = {}
                         /\ Wait(c, n, u) = {} /\ (u # t => Timer(c, n, u) = {})
    BY <1>0, <1>1, <1>2 DEF Fwd, Ack, Timer, Sleep, Wait
  <1>4. Timer(c, n, t) = {Len(cal[t]) + 1}
    BY <1>1, <1>2 DEF Timer
  <1>5. Timers(d, c, n)
    <2>1. \A u \in Delay : \A j \in Timer(c, n, u) : u = t /\ j = Len(cal[t]) + 1
      BY <1>3, <1>4
    <2>2. TimerFor(d, n, c[t][Len(cal[t]) + 1])
      BY <1>1
    <2> QED
      BY <1>3, <1>4, <2>1, <2>2 DEF Timers
  <1>6. Sleeps(d, c, n, fr)
    BY <1>3 DEF Sleeps
  <1>7. Replies(d, c, n)
    BY <1>3 DEF Replies
  <1>8. Waits(d, c, n, fr)
    BY <1>3 DEF Waits
  <1> QED
    BY <1>5, <1>6, <1>7, <1>8 DEF Exchange, Backoff, c

LEMMA RestExchange ==
  ASSUME NEW cal \in Calendars(Event), NEW n, NEW d, NEW fr, Free(cal, n),
         \A t \in Delay : Sleep(cal, n, t) = {},
         ~d.send_flag, ~d.wait_ack, d.k = 1
  PROVE  Exchange(d, cal, n, fr)
  <1>0. 0 \in Delay /\ 0 <= 2 * Second /\ ~(0 > Second) /\ 0 # Second /\ 1 <= Round + 1
    BY Delays, LineAssumption DEF Second
  <1> QED
    BY <1>0 DEF Free, Exchange, Timers, Sleeps, Replies, Waits, Backoff

LEMMA AloneFree ==
  ASSUME NEW cal \in Calendars(Event), NEW n, Alone(cal, n)
  PROVE  Free(cal, n) /\ \A t \in Delay : Sleep(cal, n, t) = {}
  BY Places DEF Alone, Free

(* One more send among those under way, or the first of a reply.           *)
LEMMA PostSleepExchange ==
  ASSUME NEW cal \in Calendars(Event), NEW n \in Sensor, NEW d, NEW fr,
         Exchange(d, cal, n, fr), d.send_flag,
         \A t \in Delay : /\ Ack(cal, n, t) = {}
                          /\ Sleep(cal, n, t) # {} => t = Second
                          /\ Fwd(cal, n, t) # {} => t = 0
                          /\ Timer(cal, n, t) # {} => t > Second
  PROVE  Exchange(d, Post(cal, Second, Bare("SetSleep", n)), n, fr)
  <1> DEFINE e == Bare("SetSleep", n)
             c == Post(cal, Second, e)
  <1>0. /\ e \in Event /\ e.kind = "SetSleep" /\ e.node = n
        /\ Second \in Delay /\ 0 \in Delay /\ 0 # Second /\ Second <= Second
    BY Delays DEF Bare, Event, BareEvent, BareKind, Second
  <1>1. /\ c \in Calendars(Event)
        /\ \A u \in Delay : \A K : "SetSleep" \notin K => At(c, K, n, u) = At(cal, K, n, u)
        /\ \A u \in Delay : \A K : u # Second => At(c, K, n, u) = At(cal, K, n, u)
        /\ At(c, {"SetSleep"}, n, Second) = At(cal, {"SetSleep"}, n, Second) \cup {Len(cal[Second]) + 1}
        /\ \A u \in Delay : \A i \in 1..Len(cal[u]) : c[u][i] = cal[u][i]
    <2>1. Posted(cal, c, n, e.kind, Second, e)
      BY <1>0, PostOwn
    <2> QED
      BY <1>0, <2>1 DEF Posted
  <1> HIDE DEF c
  <1>2. \A u \in Delay : /\ Fwd(c, n, u) = Fwd(cal, n, u) /\ Ack(c, n, u) = {}
                         /\ Timer(c, n, u) = Timer(cal, n, u)
                         /\ Wait(c, n, u) = Wait(cal, n, u)
                         /\ Act(c, n, u) = Act(cal, n, u)
                         /\ u # Second => Sleep(c, n, u) = {}
    BY <1>1 DEF Fwd, Ack, Timer, Sleep, Wait, Act, ActKind, TimerKind
  <1>3. Sleep(c, n, Second) = Sleep(cal, n, Second) \cup {Len(cal[Second]) + 1}
    BY <1>1 DEF Sleep
  <1>4. Timers(d, c, n)
    <2>1. \A u \in Delay : \A i \in Timer(cal, n, u) : c[u][i] = cal[u][i]
      BY <1>1 DEF Timer, At
    <2>2. \A u, t \in Delay : Timer(cal, n, t) # {} /\ Sleep(c, n, u) # {} => u < t
      BY <1>2
    <2> QED
      BY <1>2, <2>1, <2>2 DEF Exchange, Timers
  <1>5. Sleeps(d, c, n, fr)
    <2>1. ASSUME NEW t \in Delay, NEW i \in Sleep(c, n, t)
          PROVE  \A j \in Act(c, n, t) : j < i
      <3>1. t = Second
        BY <1>2
      <3>2. Act(cal, n, t) \subseteq 1..Len(cal[t]) /\ Len(cal[t]) \in Nat
        BY Places DEF Act
      <3>3. \A j \in Act(cal, n, t) : j < Len(cal[t]) + 1
        BY <3>2
      <3>4. i \in Sleep(cal, n, t) => \A j \in Act(cal, n, t) : j < i
        BY DEF Exchange, Sleeps
      <3> QED
        BY <1>2, <1>3, <3>1, <3>3, <3>4
    <2>2. d.send_flag => Sleep(c, n, Second) # {}
      BY <1>3
    <2> QED
      BY <1>0, <1>2, <2>1, <2>2 DEF Exchange, Sleeps
  <1>6. Replies(d, c, n)
    BY <1>2 DEF Exchange, Replies
  <1>7. Waits(d, c, n, fr)
    <2>1. \A u \in Delay : Sleep(cal, n, u) # {} => Sleep(c, n, u) # {}
      BY <1>3
    <2>2. \A u \in Delay : u > Second => u - Second \in Delay
      BY HorizonAssumption DEF Delay, Second
    <2> QED
      BY <1>0, <1>2, <2>1, <2>2 DEF Exchange, Waits
  <1> QED
    BY <1>4, <1>5, <1>6, <1>7 DEF Exchange, c

(* Data is accepted: a reply is scheduled for the next slot, or the one    *)
(* after it.                                                               *)
LEMMA AcceptExchange ==
  ASSUME NEW cal \in Calendars(Event), NEW n \in Sensor, NEW d, NEW f,
         NEW fr, ~fr, Exchange(d, cal, n, fr), ~d.send_flag, ~d.wait_ack, Aligned(cal, n, 9),
         f.send_flag, ~f.wait_ack, f.k = d.k,
         NEW t \in {1, Second + 1},
         NEW a \in Event, a.kind = "AckSend", a.node = n,
         NEW b \in Event, b.kind = "Forwarding", b.node = n
  PROVE  Exchange(f, Post(Post(cal, t, a), t, b), n, fr)
  <1> DEFINE c0 == Post(cal, t, a)
             c  == Post(c0, t, b)
  <1>0. /\ t \in Delay /\ 0 \in Delay /\ Second \in Delay /\ \A u \in Delay : u \in Nat
        /\ 1 <= t /\ 1 <= 2 * Second /\ ~(1 > Second) /\ 1 # Second
    BY Delays DEF Delay, Second
  <1>1. \A u \in Delay : Sleep(cal, n, u) = {}
    <2>1. \A u \in Delay : Sleep(cal, n, u) # {} => (9 + u) % Second = 0
      BY Places DEF Aligned
    <2>2. (9 + 0) % Second # 0
      BY DEF Second
    <2>3. \A u \in Delay : Sleep(cal, n, u) # {} => u > 0
      BY <1>0, <2>1, <2>2
    <2> QED
      BY <2>3 DEF Exchange, Sleeps
  <1>2. d.k = 1 /\ \A u \in Delay : Timer(cal, n, u) = {} /\ Fwd(cal, n, u) = {}
    BY DEF Exchange, Backoff, Timers, Replies
  <1>3. \A u \in Delay : Ack(cal, n, u) = {}
    BY <1>2 DEF Exchange, Replies
  <1>4. \A u \in Delay : Wait(cal, n, u) # {} => u = 1
    <2>1. ASSUME NEW u \in Delay, Wait(cal, n, u) # {}
          PROVE  u = 1
      <3>1. (9 + u) % Second = 0
        BY <2>1, Places DEF Aligned, Act
      <3>2. u <= 2 * Second /\ (u > Second => Sleep(cal, n, u - Second) # {})
        BY <2>1 DEF Exchange, Waits
      <3>3. u > Second => u - Second \in Delay
        BY HorizonAssumption DEF Delay, Second
      <3>4. ~(Second + 1 <= Second)
        BY DEF Second
      <3> QED
        BY <1>0, <1>1, <3>1, <3>2, <3>3, WholeSeconds DEF Second
    <2> QED
      BY <2>1
  <1>5. /\ Posted(cal, c0, n, "AckSend", t, a) /\ c0 \in Calendars(Event)
        /\ Posted(c0, c, n, "Forwarding", t, b)
    <2>1. Posted(cal, c0, n, "AckSend", t, a)
      BY <1>0, PostOwn
    <2>2. c0 \in Calendars(Event)
      BY <2>1 DEF Posted
    <2> HIDE DEF c0
    <2> QED
      BY <1>0, <2>1, <2>2, PostOwn DEF c0
  <1> HIDE DEF c0, c
  <1>6. /\ Ack(c0, n, t) = {Len(cal[t]) + 1} /\ Fwd(c0, n, t) = {}
        /\ \A u \in Delay : Sleep(c0, n, u) = {} /\ Timer(c0, n, u) = {}
                            /\ Wait(c0, n, u) = Wait(cal, n, u)
        /\ \A u \in Delay : u # t => Ack(c0, n, u) = {} /\ Fwd(c0, n, u) = {}
    BY <1>0, <1>1, <1>2, <1>3, <1>5
    DEF Posted, Ack, Fwd, Sleep, Timer, Wait, TimerKind
  <1>7. /\ Ack(c, n, t) = {Len(cal[t]) + 1} /\ Fwd(c, n, t) = {Len(c0[t]) + 1}
        /\ \A u \in Delay : Sleep(c, n, u) = {} /\ Timer(c, n, u) = {}
                            /\ Wait(c, n, u) = Wait(cal, n, u)
        /\ \A u \in Delay : u # t => Ack(c, n, u) = {} /\ Fwd(c, n, u) = {}
    <2>1. \A K : \A u \in Delay : "Forwarding" \notin K \/ u # t =>
            At(c, K, n, u) = At(c0, K, n, u)
      BY <1>5 DEF Posted
    <2>2. \A u \in Delay : /\ Ack(c, n, u) = Ack(c0, n, u)
                           /\ Sleep(c, n, u) = Sleep(c0, n, u)
                           /\ Timer(c, n, u) = Timer(c0, n, u)
                           /\ Wait(c, n, u) = Wait(c0, n, u)
                           /\ u # t => Fwd(c, n, u) = Fwd(c0, n, u)
      BY <2>1 DEF Ack, Fwd, Sleep, Timer, Wait, TimerKind
    <2>3. Fwd(c, n, t) = Fwd(c0, n, t) \cup {Len(c0[t]) + 1}
      BY <1>5 DEF Posted, Fwd
    <2> QED
      BY <1>0, <1>6, <2>2, <2>3
  <1>8. Len(c0[t]) = Len(cal[t]) + 1 /\ Len(cal[t]) \in Nat
    <2>1. cal[t] \in Seq(Event) /\ Len(cal[t]) \in Nat
      BY <1>0 DEF Calendars
    <2>2. c0[t] = Append(cal[t], a)
      BY <1>0 DEF c0, Post, Calendars
    <2> QED
      BY <2>1, <2>2, AppendProperties
  <1>9. Timers(f, c, n)
    BY <1>7 DEF Timers
  <1>10. Sleeps(f, c, n, fr)
    BY <1>0, <1>7 DEF Sleeps
  <1>11. Replies(f, c, n)
    <2>1. ASSUME NEW u \in Delay, NEW i \in Fwd(c, n, u)
          PROVE  u = t /\ i = Len(c0[t]) + 1
      BY <1>7
    <2>2. ASSUME NEW u \in Delay, NEW i \in Ack(c, n, u)
          PROVE  u = t /\ i + 1 \in Fwd(c, n, u)
      BY <1>7, <1>8
    <2> QED
      BY <1>0, <1>4, <1>7, <2>1, <2>2 DEF Replies
  <1>12. Waits(f, c, n, fr)
    BY <1>0, <1>4, <1>7 DEF Waits
  <1> QED
    BY <1>2, <1>9, <1>10, <1>11, <1>12, LineAssumption DEF Exchange, Backoff, c, c0

(* The device changes in nothing that matters, or an acknowledgement flag  *)
(* goes up.                                                                *)
LEMMA DeviceKeepsExchange ==
  ASSUME NEW cal, NEW n, NEW d, NEW f, NEW fr, Exchange(d, cal, n, fr),
         f.send_flag = d.send_flag, f.wait_ack = d.wait_ack, f.k = d.k,
         f.m_txPacket = d.m_txPacket, n = 1 /\ d.lack_flag => f.lack_flag,
         n = N /\ d.rack_flag => f.rack_flag
  PROVE  Exchange(f, cal, n, fr)
  <1>1. \A e : TimerFor(d, n, e) => TimerFor(f, n, e)
    BY DEF TimerFor
  <1>2. Timers(f, cal, n)
    BY <1>1 DEF Exchange, Timers
  <1> QED
    BY <1>2 DEF Exchange, Sleeps, Replies, Waits, Backoff

LEMMA Shift ==
  ASSUME NEW u \in Delay, NEW v \in Delay, NEW t \in 1..Second
  PROVE  /\ u + t = v + t => u = v
         /\ u + t < v + t => u < v
         /\ u + t <= v + t => u <= v
         /\ u + t # 0 /\ u + t > 0
         /\ v >= t => (v - t) + t = v /\ v - t \in Delay
         /\ u + t <= Second => u < Second
         /\ u + t <= 2 * Second => u < 2 * Second
         /\ u >= Second => u + t > Second /\ ((u + t) - Second) - t = u - Second
  BY HorizonAssumption DEF Delay, Second

(* Time passes.                                                            *)
LEMMA AdvanceExchange ==
  ASSUME NEW cal \in Calendars(Event), NEW n, NEW d, NEW fr, Exchange(d, cal, n, fr),
         NEW fx, fx, NEW t \in 1..Second, \A u \in 0..(t - 1) : cal[u] = << >>
  PROVE  Exchange(d, Advance(cal, t), n, fx)
  <1> DEFINE c == Advance(cal, t)
  <1>0. /\ t \in Delay /\ 0 \in Delay /\ Second \in Delay /\ Second \in Nat
        /\ t \in Nat /\ t >= 1
        /\ \A u \in Delay : u \in Nat
        /\ \A u \in Delay : u >= t => u - t \in Delay
        /\ \A u \in Delay : u > Second => u - Second \in Delay
    BY HorizonAssumption DEF Delay, Second
  <1>1. /\ \A K : \A u \in Delay :
             /\ u + t \in Delay => At(c, K, n, u) = At(cal, K, n, u + t)
             /\ u + t \notin Delay => At(c, K, n, u) = {}
        /\ \A u \in Delay : u + t \in Delay => c[u] = cal[u + t]
    BY <1>0, AdvancePlaces
  <1> HIDE DEF c
  <1>2. \A K : \A v \in Delay : At(cal, K, n, v) # {} => v >= t
    <2>1. \A v \in Delay : ~(v >= t) => cal[v] = << >>
      BY <1>0
    <2> QED
      BY <2>1 DEF At
  <1>3. ASSUME NEW u \in Delay
        PROVE  /\ Sleep(c, n, u) # {} =>
                    u + t \in Delay /\ Sleep(c, n, u) = Sleep(cal, n, u + t)
               /\ Timer(c, n, u) # {} =>
                    /\ u + t \in Delay /\ Timer(c, n, u) = Timer(cal, n, u + t)
                    /\ c[u] = cal[u + t]
               /\ Fwd(c, n, u) # {} => u + t \in Delay /\ Fwd(c, n, u) = Fwd(cal, n, u + t)
               /\ Ack(c, n, u) # {} => u + t \in Delay /\ Ack(c, n, u) = Ack(cal, n, u + t)
               /\ Wait(c, n, u) # {} => u + t \in Delay /\ Wait(c, n, u) = Wait(cal, n, u + t)
               /\ Act(c, n, u) # {} => u + t \in Delay /\ Act(c, n, u) = Act(cal, n, u + t)
    BY <1>1 DEF Sleep, Timer, Fwd, Ack, Wait, Act
  <1>4. ASSUME NEW v \in Delay
        PROVE  /\ Sleep(cal, n, v) # {} =>
                    v >= t /\ v - t \in Delay /\ Sleep(c, n, v - t) = Sleep(cal, n, v)
               /\ Timer(cal, n, v) # {} =>
                    v >= t /\ v - t \in Delay /\ Timer(c, n, v - t) = Timer(cal, n, v)
               /\ Fwd(cal, n, v) # {} =>
                    v >= t /\ v - t \in Delay /\ Fwd(c, n, v - t) = Fwd(cal, n, v)
               /\ Wait(cal, n, v) # {} => v >= t
    <2>1. v >= t => v - t \in Delay /\ (v - t) + t = v
      BY Shift
    <2> QED
      BY <1>1, <1>2, <2>1 DEF Sleep, Timer, Fwd, Wait
  <1>5. Timers(d, c, n)
    <2>0. Timers(d, cal, n)
      BY DEF Exchange
    <2>1. d.wait_ack => \E u \in Delay : Timer(c, n, u) # {}
      BY <1>4, <2>0 DEF Timers
    <2>2. ASSUME NEW u \in Delay, NEW i \in Timer(c, n, u)
          PROVE  /\ d.wait_ack /\ TimerFor(d, n, c[u][i])
                 /\ \A v \in Delay : \A j \in Timer(c, n, v) : v = u /\ j = i
                 /\ \A v \in Delay : Sleep(c, n, v) # {} => v < u
      <3>1. u + t \in Delay /\ i \in Timer(cal, n, u + t) /\ c[u] = cal[u + t]
        BY <1>3
      <3>2. ASSUME NEW v \in Delay, NEW j \in Timer(c, n, v)
            PROVE  v = u /\ j = i
        <4>1. v + t \in Delay /\ j \in Timer(cal, n, v + t)
          BY <1>3
        <4>2. v + t = u + t /\ j = i
          BY <2>0, <3>1, <4>1 DEF Timers
        <4> QED
          BY <4>2, Shift
      <3>3. ASSUME NEW v \in Delay, Sleep(c, n, v) # {}
            PROVE  v < u
        <4>1. v + t \in Delay /\ Sleep(cal, n, v + t) # {}
          BY <1>3, <3>3
        <4>2. v + t < u + t
          BY <2>0, <3>1, <4>1 DEF Timers
        <4> QED
          BY <4>2, Shift
      <3> QED
        BY <2>0, <3>1, <3>2, <3>3 DEF Timers
    <2> QED
      BY <2>1, <2>2 DEF Timers
  <1>6. Sleeps(d, c, n, fx)
    <2>0. Sleeps(d, cal, n, fr)
      BY DEF Exchange
    <2>1. d.send_flag => \E u \in Delay : Sleep(c, n, u) # {} \/ Fwd(c, n, u) # {}
      BY <1>4, <2>0 DEF Sleeps
    <2>2. ASSUME NEW u \in Delay, NEW i \in Sleep(c, n, u)
          PROVE  /\ u <= Second /\ d.send_flag
                 /\ \A v \in Delay : Sleep(c, n, v) # {} => v = u
                 /\ \A j \in Act(c, n, u) : j < i
      <3>1. u + t \in Delay /\ i \in Sleep(cal, n, u + t)
        BY <1>3
      <3>2. u + t <= Second /\ u + t > 0 /\ u <= Second
        <4>1. u + t <= Second
          BY <2>0, <3>1 DEF Sleeps
        <4> QED
          BY <1>0, <4>1, Shift
      <3>3. ASSUME NEW v \in Delay, Sleep(c, n, v) # {}
            PROVE  v = u
        <4>1. v + t \in Delay /\ Sleep(cal, n, v + t) # {}
          BY <1>3, <3>3
        <4>2. v + t = u + t
          BY <2>0, <3>1, <4>1 DEF Sleeps
        <4> QED
          BY <4>2, Shift
      <3>4. \A j \in Act(c, n, u) : j \in Act(cal, n, u + t)
        BY <1>3
      <3> QED
        BY <1>0, <2>0, <3>1, <3>2, <3>3, <3>4 DEF Sleeps
    <2> QED
      BY <2>1, <2>2 DEF Sleeps
  <1>7. Replies(d, c, n)
    <2>0. Replies(d, cal, n)
      BY DEF Exchange
    <2>1. ASSUME NEW u \in Delay, NEW i \in Fwd(c, n, u)
          PROVE  /\ d.send_flag /\ ~d.wait_ack
                 /\ \A v \in Delay : \A j \in Fwd(c, n, v) : v = u /\ j = i
                 /\ \A v \in Delay : Sleep(c, n, v) = {}
                 /\ \A v \in Delay : Wait(c, n, v) # {} => v <= u
      <3>1. u + t \in Delay /\ i \in Fwd(cal, n, u + t)
        BY <1>3
      <3>2. ASSUME NEW v \in Delay, NEW j \in Fwd(c, n, v)
            PROVE  v = u /\ j = i
        <4>1. v + t \in Delay /\ j \in Fwd(cal, n, v + t)
          BY <1>3
        <4>2. v + t = u + t /\ j = i
          BY <2>0, <3>1, <4>1 DEF Replies
        <4> QED
          BY <4>2, Shift
      <3>3. ASSUME NEW v \in Delay, Sleep(c, n, v) # {}
            PROVE  FALSE
        <4>1. v + t \in Delay /\ Sleep(cal, n, v + t) # {}
          BY <1>3, <3>3
        <4>2. u + t = 0
          BY <2>0, <3>1, <4>1 DEF Replies
        <4> QED
          BY <4>2, Shift
      <3>4. ASSUME NEW v \in Delay, Wait(c, n, v) # {}
            PROVE  v <= u
        <4>1. v + t \in Delay /\ Wait(cal, n, v + t) # {}
          BY <1>3, <3>4
        <4>2. v + t <= u + t
          BY <2>0, <3>1, <4>1 DEF Replies
        <4> QED
          BY <4>2, Shift
      <3> QED
        BY <2>0, <3>1, <3>2, <3>3, <3>4 DEF Replies
    <2>2. ASSUME NEW u \in Delay, NEW i \in Ack(c, n, u)
          PROVE  /\ i + 1 \in Fwd(c, n, u)
                 /\ \A v \in Delay : Sleep(c, n, v) = {}
      <3>1. u + t \in Delay /\ i \in Ack(cal, n, u + t)
        BY <1>3
      <3>2. i + 1 \in Fwd(cal, n, u + t)
        BY <2>0, <3>1 DEF Replies
      <3>3. i + 1 \in Fwd(c, n, u)
        BY <1>1, <3>1, <3>2 DEF Fwd
      <3> QED
        BY <2>1, <3>3
    <2> QED
      BY <2>1, <2>2 DEF Replies
  <1>8. Waits(d, c, n, fx)
    <2>0. Waits(d, cal, n, fr)
      BY DEF Exchange
    <2>1. ASSUME NEW u \in Delay, Wait(c, n, u) # {}
          PROVE  /\ u <= 2 * Second /\ ~d.wait_ack
                 /\ u > Second => Sleep(c, n, u - Second) # {}
                 /\ u = Second => Sleep(c, n, 0) # {}
      <3> DEFINE v == u + t
      <3>1. v \in Delay /\ Wait(cal, n, v) # {}
        BY <1>3, <2>1
      <3>2. v <= 2 * Second /\ ~d.wait_ack
        <4>1. v # 0
          BY Shift
        <4> QED
          BY <2>0, <3>1, <4>1 DEF Waits
      <3>3. ASSUME u >= Second
            PROVE  u - Second \in Delay /\ Sleep(c, n, u - Second) # {}
        <4>1. v > Second
          BY <3>3, Shift
        <4>2. v - Second \in Delay /\ Sleep(cal, n, v - Second) # {}
          BY <1>0, <2>0, <3>1, <4>1 DEF Waits
        <4>3. (v - Second) - t \in Delay /\ Sleep(c, n, (v - Second) - t) # {}
          BY <1>4, <4>2
        <4>4. (v - Second) - t = u - Second
          BY <3>3, Shift
        <4> QED
          BY <4>3, <4>4
      <3>4. u = Second => u - Second = 0
        BY <1>0
      <3> QED
        BY <1>0, <3>2, <3>3, <3>4
    <2> QED
      BY <2>1 DEF Waits
  <1> QED
    BY <1>5, <1>6, <1>7, <1>8 DEF Exchange, c
-----------------------------------------------------------------------------
(* The network: one node acts, and the exchanges of the others stand.      *)

Others(s, n, fr) ==
  \A m \in Sensor \ {n} : Exchange(s.dev[m], s.cal, m, fr)

(* A send may begin at n. *)
Begins(s, n, fr) == s \in Networks /\ Others(s, n, fr) /\ Free(s.cal, n)

(* The handler has left every exchange in order. *)
Settled(s, fr) ==
  s \in Networks /\ \A m \in Sensor : Exchange(s.dev[m], s.cal, m, fr)

(* The sends of n have begun at this instant: one more may join them. *)
Sending(d, cal, n) ==
  /\ d.send_flag
  /\ \A t \in Delay : /\ Ack(cal, n, t) = {}
                      /\ Sleep(cal, n, t) # {} => t = Second
                      /\ Fwd(cal, n, t) # {} => t = 0
                      /\ Timer(cal, n, t) # {} => t > Second

LEMMA PostOnNetwork ==
  ASSUME NEW s \in Networks, NEW t \in Delay, NEW e \in Event
  PROVE  /\ PostOn(s, t, e) \in Networks
         /\ PostOn(s, t, e).dev = s.dev
         /\ PostOn(s, t, e).cal = Post(s.cal, t, e)
         /\ s.cal \in Calendars(Event)
  <1>1. s.cal \in Calendars(Event)
    BY DEF Networks
  <1>2. Post(s.cal, t, e) \in Calendars(Event)
    BY <1>1, PostPlaces
  <1> QED
    BY <1>1, <1>2 DEF PostOn, Networks

LEMMA WithDeviceNetwork ==
  ASSUME NEW s \in Networks, NEW n \in Node, NEW d \in Device
  PROVE  /\ WithDevice(s, n, d) \in Networks
         /\ WithDevice(s, n, d).cal = s.cal
         /\ WithDevice(s, n, d).dev[n] = d
         /\ \A m \in Node \ {n} : WithDevice(s, n, d).dev[m] = s.dev[m]
         /\ s.dev[n] \in Device /\ s.cal \in Calendars(Event)
  BY DEF WithDevice, Networks

LEMMA PostOnOthers ==
  ASSUME NEW s \in Networks, NEW n, NEW fr, Others(s, n, fr),
         NEW t \in Delay, NEW e \in Event, e.kind \in RadioKind \/ e.node = n
  PROVE  Others(PostOn(s, t, e), n, fr)
  <1>1. ASSUME NEW m \in Sensor \ {n}
        PROVE  Exchange(s.dev[m], Post(s.cal, t, e), m, fr)
    <2>1. Foreign(e, m)
      BY DEF Foreign
    <2>2. Exchange(s.dev[m], s.cal, m, fr)
      BY DEF Others
    <2>3. s.cal \in Calendars(Event)
      BY DEF Networks
    <2> QED
      BY <2>1, <2>2, <2>3, PostKeepsExchange
  <1> QED
    BY <1>1, PostOnNetwork DEF Others

LEMMA WithDeviceOthers ==
  ASSUME NEW s \in Networks, NEW n \in Sensor, NEW fr, Others(s, n, fr),
         NEW d \in Device
  PROVE  Others(WithDevice(s, n, d), n, fr)
  <1>1. \A m \in Sensor \ {n} : m \in Node \ {n}
    BY Line
  <1>2. n \in Node
    BY Line
  <1> QED
    BY <1>1, <1>2, WithDeviceNetwork DEF Others

LEMMA WithDeviceBegins ==
  ASSUME NEW s, NEW n \in Sensor, NEW fr, Begins(s, n, fr), NEW d \in Device
  PROVE  /\ Begins(WithDevice(s, n, d), n, fr)
         /\ WithDevice(s, n, d).dev[n] = d /\ WithDevice(s, n, d).cal = s.cal
         /\ s.dev[n] \in Device
  <1>1. n \in Node
    BY Line
  <1>2. s \in Networks /\ Others(s, n, fr) /\ Free(s.cal, n)
    BY DEF Begins
  <1> QED
    BY <1>1, <1>2, WithDeviceNetwork, WithDeviceOthers DEF Begins

(* The node's own exchange completes the picture. *)
LEMMA Settles ==
  ASSUME NEW s \in Networks, NEW n, NEW fr, Others(s, n, fr),
         Exchange(s.dev[n], s.cal, n, fr)
  PROVE  Settled(s, fr)
  BY DEF Settled, Others

LEMMA PostSettles ==
  ASSUME NEW s \in Networks, NEW n \in Sensor, NEW fr, Others(s, n, fr),
         NEW t \in Delay, NEW e \in Event, e.node = n,
         Exchange(s.dev[n], Post(s.cal, t, e), n, fr)
  PROVE  Settled(PostOn(s, t, e), fr)
  <1> DEFINE r == PostOn(s, t, e)
  <1>1. r \in Networks /\ r.dev = s.dev /\ r.cal = Post(s.cal, t, e)
    BY PostOnNetwork
  <1>2. Others(r, n, fr)
    BY PostOnOthers
  <1> HIDE DEF r
  <1>3. Settled(r, fr)
    BY <1>1, <1>2, Settles
  <1> QED
    BY <1>3 DEF r
-----------------------------------------------------------------------------
(* The handlers that send.                                                 *)

LEMMA ChannelSendBegins ==
  ASSUME NEW s, NEW n \in Sensor, NEW fr, Begins(s, n, fr),
         NEW p \in Packet, NEW to \in Node
  PROVE  /\ Begins(ChannelSend(s, n, p, to), n, fr)
         /\ ChannelSend(s, n, p, to).dev = s.dev
         /\ Sleep(ChannelSend(s, n, p, to).cal, n, Second) # {}
  <1> DEFINE a == Hop("ReceiveStart", to, p, n)
             b == Bare("SetSleep", n)
             s1 == PostOn(s, 0, a)
             s2 == PostOn(s1, Second, b)
  <1>1. a \in Event /\ a.kind \in RadioKind
    BY DEF Hop, Event, RadioEvent, RadioKind
  <1>2. b \in Event /\ b.node = n
    BY DEF Bare, Event, BareEvent, BareKind
  <1>3. 0 \in Delay /\ Second \in Delay
    BY Delays
  <1>4. s \in Networks /\ Others(s, n, fr) /\ Free(s.cal, n)
    BY DEF Begins
  <1> HIDE DEF a
  <1>5. s1 \in Networks /\ s1.dev = s.dev /\ s1.cal = Post(s.cal, 0, a)
        /\ s.cal \in Calendars(Event)
    BY <1>1, <1>3, <1>4, PostOnNetwork
  <1>6. Others(s1, n, fr)
    BY <1>1, <1>3, <1>4, PostOnOthers
  <1>7. Free(s1.cal, n)
    BY <1>1, <1>3, <1>4, <1>5, PostKeepsExchange DEF Foreign
  <1> HIDE DEF s1
  <1>8. s2 \in Networks /\ s2.dev = s1.dev /\ s2.cal = Post(s1.cal, Second, b)
        /\ s1.cal \in Calendars(Event)
    BY <1>2, <1>3, <1>5, PostOnNetwork
  <1>9. Others(s2, n, fr)
    BY <1>2, <1>3, <1>5, <1>6, PostOnOthers
  <1>10. Free(s2.cal, n) /\ Sleep(s2.cal, n, Second) # {}
    BY <1>7, <1>8, PostSleepFree
  <1> QED
    BY <1>5, <1>8, <1>9, <1>10 DEF Begins, ChannelSend, s2, s1, a

(* An acknowledgement that opens the sends of an instant.                  *)
LEMMA AckSendBegins ==
  ASSUME NEW s, NEW n \in Sensor, NEW fr, Begins(s, n, fr),
         ~s.dev[n].wait_ack, s.dev[n].k = 1,
         NEW p \in Packet, NEW to \in Node
  PROVE  /\ Settled(AckSend(s, n, p, to), fr)
         /\ Sending(AckSend(s, n, p, to).dev[n], AckSend(s, n, p, to).cal, n)
  <1> DEFINE d == [s.dev[n] EXCEPT !.send_flag = TRUE]
             s1 == WithDevice(s, n, d)
             s2 == ChannelSend(s1, n, As(p, "IACK"), to)
  <1>1. s.dev[n] \in Device
    BY WithDeviceBegins, Line DEF Begins, Networks
  <1>2. d \in Device /\ d.send_flag /\ d.wait_ack = s.dev[n].wait_ack /\ d.k = s.dev[n].k
    BY <1>1 DEF Device
  <1> HIDE DEF d
  <1>3. Begins(s1, n, fr) /\ s1.dev[n] = d
    BY <1>2, WithDeviceBegins
  <1> HIDE DEF s1
  <1>4. As(p, "IACK") \in Packet
    BY AsKeepsData DEF PacketType
  <1>5. /\ Begins(s2, n, fr) /\ s2.dev[n] = d /\ Sleep(s2.cal, n, Second) # {}
    BY <1>3, <1>4, ChannelSendBegins
  <1>6. AckSend(s, n, p, to) = s2
    BY DEF AckSend, WithDevice, s1, d
  <1> HIDE DEF s2
  <1>7. Exchange(s2.dev[n], s2.cal, n, fr)
    BY <1>2, <1>5, SentExchange DEF Begins, Networks
  <1>8. Settled(s2, fr)
    BY <1>5, <1>7, Settles DEF Begins
  <1>9. Sending(s2.dev[n], s2.cal, n)
    BY <1>2, <1>5 DEF Begins, Free, Sending
  <1> QED
    BY <1>6, <1>8, <1>9

(* An acknowledgement that joins the sends of an instant.                  *)
LEMMA AckSendJoins ==
  ASSUME NEW s, NEW n \in Sensor, NEW fr, Settled(s, fr),
         Sending(s.dev[n], s.cal, n), NEW p \in Packet, NEW to \in Node
  PROVE  Settled(AckSend(s, n, p, to), fr)
  <1> DEFINE d == [s.dev[n] EXCEPT !.send_flag = TRUE]
             s1 == WithDevice(s, n, d)
             a == Hop("ReceiveStart", to, As(p, "IACK"), n)
             b == Bare("SetSleep", n)
             s2 == PostOn(s1, 0, a)
             s3 == PostOn(s2, Second, b)
  <1>0. 0 \in Delay /\ Second \in Delay /\ n \in Node
    BY Delays, Line
  <1>1. s \in Networks /\ Others(s, n, fr) /\ Exchange(s.dev[n], s.cal, n, fr)
    BY DEF Settled, Others
  <1>2. s.dev[n] \in Device
    BY <1>0, <1>1 DEF Networks
  <1>3. d \in Device /\ d = s.dev[n]
    BY <1>2 DEF Device, Sending
  <1> HIDE DEF d
  <1>4. s1 \in Networks /\ s1.cal = s.cal /\ s1.dev[n] = d /\ Others(s1, n, fr)
    BY <1>0, <1>1, <1>3, WithDeviceNetwork, WithDeviceOthers
  <1> HIDE DEF s1
  <1>5. As(p, "IACK") \in Packet
    BY AsKeepsData DEF PacketType
  <1>6. a \in Event /\ a.kind \in RadioKind
    BY <1>5 DEF Hop, Event, RadioEvent, RadioKind
  <1>7. b \in Event /\ b.node = n
    BY DEF Bare, Event, BareEvent, BareKind
  <1> HIDE DEF a
  <1>8. s2 \in Networks /\ s2.dev = s1.dev /\ s2.cal = Post(s.cal, 0, a)
        /\ s.cal \in Calendars(Event)
    BY <1>0, <1>4, <1>6, PostOnNetwork
  <1>9. Others(s2, n, fr)
    BY <1>0, <1>4, <1>6, PostOnOthers
  <1>10. /\ Exchange(d, s2.cal, n, fr)
         /\ \A K \in SUBSET MacKind : \A u \in Delay :
              At(s2.cal, K, n, u) = At(s.cal, K, n, u)
    BY <1>0, <1>1, <1>3, <1>6, <1>8, PostKeepsExchange DEF Foreign
  <1>11. Sending(d, s2.cal, n)
    <2>1. \A u \in Delay : /\ Ack(s2.cal, n, u) = Ack(s.cal, n, u)
                           /\ Fwd(s2.cal, n, u) = Fwd(s.cal, n, u)
                           /\ Sleep(s2.cal, n, u) = Sleep(s.cal, n, u)
                           /\ Timer(s2.cal, n, u) = Timer(s.cal, n, u)
      BY <1>10 DEF Ack, Fwd, Sleep, Timer, MacKind, ActKind
    <2> QED
      BY <1>3, <2>1 DEF Sending
  <1> HIDE DEF s2
  <1>12. Exchange(d, Post(s2.cal, Second, b), n, fr)
    BY <1>8, <1>10, <1>11, PostSleepExchange DEF Sending, Networks
  <1>13. Settled(s3, fr)
    BY <1>0, <1>4, <1>7, <1>8, <1>9, <1>12, PostSettles
  <1>14. AckSend(s, n, p, to) = s3
    BY DEF AckSend, ChannelSend, WithDevice, s1, s2, a, d
  <1> QED
    BY <1>13, <1>14

(* The sends are out and a timer, or a WaitSend, is set.                   *)
LEMMA SentPlaces ==
  ASSUME NEW cal \in Calendars(Event), NEW n, Free(cal, n), NEW d, d.send_flag,
         NEW e \in Event, e.kind \in TimerKind \cup {"WaitSend"}, e.node = n,
         NEW t \in Delay, t > Second
  PROVE  Sending(d, Post(cal, t, e), n)
  <1> DEFINE c == Post(cal, t, e)
  <1>0. /\ e.kind \notin {"SetSleep"} /\ e.kind \notin {"Forwarding"}
        /\ e.kind \notin {"AckSend"}
    BY DEF TimerKind
  <1>1. /\ \A u \in Delay : \A K : e.kind \notin K => At(c, K, n, u) = At(cal, K, n, u)
        /\ \A u \in Delay : \A K : u # t => At(c, K, n, u) = At(cal, K, n, u)
    <2>1. Posted(cal, c, n, e.kind, t, e)
      BY PostOwn
    <2> QED
      BY <2>1 DEF Posted
  <1> HIDE DEF c
  <1>2. \A u \in Delay : /\ Fwd(c, n, u) = {} /\ Ack(c, n, u) = {}
                         /\ Sleep(c, n, u) # {} => u = Second
                         /\ u # t => Timer(c, n, u) = {}
    BY <1>0, <1>1 DEF Free, Fwd, Ack, Timer, Sleep
  <1> QED
    BY <1>2 DEF Sending, c

LEMMA WaitAckSettles ==
  ASSUME NEW s, NEW n \in Sensor, NEW fr, Begins(s, n, fr),
         Sleep(s.cal, n, Second) # {}, s.dev[n].send_flag,
         s.dev[n].k <= Round + 1, s.dev[n].m_txPacket # NoPacket,
         NEW p \in Packet, SameData(s.dev[n].m_txPacket, p),
         NEW to \in Node,
         ExpectsAck(n, to) \/ (~s.dev[n].wait_ack /\ s.dev[n].k = 1)
  PROVE  /\ Settled(WaitAck(s, n, p, to), fr)
         /\ Sending(WaitAck(s, n, p, to).dev[n], WaitAck(s, n, p, to).cal, n)
  <1> DEFINE d == s.dev[n]
             d0 == [d EXCEPT !.lack_flag = FALSE, !.rack_flag = FALSE]
             d1 == [d0 EXCEPT !.wait_ack = TRUE]
             d2 == [d0 EXCEPT !.m_txPacket = NoPacket]
             a == Hop("AckCheck", n, p, to)
             b == Bare("WaitSend", n)
             s1 == WithDevice(s, n, d1)
             s2 == WithDevice(s, n, d2)
  <1>0. 2 * Second \in Delay /\ 2 * Second > Second
    BY Delays DEF Second
  <1>1. d \in Device
    BY Line DEF Begins, Networks
  <1>2. /\ d1 \in Device /\ d1.wait_ack /\ d1.send_flag = d.send_flag
        /\ d1.k = d.k /\ d1.m_txPacket = d.m_txPacket
        /\ d2 \in Device /\ d2.wait_ack = d.wait_ack /\ d2.send_flag = d.send_flag
        /\ d2.k = d.k
    BY <1>1 DEF Device
  <1>3. d.send_flag /\ d.k <= Round + 1 /\ d.m_txPacket # NoPacket
        /\ SameData(d.m_txPacket, p)
        /\ (ExpectsAck(n, to) \/ (~d.wait_ack /\ d.k = 1))
    OBVIOUS
  <1>4. /\ a \in Event /\ a.kind = "AckCheck" /\ a.node = n /\ a.pkt = p /\ a.peer = to
        /\ b \in Event /\ b.kind = "WaitSend" /\ b.node = n
    BY DEF Hop, Bare, Event, HopEvent, HopKind, BareEvent, BareKind
  <1>5. WaitAck(s, n, p, to) = IF ExpectsAck(n, to)
                               THEN PostOn(s1, 2 * Second, a)
                               ELSE PostOn(s2, 2 * Second, b)
    BY DEF WaitAck
  <1>6. Sleep(s.cal, n, Second) # {}
    OBVIOUS
  <1> HIDE DEF d, d1, d2, a
  <1>7. CASE ExpectsAck(n, to)
    <2>1. Begins(s1, n, fr) /\ s1.dev[n] = d1 /\ s1.cal = s.cal
      BY <1>2, WithDeviceBegins
    <2> HIDE DEF s1
    <2>2. TimerFor(d1, n, a)
      BY <1>2, <1>3, <1>4, <1>7 DEF TimerFor, OwnKind
    <2>3. Exchange(d1, Post(s1.cal, 2 * Second, a), n, fr)
      BY <1>0, <1>2, <1>3, <1>4, <1>6, <2>1, <2>2, SentTimerExchange
      DEF Begins, Networks, TimerKind
    <2>4. Settled(PostOn(s1, 2 * Second, a), fr)
      BY <1>0, <1>4, <2>1, <2>3, PostSettles DEF Begins
    <2>5. Sending(d1, Post(s1.cal, 2 * Second, a), n)
      BY <1>0, <1>2, <1>3, <1>4, <2>1, SentPlaces DEF Begins, Networks, TimerKind
    <2>6. /\ PostOn(s1, 2 * Second, a).dev = s1.dev
          /\ PostOn(s1, 2 * Second, a).cal = Post(s1.cal, 2 * Second, a)
      BY <1>0, <1>4, <2>1, PostOnNetwork DEF Begins
    <2> QED
      BY <1>5, <1>7, <2>1, <2>4, <2>5, <2>6
  <1>8. CASE ~ExpectsAck(n, to)
    <2>1. Begins(s2, n, fr) /\ s2.dev[n] = d2 /\ s2.cal = s.cal
      BY <1>2, WithDeviceBegins
    <2> HIDE DEF s2
    <2>2. b = Bare("WaitSend", n)
      OBVIOUS
    <2> HIDE DEF b
    <2>3. Exchange(d2, Post(s2.cal, 2 * Second, b), n, fr)
      BY <1>2, <1>3, <1>6, <1>8, <2>1, <2>2, SentWaitExchange DEF Begins, Networks
    <2>4. Settled(PostOn(s2, 2 * Second, b), fr)
      BY <1>0, <1>4, <2>1, <2>3, PostSettles DEF Begins
    <2>5. Sending(d2, Post(s2.cal, 2 * Second, b), n)
      BY <1>0, <1>2, <1>3, <1>4, <2>1, SentPlaces DEF Begins, Networks, TimerKind
    <2>6. /\ PostOn(s2, 2 * Second, b).dev = s2.dev
          /\ PostOn(s2, 2 * Second, b).cal = Post(s2.cal, 2 * Second, b)
      BY <1>0, <1>4, <2>1, PostOnNetwork DEF Begins
    <2> QED
      BY <1>5, <1>8, <2>1, <2>4, <2>5, <2>6
  <1> QED
    BY <1>7, <1>8

LEMMA OriginalWaitAckSettles ==
  ASSUME NEW s, NEW n \in Sensor, NEW fr, Begins(s, n, fr),
         Sleep(s.cal, n, Second) # {}, s.dev[n].send_flag,
         s.dev[n].k <= Round + 1, s.dev[n].m_txPacket # NoPacket,
         NEW p \in Packet, SameData(s.dev[n].m_txPacket, p)
  PROVE  Settled(OriginalWaitAck(s, n, p), fr)
  <1> DEFINE d == s.dev[n]
             f == [d EXCEPT !.wait_ack = TRUE, !.lack_flag = (n = 1),
                            !.rack_flag = (n = N)]
             t == WithDevice(s, n, f)
             a == Own("OriginalAckCheck", n, p)
  <1>0. 3 * Second \in Delay /\ 3 * Second > Second
    BY Delays DEF Second
  <1>1. d \in Device /\ s \in Networks /\ n \in Node
    BY Line DEF Begins, Networks
  <1>2. f \in Device /\ f.wait_ack /\ f.lack_flag = (n = 1) /\ f.rack_flag = (n = N)
        /\ f.send_flag = d.send_flag /\ f.k = d.k /\ f.m_txPacket = d.m_txPacket
    BY <1>1 DEF Device
  <1>3. /\ a \in Event /\ a.kind = "OriginalAckCheck" /\ a.node = n /\ a.pkt = p
    BY DEF Own, Event, OwnEvent, OwnKind
  <1>4. OriginalWaitAck(s, n, p) = PostOn(t, 3 * Second, a)
    <2>1. s = [dev |-> s.dev, cal |-> s.cal] /\ s.dev \in [Node -> Device]
      BY <1>1 DEF Networks
    <2>2. [s EXCEPT !.dev[n].wait_ack = TRUE, !.dev[n].lack_flag = (n = 1),
                    !.dev[n].rack_flag = (n = N)] = [s EXCEPT !.dev[n] = f]
      BY <1>1, <2>1
    <2> QED
      BY <2>2 DEF OriginalWaitAck, WithDevice
  <1>5. d.send_flag /\ d.k <= Round + 1 /\ d.m_txPacket # NoPacket
        /\ SameData(d.m_txPacket, p)
    OBVIOUS
  <1> HIDE DEF d, f, a
  <1>6. Begins(t, n, fr) /\ t.dev[n] = f /\ t.cal = s.cal
    BY <1>2, WithDeviceBegins
  <1> HIDE DEF t
  <1>7. TimerFor(f, n, a)
    BY <1>2, <1>3, <1>5 DEF TimerFor, OwnKind
  <1>8. Exchange(f, Post(t.cal, 3 * Second, a), n, fr)
    BY <1>0, <1>2, <1>3, <1>5, <1>6, <1>7, SentTimerExchange
    DEF Begins, Networks, TimerKind
  <1>9. Settled(PostOn(t, 3 * Second, a), fr)
    BY <1>0, <1>3, <1>6, <1>8, PostSettles DEF Begins
  <1> QED
    BY <1>4, <1>9

LEMMA DataOfPacket ==
  ASSUME NEW p \in Packet, NEW type \in PacketType
  PROVE  /\ As(p, type) \in Packet /\ As(p, type) # NoPacket /\ p # NoPacket
         /\ SameData(As(p, type), p) /\ SameData(As(p, type), As(p, type))
         /\ SameData(p, p) /\ SameData(p, As(p, type))
         /\ Data(p) \in (0..N) \X (0..MaxDid)
  <1>1. As(p, type) \in Packet /\ As(p, type).osid = p.osid /\ As(p, type).did = p.did
    BY DEF As, Packet
  <1>2. Data(p) \in (0..N) \X (0..MaxDid)
    BY Line, LineAssumption DEF Data, Packet, DataId, Sensor
  <1> QED
    BY <1>1, <1>2, NoPacketAssumption DEF SameData

LEMMA ForwardingSettles ==
  ASSUME NEW s, NEW n \in Sensor, NEW fr, Begins(s, n, fr),
         ~s.dev[n].wait_ack, s.dev[n].k = 1,
         NEW p \in Packet, NEW to \in Node
  PROVE  /\ Settled(Forwarding(s, n, p, to), fr)
         /\ Sending(Forwarding(s, n, p, to).dev[n], Forwarding(s, n, p, to).cal, n)
  <1> DEFINE f == As(p, "FORWARDING")
             d == [s.dev[n] EXCEPT !.send_flag = TRUE]
             d1 == [d EXCEPT !.txarray = Data(p), !.m_txPacket = f]
             s1 == WithDevice(s, n, d1)
             s2 == ChannelSend(s1, n, f, to)
             r  == WaitAck(s2, n, f, to)
  <1>1. s.dev[n] \in Device
    BY Line DEF Begins, Networks
  <1>2. /\ f \in Packet /\ f # NoPacket /\ SameData(f, f)
        /\ Data(p) \in (0..N) \X (0..MaxDid)
    BY DataOfPacket DEF PacketType
  <1>3. /\ d1 \in Device /\ d1.send_flag /\ d1.wait_ack = s.dev[n].wait_ack
        /\ d1.k = s.dev[n].k /\ d1.m_txPacket = f
    <2> HIDE DEF f
    <2> QED
      BY <1>1, <1>2 DEF Device
  <1>4. Forwarding(s, n, p, to) = IF s.dev[n].txarray = Data(p)
                                  THEN AckSend(s, n, p, to) ELSE r
    <2>1. d.txarray = s.dev[n].txarray
      BY <1>1 DEF Device
    <2> QED
      BY <2>1 DEF Forwarding
  <1>5. 1 <= Round + 1
    BY LineAssumption
  <1> HIDE DEF f, d1
  <1>6. Begins(s1, n, fr) /\ s1.dev[n] = d1
    BY <1>3, WithDeviceBegins
  <1> HIDE DEF s1
  <1>7. Begins(s2, n, fr) /\ s2.dev[n] = d1 /\ Sleep(s2.cal, n, Second) # {}
    BY <1>2, <1>6, ChannelSendBegins
  <1> HIDE DEF s2
  <1>8. Settled(r, fr) /\ Sending(r.dev[n], r.cal, n)
    BY <1>2, <1>3, <1>5, <1>7, WaitAckSettles
  <1> HIDE DEF r
  <1>9. /\ Settled(AckSend(s, n, p, to), fr)
        /\ Sending(AckSend(s, n, p, to).dev[n], AckSend(s, n, p, to).cal, n)
    BY AckSendBegins
  <1> QED
    BY <1>4, <1>8, <1>9

LEMMA OriginalTransmissionSettles ==
  ASSUME NEW s, NEW n \in Sensor, NEW fr, Begins(s, n, fr),
         \A t \in Delay : Sleep(s.cal, n, t) = {},
         ~s.dev[n].send_flag, ~s.dev[n].wait_ack, s.dev[n].k = 1,
         NEW p \in Packet
  PROVE  Settled(OriginalTransmission(s, n, p), fr)
  <1> DEFINE d == s.dev[n]
             q == Append(d.m_queue, p)
             x == Head(q)
             e == [d EXCEPT !.m_queue = Enqueue(@, p)]
             f == [d EXCEPT !.send_flag = TRUE, !.m_queue = Tail(q),
                            !.m_txPacket = x, !.txarray = <<n, d.ndid - 1>>]
             s0 == WithDevice(s, n, e)
             s1 == WithDevice(s, n, f)
             s2 == ChannelSend(s1, n, x, Right(n))
             s3 == ChannelSend(s2, n, x, Left(n))
             r  == OriginalWaitAck(s3, n, x)
  <1>1. d \in Device /\ Left(n) \in Node /\ Right(n) \in Node /\ 1 <= Round + 1
    BY Line, LineAssumption DEF Begins, Networks
  <1>2. d.m_queue \in Seq(Packet)
    BY <1>1 DEF Device
  <1>3. x \in Packet /\ Tail(q) \in Seq(Packet) /\ x # NoPacket /\ SameData(x, x)
    <2>1. q \in Seq(Packet) /\ q # << >>
      BY <1>2, AppendProperties
    <2> HIDE DEF q
    <2>2. Head(q) \in Packet /\ Tail(q) \in Seq(Packet)
      BY <2>1, HeadTailProperties
    <2> QED
      BY <2>2, NoPacketAssumption DEF SameData
  <1>4. Enqueue(d.m_queue, p) \in Seq(Packet)
    BY <1>2, AppendProperties DEF Enqueue
  <1>5. <<n, d.ndid - 1>> \in (0..N) \X (0..MaxDid)
    <2>1. d.ndid \in 1..(MaxDid + 1) /\ MaxDid \in Int
      BY <1>1, LineAssumption DEF Device
    <2> QED
      BY <2>1, Line DEF Sensor
  <1>6. OriginalTransmission(s, n, p) =
          IF d.send_flag \/ d.wait_ack \/ Len(d.m_queue) >= MaxPackets
          THEN s0 ELSE r
    BY DEF OriginalTransmission
  <1>7. ~d.send_flag /\ ~d.wait_ack /\ d.k = 1
    OBVIOUS
  <1> HIDE DEF x, q
  <1>8. /\ e \in Device /\ ~e.send_flag /\ ~e.wait_ack /\ e.k = 1
        /\ f \in Device /\ f.send_flag /\ f.k = 1 /\ f.m_txPacket = x
    <2> HIDE DEF d
    <2> QED
      BY <1>1, <1>3, <1>4, <1>5, <1>7 DEF Device
  <1> HIDE DEF e, f
  <1>9. Settled(s0, fr)
    <2>1. Begins(s0, n, fr) /\ s0.dev[n] = e /\ s0.cal = s.cal
      BY <1>8, WithDeviceBegins
    <2> HIDE DEF s0
    <2>2. Exchange(e, s0.cal, n, fr)
      BY <1>8, <2>1, RestExchange DEF Begins, Networks
    <2> QED
      BY <2>1, <2>2, Settles DEF Begins
  <1>10. Settled(r, fr)
    <2>1. Begins(s1, n, fr) /\ s1.dev[n] = f
      BY <1>8, WithDeviceBegins
    <2> HIDE DEF s1
    <2>2. Begins(s2, n, fr) /\ s2.dev[n] = f
      BY <1>1, <1>3, <2>1, ChannelSendBegins
    <2> HIDE DEF s2
    <2>3. Begins(s3, n, fr) /\ s3.dev[n] = f /\ Sleep(s3.cal, n, Second) # {}
      BY <1>1, <1>3, <2>2, ChannelSendBegins
    <2> HIDE DEF s3
    <2> QED
      BY <1>1, <1>3, <1>8, <2>3, OriginalWaitAckSettles
  <1> QED
    BY <1>6, <1>9, <1>10

(* A free node with both flags down takes the next packet of its queue.    *)
Resting(s, n, fr) ==
  /\ Begins(s, n, fr) /\ \A t \in Delay : Sleep(s.cal, n, t) = {}
  /\ ~s.dev[n].send_flag /\ ~s.dev[n].wait_ack /\ s.dev[n].k = 1

LEMMA WaitSendSettles ==
  ASSUME NEW s, NEW n \in Sensor, NEW fr, Resting(s, n, fr)
  PROVE  Settled(WaitSend(s, n), fr)
  <1> DEFINE d == s.dev[n]
             p == Relabelled(n, Head(d.m_queue))
             f == [d EXCEPT !.m_queue = Tail(@), !.m_txPacket = p]
             t == WithDevice(s, n, f)
             o == [p EXCEPT !.osid = n]
  <1>1. d \in Device /\ Left(n) \in Node /\ Right(n) \in Node
        /\ ~d.send_flag /\ ~d.wait_ack /\ d.k = 1 /\ Begins(s, n, fr)
        /\ \A u \in Delay : Sleep(s.cal, n, u) = {}
    BY Line DEF Resting, Begins, Networks
  <1>2. WaitSend(s, n) =
          IF d.send_flag \/ d.m_queue = << >> THEN s
          ELSE IF p.type = "ORIGINAL_TRANSMISSION"
          THEN OriginalTransmission(t, n, o)
          ELSE IF p.osid > n
          THEN AckSend(Forwarding(t, n, p, Left(n)), n, p, Right(n))
          ELSE AckSend(Forwarding(t, n, p, Right(n)), n, p, Left(n))
    BY DEF WaitSend
  <1>3. CASE d.m_queue = << >>
    <2>1. Exchange(d, s.cal, n, fr)
      BY <1>1, RestExchange DEF Begins, Networks
    <2>2. Settled(s, fr)
      BY <1>1, <2>1, Settles DEF Begins
    <2> QED
      BY <1>2, <1>3, <2>2
  <1>4. CASE d.m_queue # << >>
    <2>1. d.m_queue \in Seq(Packet)
      BY <1>1 DEF Device
    <2>2. Head(d.m_queue) \in Packet /\ Tail(d.m_queue) \in Seq(Packet)
      BY <1>4, <2>1, HeadTailProperties
    <2>3. p \in Packet
      BY <2>2, AsKeepsData DEF Relabelled, PacketType
    <2> HIDE DEF p
    <2>4. o \in Packet
      BY <2>3 DEF Packet
    <2>5. f \in Device /\ ~f.send_flag /\ ~f.wait_ack /\ f.k = 1
      <3> HIDE DEF d
      <3> QED
        BY <1>1, <2>2, <2>3 DEF Device
    <2> HIDE DEF f, o
    <2>6. Begins(t, n, fr) /\ t.dev[n] = f /\ t.cal = s.cal
      BY <1>1, <2>5, WithDeviceBegins
    <2> HIDE DEF t
    <2>7. Settled(OriginalTransmission(t, n, o), fr)
      BY <1>1, <2>4, <2>5, <2>6, OriginalTransmissionSettles
    <2>8. ASSUME NEW a \in Node, NEW b \in Node
          PROVE  Settled(AckSend(Forwarding(t, n, p, a), n, p, b), fr)
      <3> DEFINE r == Forwarding(t, n, p, a)
      <3>1. Settled(r, fr) /\ Sending(r.dev[n], r.cal, n)
        BY <2>3, <2>5, <2>6, ForwardingSettles
      <3> HIDE DEF r
      <3>2. Settled(AckSend(r, n, p, b), fr)
        BY <2>3, <3>1, AckSendJoins
      <3> QED
        BY <3>2 DEF r
    <2> QED
      BY <1>1, <1>2, <1>4, <2>7, <2>8
  <1> QED
    BY <1>3, <1>4
-----------------------------------------------------------------------------
(* The timers of an exchange: it goes on, or ends.                         *)

(* A timer of n has run, and nothing else of n is scheduled. *)
Woken(s, n, fr) ==
  /\ s \in Networks /\ Others(s, n, fr) /\ Alone(s.cal, n)
  /\ ~s.dev[n].send_flag /\ s.dev[n].wait_ack /\ s.dev[n].k <= Round + 1
  /\ s.dev[n].m_txPacket # NoPacket

LEMMA WokenDevice ==
  ASSUME NEW s, NEW n \in Sensor, NEW fr, Woken(s, n, fr)
  PROVE  /\ Begins(s, n, fr) /\ \A t \in Delay : Sleep(s.cal, n, t) = {}
         /\ s.dev[n] \in Device
  <1>1. s.cal \in Calendars(Event) /\ s.dev[n] \in Device
    BY Line DEF Woken, Networks
  <1>2. Free(s.cal, n) /\ \A t \in Delay : Sleep(s.cal, n, t) = {}
    BY <1>1, AloneFree DEF Woken
  <1> QED
    BY <1>1, <1>2 DEF Woken, Begins

LEMMA DeviceRounds ==
  ASSUME NEW d \in Device, NEW j \in Nat \ {0}
  PROVE  [d EXCEPT !.k = j] \in Device /\ [d EXCEPT !.k = j].k = j
  BY DEF Device

LEMMA ConcludeSettles ==
  ASSUME NEW s, NEW n \in Sensor, NEW fr, Woken(s, n, fr),
         NEW d \in Device, ~d.send_flag
  PROVE  Settled(Conclude(s, n, d), fr)
  <1> DEFINE f == Concluded(d)
             t == WithDevice(s, n, f)
  <1>1. f \in Device /\ ~f.send_flag /\ ~f.wait_ack /\ f.k = 1
    <2>1. [d EXCEPT !.wait_ack = FALSE, !.m_txPacket = NoPacket] \in Device
      BY DEF Device
    <2>2. \A g \in Device : [g EXCEPT !.k = 1] \in Device
      BY DeviceRounds
    <2>3. f = [[d EXCEPT !.wait_ack = FALSE, !.m_txPacket = NoPacket]
                 EXCEPT !.k = 1]
      BY DEF Device, Concluded
    <2>4. ~f.send_flag /\ ~f.wait_ack /\ f.k = 1
      BY DEF Device, Concluded
    <2> QED
      BY <2>1, <2>2, <2>3, <2>4
  <1> HIDE DEF f
  <1>2. Begins(s, n, fr) /\ \A u \in Delay : Sleep(s.cal, n, u) = {}
    BY WokenDevice
  <1>3. Begins(t, n, fr) /\ t.dev[n] = f /\ t.cal = s.cal
    BY <1>1, <1>2, WithDeviceBegins
  <1> HIDE DEF t
  <1>4. Resting(t, n, fr)
    BY <1>1, <1>2, <1>3 DEF Resting
  <1>5. Settled(WaitSend(t, n), fr)
    BY <1>4, WaitSendSettles
  <1> QED
    BY <1>5 DEF Conclude, t, f

LEMMA RetrySettles ==
  ASSUME NEW s, NEW n \in Sensor, NEW fr, Woken(s, n, fr),
         NEW delay \in RandTimes(s.dev[n]),
         NEW retry \in Event, retry.kind \in TimerKind, retry.node = n,
         TimerFor(s.dev[n], n, retry),
         NEW gaveUp, Settled(gaveUp, fr)
  PROVE  Settled(RetryOr(gaveUp, s, n, delay, retry), fr)
  <1> DEFINE d == s.dev[n]
             f == AfterRandTime(d)
             t == WithDevice(s, n, f)
             b == delay * Second
  <1>1. d \in Device
    BY WokenDevice
  <1>2. CASE delay = GiveUp
    BY <1>2 DEF RetryOr
  <1>3. CASE delay # GiveUp
    <2>1. d.k \in Nat \ {0}
      BY <1>1 DEF Device
    <2>2. b \in Delay
      BY <1>3, <2>1, BackoffFits
    <2>3. ~(d.k > Round)
      BY <1>3 DEF RandTimes
    <2>4. /\ f \in Device /\ f.k = d.k + 1 /\ f.send_flag = d.send_flag
          /\ f.wait_ack = d.wait_ack /\ f.m_txPacket = d.m_txPacket
          /\ f.lack_flag = d.lack_flag /\ f.rack_flag = d.rack_flag
      <3> HIDE DEF d
      <3>1. f = [d EXCEPT !.k = d.k + 1] /\ d.k + 1 \in Nat \ {0}
        BY <1>1, <2>1, <2>3 DEF AfterRandTime, Device
      <3> HIDE DEF f
      <3>2. f \in Device /\ f.k = d.k + 1
        BY <1>1, <3>1, DeviceRounds
      <3> QED
        BY <1>1, <3>1, <3>2 DEF Device
    <2>5. f.k <= Round + 1
      BY <2>1, <2>3, <2>4, LineAssumption
    <2> HIDE DEF f
    <2>6. TimerFor(f, n, retry)
      BY <2>4 DEF TimerFor
    <2>7. t \in Networks /\ t.cal = s.cal /\ t.dev[n] = f /\ Others(t, n, fr)
      BY <2>4, Line, WithDeviceNetwork, WithDeviceOthers DEF Woken
    <2> HIDE DEF t, b
    <2>8. Exchange(f, Post(t.cal, b, retry), n, fr)
      BY <2>2, <2>4, <2>5, <2>6, <2>7, BackoffExchange DEF Woken, Networks
    <2>9. Settled(PostOn(t, b, retry), fr)
      BY <2>2, <2>7, <2>8, PostSettles
    <2> QED
      BY <1>3, <2>9 DEF RetryOr, t, b, f
  <1> QED
    BY <1>2, <1>3

LEMMA AckCheckSettles ==
  ASSUME NEW s, NEW n \in Sensor, NEW fr, Woken(s, n, fr),
         NEW p \in Packet, SameData(s.dev[n].m_txPacket, p),
         NEW to \in Node, ExpectsAck(n, to), NEW delay \in RandTimes(s.dev[n])
  PROVE  Settled(AckCheck(s, n, p, to, delay), fr)
  <1> DEFINE d == s.dev[n]
             f == ClearAck(d, n, to)
             done == Conclude(s, n, f)
             e == Hop("ReSend", n, p, to)
  <1>1. d \in Device /\ ~d.send_flag /\ d.m_txPacket # NoPacket
        /\ SameData(d.m_txPacket, p)
    BY WokenDevice DEF Woken
  <1>2. f \in Device /\ ~f.send_flag
    <2> HIDE DEF d
    <2> QED
      BY <1>1 DEF ClearAck, Device
  <1> HIDE DEF f
  <1>3. Settled(done, fr)
    BY <1>2, ConcludeSettles
  <1>4. e \in Event /\ e.kind = "ReSend" /\ e.node = n /\ e.pkt = p /\ e.peer = to
    BY DEF Hop, Event, HopEvent, HopKind
  <1> HIDE DEF e, done
  <1>5. TimerFor(d, n, e)
    BY <1>1, <1>4 DEF TimerFor, OwnKind
  <1>6. Settled(RetryOr(done, s, n, delay, e), fr)
    BY <1>3, <1>4, <1>5, RetrySettles DEF TimerKind
  <1> QED
    BY <1>3, <1>6 DEF AckCheck, done, e, f

(* What the exchange does not depend on may change: of the acknowledgement *)
(* flags only those preset towards a gateway must stay.                    *)
LEMMA DeviceSettles ==
  ASSUME NEW s, NEW n \in Node, NEW fr, Settled(s, fr),
         NEW f \in Device, f.send_flag = s.dev[n].send_flag,
         f.wait_ack = s.dev[n].wait_ack, f.k = s.dev[n].k,
         f.m_txPacket = s.dev[n].m_txPacket,
         n = 1 /\ s.dev[n].lack_flag => f.lack_flag,
         n = N /\ s.dev[n].rack_flag => f.rack_flag
  PROVE  Settled(WithDevice(s, n, f), fr)
  <1> DEFINE t == WithDevice(s, n, f)
  <1>1. /\ t \in Networks /\ t.cal = s.cal /\ t.dev[n] = f
        /\ \A m \in Node \ {n} : t.dev[m] = s.dev[m]
    BY WithDeviceNetwork DEF Settled
  <1> HIDE DEF t
  <1>2. ASSUME NEW m \in Sensor
        PROVE  Exchange(t.dev[m], t.cal, m, fr)
    <2>1. Exchange(s.dev[m], s.cal, m, fr) /\ m \in Node
      BY Line DEF Settled
    <2>2. CASE m = n
      BY <1>1, <2>1, <2>2, DeviceKeepsExchange
    <2>3. CASE m # n
      BY <1>1, <2>1, <2>3
    <2> QED
      BY <2>2, <2>3
  <1> QED
    BY <1>1, <1>2 DEF Settled, t

LEMMA OriginalAckCheckSettles ==
  ASSUME NEW s, NEW n \in Sensor, NEW fr, Woken(s, n, fr),
         NEW p \in Packet, SameData(s.dev[n].m_txPacket, p),
         n = 1 => s.dev[n].lack_flag, n = N => s.dev[n].rack_flag,
         NEW delay \in RandTimes(s.dev[n])
  PROVE  Settled(OriginalAckCheck(s, n, p, delay), fr)
  <1> DEFINE d == s.dev[n]
             done == Conclude(s, n, d)
             dn == [done.dev[n] EXCEPT !.rack_flag = FALSE, !.lack_flag = FALSE]
             none == [done EXCEPT !.dev[n].rack_flag = FALSE,
                                  !.dev[n].lack_flag = FALSE]
             db == [d EXCEPT !.rack_flag = FALSE, !.lack_flag = FALSE]
             both == Conclude(s, n, db)
             side == IF d.rack_flag THEN Left(n) ELSE Right(n)
             one == Hop("ReSend", n, p, side)
             all == Own("ReOriginalSend", n, p)
  <1>1. d \in Device /\ ~d.send_flag /\ d.m_txPacket # NoPacket
        /\ SameData(d.m_txPacket, p) /\ (n = 1 => d.lack_flag)
        /\ (n = N => d.rack_flag)
    BY WokenDevice DEF Woken
  <1>2. db \in Device /\ ~db.send_flag
    <2> HIDE DEF d
    <2> QED
      BY <1>1 DEF Device
  <1>3. Settled(done, fr)
    BY <1>1, ConcludeSettles
  <1>4. Settled(both, fr)
    <2> HIDE DEF db
    <2> QED
      BY <1>2, ConcludeSettles
  <1>5. n \in Node /\ Left(n) \in Node /\ Right(n) \in Node
    BY Line
  <1>6. side \in Node
    BY <1>5
  <1> HIDE DEF side
  <1>7. /\ one \in Event /\ one.kind = "ReSend" /\ one.node = n /\ one.pkt = p
        /\ one.peer = side
        /\ all \in Event /\ all.kind = "ReOriginalSend" /\ all.node = n /\ all.pkt = p
    BY <1>6 DEF Hop, Own, Event, HopEvent, HopKind, OwnEvent, OwnKind
  <1> HIDE DEF one, all
  <1>8. ASSUME ~(d.rack_flag /\ d.lack_flag), d.rack_flag \/ d.lack_flag
        PROVE  ExpectsAck(n, side)
    BY <1>1, <1>8, LineAssumption DEF ExpectsAck, last_node, side
  <1>9. ASSUME ~(d.rack_flag /\ d.lack_flag), d.rack_flag \/ d.lack_flag
        PROVE  Settled(RetryOr(done, s, n, delay, one), fr)
    <2>1. TimerFor(d, n, one)
      BY <1>1, <1>7, <1>8, <1>9 DEF TimerFor, OwnKind
    <2> HIDE DEF done
    <2> QED
      BY <1>3, <1>7, <2>1, RetrySettles DEF TimerKind
  <1>10. ASSUME ~(d.rack_flag \/ d.lack_flag)
         PROVE  Settled(RetryOr(none, s, n, delay, all), fr)
    <2>1. TimerFor(d, n, all)
      BY <1>1, <1>7 DEF TimerFor, OwnKind
    <2>2. n \notin {1, N}
      BY <1>1, <1>10
    <2> HIDE DEF done
    <2>3. done \in Networks /\ done.dev[n] \in Device
      BY <1>3, <1>5 DEF Settled, Networks
    <2>4. /\ dn \in Device /\ dn.send_flag = done.dev[n].send_flag
          /\ dn.wait_ack = done.dev[n].wait_ack /\ dn.k = done.dev[n].k
          /\ dn.m_txPacket = done.dev[n].m_txPacket
      BY <2>3 DEF Device
    <2>5. none = WithDevice(done, n, dn)
      <3>1. done = [dev |-> done.dev, cal |-> done.cal]
            /\ done.dev \in [Node -> Device]
        BY <2>3 DEF Networks
      <3>2. [done EXCEPT !.dev[n].rack_flag = FALSE, !.dev[n].lack_flag = FALSE]
              = [done EXCEPT !.dev[n] = dn]
        BY <1>5, <3>1
      <3> QED
        BY <3>2 DEF WithDevice
    <2> HIDE DEF dn, none
    <2>6. Settled(none, fr)
      BY <1>3, <1>5, <2>2, <2>4, <2>5, DeviceSettles
    <2> QED
      BY <1>7, <2>1, <2>6, RetrySettles DEF TimerKind
  <1>11. OriginalAckCheck(s, n, p, delay) =
           IF d.rack_flag /\ d.lack_flag THEN both
           ELSE IF d.rack_flag \/ d.lack_flag
           THEN RetryOr(done, s, n, delay, one)
           ELSE RetryOr(none, s, n, delay, all)
    BY DEF OriginalAckCheck, one, all, side
  <1> HIDE DEF d, done, none, both
  <1> QED
    BY <1>4, <1>9, <1>10, <1>11

LEMMA ReSendSettles ==
  ASSUME NEW s, NEW n \in Sensor, NEW fr, Woken(s, n, fr),
         NEW p \in Packet, SameData(s.dev[n].m_txPacket, p),
         NEW to \in Node, ExpectsAck(n, to)
  PROVE  Settled(ReSend(s, n, p, to), fr)
  <1> DEFINE d == s.dev[n]
             f == As(p, "FORWARDING")
             a == As(p, "IACK")
             back == Opposite(n, to)
             d1 == [d EXCEPT !.send_flag = TRUE]
             s1 == WithDevice(s, n, d1)
             s2 == ChannelSend(s1, n, a, back)
             s3 == ChannelSend(s2, n, f, to)
             done == Conclude(s, n, ClearAck(d, n, to))
  <1>1. d \in Device /\ ~d.send_flag /\ d.m_txPacket # NoPacket
        /\ SameData(d.m_txPacket, p) /\ d.k <= Round + 1 /\ Begins(s, n, fr)
    BY WokenDevice DEF Woken
  <1>2. Settled(done, fr)
    <2>1. ClearAck(d, n, to) \in Device /\ ~ClearAck(d, n, to).send_flag
      <3> HIDE DEF d
      <3> QED
        BY <1>1 DEF ClearAck, Device
    <2> QED
      BY <2>1, ConcludeSettles
  <1>3. /\ d1 \in Device /\ d1.send_flag /\ d1.k = d.k /\ d1.wait_ack = d.wait_ack
        /\ d1.m_txPacket = d.m_txPacket
    <2> HIDE DEF d
    <2> QED
      BY <1>1 DEF Device
  <1>4. f \in Packet /\ a \in Packet /\ SameData(d.m_txPacket, f) /\ back \in Node
    <2>1. f \in Packet /\ a \in Packet /\ f.osid = p.osid /\ f.did = p.did
      BY DEF As, Packet, PacketType
    <2> QED
      BY <1>1, <2>1, Line DEF Opposite, SameData
  <1>5. ReSend(s, n, p, to) = IF Acked(d, n, to) THEN done ELSE WaitAck(s3, n, f, to)
    BY DEF ReSend, WithDevice
  <1> HIDE DEF done, d1, f, a, back
  <1>6. Begins(s1, n, fr) /\ s1.dev[n] = d1
    BY <1>1, <1>3, WithDeviceBegins
  <1> HIDE DEF s1
  <1>7. Begins(s2, n, fr) /\ s2.dev[n] = d1
    BY <1>4, <1>6, ChannelSendBegins
  <1> HIDE DEF s2
  <1>8. Begins(s3, n, fr) /\ s3.dev[n] = d1 /\ Sleep(s3.cal, n, Second) # {}
    BY <1>4, <1>7, ChannelSendBegins
  <1> HIDE DEF s3, d
  <1>9. Settled(WaitAck(s3, n, f, to), fr)
    BY <1>1, <1>3, <1>4, <1>8, WaitAckSettles
  <1> QED
    BY <1>2, <1>5, <1>9

LEMMA ReOriginalSendSettles ==
  ASSUME NEW s, NEW n \in Sensor, NEW fr, Woken(s, n, fr),
         NEW p \in Packet, SameData(s.dev[n].m_txPacket, p),
         n = 1 => s.dev[n].lack_flag, n = N => s.dev[n].rack_flag
  PROVE  Settled(ReOriginalSend(s, n, p), fr)
  <1> DEFINE d == s.dev[n]
             dc == [d EXCEPT !.rack_flag = FALSE, !.lack_flag = FALSE]
             clear == WithDevice(s, n, dc)
             o == As(p, "ORIGINAL_TRANSMISSION")
             d1 == [d EXCEPT !.send_flag = TRUE]
             s1 == WithDevice(s, n, d1)
             s2 == ChannelSend(s1, n, o, Right(n))
             s3 == ChannelSend(s2, n, o, Left(n))
  <1>1. d \in Device /\ ~d.send_flag /\ d.m_txPacket # NoPacket
        /\ SameData(d.m_txPacket, p) /\ d.k <= Round + 1 /\ Begins(s, n, fr)
        /\ (n = 1 => d.lack_flag) /\ (n = N => d.rack_flag) /\ d.wait_ack
    BY WokenDevice DEF Woken
  <1>2. /\ dc \in Device /\ dc.k = d.k /\ dc.wait_ack = d.wait_ack
        /\ dc.m_txPacket = d.m_txPacket /\ dc.send_flag = d.send_flag
        /\ d1 \in Device /\ d1.send_flag /\ d1.k = d.k /\ d1.wait_ack = d.wait_ack
        /\ d1.m_txPacket = d.m_txPacket
    <2> HIDE DEF d
    <2> QED
      BY <1>1 DEF Device
  <1>3. n \in Node /\ Left(n) \in Node /\ Right(n) \in Node
    BY Line
  <1>4. ReOriginalSend(s, n, p) =
          IF d.rack_flag /\ d.lack_flag THEN Conclude(s, n, clear.dev[n])
          ELSE IF d.lack_flag THEN ReSend(clear, n, p, Right(n))
          ELSE IF d.rack_flag THEN ReSend(clear, n, p, Left(n))
          ELSE OriginalWaitAck(s3, n, o)
    BY DEF ReOriginalSend, WithDevice
  <1>5. o \in Packet /\ SameData(d.m_txPacket, o)
    <2>1. o \in Packet /\ o.osid = p.osid /\ o.did = p.did
      BY DEF As, Packet, PacketType
    <2> QED
      BY <1>1, <2>1 DEF SameData
  <1> HIDE DEF dc, d1, o
  <1>6. /\ clear \in Networks /\ clear.cal = s.cal /\ clear.dev[n] = dc
        /\ Others(clear, n, fr)
    BY <1>1, <1>2, <1>3, WithDeviceNetwork, WithDeviceOthers DEF Begins
  <1> HIDE DEF clear
  <1>7. Woken(clear, n, fr)
    BY <1>1, <1>2, <1>6 DEF Woken
  <1>8. Settled(Conclude(s, n, clear.dev[n]), fr)
    BY <1>1, <1>2, <1>6, ConcludeSettles
  <1>9. ASSUME NEW to \in {Left(n), Right(n)}, ExpectsAck(n, to)
        PROVE  Settled(ReSend(clear, n, p, to), fr)
    BY <1>1, <1>2, <1>3, <1>6, <1>7, <1>9, ReSendSettles
  <1>10. /\ ~d.rack_flag => ExpectsAck(n, Right(n))
         /\ ~d.lack_flag => ExpectsAck(n, Left(n))
    BY <1>1, LineAssumption DEF ExpectsAck, last_node
  <1>11. Settled(OriginalWaitAck(s3, n, o), fr)
    <2>1. Begins(s1, n, fr) /\ s1.dev[n] = d1
      BY <1>1, <1>2, WithDeviceBegins
    <2> HIDE DEF s1
    <2>2. Begins(s2, n, fr) /\ s2.dev[n] = d1
      BY <1>3, <1>5, <2>1, ChannelSendBegins
    <2> HIDE DEF s2
    <2>3. Begins(s3, n, fr) /\ s3.dev[n] = d1 /\ Sleep(s3.cal, n, Second) # {}
      BY <1>3, <1>5, <2>2, ChannelSendBegins
    <2> HIDE DEF s3, d
    <2> QED
      BY <1>1, <1>2, <1>5, <2>3, OriginalWaitAckSettles
  <1> HIDE DEF d
  <1> QED
    BY <1>4, <1>8, <1>9, <1>10, <1>11
-----------------------------------------------------------------------------
(* Receiving.                                                              *)

LEMMA RadioSettles ==
  ASSUME NEW s, NEW fr, Settled(s, fr), NEW t \in Delay, NEW e \in Event,
         e.kind \in RadioKind
  PROVE  Settled(PostOn(s, t, e), fr)
  <1>1. s \in Networks /\ s.cal \in Calendars(Event)
    BY DEF Settled, Networks
  <1>2. /\ PostOn(s, t, e) \in Networks /\ PostOn(s, t, e).dev = s.dev
        /\ PostOn(s, t, e).cal = Post(s.cal, t, e)
    BY <1>1, PostOnNetwork
  <1>3. \A m \in Sensor : Exchange(s.dev[m], Post(s.cal, t, e), m, fr)
    BY <1>1, PostKeepsExchange DEF Settled, Foreign
  <1> QED
    BY <1>2, <1>3 DEF Settled

LEMMA QueuesOfPackets ==
  ASSUME NEW q \in Seq(Packet), NEW p \in Packet
  PROVE  /\ Enqueue(q, p) \in Seq(Packet) /\ QueueCheck(q, p) \in Seq(Packet)
         /\ DequeueIfHead(q, p) \in Seq(Packet)
  BY HeadTailProperties, AppendProperties DEF Enqueue, QueueCheck, DequeueIfHead

LEMMA ReceiveStartSettles ==
  ASSUME NEW s, NEW n \in Node, NEW fr, Settled(s, fr),
         NEW p \in Packet, NEW from \in Sensor
  PROVE  Settled(ReceiveStart(s, n, p, from), fr)
  <1> DEFINE d == s.dev[n]
             f == [d EXCEPT !.receive_flag_1 = TRUE]
             g == [d EXCEPT !.receive_flag = TRUE]
             e == Hop("ReceiveCheck", n, p, from)
  <1>1. d \in Device
    BY DEF Settled, Networks
  <1>2. /\ f \in Device /\ f.send_flag = d.send_flag /\ f.wait_ack = d.wait_ack
        /\ f.k = d.k /\ f.m_txPacket = d.m_txPacket
        /\ f.lack_flag = d.lack_flag /\ f.rack_flag = d.rack_flag
        /\ g \in Device /\ g.send_flag = d.send_flag /\ g.wait_ack = d.wait_ack
        /\ g.k = d.k /\ g.m_txPacket = d.m_txPacket
        /\ g.lack_flag = d.lack_flag /\ g.rack_flag = d.rack_flag
    <2> HIDE DEF d
    <2> QED
      BY <1>1 DEF Device
  <1>3. ReceiveStart(s, n, p, from) =
          IF d.receive_flag THEN WithDevice(s, n, f)
          ELSE PostOn(WithDevice(s, n, g), 9, e)
    BY DEF ReceiveStart, WithDevice
  <1>4. e \in Event /\ e.kind \in RadioKind /\ 9 \in Delay
    BY Delays DEF Hop, Event, RadioEvent, RadioKind
  <1> HIDE DEF f, g, e
  <1>5. Settled(WithDevice(s, n, f), fr) /\ Settled(WithDevice(s, n, g), fr)
    BY <1>2, DeviceSettles
  <1>6. Settled(PostOn(WithDevice(s, n, g), 9, e), fr)
    BY <1>4, <1>5, RadioSettles
  <1> QED
    BY <1>3, <1>5, <1>6

LEMMA ReceiveCheckSettles ==
  ASSUME NEW s, NEW n \in Node, NEW fr, Settled(s, fr),
         NEW p \in Packet, NEW from \in Sensor
  PROVE  Settled(ReceiveCheck(s, n, p, from), fr)
  <1> DEFINE d == s.dev[n]
             f == [d EXCEPT !.receive_flag = FALSE, !.receive_flag_1 = FALSE]
             t == WithDevice(s, n, f)
             e == Hop("Receive", n, p, from)
  <1>1. d \in Device /\ s \in Networks
    BY DEF Settled, Networks
  <1>2. /\ f \in Device /\ f.send_flag = d.send_flag /\ f.wait_ack = d.wait_ack
        /\ f.k = d.k /\ f.m_txPacket = d.m_txPacket
        /\ f.lack_flag = d.lack_flag /\ f.rack_flag = d.rack_flag
    <2> HIDE DEF d
    <2> QED
      BY <1>1 DEF Device
  <1>3. ReceiveCheck(s, n, p, from) =
          IF d.receive_flag_1 THEN t ELSE PostOn(t, 0, e)
    <2>1. s = [dev |-> s.dev, cal |-> s.cal] /\ s.dev \in [Node -> Device]
      BY <1>1 DEF Networks
    <2>2. [s EXCEPT !.dev[n].receive_flag = FALSE, !.dev[n].receive_flag_1 = FALSE]
            = [s EXCEPT !.dev[n] = f]
      BY <2>1
    <2> QED
      BY <2>2 DEF ReceiveCheck, WithDevice
  <1>4. e \in Event /\ e.kind \in RadioKind /\ 0 \in Delay
    BY Delays DEF Hop, Event, RadioEvent, RadioKind
  <1> HIDE DEF f, e
  <1>5. Settled(t, fr)
    BY <1>2, DeviceSettles
  <1> HIDE DEF t
  <1>6. Settled(PostOn(t, 0, e), fr)
    BY <1>4, <1>5, RadioSettles
  <1> QED
    BY <1>3, <1>5, <1>6

(* Data is taken while nothing is sent and no acknowledgement awaited.     *)
LEMMA AcceptDataSettles ==
  ASSUME NEW s, NEW n \in Sensor, NEW fr, ~fr, Settled(s, fr), Aligned(s.cal, n, 9),
         ~s.dev[n].send_flag, ~s.dev[n].wait_ack,
         NEW p \in Packet, NEW from \in Node, NEW t \in {1, Second + 1}
  PROVE  Settled(AcceptData(s, n, p, from, t), fr)
  <1> DEFINE d == s.dev[n]
             f == [d EXCEPT !.send_flag = TRUE]
             a == Hop("AckSend", n, p, from)
             b == Hop("Forwarding", n, p, Opposite(n, from))
             s1 == WithDevice(s, n, f)
             s2 == PostOn(s1, t, a)
  <1>1. n \in Node /\ Left(n) \in Node /\ Right(n) \in Node /\ t \in Delay
    BY Line, Delays
  <1>2. s \in Networks /\ d \in Device /\ Others(s, n, fr)
        /\ Exchange(d, s.cal, n, fr) /\ s.cal \in Calendars(Event)
    BY <1>1 DEF Settled, Networks, Others
  <1>3. f \in Device /\ f.send_flag /\ f.wait_ack = d.wait_ack /\ f.k = d.k
    <2> HIDE DEF d
    <2> QED
      BY <1>2 DEF Device
  <1>4. /\ a \in Event /\ a.kind = "AckSend" /\ a.node = n
        /\ b \in Event /\ b.kind = "Forwarding" /\ b.node = n
    <2>1. Opposite(n, from) \in Node
      BY <1>1 DEF Opposite
    <2> QED
      BY <2>1 DEF Hop, Event, HopEvent, HopKind
  <1>5. AcceptData(s, n, p, from, t) = PostOn(s2, t, b)
    BY DEF AcceptData, WithDevice
  <1> HIDE DEF f, a, b
  <1>6. Exchange(f, Post(Post(s.cal, t, a), t, b), n, fr)
    <2>1. ~d.send_flag /\ ~d.wait_ack /\ ~f.wait_ack /\ Aligned(s.cal, n, 9)
      BY <1>3
    <2> DEFINE cal == s.cal
    <2>2. cal \in Calendars(Event) /\ Exchange(d, cal, n, fr) /\ Aligned(cal, n, 9)
      BY <1>2, <2>1
    <2> HIDE DEF d, cal
    <2>3. Exchange(f, Post(Post(cal, t, a), t, b), n, fr)
      BY <1>3, <1>4, <2>1, <2>2, AcceptExchange
    <2> QED
      BY <2>3 DEF cal
  <1>7. s1 \in Networks /\ s1.cal = s.cal /\ s1.dev[n] = f /\ Others(s1, n, fr)
    BY <1>1, <1>2, <1>3, WithDeviceNetwork, WithDeviceOthers
  <1> HIDE DEF s1
  <1>8. s2 \in Networks /\ s2.dev = s1.dev /\ s2.cal = Post(s.cal, t, a)
        /\ Others(s2, n, fr)
    BY <1>1, <1>4, <1>7, PostOnNetwork, PostOnOthers
  <1> HIDE DEF s2
  <1>9. Settled(PostOn(s2, t, b), fr)
    BY <1>1, <1>4, <1>6, <1>7, <1>8, PostSettles
  <1> QED
    BY <1>5, <1>9

LEMMA AckReceiveSettles ==
  ASSUME NEW s, NEW n \in Sensor, NEW fr, Settled(s, fr), NEW from
  PROVE  Settled(AckReceive(s, n, from), fr)
  <1> DEFINE d == s.dev[n]
             f == [d EXCEPT !.rack_flag = TRUE]
             g == [d EXCEPT !.lack_flag = TRUE]
  <1>1. n \in Node
    BY Line
  <1>2. d \in Device
    BY <1>1 DEF Settled, Networks
  <1>3. /\ f \in Device /\ f.send_flag = d.send_flag /\ f.wait_ack = d.wait_ack
        /\ f.k = d.k /\ f.m_txPacket = d.m_txPacket
        /\ f.lack_flag = d.lack_flag /\ f.rack_flag
        /\ g \in Device /\ g.send_flag = d.send_flag /\ g.wait_ack = d.wait_ack
        /\ g.k = d.k /\ g.m_txPacket = d.m_txPacket
        /\ g.rack_flag = d.rack_flag /\ g.lack_flag
    <2> HIDE DEF d
    <2> QED
      BY <1>2 DEF Device
  <1>4. AckReceive(s, n, from) =
          IF from = Right(n) THEN WithDevice(s, n, f) ELSE WithDevice(s, n, g)
    BY DEF AckReceive, WithDevice
  <1> HIDE DEF f, g
  <1>5. Settled(WithDevice(s, n, f), fr) /\ Settled(WithDevice(s, n, g), fr)
    BY <1>1, <1>3, DeviceSettles
  <1> QED
    BY <1>4, <1>5

LEMMA ReceiveSettles ==
  ASSUME NEW s, NEW n \in Node, NEW fr, ~fr, Settled(s, fr), Aligned(s.cal, n, 9),
         NEW p \in Packet, NEW from \in Sensor
  PROVE  Settled(Receive(s, n, p, from), fr)
  <1> DEFINE d == s.dev[n]
             q == d.m_queue
             qc == QueueCheck(q, p)
             qd == DequeueIfHead(q, p)
             s1 == [s EXCEPT !.dev[n].m_queue = qc]
             s2 == [s EXCEPT !.dev[n].m_queue = qd]
  <1>1. d \in Device /\ q \in Seq(Packet) /\ s \in Networks
    BY DEF Settled, Networks, Device
  <1>2. qc \in Seq(Packet) /\ qd \in Seq(Packet)
    BY <1>1, QueuesOfPackets
  <1>3. /\ Settled(s1, fr) /\ Settled(s2, fr)
        /\ s2.cal = s.cal
        /\ s2.dev[n].send_flag = d.send_flag /\ s2.dev[n].wait_ack = d.wait_ack
    <2> HIDE DEF qc, qd, q
    <2> DEFINE f1 == [d EXCEPT !.m_queue = qc]
               f2 == [d EXCEPT !.m_queue = qd]
    <2>1. s1 = WithDevice(s, n, f1) /\ s2 = WithDevice(s, n, f2)
      BY DEF WithDevice
    <2>2. /\ f1 \in Device /\ f2 \in Device
          /\ \A f \in {f1, f2} :
               /\ f.send_flag = d.send_flag /\ f.wait_ack = d.wait_ack
               /\ f.k = d.k /\ f.m_txPacket = d.m_txPacket
               /\ f.lack_flag = d.lack_flag /\ f.rack_flag = d.rack_flag
      <3> HIDE DEF d
      <3> QED
        BY <1>1, <1>2 DEF Device
    <2> HIDE DEF f1, f2, s1, s2
    <2>3. Settled(s1, fr) /\ Settled(s2, fr)
      BY <2>1, <2>2, DeviceSettles
    <2>4. s2.cal = s.cal /\ s2.dev[n] = f2
      BY <1>1, <2>1, <2>2, WithDeviceNetwork
    <2> QED
      BY <2>2, <2>3, <2>4
  <1> HIDE DEF s2, s1, qc, qd
  <1>4. ReceiveAtGateway(s, n, p) = IF p.type = "IACK" THEN s ELSE s1
    BY DEF ReceiveAtGateway, s1, qc
  <1>5. ReceiveWhileWaiting(s, n, p) \in {s, s1}
    BY DEF ReceiveWhileWaiting, s1, qc
  <1>6. ASSUME n \in Sensor, ~d.send_flag
        PROVE  /\ Settled(ReceiveOriginal(s, n, p, from), fr)
               /\ Settled(ReceiveForwarding(s, n, p, from), fr)
               /\ Settled(ReceiveIack(s, n, p, from), fr)
    <2>1. CASE d.wait_ack
      <3>1. /\ ReceiveOriginal(s, n, p, from) \in {s, s1}
            /\ ReceiveForwarding(s, n, p, from) \in {s, s1}
            /\ ReceiveIack(s, n, p, from) \in {s, AckReceive(s, n, from)}
        BY <1>5, <2>1 DEF ReceiveOriginal, ReceiveForwarding, ReceiveIack
      <3> QED
        BY <1>3, <1>6, <3>1, AckReceiveSettles
    <2>2. CASE ~d.wait_ack
      <3>1. from \in Node
        BY Line
      <3>2. \A t \in {1, Second + 1} :
              /\ Settled(AcceptData(s, n, p, from, t), fr)
              /\ Settled(AcceptData(s2, n, p, from, t), fr)
        BY <1>3, <1>6, <2>2, <3>1, AcceptDataSettles
      <3>3. ReceiveOriginal(s, n, p, from) =
              AcceptData(s, n, p, from, IF from = Right(n) THEN 1 ELSE Second + 1)
        BY <2>2 DEF ReceiveOriginal
      <3>4. ReceiveForwarding(s, n, p, from) = AcceptData(s2, n, p, from, 1)
        BY <2>2 DEF ReceiveForwarding, s2, qd
      <3>5. ReceiveIack(s, n, p, from) = s2
        BY <2>2 DEF ReceiveIack, s2, qd
      <3> QED
        BY <1>3, <3>2, <3>3, <3>4, <3>5
    <2> QED
      BY <2>1, <2>2
  <1>7. p.type \in {"ORIGINAL_TRANSMISSION", "FORWARDING", "IACK"}
    BY DEF Packet, PacketType
  <1>8. n \notin Gateway => n \in Sensor
    BY LineAssumption DEF Node, Gateway, Sensor
  <1> HIDE DEF d
  <1> QED
    BY <1>3, <1>4, <1>6, <1>7, <1>8 DEF Receive, d
-----------------------------------------------------------------------------
(* Each event that runs.                                                   *)

LEMMA PopOthers ==
  ASSUME NEW s \in Networks, NEW fr, Settled(s, fr), Due(s.cal),
         NEW fx, ~fx, NEW r, r = [dev |-> s.dev, cal |-> Pop(s.cal)],
         NEW n, n = First(s.cal).node
  PROVE  /\ r \in Networks /\ r.dev = s.dev /\ r.cal = Pop(s.cal)
         /\ Others(r, n, fx)
         /\ First(s.cal).kind \notin TimerKind \cup {"Forwarding", "SetSleep"} =>
              Settled(r, fx)
  <1>1. s.cal \in Calendars(Event) /\ s.dev \in [Node -> Device]
    BY DEF Networks
  <1>2. Pop(s.cal) \in Calendars(Event)
    BY <1>1, PopPlaces
  <1>3. r \in Networks /\ r.dev = s.dev /\ r.cal = Pop(s.cal)
    BY <1>1, <1>2 DEF Networks
  <1>4. ASSUME NEW m \in Sensor,
               m # n \/ First(s.cal).kind \notin TimerKind \cup {"Forwarding", "SetSleep"}
        PROVE  Exchange(r.dev[m], r.cal, m, fx)
    <2>1. Exchange(s.dev[m], s.cal, m, fr)
      BY DEF Settled
    <2> QED
      BY <1>1, <1>3, <1>4, <2>1, PopKeepsExchange
  <1> QED
    BY <1>3, <1>4 DEF Others, Settled

(* One of n's timers runs.                                                 *)
LEMMA PopTimerWakes ==
  ASSUME NEW s \in Networks, NEW fr, Settled(s, fr), Due(s.cal),
         NEW fx, ~fx, NEW r, r = [dev |-> s.dev, cal |-> Pop(s.cal)],
         NEW n \in Sensor, n = First(s.cal).node, First(s.cal).kind \in TimerKind
  PROVE  Woken(r, n, fx) /\ TimerFor(r.dev[n], n, First(s.cal))
  <1>1. /\ r \in Networks /\ r.dev = s.dev /\ r.cal = Pop(s.cal)
        /\ Others(r, n, fx)
    BY PopOthers
  <1>2. Exchange(s.dev[n], s.cal, n, fr) /\ s.cal \in Calendars(Event)
    BY DEF Settled, Networks
  <1>3. /\ s.dev[n].wait_ack /\ ~s.dev[n].send_flag
        /\ TimerFor(s.dev[n], n, First(s.cal)) /\ Alone(Pop(s.cal), n)
    BY <1>2, PopTimerAlone
  <1>4. s.dev[n].k <= Round + 1 /\ s.dev[n].m_txPacket # NoPacket
    BY <1>2, <1>3 DEF Exchange, Backoff, TimerFor
  <1> QED
    BY <1>1, <1>3, <1>4 DEF Woken

(* The exchanges of all sensors.                                           *)
Exchanges == \A n \in Sensor : Exchange(device[n], calendar, n, fresh)

LEMMA ExchangesSettled ==
  IInv => (Exchanges <=> Settled(Now, fresh))
  <1> SUFFICES ASSUME IInv PROVE Exchanges <=> Settled(Now, fresh)
    OBVIOUS
  <1>1. Now.dev = device /\ Now.cal = calendar
    BY DEF Now
  <1>2. Now \in Networks
    BY DEF IInv, Nets, Devices, Agendas, Networks
  <1> QED
    BY <1>1, <1>2 DEF Exchanges, Settled

LEMMA BecomesSettled ==
  ASSUME NEW s, Settled(s, fresh'), device' = s.dev, calendar' = s.cal
  PROVE  Exchanges'
  BY DEF Settled, Exchanges

LEMMA EventKeepsExchanges ==
  ASSUME IInv, Exchanges, RunEvent
  PROVE  Exchanges'
  <1> DEFINE s == Now
             r == Popped
             e == Event1
             n == e.node
             fx == fresh'
  <1>1. Due(calendar) /\ ~fx
    BY DEF RunEvent, RunReceiveStart, RunReceiveCheck, RunReceiveCorrupt,
           RunReceive, RunSetSleep, RunAckSend, RunForwarding, RunWaitSend,
           RunAckCheck, RunOriginalAckCheck, RunReSend, RunReOriginalSend,
           Calls, Becomes
  <1>2. /\ e \in Events(heard, clock)
        /\ r \in Nets(heard, NextIdentities(device), clock)
        /\ r.dev = device
    BY <1>1, EventRuns
  <1>3. heard \in Histories /\ NextIdentities(device) \in Identities
        /\ clock \in Clocks /\ s \in Nets(heard, NextIdentities(device), clock)
    BY DEF IInv
  <1>4. /\ clock = PhaseOf(e.kind)
        /\ e.kind \in RadioKind =>
             n \in Node /\ e.pkt \in Packet /\ e.peer \in Sensor
        /\ e.kind \in HopKind =>
             n \in Sensor /\ e.pkt \in Packet /\ e.peer \in Node
        /\ e.kind \in OwnKind => n \in Sensor /\ e.pkt \in Packet
        /\ e.kind \in BareKind => n \in Sensor
    BY <1>2, <1>3, EventParts
  <1>5. s.dev = device /\ s.cal = calendar /\ First(calendar) = e
        /\ r = [dev |-> s.dev, cal |-> Pop(s.cal)]
    BY DEF Now, Event1, Popped
  <1>6. Settled(s, fresh) /\ s \in Networks
    BY ExchangesSettled DEF Settled
  <1>7. Aligned(s.cal, n, clock) /\ Aligned(r.cal, n, clock)
    BY <1>2, <1>3, NetsAligned
  <1> HIDE DEF s, r, e, fx
  <1>8. /\ r \in Networks /\ r.dev = s.dev /\ r.cal = Pop(s.cal)
        /\ Others(r, n, fx)
        /\ e.kind \notin TimerKind \cup {"Forwarding", "SetSleep"} => Settled(r, fx)
    <2>1. n = First(s.cal).node
      BY <1>5
    <2> QED
      BY <1>1, <1>5, <1>6, <2>1, PopOthers
  <1>9. ASSUME NEW q, Becomes(q), Settled(q, fx)
        PROVE  Exchanges'
    BY <1>9, BecomesSettled DEF Becomes, fx
  <1>10. ASSUME e.kind \in TimerKind
         PROVE  n \in Sensor /\ Woken(r, n, fx) /\ TimerFor(r.dev[n], n, e)
    <2>1. n \in Sensor /\ n = First(s.cal).node
      BY <1>4, <1>5, <1>10 DEF TimerKind, HopKind, OwnKind
    <2> QED
      BY <1>1, <1>5, <1>6, <1>10, <2>1, PopTimerWakes
  <1>11. CASE RunReceiveStart
    <2>1. e.kind = "ReceiveStart"
      BY <1>5, <1>11 DEF RunReceiveStart, Calls
    <2>2. n \in Node /\ e.pkt \in Packet /\ e.peer \in Sensor /\ Settled(r, fx)
      BY <1>4, <1>8, <2>1 DEF RadioKind, TimerKind
    <2>3. Settled(ReceiveStart(r, n, e.pkt, e.peer), fx)
      BY <2>2, ReceiveStartSettles
    <2> QED
      BY <1>9, <1>11, <2>3 DEF RunReceiveStart, r, e
  <1>12. CASE RunReceiveCheck
    <2>1. e.kind = "ReceiveCheck"
      BY <1>5, <1>12 DEF RunReceiveCheck, Calls
    <2>2. n \in Node /\ e.pkt \in Packet /\ e.peer \in Sensor /\ Settled(r, fx)
      BY <1>4, <1>8, <2>1 DEF RadioKind, TimerKind
    <2>3. Settled(ReceiveCheck(r, n, e.pkt, e.peer), fx)
      BY <2>2, ReceiveCheckSettles
    <2> QED
      BY <1>9, <1>12, <2>3 DEF RunReceiveCheck, r, e
  <1>13. CASE RunReceiveCorrupt
    <2>1. e.kind = "Receive"
      BY <1>5, <1>13 DEF RunReceiveCorrupt, Calls
    <2>2. Settled(r, fx)
      BY <1>8, <2>1 DEF TimerKind
    <2> QED
      BY <1>9, <1>13, <2>2 DEF RunReceiveCorrupt, r
  <1>14. CASE RunReceive
    <2>1. e.kind = "Receive"
      BY <1>5, <1>14 DEF RunReceive, Calls
    <2>2. n \in Node /\ e.pkt \in Packet /\ e.peer \in Sensor /\ Settled(r, fx)
      BY <1>4, <1>8, <2>1 DEF RadioKind, TimerKind
    <2>3. Aligned(r.cal, n, 9)
      BY <1>4, <1>7, <2>1 DEF PhaseOf
    <2>4. Settled(Receive(r, n, e.pkt, e.peer), fx)
      BY <1>1, <2>2, <2>3, ReceiveSettles
    <2> QED
      BY <1>9, <1>14, <2>4 DEF RunReceive, r, e
  <1>15. CASE RunSetSleep
    <2>1. e.kind = "SetSleep" /\ n \in Sensor
      BY <1>4, <1>5, <1>15 DEF RunSetSleep, Calls, BareKind
    <2> DEFINE d == s.dev[n]
               f == [d EXCEPT !.send_flag = FALSE]
    <2>2. d \in Device /\ f \in Device /\ s.cal \in Calendars(Event) /\ n \in Node
          /\ Exchange(d, s.cal, n, fresh)
      <3>1. d \in Device /\ s.cal \in Calendars(Event) /\ n \in Node
            /\ Exchange(d, s.cal, n, fresh)
        BY <1>6, <2>1, Line DEF Networks, Settled
      <3> HIDE DEF d
      <3> QED
        BY <3>1 DEF Device
    <2>3. Exchange(f, r.cal, n, fx)
      <3> HIDE DEF d
      <3> QED
        BY <1>1, <1>5, <1>8, <2>1, <2>2, PopSleepExchange
    <2>4. WithDevice(r, n, f) = SetSleep(r, n)
      BY <1>8 DEF SetSleep, WithDevice
    <2> HIDE DEF f, d
    <2> DEFINE q == WithDevice(r, n, f)
    <2>5. q \in Networks /\ q.cal = r.cal /\ q.dev[n] = f /\ Others(q, n, fx)
      BY <1>8, <2>1, <2>2, WithDeviceNetwork, WithDeviceOthers
    <2>6. Settled(SetSleep(r, n), fx)
      <3> HIDE DEF q
      <3>1. Settled(q, fx)
        BY <2>3, <2>5, Settles
      <3> QED
        BY <2>4, <3>1 DEF q
    <2> QED
      BY <1>9, <1>15, <2>6 DEF RunSetSleep, r, e
  <1>16. CASE RunAckSend
    <2>1. e.kind = "AckSend"
      BY <1>5, <1>16 DEF RunAckSend, Calls
    <2>2. n \in Sensor /\ e.pkt \in Packet /\ e.peer \in Node /\ Settled(r, fx)
      BY <1>4, <1>8, <2>1 DEF HopKind, TimerKind
    <2>3. Sending(r.dev[n], r.cal, n)
      <3> DEFINE d == s.dev[n]
                 cal == s.cal
      <3>1. Exchange(d, cal, n, fresh) /\ cal \in Calendars(Event) /\ 0 \in Delay
            /\ \A u \in Delay : u \in Nat
        BY <1>6, <2>2, Delays DEF Networks, Settled, Delay
      <3>2. First(cal) = e /\ Due(cal) /\ r.dev[n] = d /\ r.cal = Pop(cal)
        BY <1>1, <1>5, <1>8
      <3> HIDE DEF d, cal
      <3>3. 1 \in Ack(cal, n, 0)
        BY <2>1, <3>1, <3>2, FirstPlace DEF Ack
      <3>4. 1 + 1 \in Fwd(cal, n, 0) /\ \A u \in Delay : Sleep(cal, n, u) = {}
        BY <3>1, <3>3 DEF Exchange, Replies
      <3>5. /\ d.send_flag /\ ~d.wait_ack
            /\ \A u \in Delay : \A j \in Fwd(cal, n, u) : u = 0 /\ j = 1 + 1
        BY <3>1, <3>4 DEF Exchange, Replies
      <3>6. \A u \in Delay : Timer(cal, n, u) = {}
        BY <3>1, <3>5 DEF Exchange, Timers
      <3>7. \A u \in Delay : \A i \in Ack(cal, n, u) : u = 0 /\ i + 1 = 1 + 1
        BY <3>1, <3>5 DEF Exchange, Replies
      <3>8. ASSUME NEW u \in Delay, NEW i \in Ack(Pop(cal), n, u)
            PROVE  FALSE
        <4>1. CASE u = 0
          <5>1. i \in Nat \ {0} /\ i + 1 \in Ack(cal, n, 0)
            BY <3>1, <3>2, <3>8, <4>1, PoppedPlaces DEF Ack
          <5>2. (i + 1) + 1 = 1 + 1
            BY <3>1, <3>7, <5>1
          <5> QED
            BY <5>1, <5>2
        <4>2. CASE u # 0
          BY <3>1, <3>2, <3>7, <3>8, <4>2, PoppedPlaces DEF Ack
        <4> QED
          BY <4>1, <4>2
      <3>9. \A u \in Delay : /\ Sleep(Pop(cal), n, u) = {} /\ Timer(Pop(cal), n, u) = {}
                             /\ Fwd(Pop(cal), n, u) # {} => u = 0
        BY <3>1, <3>2, <3>4, <3>5, <3>6, PoppedPlaces DEF Sleep, Timer, Fwd
      <3> QED
        BY <3>2, <3>5, <3>8, <3>9 DEF Sending
    <2>4. Settled(AckSend(r, n, e.pkt, e.peer), fx)
      BY <2>2, <2>3, AckSendJoins
    <2> QED
      BY <1>9, <1>16, <2>4 DEF RunAckSend, r, e
  <1>17. CASE RunForwarding
    <2>1. e.kind = "Forwarding"
      BY <1>5, <1>17 DEF RunForwarding, Calls
    <2>2. n \in Sensor /\ e.pkt \in Packet /\ e.peer \in Node
      BY <1>4, <2>1 DEF HopKind
    <2>3. Exchange(s.dev[n], s.cal, n, fresh) /\ s.cal \in Calendars(Event)
      BY <1>6, <2>2 DEF Networks, Settled
    <2>4. ~s.dev[n].wait_ack /\ s.dev[n].k = 1 /\ Free(r.cal, n)
      BY <1>1, <1>5, <1>8, <2>1, <2>3, PopForwardingFree
    <2>5. Begins(r, n, fx) /\ ~r.dev[n].wait_ack /\ r.dev[n].k = 1
      BY <1>8, <2>4 DEF Begins
    <2>6. Settled(Forwarding(r, n, e.pkt, e.peer), fx)
      BY <2>2, <2>5, ForwardingSettles
    <2> QED
      BY <1>9, <1>17, <2>6 DEF RunForwarding, r, e
  <1>18. CASE RunWaitSend
    <2>1. e.kind = "WaitSend" /\ n \in Sensor
      BY <1>4, <1>5, <1>18 DEF RunWaitSend, Calls, BareKind
    <2>2. Settled(WaitSend(r, n), fx)
      <3>1. CASE r.dev[n].send_flag
        <4>1. WaitSend(r, n) = r
          BY <3>1 DEF WaitSend
        <4> QED
          BY <1>8, <2>1, <4>1 DEF TimerKind
      <3>2. CASE ~r.dev[n].send_flag
        <4>1. Exchange(s.dev[n], s.cal, n, fresh) /\ s.cal \in Calendars(Event)
          BY <1>6, <2>1 DEF Networks, Settled
        <4>2. Aligned(s.cal, n, 0)
          BY <1>4, <1>7, <2>1 DEF PhaseOf
        <4>3. /\ ~s.dev[n].wait_ack /\ s.dev[n].k = 1 /\ Free(r.cal, n)
              /\ \A t \in Delay : Sleep(r.cal, n, t) = {}
          BY <1>1, <1>5, <1>8, <2>1, <3>2, <4>1, <4>2, PopWaitFree
        <4>4. Resting(r, n, fx)
          BY <1>8, <3>2, <4>3 DEF Resting, Begins
        <4> QED
          BY <2>1, <4>4, WaitSendSettles
      <3> QED
        BY <3>1, <3>2
    <2> QED
      BY <1>9, <1>18, <2>2 DEF RunWaitSend, r, e
  <1>19. CASE RunAckCheck
    <2>1. e.kind = "AckCheck"
      BY <1>5, <1>19 DEF RunAckCheck, Calls
    <2>2. n \in Sensor /\ e.pkt \in Packet /\ e.peer \in Node
          /\ Woken(r, n, fx) /\ TimerFor(r.dev[n], n, e)
      BY <1>4, <1>10, <2>1 DEF HopKind, TimerKind
    <2>3. SameData(r.dev[n].m_txPacket, e.pkt) /\ ExpectsAck(n, e.peer)
      BY <2>1, <2>2 DEF TimerFor
    <2>4. PICK delay \in RandTimes(r.dev[n]) :
            Becomes(AckCheck(r, n, e.pkt, e.peer, delay))
      BY <1>2, <1>5, <1>8, <1>19 DEF RunAckCheck, r, e, s, Now
    <2>5. Settled(AckCheck(r, n, e.pkt, e.peer, delay), fx)
      BY <2>2, <2>3, AckCheckSettles
    <2> QED
      BY <1>9, <2>4, <2>5
  <1>20. CASE RunOriginalAckCheck
    <2>1. e.kind = "OriginalAckCheck"
      BY <1>5, <1>20 DEF RunOriginalAckCheck, Calls
    <2>2. n \in Sensor /\ e.pkt \in Packet
          /\ Woken(r, n, fx) /\ TimerFor(r.dev[n], n, e)
      BY <1>4, <1>10, <2>1 DEF OwnKind, TimerKind
    <2>3. /\ SameData(r.dev[n].m_txPacket, e.pkt)
          /\ n = 1 => r.dev[n].lack_flag
          /\ n = N => r.dev[n].rack_flag
      BY <2>1, <2>2 DEF TimerFor, OwnKind
    <2>4. PICK delay \in RandTimes(r.dev[n]) :
            Becomes(OriginalAckCheck(r, n, e.pkt, delay))
      BY <1>2, <1>5, <1>8, <1>20 DEF RunOriginalAckCheck, r, e, s, Now
    <2>5. Settled(OriginalAckCheck(r, n, e.pkt, delay), fx)
      BY <2>2, <2>3, OriginalAckCheckSettles
    <2> QED
      BY <1>9, <2>4, <2>5
  <1>21. CASE RunReSend
    <2>1. e.kind = "ReSend"
      BY <1>5, <1>21 DEF RunReSend, Calls
    <2>2. n \in Sensor /\ e.pkt \in Packet /\ e.peer \in Node
          /\ Woken(r, n, fx) /\ TimerFor(r.dev[n], n, e)
      BY <1>4, <1>10, <2>1 DEF HopKind, TimerKind
    <2>3. SameData(r.dev[n].m_txPacket, e.pkt) /\ ExpectsAck(n, e.peer)
      BY <2>1, <2>2 DEF TimerFor
    <2>4. Settled(ReSend(r, n, e.pkt, e.peer), fx)
      BY <2>2, <2>3, ReSendSettles
    <2> QED
      BY <1>9, <1>21, <2>4 DEF RunReSend, r, e
  <1>22. CASE RunReOriginalSend
    <2>1. e.kind = "ReOriginalSend"
      BY <1>5, <1>22 DEF RunReOriginalSend, Calls
    <2>2. n \in Sensor /\ e.pkt \in Packet
          /\ Woken(r, n, fx) /\ TimerFor(r.dev[n], n, e)
      BY <1>4, <1>10, <2>1 DEF OwnKind, TimerKind
    <2>3. /\ SameData(r.dev[n].m_txPacket, e.pkt)
          /\ n = 1 => r.dev[n].lack_flag
          /\ n = N => r.dev[n].rack_flag
      BY <2>1, <2>2 DEF TimerFor, OwnKind
    <2>4. Settled(ReOriginalSend(r, n, e.pkt), fx)
      BY <2>2, <2>3, ReOriginalSendSettles
    <2> QED
      BY <1>9, <1>22, <2>4 DEF RunReOriginalSend, r, e
  <1> QED
    BY <1>11, <1>12, <1>13, <1>14, <1>15, <1>16, <1>17, <1>18, <1>19, <1>20,
       <1>21, <1>22 DEF RunEvent
-----------------------------------------------------------------------------
(* The other actions.                                                      *)

LEMMA ArriveKeepsExchanges ==
  ASSUME IInv, Exchanges, NEW n \in Sensor, Arrive(n)
  PROVE  Exchanges'
  <1> DEFINE s == Now
             d == device[n]
             p == [type |-> "ORIGINAL_TRANSMISSION", osid |-> n, did |-> d.ndid]
             f == [d EXCEPT !.ndid = @ + 1]
             s1 == WithDevice(s, n, f)
             r == OriginalTransmission(s1, n, p)
             q == Enqueue(f.m_queue, p)
             g == [f EXCEPT !.m_queue = q]
  <1>1. /\ clock = 0 /\ fresh /\ fresh' = fresh /\ d.ndid <= MaxData[n]
        /\ device' = Originate(s, n).dev /\ calendar' = Originate(s, n).cal
    BY DEF Arrive
  <1>2. s.dev = device /\ s.cal = calendar /\ Settled(s, fresh) /\ n \in Node
    BY Line, ExchangesSettled DEF Now
  <1>3. /\ heard \in Histories /\ NextIdentities(device) \in Identities
        /\ clock \in Clocks /\ s \in Nets(heard, NextIdentities(device), clock)
    BY DEF IInv
  <1>4. Aligned(s.cal, n, 0)
    BY <1>1, <1>3, NetsAligned
  <1>5. d \in Device /\ s \in Networks /\ s.cal \in Calendars(Event)
        /\ Others(s, n, fresh) /\ Exchange(d, s.cal, n, fresh)
    BY <1>2 DEF Settled, Networks, Others
  <1>6. d.ndid \in DataId /\ d.ndid + 1 \in 1..(MaxDid + 1)
    <2>1. MaxData[n] \in 0..MaxDid /\ MaxDid \in Int
      BY ScenarioAssumption, LineAssumption
    <2>2. d.ndid \in 1..(MaxDid + 1)
      BY <1>5 DEF Device
    <2> HIDE DEF d
    <2> QED
      BY <1>1, <2>1, <2>2 DEF DataId
  <1>7. p \in Packet
    BY <1>6 DEF Packet, PacketType
  <1>8. /\ f \in Device /\ f.send_flag = d.send_flag /\ f.wait_ack = d.wait_ack
        /\ f.k = d.k /\ f.m_txPacket = d.m_txPacket
        /\ f.lack_flag = d.lack_flag /\ f.rack_flag = d.rack_flag
    <2> HIDE DEF d
    <2> QED
      BY <1>5, <1>6 DEF Device
  <1>9. Originate(s, n) = r
    BY <1>2 DEF Originate, WithDevice
  <1> HIDE DEF s, f
  <1>10. /\ s1 \in Networks /\ s1.cal = s.cal /\ s1.dev[n] = f
         /\ Others(s1, n, fresh) /\ Settled(s1, fresh)
    BY <1>2, <1>5, <1>8, WithDeviceNetwork, WithDeviceOthers, DeviceSettles
  <1> HIDE DEF s1, p
  <1>11. CASE d.send_flag \/ d.wait_ack
    <2>1. r = WithDevice(s1, n, g)
      BY <1>8, <1>10, <1>11 DEF OriginalTransmission
    <2>2. q \in Seq(Packet)
      <3>1. f.m_queue \in Seq(Packet)
        BY <1>8 DEF Device
      <3> QED
        BY <1>7, <3>1, QueuesOfPackets
    <2> HIDE DEF q
    <2>3. /\ g \in Device /\ g.send_flag = f.send_flag /\ g.wait_ack = f.wait_ack
          /\ g.k = f.k /\ g.m_txPacket = f.m_txPacket
          /\ g.lack_flag = f.lack_flag /\ g.rack_flag = f.rack_flag
      BY <1>8, <2>2 DEF Device
    <2> HIDE DEF g
    <2>4. Settled(WithDevice(s1, n, g), fresh)
      BY <1>2, <1>10, <2>3, DeviceSettles
    <2> HIDE DEF r
    <2> QED
      BY <1>1, <1>9, <2>1, <2>4, BecomesSettled
  <1>12. CASE ~(d.send_flag \/ d.wait_ack)
    <2>1. d.k = 1 /\ Free(s.cal, n) /\ \A t \in Delay : Sleep(s.cal, n, t) = {}
      <3> HIDE DEF d
      <3> QED
        BY <1>1, <1>4, <1>5, <1>12, QuietFree
    <2>2. Begins(s1, n, fresh)
      BY <1>10, <2>1 DEF Begins
    <2>3. /\ ~s1.dev[n].send_flag /\ ~s1.dev[n].wait_ack /\ s1.dev[n].k = 1
          /\ \A t \in Delay : Sleep(s1.cal, n, t) = {}
      BY <1>8, <1>10, <1>12, <2>1
    <2>4. Settled(r, fresh)
      BY <1>7, <2>2, <2>3, OriginalTransmissionSettles
    <2> HIDE DEF r
    <2> QED
      BY <1>1, <1>9, <2>4, BecomesSettled
  <1> QED
    BY <1>11, <1>12

LEMMA ReportKeepsExchanges ==
  ASSUME IInv, Exchanges, NEW g \in Gateway, Report(g)
  PROVE  Exchanges'
  <1>1. device \in [Node -> Device]
    BY DEF IInv, Nets, Devices, Now
  <1>2. ASSUME NEW n \in Sensor
        PROVE  device'[n] = device[n]
    <2>1. n # g /\ n \in Node
      BY LineAssumption DEF Gateway, Sensor, Node
    <2> QED
      BY <1>1, <2>1 DEF Report
  <1> QED
    BY <1>2 DEF Exchanges, Report

LEMMA TickKeepsExchanges ==
  ASSUME IInv, Exchanges, Tick
  PROVE  Exchanges'
  <1>1. PICK t \in 1..Second :
          /\ \A u \in 1..(t - 1) : ~IsInstant(u)
          /\ calendar' = Advance(calendar, t)
    BY DEF Tick
  <1>2. ~Due(calendar) /\ fresh' /\ device' = device
    BY DEF Tick
  <1>3. calendar \in Calendars(Event)
    BY DEF IInv, Nets, Agendas, Now
  <1>4. \A u \in 0..(t - 1) : calendar[u] = << >>
    BY <1>1, <1>2 DEF Due, IsInstant
  <1>5. ASSUME NEW n \in Sensor
        PROVE  Exchange(device[n], Advance(calendar, t), n, fresh')
    BY <1>2, <1>3, <1>4, AdvanceExchange DEF Exchanges
  <1> QED
    BY <1>1, <1>2, <1>5 DEF Exchanges

LEMMA InitExchanges == Init => Exchanges
  <1> SUFFICES ASSUME Init, NEW n \in Sensor
               PROVE  Exchange(device[n], calendar, n, fresh)
    BY DEF Exchanges
  <1>1. calendar = [t \in Delay |-> << >>] /\ device[n] = NewDevice
    BY Line DEF Init, EmptyCalendar
  <1>2. \A t \in Delay : \A K : At(calendar, K, n, t) = {}
    BY <1>1 DEF At
  <1>3. \A t \in Delay : /\ Fwd(calendar, n, t) = {} /\ Ack(calendar, n, t) = {}
                         /\ Timer(calendar, n, t) = {} /\ Sleep(calendar, n, t) = {}
                         /\ Wait(calendar, n, t) = {}
    BY <1>2 DEF Fwd, Ack, Timer, Sleep, Wait
  <1>4. /\ ~device[n].send_flag /\ ~device[n].wait_ack /\ device[n].k = 1
        /\ 1 <= Round + 1
    BY <1>1, LineAssumption DEF NewDevice
  <1> QED
    BY <1>3, <1>4 DEF Exchange, Timers, Sleeps, Replies, Waits, Backoff

LEMMA StepKeepsExchanges == IInv /\ Exchanges /\ [Next]_vars => Exchanges'
  <1> SUFFICES ASSUME IInv, Exchanges, [Next]_vars PROVE Exchanges'
    OBVIOUS
  <1>1. CASE UNCHANGED vars
    BY <1>1 DEF Exchanges, vars
  <1>2. CASE Next
    BY <1>2, ArriveKeepsExchanges, ReportKeepsExchanges, TickKeepsExchanges,
       EventKeepsExchanges DEF Next
  <1> QED
    BY <1>1, <1>2

LEMMA AlwaysExchanges == Spec => []Exchanges
  BY InitIInv, InitExchanges, StepKeepsIInv, StepKeepsExchanges, PTL DEF Spec
-----------------------------------------------------------------------------
(* The scheduled events of a kind, by their places. *)
LEMMA PendingPlaces ==
  ASSUME NEW cal \in Calendars(Event), NEW K, NEW n
  PROVE  /\ \A e \in Pending(cal, K, n) :
              /\ e[1] \in Delay /\ e[2] \in At(cal, K, n, e[1])
              /\ e = <<e[1], e[2]>> /\ Entry(cal, e) = cal[e[1]][e[2]]
         /\ \A t \in Delay : \A i \in At(cal, K, n, t) :
              <<t, i>> \in Pending(cal, K, n)
  <1>1. ASSUME NEW e \in Pending(cal, K, n)
        PROVE  /\ e[1] \in Delay /\ e[2] \in At(cal, K, n, e[1])
               /\ e = <<e[1], e[2]>> /\ Entry(cal, e) = cal[e[1]][e[2]]
    <2>1. PICK t \in Delay : e \in {t} \X (1..Len(cal[t]))
      BY DEF Pending, Entries
    <2>2. e[1] = t /\ e[2] \in 1..Len(cal[t]) /\ e = <<e[1], e[2]>>
      BY <2>1
    <2> QED
      BY <2>1, <2>2 DEF Pending, Entry, At
  <1>2. ASSUME NEW t \in Delay, NEW i \in At(cal, K, n, t)
        PROVE  <<t, i>> \in Pending(cal, K, n)
    <2>1. i \in 1..Len(cal[t])
      BY DEF At
    <2>2. <<t, i>> \in {t} \X (1..Len(cal[t]))
      BY <2>1
    <2>3. <<t, i>> \in Entries(cal)
      BY <2>2 DEF Entries
    <2> QED
      BY <2>3 DEF Pending, Entry, At
  <1> QED
    BY <1>1, <1>2

LEMMA ExchangeOf ==
  ASSUME IInv, Exchanges, NEW n \in Sensor
  PROVE  Exchange(device[n], calendar, n, fresh) /\ calendar \in Calendars(Event)
  BY DEF Exchanges, IInv, Nets, Agendas, Now
-----------------------------------------------------------------------------
(* Stop and wait, on every line: a sensor awaits an acknowledgement        *)
(* exactly while one of its acknowledgement timers is scheduled, and never *)
(* has two, whatever it receives, forwards and retransmits meanwhile.      *)
THEOREM OneTimerPerExchange == Spec => []AwaitingHasOneTimer
  <1>1. ASSUME IInv, Exchanges PROVE AwaitingHasOneTimer
    <2> SUFFICES ASSUME NEW n \in Sensor
                 PROVE  Cardinality(Pending(calendar, TimerKind, n)) =
                          IF device[n].wait_ack THEN 1 ELSE 0
      BY DEF AwaitingHasOneTimer
    <2>1. calendar \in Calendars(Event) /\ Timers(device[n], calendar, n)
      BY <1>1, ExchangeOf DEF Exchange
    <2>2. CASE Pending(calendar, TimerKind, n) = {}
      <3>1. \A t \in Delay : Timer(calendar, n, t) = {}
        BY <2>1, <2>2, PendingPlaces DEF Timer
      <3>2. ~device[n].wait_ack
        BY <2>1, <3>1 DEF Timers
      <3> QED
        BY <2>2, <3>2, FS_EmptySet
    <2>3. CASE Pending(calendar, TimerKind, n) # {}
      <3>1. PICK e \in Pending(calendar, TimerKind, n) : TRUE
        BY <2>3
      <3>2. /\ e[1] \in Delay /\ e[2] \in Timer(calendar, n, e[1])
            /\ e = <<e[1], e[2]>>
        BY <2>1, PendingPlaces DEF Timer
      <3>3. /\ device[n].wait_ack
            /\ \A u \in Delay : \A j \in Timer(calendar, n, u) :
                 u = e[1] /\ j = e[2]
        BY <2>1, <3>2 DEF Timers
      <3>4. ASSUME NEW f \in Pending(calendar, TimerKind, n) PROVE f = e
        <4>1. /\ f[1] \in Delay /\ f[2] \in Timer(calendar, n, f[1])
              /\ f = <<f[1], f[2]>>
          BY <2>1, PendingPlaces DEF Timer
        <4> QED
          BY <3>2, <3>3, <4>1
      <3>5. Pending(calendar, TimerKind, n) = {e}
        BY <3>4
      <3> QED
        BY <3>3, <3>5, FS_Singleton
    <2> QED
      BY <2>2, <2>3
  <1> QED
    BY <1>1, AlwaysIInv, AlwaysExchanges, PTL

(* The timer of an exchange is for the packet in m_txPacket, which is      *)
(* therefore never null when Receive dereferences it on an IACK.           *)
THEOREM TimerMatchesPacket == Spec => []TimerIsForTxPacket
  <1>1. ASSUME IInv, Exchanges PROVE TimerIsForTxPacket
    <2> SUFFICES ASSUME NEW n \in Sensor,
                        NEW e \in Pending(calendar, TimerKind, n)
                 PROVE  /\ device[n].m_txPacket # NoPacket
                        /\ SameData(device[n].m_txPacket, Entry(calendar, e).pkt)
      BY DEF TimerIsForTxPacket
    <2>1. calendar \in Calendars(Event) /\ Timers(device[n], calendar, n)
      BY <1>1, ExchangeOf DEF Exchange
    <2>2. /\ e[1] \in Delay /\ e[2] \in Timer(calendar, n, e[1])
          /\ Entry(calendar, e) = calendar[e[1]][e[2]]
      BY <2>1, PendingPlaces DEF Timer
    <2> QED
      BY <2>1, <2>2 DEF Timers, TimerFor
  <1> QED
    BY <1>1, AlwaysIInv, AlwaysExchanges, PTL

(* send_flag is up from the acceptance of data until the last SetSleep of  *)
(* the sends, on every line: no SetSleep of an earlier send ends a later   *)
(* one, so no node is deaf for ever and none listens while it sends.       *)
THEOREM SendFlagCovers == Spec => []SendFlagCoversSending
  <1>1. ASSUME IInv, Exchanges PROVE SendFlagCoversSending
    <2> SUFFICES
          ASSUME NEW n \in Sensor
          PROVE  LET replies == Pending(calendar, {"AckSend", "Forwarding"}, n)
                     sleeps  == Pending(calendar, {"SetSleep"}, n)
                 IN  /\ device[n].send_flag => replies \cup sleeps # {}
                     /\ replies # {} => device[n].send_flag
                     /\ (\E e \in sleeps : e[1] > 0) => device[n].send_flag
      BY DEF SendFlagCoversSending
    <2> DEFINE replies == Pending(calendar, {"AckSend", "Forwarding"}, n)
               sleeps  == Pending(calendar, {"SetSleep"}, n)
    <2>1. /\ calendar \in Calendars(Event)
          /\ Sleeps(device[n], calendar, n, fresh)
          /\ Replies(device[n], calendar, n)
      BY <1>1, ExchangeOf DEF Exchange
    <2>2. \A t \in Delay : At(calendar, {"AckSend", "Forwarding"}, n, t) =
                             Ack(calendar, n, t) \cup Fwd(calendar, n, t)
      BY DEF At, Ack, Fwd
    <2>3. ASSUME device[n].send_flag PROVE replies \cup sleeps # {}
      <3>1. PICK t \in Delay :
              Sleep(calendar, n, t) # {} \/ Fwd(calendar, n, t) # {}
        BY <2>1, <2>3 DEF Sleeps
      <3>2. CASE Sleep(calendar, n, t) # {}
        <4>1. PICK i \in At(calendar, {"SetSleep"}, n, t) : TRUE
          BY <3>2 DEF Sleep
        <4> QED
          BY <2>1, <4>1, PendingPlaces
      <3>3. CASE Fwd(calendar, n, t) # {}
        <4>1. PICK i \in At(calendar, {"AckSend", "Forwarding"}, n, t) : TRUE
          BY <2>2, <3>3
        <4> QED
          BY <2>1, <4>1, PendingPlaces
      <3> QED
        BY <3>1, <3>2, <3>3
    <2>4. ASSUME NEW e \in replies PROVE device[n].send_flag
      <3>1. /\ e[1] \in Delay
            /\ e[2] \in At(calendar, {"AckSend", "Forwarding"}, n, e[1])
        BY <2>1, PendingPlaces
      <3>2. e[2] \in Ack(calendar, n, e[1]) => Fwd(calendar, n, e[1]) # {}
        BY <2>1, <3>1 DEF Replies
      <3> QED
        BY <2>1, <2>2, <3>1, <3>2 DEF Replies
    <2>5. ASSUME NEW e \in sleeps, e[1] > 0 PROVE device[n].send_flag
      <3>1. e[1] \in Delay /\ e[2] \in Sleep(calendar, n, e[1])
        BY <2>1, PendingPlaces DEF Sleep
      <3> QED
        BY <2>1, <2>5, <3>1 DEF Sleeps
    <2> QED
      BY <2>3, <2>4, <2>5
  <1> QED
    BY <1>1, AlwaysIInv, AlwaysExchanges, PTL

(* Back-off belongs to an exchange: k never passes Round + 1 and is 1      *)
(* outside one, so that no exchange starts with rounds already used up.    *)
THEOREM BackoffIsReset == Spec => []BackoffBelongsToExchange
  <1>1. ASSUME IInv, Exchanges PROVE BackoffBelongsToExchange
    BY <1>1, ExchangeOf DEF BackoffBelongsToExchange, Exchange, Backoff
  <1> QED
    BY <1>1, AlwaysIInv, AlwaysExchanges, PTL
-----------------------------------------------------------------------------
(***************************************************************************)
(* What the nodes receive and keep: the reception window, the              *)
(* acknowledgement flags and the queues.  A handler that sends leaves      *)
(* every reception and every other device alone, and its own device        *)
(* lawful; the handlers that receive are followed one by one.              *)
(***************************************************************************)

Check(cal, n, t) == At(cal, {"ReceiveCheck"}, n, t)
Recv(cal, n, t)  == At(cal, {"Receive"}, n, t)

(* The window of n is open exactly while its ReceiveCheck is scheduled,    *)
(* and the packet it yields is handled before another window opens.        *)
Window(d, cal, n) ==
  /\ \A t \in Delay : \A i \in Check(cal, n, t) :
        /\ d.receive_flag
        /\ \A u \in Delay : \A j \in Check(cal, n, u) : u = t /\ j = i
  /\ d.receive_flag => \E t \in Delay : Check(cal, n, t) # {}
  /\ d.receive_flag_1 => d.receive_flag
  /\ \A t \in Delay : \A i \in Recv(cal, n, t) :
        /\ t = 0 /\ ~d.receive_flag
        /\ \A j \in Recv(cal, n, t) : j = i

Distinct(q) == \A i, j \in 1..Len(q) : SameData(q[i], q[j]) => i = j

AckFlags(d, n) ==
  d.wait_ack =>
    /\ d.rack_flag => n = N \/ Data(d.m_txPacket) \in heard[Right(n)]
    /\ d.lack_flag => n = 1 \/ Data(d.m_txPacket) \in heard[Left(n)]

Lawful(d, n) == Distinct(d.m_queue) /\ (n \in Sensor => AckFlags(d, n))

Laws(s) ==
  \A n \in Node : Window(s.dev[n], s.cal, n) /\ Lawful(s.dev[n], n)

SameFlags(d, f) ==
  f.receive_flag = d.receive_flag /\ f.receive_flag_1 = d.receive_flag_1

SameReceptions(c, f) ==
  \A m : \A u \in Delay : /\ Check(f, m, u) = Check(c, m, u)
                          /\ Recv(f, m, u) = Recv(c, m, u)

(* From r, node n has acted and the network is s.                          *)
Acts(r, s, n) ==
  /\ s \in Networks
  /\ \A m \in Node \ {n} : s.dev[m] = r.dev[m]
  /\ SameReceptions(r.cal, s.cal)
  /\ SameFlags(r.dev[n], s.dev[n]) /\ Lawful(s.dev[n], n)
-----------------------------------------------------------------------------
(* Queues.                                                                 *)

LEMMA DistinctTail ==
  ASSUME NEW q \in Seq(Packet), q # << >>, Distinct(q)
  PROVE  /\ Tail(q) \in Seq(Packet) /\ Head(q) \in Packet
         /\ Distinct(Tail(q))
         /\ \A x : SameData(x, Head(q)) => ~Queued(Tail(q), x)
  <1> DEFINE t == Tail(q)
  <1>1. /\ t \in Seq(Packet) /\ Head(q) \in Packet /\ Len(q) \in Nat \ {0}
        /\ Len(t) = Len(q) - 1 /\ Head(q) = q[1]
        /\ \A i \in 1..Len(t) : t[i] = q[i + 1]
    BY HeadTailProperties
  <1> HIDE DEF t
  <1>2. \A i \in 1..Len(t) : i + 1 \in 1..Len(q) /\ i + 1 # 1
    BY <1>1
  <1>3. Distinct(t)
    BY <1>1, <1>2 DEF Distinct
  <1>4. ASSUME NEW x, SameData(x, Head(q)) PROVE ~Queued(t, x)
    <2> SUFFICES ASSUME NEW i \in 1..Len(t), SameData(t[i], x) PROVE FALSE
      BY DEF Queued
    <2>1. SameData(q[i + 1], q[1])
      BY <1>1, <1>4 DEF SameData
    <2> QED
      BY <1>1, <1>2, <2>1 DEF Distinct
  <1> QED
    BY <1>1, <1>3, <1>4 DEF t

LEMMA DistinctAppend ==
  ASSUME NEW q \in Seq(Packet), NEW p \in Packet, Distinct(q), ~Queued(q, p)
  PROVE  Append(q, p) \in Seq(Packet) /\ Distinct(Append(q, p))
  <1> DEFINE a == Append(q, p)
  <1>1. /\ a \in Seq(Packet) /\ Len(q) \in Nat /\ Len(a) = Len(q) + 1
        /\ \A i \in 1..Len(q) : a[i] = q[i]
        /\ a[Len(q) + 1] = p
    BY AppendProperties
  <1> HIDE DEF a
  <1>2. \A i \in 1..Len(a) : i \in 1..Len(q) \/ i = Len(q) + 1
    BY <1>1
  <1>3. \A i \in 1..Len(q) : ~SameData(q[i], p) /\ ~SameData(p, q[i])
    BY DEF Queued, SameData
  <1>4. Distinct(a)
    BY <1>1, <1>2, <1>3 DEF Distinct
  <1> QED
    BY <1>1, <1>4 DEF a

LEMMA DistinctOperations ==
  ASSUME NEW q \in Seq(Packet), NEW p \in Packet, Distinct(q)
  PROVE  /\ QueueCheck(q, p) \in Seq(Packet) /\ Distinct(QueueCheck(q, p))
         /\ DequeueIfHead(q, p) \in Seq(Packet) /\ Distinct(DequeueIfHead(q, p))
         /\ ~Queued(q, p) => /\ Enqueue(q, p) \in Seq(Packet)
                             /\ Distinct(Enqueue(q, p))
  <1>1. ASSUME ~Queued(q, p)
        PROVE  Enqueue(q, p) \in Seq(Packet) /\ Distinct(Enqueue(q, p))
    <2> DEFINE a == Append(q, p)
    <2>1. a \in Seq(Packet) /\ Distinct(a)
      BY <1>1, DistinctAppend
    <2>2. Enqueue(q, p) \in {q, a}
      BY DEF Enqueue
    <2> HIDE DEF a
    <2> QED
      BY <2>1, <2>2
  <1>2. QueueCheck(q, p) \in Seq(Packet) /\ Distinct(QueueCheck(q, p))
    BY <1>1 DEF QueueCheck
  <1>3. DequeueIfHead(q, p) \in Seq(Packet) /\ Distinct(DequeueIfHead(q, p))
    <2>1. CASE q = << >>
      BY <2>1 DEF DequeueIfHead
    <2>2. CASE q # << >>
      <3> DEFINE t == Tail(q)
      <3>1. t \in Seq(Packet) /\ Distinct(t)
        BY <2>2, DistinctTail
      <3>2. DequeueIfHead(q, p) \in {q, t}
        BY DEF DequeueIfHead
      <3> HIDE DEF t
      <3> QED
        BY <3>1, <3>2
    <2> QED
      BY <2>1, <2>2
  <1> QED
    BY <1>1, <1>2, <1>3
-----------------------------------------------------------------------------
(* Building blocks.                                                        *)

LEMMA ActsDevice ==
  ASSUME NEW r, NEW s, NEW n \in Node, Acts(r, s, n),
         NEW d \in Device, SameFlags(s.dev[n], d), Lawful(d, n)
  PROVE  /\ Acts(r, WithDevice(s, n, d), n)
         /\ WithDevice(s, n, d).dev[n] = d /\ WithDevice(s, n, d).cal = s.cal
  <1> DEFINE t == WithDevice(s, n, d)
  <1>1. /\ t \in Networks /\ t.cal = s.cal /\ t.dev[n] = d
        /\ \A m \in Node \ {n} : t.dev[m] = s.dev[m]
    BY WithDeviceNetwork DEF Acts
  <1> HIDE DEF t
  <1>2. Acts(r, t, n)
    BY <1>1 DEF Acts, SameFlags
  <1> QED
    BY <1>1, <1>2 DEF t

LEMMA PostReceptions ==
  ASSUME NEW cal \in Calendars(Event), NEW t \in Delay, NEW e \in Event,
         e.kind \notin {"ReceiveCheck", "Receive"}
  PROVE  SameReceptions(cal, Post(cal, t, e))
  <1>1. ASSUME NEW K, e.kind \notin K, NEW m, NEW u \in Delay
        PROVE  At(Post(cal, t, e), K, m, u) = At(cal, K, m, u)
    <2>1. At(Post(cal, t, e), K, m, u) =
            At(cal, K, m, u) \cup
            (IF u = t /\ e.kind \in K /\ e.node = m
             THEN {Len(cal[t]) + 1} ELSE {})
      BY PostPlaces
    <2> QED
      BY <1>1, <2>1
  <1> QED
    BY <1>1 DEF SameReceptions, Check, Recv

LEMMA ActsPost ==
  ASSUME NEW r, NEW s, NEW n \in Node, Acts(r, s, n), NEW t \in Delay,
         NEW e \in Event, e.kind \notin {"ReceiveCheck", "Receive"}
  PROVE  Acts(r, PostOn(s, t, e), n) /\ PostOn(s, t, e).dev = s.dev
  <1> DEFINE q == PostOn(s, t, e)
  <1>1. /\ q \in Networks /\ q.dev = s.dev /\ q.cal = Post(s.cal, t, e)
        /\ s.cal \in Calendars(Event)
    BY PostOnNetwork DEF Acts
  <1>2. SameReceptions(s.cal, q.cal)
    BY <1>1, PostReceptions
  <1> HIDE DEF q
  <1>3. Acts(r, q, n)
    BY <1>1, <1>2 DEF Acts, SameReceptions
  <1> QED
    BY <1>1, <1>3 DEF q

LEMMA ActsHasDevice ==
  ASSUME NEW r, NEW s, NEW n \in Node, Acts(r, s, n)
  PROVE  /\ s.dev[n] \in Device /\ s.dev[n].m_queue \in Seq(Packet)
         /\ s = [dev |-> s.dev, cal |-> s.cal] /\ s.dev \in [Node -> Device]
         /\ Lawful(s.dev[n], n)
  BY DEF Acts, Networks, Device

LEMMA ChannelSendActs ==
  ASSUME NEW r, NEW s, NEW n \in Sensor, Acts(r, s, n),
         NEW p \in Packet, NEW to \in Node
  PROVE  /\ Acts(r, ChannelSend(s, n, p, to), n)
         /\ ChannelSend(s, n, p, to).dev = s.dev
  <1> DEFINE a == Hop("ReceiveStart", to, p, n)
             b == Bare("SetSleep", n)
             s1 == PostOn(s, 0, a)
  <1>1. /\ a \in Event /\ a.kind = "ReceiveStart"
        /\ b \in Event /\ b.kind = "SetSleep"
    BY DEF Hop, Bare, Event, RadioEvent, RadioKind, BareEvent, BareKind
  <1>2. 0 \in Delay /\ Second \in Delay /\ n \in Node
    BY Delays, Line
  <1> HIDE DEF a, b
  <1>3. Acts(r, s1, n) /\ s1.dev = s.dev
    BY <1>1, <1>2, ActsPost
  <1> HIDE DEF s1
  <1>4. Acts(r, PostOn(s1, Second, b), n) /\ PostOn(s1, Second, b).dev = s1.dev
    BY <1>1, <1>2, <1>3, ActsPost
  <1> QED
    BY <1>3, <1>4 DEF ChannelSend, s1, a, b

(* send_flag goes up. *)
LEMMA AwakeDevice ==
  ASSUME NEW n, NEW d \in Device, Lawful(d, n)
  PROVE  LET f == [d EXCEPT !.send_flag = TRUE]
         IN  /\ f \in Device /\ SameFlags(d, f) /\ Lawful(f, n)
             /\ f.wait_ack = d.wait_ack /\ f.m_queue = d.m_queue
             /\ f.txarray = d.txarray /\ f.m_txPacket = d.m_txPacket
             /\ f.rack_flag = d.rack_flag /\ f.lack_flag = d.lack_flag
  BY DEF Device, SameFlags, Lawful, AckFlags

LEMMA AckSendActs ==
  ASSUME NEW r, NEW s, NEW n \in Sensor, Acts(r, s, n),
         NEW p \in Packet, NEW to \in Node
  PROVE  Acts(r, AckSend(s, n, p, to), n)
  <1> DEFINE d == s.dev[n]
             f == [d EXCEPT !.send_flag = TRUE]
             t == WithDevice(s, n, f)
  <1>1. n \in Node /\ d \in Device /\ Lawful(d, n)
    BY Line, ActsHasDevice
  <1>2. f \in Device /\ SameFlags(d, f) /\ Lawful(f, n)
    <2> HIDE DEF d
    <2> QED
      BY <1>1, AwakeDevice
  <1> HIDE DEF f
  <1>3. Acts(r, t, n)
    BY <1>1, <1>2, ActsDevice
  <1> HIDE DEF t
  <1>4. As(p, "IACK") \in Packet
    BY AsKeepsData DEF PacketType
  <1>5. Acts(r, ChannelSend(t, n, As(p, "IACK"), to), n)
    BY <1>3, <1>4, ChannelSendActs
  <1> QED
    BY <1>5 DEF AckSend, WithDevice, t, f
-----------------------------------------------------------------------------
(* The handlers that send.                                                 *)

LEMMA WaitAckActs ==
  ASSUME NEW r, NEW s, NEW n \in Sensor, Acts(r, s, n),
         NEW p \in Packet, NEW to \in Node
  PROVE  Acts(r, WaitAck(s, n, p, to), n)
  <1> DEFINE d == s.dev[n]
             d0 == [d EXCEPT !.lack_flag = FALSE, !.rack_flag = FALSE]
             d1 == [d0 EXCEPT !.wait_ack = TRUE]
             d2 == [d0 EXCEPT !.m_txPacket = NoPacket]
             a == Hop("AckCheck", n, p, to)
             b == Bare("WaitSend", n)
             s1 == WithDevice(s, n, d1)
             s2 == WithDevice(s, n, d2)
  <1>1. n \in Node /\ d \in Device /\ Lawful(d, n) /\ 2 * Second \in Delay
    BY Line, Delays, ActsHasDevice
  <1>2. /\ d1 \in Device /\ SameFlags(d, d1) /\ Lawful(d1, n)
        /\ d2 \in Device /\ SameFlags(d, d2) /\ Lawful(d2, n)
    <2> HIDE DEF d
    <2> QED
      BY <1>1 DEF Device, SameFlags, Lawful, AckFlags
  <1>3. /\ a \in Event /\ a.kind = "AckCheck"
        /\ b \in Event /\ b.kind = "WaitSend"
    BY DEF Hop, Bare, Event, HopEvent, HopKind, BareEvent, BareKind
  <1>4. WaitAck(s, n, p, to) = IF ExpectsAck(n, to)
                               THEN PostOn(s1, 2 * Second, a)
                               ELSE PostOn(s2, 2 * Second, b)
    BY DEF WaitAck
  <1> HIDE DEF d1, d2, a, b
  <1>5. Acts(r, s1, n) /\ Acts(r, s2, n)
    BY <1>1, <1>2, ActsDevice
  <1> HIDE DEF s1, s2
  <1>6. Acts(r, PostOn(s1, 2 * Second, a), n) /\ Acts(r, PostOn(s2, 2 * Second, b), n)
    BY <1>1, <1>3, <1>5, ActsPost
  <1> QED
    BY <1>4, <1>6

LEMMA OriginalWaitAckActs ==
  ASSUME NEW r, NEW s, NEW n \in Sensor, Acts(r, s, n), NEW p \in Packet
  PROVE  Acts(r, OriginalWaitAck(s, n, p), n)
  <1> DEFINE d == s.dev[n]
             f == [d EXCEPT !.wait_ack = TRUE, !.lack_flag = (n = 1),
                            !.rack_flag = (n = N)]
             t == WithDevice(s, n, f)
             a == Own("OriginalAckCheck", n, p)
  <1>1. /\ n \in Node /\ d \in Device /\ Lawful(d, n) /\ 3 * Second \in Delay
        /\ s = [dev |-> s.dev, cal |-> s.cal] /\ s.dev \in [Node -> Device]
    BY Line, Delays, ActsHasDevice
  <1>2. f \in Device /\ SameFlags(d, f) /\ Lawful(f, n)
    <2> HIDE DEF d
    <2> QED
      BY <1>1 DEF Device, SameFlags, Lawful, AckFlags
  <1>3. a \in Event /\ a.kind = "OriginalAckCheck"
    BY DEF Own, Event, OwnEvent, OwnKind
  <1>4. OriginalWaitAck(s, n, p) = PostOn(t, 3 * Second, a)
    <2>1. [s EXCEPT !.dev[n].wait_ack = TRUE, !.dev[n].lack_flag = (n = 1),
                    !.dev[n].rack_flag = (n = N)] = [s EXCEPT !.dev[n] = f]
      BY <1>1
    <2> QED
      BY <2>1 DEF OriginalWaitAck, WithDevice
  <1> HIDE DEF f, a
  <1>5. Acts(r, t, n)
    BY <1>1, <1>2, ActsDevice
  <1> HIDE DEF t
  <1>6. Acts(r, PostOn(t, 3 * Second, a), n)
    BY <1>1, <1>3, <1>5, ActsPost
  <1> QED
    BY <1>4, <1>6

LEMMA ForwardingActs ==
  ASSUME NEW r, NEW s, NEW n \in Sensor, Acts(r, s, n), ~s.dev[n].wait_ack,
         NEW p \in Packet, NEW to \in Node
  PROVE  Acts(r, Forwarding(s, n, p, to), n)
  <1> DEFINE d == s.dev[n]
             f == As(p, "FORWARDING")
             d0 == [d EXCEPT !.send_flag = TRUE]
             d1 == [d0 EXCEPT !.txarray = Data(p), !.m_txPacket = f]
             s1 == WithDevice(s, n, d1)
             s2 == ChannelSend(s1, n, f, to)
  <1>1. n \in Node /\ d \in Device /\ Lawful(d, n) /\ ~d.wait_ack
    BY Line, ActsHasDevice
  <1>2. f \in Packet /\ Data(p) \in (0..N) \X (0..MaxDid)
    BY DataOfPacket DEF PacketType
  <1>3. d0.txarray = d.txarray /\ d1 \in Device /\ SameFlags(d, d1) /\ Lawful(d1, n)
    <2> HIDE DEF d, f
    <2> QED
      BY <1>1, <1>2 DEF Device, SameFlags, Lawful, AckFlags
  <1>4. Forwarding(s, n, p, to) = IF d.txarray = Data(p)
                                  THEN AckSend(s, n, p, to)
                                  ELSE WaitAck(s2, n, f, to)
    BY <1>3 DEF Forwarding
  <1> HIDE DEF f, d1
  <1>5. Acts(r, s1, n)
    BY <1>1, <1>3, ActsDevice
  <1> HIDE DEF s1
  <1>6. Acts(r, s2, n)
    BY <1>2, <1>5, ChannelSendActs
  <1> HIDE DEF s2
  <1>7. Acts(r, WaitAck(s2, n, f, to), n)
    BY <1>2, <1>6, WaitAckActs
  <1>8. Acts(r, AckSend(s, n, p, to), n)
    BY AckSendActs
  <1> QED
    BY <1>4, <1>7, <1>8

LEMMA OriginalTransmissionActs ==
  ASSUME NEW r, NEW s, NEW n \in Sensor, Acts(r, s, n),
         NEW p \in Packet, ~Queued(s.dev[n].m_queue, p)
  PROVE  Acts(r, OriginalTransmission(s, n, p), n)
  <1> DEFINE d == s.dev[n]
             q == d.m_queue
             a == Append(q, p)
             x == Head(a)
             e == [d EXCEPT !.m_queue = Enqueue(@, p)]
             f == [d EXCEPT !.send_flag = TRUE, !.m_queue = Tail(a),
                            !.m_txPacket = x, !.txarray = <<n, d.ndid - 1>>]
             s0 == WithDevice(s, n, e)
             s1 == WithDevice(s, n, f)
             s2 == ChannelSend(s1, n, x, Right(n))
             s3 == ChannelSend(s2, n, x, Left(n))
  <1>1. /\ n \in Node /\ d \in Device /\ Lawful(d, n) /\ q \in Seq(Packet)
        /\ Left(n) \in Node /\ Right(n) \in Node /\ Distinct(q) /\ ~Queued(q, p)
    BY Line, ActsHasDevice DEF Lawful
  <1>2. OriginalTransmission(s, n, p) =
          IF d.send_flag \/ d.wait_ack \/ Len(d.m_queue) >= MaxPackets
          THEN s0 ELSE OriginalWaitAck(s3, n, x)
    BY DEF OriginalTransmission
  <1>3. Enqueue(q, p) \in Seq(Packet) /\ Distinct(Enqueue(q, p))
    BY <1>1, DistinctOperations
  <1>4. x \in Packet /\ Tail(a) \in Seq(Packet) /\ Distinct(Tail(a))
    <2>1. a \in Seq(Packet) /\ Distinct(a) /\ a # << >>
      BY <1>1, DistinctAppend, AppendProperties
    <2> HIDE DEF a
    <2> QED
      BY <2>1, DistinctTail
  <1>5. <<n, d.ndid - 1>> \in (0..N) \X (0..MaxDid)
    <2>1. d.ndid \in 1..(MaxDid + 1) /\ MaxDid \in Int
      BY <1>1, LineAssumption DEF Device
    <2> QED
      BY <2>1, Line DEF Sensor
  <1> HIDE DEF x, a
  <1>6. Acts(r, s0, n)
    <2> DEFINE qe == Enqueue(q, p)
               ee == [d EXCEPT !.m_queue = qe]
    <2>1. e = ee
      OBVIOUS
    <2> HIDE DEF e, qe
    <2>2. ee \in Device /\ SameFlags(d, ee) /\ Lawful(ee, n)
      <3> HIDE DEF d
      <3>1. qe \in Seq(Packet) /\ Distinct(qe)
        BY <1>3 DEF qe
      <3> QED
        BY <1>1, <3>1 DEF Device, SameFlags, Lawful, AckFlags
    <2> HIDE DEF ee
    <2> QED
      BY <1>1, <2>1, <2>2, ActsDevice
  <1>7. ASSUME ~d.wait_ack
        PROVE  Acts(r, OriginalWaitAck(s3, n, x), n)
    <2>1. f \in Device /\ SameFlags(d, f) /\ Lawful(f, n)
      <3> HIDE DEF d
      <3> QED
        BY <1>1, <1>4, <1>5, <1>7 DEF Device, SameFlags, Lawful, AckFlags
    <2> HIDE DEF f
    <2>2. Acts(r, s1, n)
      BY <1>1, <2>1, ActsDevice
    <2> HIDE DEF s1
    <2>3. Acts(r, s2, n)
      BY <1>1, <1>4, <2>2, ChannelSendActs
    <2> HIDE DEF s2
    <2>4. Acts(r, s3, n)
      BY <1>1, <1>4, <2>3, ChannelSendActs
    <2> HIDE DEF s3
    <2> QED
      BY <1>4, <2>4, OriginalWaitAckActs
  <1> QED
    BY <1>2, <1>6, <1>7
(* A node without an exchange takes the next packet of its queue.          *)
LEMMA WaitSendActs ==
  ASSUME NEW r, NEW s, NEW n \in Sensor, Acts(r, s, n), ~s.dev[n].wait_ack
  PROVE  Acts(r, WaitSend(s, n), n)
  <1> DEFINE d == s.dev[n]
             q == d.m_queue
             p == Relabelled(n, Head(q))
             f == [d EXCEPT !.m_queue = Tail(@), !.m_txPacket = p]
             t == WithDevice(s, n, f)
             o == [p EXCEPT !.osid = n]
  <1>1. /\ n \in Node /\ d \in Device /\ Lawful(d, n) /\ q \in Seq(Packet)
        /\ Left(n) \in Node /\ Right(n) \in Node /\ Distinct(q) /\ ~d.wait_ack
    BY Line, ActsHasDevice DEF Lawful
  <1>2. WaitSend(s, n) =
          IF d.send_flag \/ q = << >> THEN s
          ELSE IF p.type = "ORIGINAL_TRANSMISSION"
          THEN OriginalTransmission(t, n, o)
          ELSE IF p.osid > n
          THEN AckSend(Forwarding(t, n, p, Left(n)), n, p, Right(n))
          ELSE AckSend(Forwarding(t, n, p, Right(n)), n, p, Left(n))
    BY DEF WaitSend
  <1>3. CASE q = << >>
    BY <1>2, <1>3
  <1>4. CASE q # << >>
    <2>1. /\ Head(q) \in Packet /\ Tail(q) \in Seq(Packet) /\ Distinct(Tail(q))
          /\ \A x : SameData(x, Head(q)) => ~Queued(Tail(q), x)
      BY <1>1, <1>4, DistinctTail
    <2>2. /\ p \in Packet /\ SameData(p, Head(q))
          /\ p.type = "ORIGINAL_TRANSMISSION" => p.osid = n
      <3> DEFINE h == Head(q)
      <3>1. h \in Packet
        BY <2>1
      <3> HIDE DEF h
      <3>2. LET x == Relabelled(n, h)
            IN  /\ x \in Packet /\ SameData(x, h)
                /\ x.type = "ORIGINAL_TRANSMISSION" => x.osid = n
        BY <3>1 DEF Relabelled, As, Packet, PacketType, SameData
      <3> QED
        BY <3>2 DEF h
    <2> DEFINE z == Tail(q)
    <2>3. z \in Seq(Packet) /\ Distinct(z)
      BY <2>1
    <2>4. p.type = "ORIGINAL_TRANSMISSION" =>
            o \in Packet /\ ~Queued(z, o)
      <3>1. ASSUME p.osid = n PROVE o = p
        <4> HIDE DEF p
        <4> QED
          BY <2>2, <3>1 DEF Packet
      <3> QED
        BY <2>1, <2>2, <3>1
    <2>5. f = [d EXCEPT !.m_queue = z, !.m_txPacket = p]
      OBVIOUS
    <2> HIDE DEF p, z, o
    <2>6. f \in Device /\ SameFlags(d, f) /\ Lawful(f, n) /\ ~f.wait_ack /\ f.m_queue = z
      <3> DEFINE g == [d EXCEPT !.m_queue = z, !.m_txPacket = p]
      <3>1. g \in Device /\ SameFlags(d, g) /\ Lawful(g, n) /\ ~g.wait_ack /\ g.m_queue = z
        <4> HIDE DEF d
        <4> QED
          BY <1>1, <2>2, <2>3 DEF Device, SameFlags, Lawful, AckFlags
      <3> QED
        BY <2>5, <3>1
    <2> HIDE DEF f
    <2>7. Acts(r, t, n) /\ t.dev[n] = f
      BY <1>1, <2>6, ActsDevice
    <2> HIDE DEF t
    <2>8. p.type = "ORIGINAL_TRANSMISSION" => Acts(r, OriginalTransmission(t, n, o), n)
      BY <2>4, <2>6, <2>7, OriginalTransmissionActs
    <2>9. ASSUME NEW a \in Node, NEW b \in Node
          PROVE  Acts(r, AckSend(Forwarding(t, n, p, a), n, p, b), n)
      <3>1. Acts(r, Forwarding(t, n, p, a), n)
        BY <2>2, <2>6, <2>7, ForwardingActs
      <3> QED
        BY <2>2, <3>1, AckSendActs
    <2> QED
      BY <1>1, <1>2, <2>8, <2>9
  <1> QED
    BY <1>3, <1>4
-----------------------------------------------------------------------------
(* The timers of an exchange.                                              *)

LEMMA ConcludeActs ==
  ASSUME NEW r, NEW s, NEW n \in Sensor, Acts(r, s, n),
         NEW d \in Device, SameFlags(s.dev[n], d), Distinct(d.m_queue)
  PROVE  Acts(r, Conclude(s, n, d), n)
  <1> DEFINE f == Concluded(d)
             t == WithDevice(s, n, f)
  <1>1. n \in Node
    BY Line
  <1>2. f \in Device /\ SameFlags(d, f) /\ Lawful(f, n) /\ ~f.wait_ack
    <2> DEFINE g == [d EXCEPT !.wait_ack = FALSE, !.m_txPacket = NoPacket]
    <2>1. /\ g \in Device /\ ~g.wait_ack /\ SameFlags(d, g)
          /\ g.m_queue = d.m_queue
      BY DEF Device, SameFlags
    <2>2. f = [g EXCEPT !.k = 1]
      BY DEF Device, Concluded
    <2> HIDE DEF g, f
    <2>3. f \in Device
      BY <2>1, <2>2, DeviceRounds
    <2>4. ~f.wait_ack /\ SameFlags(g, f) /\ f.m_queue = g.m_queue
      BY <2>1, <2>2 DEF Device, SameFlags
    <2> QED
      BY <2>1, <2>3, <2>4 DEF SameFlags, Lawful, AckFlags
  <1> HIDE DEF f
  <1>3. SameFlags(s.dev[n], f)
    BY <1>2 DEF SameFlags
  <1>4. Acts(r, t, n) /\ t.dev[n] = f
    BY <1>1, <1>2, <1>3, ActsDevice
  <1> HIDE DEF t
  <1>5. Acts(r, WaitSend(t, n), n)
    BY <1>2, <1>4, WaitSendActs
  <1> QED
    BY <1>5 DEF Conclude, t, f

LEMMA RetryActs ==
  ASSUME NEW r, NEW s, NEW n \in Sensor, Acts(r, s, n),
         NEW delay \in RandTimes(s.dev[n]),
         NEW retry \in Event, retry.kind \in TimerKind,
         NEW gaveUp, Acts(r, gaveUp, n)
  PROVE  Acts(r, RetryOr(gaveUp, s, n, delay, retry), n)
  <1> DEFINE d == s.dev[n]
             f == AfterRandTime(d)
             t == WithDevice(s, n, f)
             b == delay * Second
  <1>1. n \in Node /\ d \in Device /\ Lawful(d, n) /\ d.k \in Nat \ {0}
    BY Line, ActsHasDevice DEF Device
  <1>2. CASE delay = GiveUp
    BY <1>2 DEF RetryOr
  <1>3. CASE delay # GiveUp
    <2>1. b \in Delay
      BY <1>1, <1>3, BackoffFits
    <2>2. ~(d.k > Round)
      BY <1>3 DEF RandTimes
    <2>3. f \in Device /\ SameFlags(d, f) /\ Lawful(f, n)
      <3> HIDE DEF d
      <3>1. f = [d EXCEPT !.k = d.k + 1] /\ d.k + 1 \in Nat \ {0}
        BY <1>1, <2>2 DEF AfterRandTime, Device
      <3> HIDE DEF f
      <3>2. f \in Device
        BY <1>1, <3>1, DeviceRounds
      <3> QED
        BY <1>1, <3>1, <3>2 DEF Device, SameFlags, Lawful, AckFlags
    <2> HIDE DEF f
    <2>4. Acts(r, t, n)
      BY <1>1, <2>3, ActsDevice
    <2> HIDE DEF t, b
    <2>5. Acts(r, PostOn(t, b, retry), n)
      BY <1>1, <2>1, <2>4, ActsPost DEF TimerKind
    <2> QED
      BY <1>3, <2>5 DEF RetryOr, t, b, f
  <1> QED
    BY <1>2, <1>3

(* Acknowledgement flags go down.                                          *)
LEMMA LoweredFlags ==
  ASSUME NEW n, NEW d \in Device, Lawful(d, n)
  PROVE  /\ LET f == [d EXCEPT !.rack_flag = FALSE, !.lack_flag = FALSE]
             IN  f \in Device /\ SameFlags(d, f) /\ Lawful(f, n)
         /\ \A to : LET f == ClearAck(d, n, to)
                    IN  f \in Device /\ SameFlags(d, f) /\ Lawful(f, n)
  BY DEF Device, SameFlags, Lawful, AckFlags, ClearAck

LEMMA AckCheckActs ==
  ASSUME NEW r, NEW s, NEW n \in Sensor, Acts(r, s, n),
         NEW p \in Packet, NEW to \in Node, NEW delay \in RandTimes(s.dev[n])
  PROVE  Acts(r, AckCheck(s, n, p, to, delay), n)
  <1> DEFINE d == s.dev[n]
             f == ClearAck(d, n, to)
             done == Conclude(s, n, f)
             e == Hop("ReSend", n, p, to)
  <1>1. n \in Node /\ d \in Device /\ Lawful(d, n)
    BY Line, ActsHasDevice
  <1>2. f \in Device /\ SameFlags(d, f) /\ Distinct(f.m_queue)
    BY <1>1, LoweredFlags DEF Lawful
  <1> HIDE DEF f
  <1>3. Acts(r, done, n)
    BY <1>2, ConcludeActs
  <1>4. e \in Event /\ e.kind = "ReSend"
    BY DEF Hop, Event, HopEvent, HopKind
  <1> HIDE DEF e, done
  <1>5. Acts(r, RetryOr(done, s, n, delay, e), n)
    BY <1>3, <1>4, RetryActs DEF TimerKind
  <1> QED
    BY <1>3, <1>5 DEF AckCheck, done, e, f

LEMMA OriginalAckCheckActs ==
  ASSUME NEW r, NEW s, NEW n \in Sensor, Acts(r, s, n),
         NEW p \in Packet, NEW delay \in RandTimes(s.dev[n])
  PROVE  Acts(r, OriginalAckCheck(s, n, p, delay), n)
  <1> DEFINE d == s.dev[n]
             done == Conclude(s, n, d)
             dn == [done.dev[n] EXCEPT !.rack_flag = FALSE, !.lack_flag = FALSE]
             none == [done EXCEPT !.dev[n].rack_flag = FALSE,
                                  !.dev[n].lack_flag = FALSE]
             db == [d EXCEPT !.rack_flag = FALSE, !.lack_flag = FALSE]
             both == Conclude(s, n, db)
             side == IF d.rack_flag THEN Left(n) ELSE Right(n)
             one == Hop("ReSend", n, p, side)
             all == Own("ReOriginalSend", n, p)
  <1>1. /\ n \in Node /\ d \in Device /\ Lawful(d, n)
        /\ Left(n) \in Node /\ Right(n) \in Node
    BY Line, ActsHasDevice
  <1>2. db \in Device /\ SameFlags(d, db) /\ Distinct(db.m_queue)
    BY <1>1, LoweredFlags DEF Lawful
  <1> HIDE DEF db
  <1>3. Acts(r, done, n) /\ Acts(r, both, n)
    BY <1>1, <1>2, ConcludeActs DEF Lawful, SameFlags
  <1>4. /\ one \in Event /\ one.kind = "ReSend"
        /\ all \in Event /\ all.kind = "ReOriginalSend"
    BY <1>1 DEF Hop, Own, Event, HopEvent, HopKind, OwnEvent, OwnKind
  <1>5. OriginalAckCheck(s, n, p, delay) =
           IF d.rack_flag /\ d.lack_flag THEN both
           ELSE IF d.rack_flag \/ d.lack_flag
           THEN RetryOr(done, s, n, delay, one)
           ELSE RetryOr(none, s, n, delay, all)
    BY DEF OriginalAckCheck, db
  <1> HIDE DEF one, all, done, both
  <1>6. Acts(r, none, n)
    <2>1. /\ done.dev[n] \in Device /\ Lawful(done.dev[n], n)
          /\ done = [dev |-> done.dev, cal |-> done.cal]
          /\ done.dev \in [Node -> Device]
      BY <1>1, <1>3, ActsHasDevice
    <2>2. dn \in Device /\ SameFlags(done.dev[n], dn) /\ Lawful(dn, n)
      BY <2>1, LoweredFlags
    <2>3. none = WithDevice(done, n, dn)
      <3>1. none = [done EXCEPT !.dev[n] = dn]
        BY <1>1, <2>1
      <3> QED
        BY <3>1 DEF WithDevice
    <2> HIDE DEF dn, none
    <2> QED
      BY <1>1, <1>3, <2>2, <2>3, ActsDevice
  <1> HIDE DEF none
  <1>7. /\ Acts(r, RetryOr(done, s, n, delay, one), n)
        /\ Acts(r, RetryOr(none, s, n, delay, all), n)
    BY <1>3, <1>4, <1>6, RetryActs DEF TimerKind
  <1> QED
    BY <1>3, <1>5, <1>7

LEMMA ReSendActs ==
  ASSUME NEW r, NEW s, NEW n \in Sensor, Acts(r, s, n),
         NEW p \in Packet, NEW to \in Node
  PROVE  Acts(r, ReSend(s, n, p, to), n)
  <1> DEFINE d == s.dev[n]
             f == As(p, "FORWARDING")
             a == As(p, "IACK")
             back == Opposite(n, to)
             d1 == [d EXCEPT !.send_flag = TRUE]
             s1 == WithDevice(s, n, d1)
             s2 == ChannelSend(s1, n, a, back)
             s3 == ChannelSend(s2, n, f, to)
             dc == ClearAck(d, n, to)
  <1>1. n \in Node /\ d \in Device /\ Lawful(d, n)
    BY Line, ActsHasDevice
  <1>2. Acts(r, Conclude(s, n, dc), n)
    <2>1. dc \in Device /\ SameFlags(d, dc) /\ Distinct(dc.m_queue)
      BY <1>1, LoweredFlags DEF Lawful
    <2> HIDE DEF dc
    <2> QED
      BY <2>1, ConcludeActs
  <1>3. d1 \in Device /\ SameFlags(d, d1) /\ Lawful(d1, n)
    BY <1>1, AwakeDevice
  <1>4. f \in Packet /\ a \in Packet /\ back \in Node
    BY Line, AsKeepsData DEF Opposite, PacketType
  <1>5. ReSend(s, n, p, to) = IF Acked(d, n, to) THEN Conclude(s, n, dc)
                              ELSE WaitAck(s3, n, f, to)
    BY DEF ReSend, WithDevice
  <1> HIDE DEF d1, f, a, back, dc
  <1>6. Acts(r, s1, n)
    BY <1>1, <1>3, ActsDevice
  <1> HIDE DEF s1
  <1>7. Acts(r, s2, n)
    BY <1>4, <1>6, ChannelSendActs
  <1> HIDE DEF s2
  <1>8. Acts(r, s3, n)
    BY <1>4, <1>7, ChannelSendActs
  <1> HIDE DEF s3
  <1>9. Acts(r, WaitAck(s3, n, f, to), n)
    BY <1>4, <1>8, WaitAckActs
  <1> QED
    BY <1>2, <1>5, <1>9

LEMMA ReOriginalSendActs ==
  ASSUME NEW r, NEW s, NEW n \in Sensor, Acts(r, s, n), NEW p \in Packet
  PROVE  Acts(r, ReOriginalSend(s, n, p), n)
  <1> DEFINE d == s.dev[n]
             dc == [d EXCEPT !.rack_flag = FALSE, !.lack_flag = FALSE]
             clear == WithDevice(s, n, dc)
             o == As(p, "ORIGINAL_TRANSMISSION")
             d1 == [d EXCEPT !.send_flag = TRUE]
             s1 == WithDevice(s, n, d1)
             s2 == ChannelSend(s1, n, o, Right(n))
             s3 == ChannelSend(s2, n, o, Left(n))
  <1>1. /\ n \in Node /\ d \in Device /\ Lawful(d, n)
        /\ Left(n) \in Node /\ Right(n) \in Node
    BY Line, ActsHasDevice
  <1>2. /\ dc \in Device /\ SameFlags(d, dc) /\ Lawful(dc, n)
        /\ d1 \in Device /\ SameFlags(d, d1) /\ Lawful(d1, n)
    BY <1>1, LoweredFlags, AwakeDevice
  <1>3. ReOriginalSend(s, n, p) =
          IF d.rack_flag /\ d.lack_flag THEN Conclude(s, n, clear.dev[n])
          ELSE IF d.lack_flag THEN ReSend(clear, n, p, Right(n))
          ELSE IF d.rack_flag THEN ReSend(clear, n, p, Left(n))
          ELSE OriginalWaitAck(s3, n, o)
    BY DEF ReOriginalSend, WithDevice
  <1>4. o \in Packet
    BY AsKeepsData DEF PacketType
  <1> HIDE DEF dc, d1, o
  <1>5. Acts(r, clear, n) /\ clear.dev[n] = dc
    BY <1>1, <1>2, ActsDevice
  <1>6. Acts(r, s1, n)
    BY <1>1, <1>2, ActsDevice
  <1> HIDE DEF clear, s1
  <1>7. Acts(r, Conclude(s, n, clear.dev[n]), n)
    BY <1>2, <1>5, ConcludeActs DEF Lawful
  <1>8. \A to \in Node : Acts(r, ReSend(clear, n, p, to), n)
    BY <1>5, ReSendActs
  <1>9. Acts(r, s2, n)
    BY <1>1, <1>4, <1>6, ChannelSendActs
  <1> HIDE DEF s2
  <1>10. Acts(r, s3, n)
    BY <1>1, <1>4, <1>9, ChannelSendActs
  <1> HIDE DEF s3
  <1>11. Acts(r, OriginalWaitAck(s3, n, o), n)
    BY <1>4, <1>10, OriginalWaitAckActs
  <1> QED
    BY <1>1, <1>3, <1>7, <1>8, <1>11
-----------------------------------------------------------------------------
(* The reception window.                                                   *)

LEMMA ActsKeepsLaws ==
  ASSUME NEW r, Laws(r), NEW s, NEW n \in Node, Acts(r, s, n)
  PROVE  Laws(s)
  <1>1. /\ \A m \in Node \ {n} : s.dev[m] = r.dev[m]
        /\ \A m : \A u \in Delay : /\ Check(s.cal, m, u) = Check(r.cal, m, u)
                                   /\ Recv(s.cal, m, u) = Recv(r.cal, m, u)
        /\ SameFlags(r.dev[n], s.dev[n]) /\ Lawful(s.dev[n], n)
    BY DEF Acts, SameReceptions
  <1>2. ASSUME NEW m \in Node
        PROVE  Window(s.dev[m], s.cal, m) /\ Lawful(s.dev[m], m)
    <2>1. Window(r.dev[m], r.cal, m) /\ Lawful(r.dev[m], m)
      BY DEF Laws
    <2>2. SameFlags(r.dev[m], s.dev[m]) /\ Lawful(s.dev[m], m)
      BY <1>1, <2>1 DEF SameFlags
    <2>3. Window(s.dev[m], s.cal, m)
      BY <1>1, <2>1, <2>2 DEF Window, SameFlags
    <2> QED
      BY <2>2, <2>3
  <1> QED
    BY <1>2 DEF Laws

(* The next event is not the node's ReceiveCheck.                          *)
LEMMA PopKeepsWindow ==
  ASSUME NEW cal \in Calendars(Event), Due(cal), NEW n, NEW d,
         Window(d, cal, n),
         First(cal).kind # "ReceiveCheck" \/ First(cal).node # n
  PROVE  Window(d, Pop(cal), n)
  <1> DEFINE c == Pop(cal)
  <1>0. 0 \in Delay
    BY Delays
  <1>1. /\ \A K : \A i \in At(c, K, n, 0) : i \in Nat \ {0} /\ i + 1 \in At(cal, K, n, 0)
        /\ \A K : \A u \in Delay : u # 0 => At(c, K, n, u) = At(cal, K, n, u)
    <2>1. ASSUME NEW K, NEW u \in Delay
          PROVE  /\ \A i \in At(c, K, n, 0) : i \in Nat \ {0} /\ i + 1 \in At(cal, K, n, 0)
                 /\ u # 0 => At(c, K, n, u) = At(cal, K, n, u)
      BY PoppedPlaces
    <2> QED
      BY <1>0, <2>1
  <1>2. ASSUME NEW i \in Check(cal, n, 0)
        PROVE  Check(c, n, 0) # {}
    <2>1. i \in 1..Len(cal[0]) /\ cal[0][i].kind = "ReceiveCheck" /\ cal[0][i].node = n
      BY <1>2 DEF Check, At
    <2>2. First(cal) = cal[0][1] /\ Len(cal[0]) \in Nat \ {0}
      BY PopPlaces
    <2>3. i # 1
      BY <2>1, <2>2
    <2>4. i - 1 \in 1..(Len(cal[0]) - 1) /\ (i - 1) + 1 = i
      BY <2>1, <2>2, <2>3
    <2>5. i - 1 \in Check(c, n, 0)
      BY <1>2, <2>4, PopPlaces DEF Check
    <2> QED
      BY <2>5
  <1> HIDE DEF c
  <1>3. ASSUME NEW t \in Delay, NEW i \in Check(c, n, t)
        PROVE  /\ d.receive_flag
               /\ \A u \in Delay : \A j \in Check(c, n, u) : u = t /\ j = i
    <2>1. ASSUME NEW u \in Delay, NEW j \in Check(c, n, u)
          PROVE  IF u = 0 THEN j \in Nat /\ j + 1 \in Check(cal, n, u)
                          ELSE j \in Check(cal, n, u)
      BY <1>1, <2>1 DEF Check
    <2>2. d.receive_flag
      BY <1>3, <2>1 DEF Window
    <2>3. ASSUME NEW u \in Delay, NEW j \in Check(c, n, u)
          PROVE  u = t /\ j = i
      <3>1. u = t
        BY <1>3, <2>1, <2>3 DEF Window
      <3>2. CASE t = 0
        <4>1. i \in Nat /\ j \in Nat /\ i + 1 \in Check(cal, n, t) /\ j + 1 \in Check(cal, n, t)
          BY <1>3, <2>1, <2>3, <3>1, <3>2
        <4>2. i + 1 = j + 1
          BY <4>1 DEF Window
        <4> QED
          BY <3>1, <4>1, <4>2
      <3>3. CASE t # 0
        <4>1. i \in Check(cal, n, t) /\ j \in Check(cal, n, t)
          BY <1>3, <2>1, <2>3, <3>1, <3>3
        <4> QED
          BY <3>1, <4>1 DEF Window
      <3> QED
        BY <3>2, <3>3
    <2> QED
      BY <2>2, <2>3
  <1>4. d.receive_flag => \E t \in Delay : Check(c, n, t) # {}
    <2> SUFFICES ASSUME d.receive_flag PROVE \E t \in Delay : Check(c, n, t) # {}
      OBVIOUS
    <2>1. PICK t \in Delay : Check(cal, n, t) # {}
      BY DEF Window
    <2>2. CASE t = 0
      BY <1>2, <2>1, <2>2
    <2>3. CASE t # 0
      BY <1>1, <2>1, <2>3 DEF Check
    <2> QED
      BY <2>2, <2>3
  <1>5. ASSUME NEW t \in Delay, NEW i \in Recv(c, n, t)
        PROVE  t = 0 /\ ~d.receive_flag /\ \A j \in Recv(c, n, t) : j = i
    <2>1. t = 0
      BY <1>1, <1>5 DEF Window, Recv
    <2>2. \A j \in Recv(c, n, t) : j \in Nat /\ j + 1 \in Recv(cal, n, t)
      BY <1>1, <2>1 DEF Recv
    <2>3. \A j \in Recv(c, n, t) : i + 1 = j + 1
      BY <1>5, <2>2 DEF Window
    <2>4. ~d.receive_flag
      BY <1>5, <2>2 DEF Window
    <2> QED
      BY <1>5, <2>1, <2>2, <2>3, <2>4
  <1> QED
    BY <1>3, <1>4, <1>5 DEF Window, c

(* The node's ReceiveCheck is the next event: nothing else is received.    *)
LEMMA PopOwnCheck ==
  ASSUME NEW cal \in Calendars(Event), Due(cal), NEW n, NEW d,
         Window(d, cal, n),
         First(cal).kind = "ReceiveCheck", First(cal).node = n
  PROVE  \A t \in Delay : Check(Pop(cal), n, t) = {} /\ Recv(Pop(cal), n, t) = {}
  <1>1. 1 \in Check(cal, n, 0) /\ 0 \in Delay
    BY FirstPlace DEF Check
  <1>2. d.receive_flag /\ \A u \in Delay : \A j \in Check(cal, n, u) : u = 0 /\ j = 1
    BY <1>1 DEF Window
  <1>3. ASSUME NEW t \in Delay
        PROVE  Check(Pop(cal), n, t) = {}
    <2> SUFFICES ASSUME NEW i \in Check(Pop(cal), n, t) PROVE FALSE
      OBVIOUS
    <2>1. CASE t = 0
      <3>1. i \in Nat \ {0} /\ i + 1 \in Check(cal, n, 0)
        BY <2>1, PoppedPlaces DEF Check
      <3>2. i + 1 = 1
        BY <1>1, <1>2, <3>1
      <3> QED
        BY <3>1, <3>2
    <2>2. CASE t # 0
      BY <1>2, <2>2, PoppedPlaces DEF Check
    <2> QED
      BY <2>1, <2>2
  <1>4. ASSUME NEW t \in Delay
        PROVE  Recv(Pop(cal), n, t) = {}
    <2>1. Recv(cal, n, t) = {}
      BY <1>2 DEF Window
    <2> QED
      BY <2>1, PoppedPlaces DEF Recv
  <1> QED
    BY <1>3, <1>4

LEMMA PopLaws ==
  ASSUME NEW s \in Networks, Laws(s), Due(s.cal),
         NEW r, r = [dev |-> s.dev, cal |-> Pop(s.cal)]
  PROVE  /\ r \in Networks
         /\ First(s.cal).kind # "ReceiveCheck" => Laws(r)
         /\ \A m \in Node : /\ Lawful(r.dev[m], m)
                            /\ m # First(s.cal).node => Window(r.dev[m], r.cal, m)
  <1>1. s.cal \in Calendars(Event) /\ s.dev \in [Node -> Device]
    BY DEF Networks
  <1>2. Pop(s.cal) \in Calendars(Event)
    BY <1>1, PopPlaces
  <1>3. r \in Networks /\ r.dev = s.dev /\ r.cal = Pop(s.cal)
    BY <1>1, <1>2 DEF Networks
  <1>4. \A m \in Node : /\ Lawful(r.dev[m], m)
                        /\ \/ First(s.cal).kind # "ReceiveCheck"
                           \/ First(s.cal).node # m
                           => Window(r.dev[m], r.cal, m)
    BY <1>1, <1>3, PopKeepsWindow DEF Laws
  <1> QED
    BY <1>3, <1>4 DEF Laws
-----------------------------------------------------------------------------
(* Receiving.                                                              *)

(* What only the timer of an exchange changes.                             *)
SameExchange(d, f) == f.wait_ack = d.wait_ack /\ f.m_txPacket = d.m_txPacket
Undisturbed(r, s)  == \A m \in Node : SameExchange(r.dev[m], s.dev[m])

(* A new device at n: the laws of the others stand.                        *)
LEMMA DeviceLaws ==
  ASSUME NEW r \in Networks, NEW n \in Node,
         \A m \in Node \ {n} :
            Window(r.dev[m], r.cal, m) /\ Lawful(r.dev[m], m),
         NEW f \in Device, SameExchange(r.dev[n], f), Lawful(f, n),
         Window(f, r.cal, n)
  PROVE  /\ Laws(WithDevice(r, n, f)) /\ Undisturbed(r, WithDevice(r, n, f))
         /\ WithDevice(r, n, f) \in Networks
  <1> DEFINE t == WithDevice(r, n, f)
  <1>1. /\ t \in Networks /\ t.cal = r.cal /\ t.dev[n] = f
        /\ \A m \in Node \ {n} : t.dev[m] = r.dev[m]
    BY WithDeviceNetwork
  <1> HIDE DEF t
  <1>2. \A m \in Node : Window(t.dev[m], t.cal, m) /\ Lawful(t.dev[m], m)
    BY <1>1
  <1>3. \A m \in Node : SameExchange(r.dev[m], t.dev[m])
    BY <1>1 DEF SameExchange
  <1> QED
    BY <1>1, <1>2, <1>3 DEF Laws, Undisturbed, t

(* A new device at n, and an event of n's receiver.                        *)
LEMMA ReceptionLaws ==
  ASSUME NEW r \in Networks, NEW n \in Node,
         \A m \in Node \ {n} :
            Window(r.dev[m], r.cal, m) /\ Lawful(r.dev[m], m),
         NEW f \in Device, SameExchange(r.dev[n], f), Lawful(f, n),
         NEW t \in Delay, NEW e \in Event, e.node = n,
         Window(f, Post(r.cal, t, e), n)
  PROVE  /\ Laws(PostOn(WithDevice(r, n, f), t, e))
         /\ Undisturbed(r, PostOn(WithDevice(r, n, f), t, e))
  <1> DEFINE s == WithDevice(r, n, f)
             q == PostOn(s, t, e)
  <1>1. /\ s \in Networks /\ s.cal = r.cal /\ s.dev[n] = f
        /\ \A m \in Node \ {n} : s.dev[m] = r.dev[m]
        /\ r.cal \in Calendars(Event)
    BY WithDeviceNetwork
  <1> HIDE DEF s
  <1>2. q.dev = s.dev /\ q.cal = Post(r.cal, t, e)
    BY <1>1, PostOnNetwork
  <1> HIDE DEF q
  <1>3. ASSUME NEW m \in Node \ {n}
        PROVE  Window(r.dev[m], q.cal, m)
    <2>1. ASSUME NEW K, NEW u \in Delay
          PROVE  At(q.cal, K, m, u) = At(r.cal, K, m, u)
      <3>1. At(q.cal, K, m, u) =
              At(r.cal, K, m, u) \cup
              (IF u = t /\ e.kind \in K /\ e.node = m
               THEN {Len(r.cal[t]) + 1} ELSE {})
        BY <1>1, <1>2, PostPlaces
      <3> QED
        BY <1>3, <3>1
    <2>2. \A u \in Delay : /\ Check(q.cal, m, u) = Check(r.cal, m, u)
                           /\ Recv(q.cal, m, u) = Recv(r.cal, m, u)
      BY <2>1 DEF Check, Recv
    <2>3. Window(r.dev[m], r.cal, m)
      BY <1>3
    <2> QED
      BY <2>2, <2>3 DEF Window
  <1>4. \A m \in Node : Window(q.dev[m], q.cal, m) /\ Lawful(q.dev[m], m)
    BY <1>1, <1>2, <1>3
  <1>5. \A m \in Node : SameExchange(r.dev[m], q.dev[m])
    BY <1>1, <1>2 DEF SameExchange
  <1> QED
    BY <1>4, <1>5 DEF Laws, Undisturbed, q, s

LEMMA ReceiveStartLaws ==
  ASSUME NEW r \in Networks, Laws(r), NEW n \in Node,
         \A t \in Delay : Recv(r.cal, n, t) = {},
         NEW p \in Packet, NEW from \in Sensor
  PROVE  /\ Laws(ReceiveStart(r, n, p, from))
         /\ Undisturbed(r, ReceiveStart(r, n, p, from))
  <1> DEFINE d == r.dev[n]
             f == [d EXCEPT !.receive_flag_1 = TRUE]
             g == [d EXCEPT !.receive_flag = TRUE]
             e == Hop("ReceiveCheck", n, p, from)
             c == Post(r.cal, 9, e)
  <1>1. d \in Device /\ r.cal \in Calendars(Event)
    BY DEF Networks
  <1>2. Window(d, r.cal, n) /\ Lawful(d, n)
    BY DEF Laws
  <1>3. \A m \in Node \ {n} : Window(r.dev[m], r.cal, m) /\ Lawful(r.dev[m], m)
    BY DEF Laws
  <1>4. /\ f \in Device /\ SameExchange(d, f) /\ Lawful(f, n)
        /\ f.receive_flag = d.receive_flag
        /\ g \in Device /\ SameExchange(d, g) /\ Lawful(g, n)
        /\ g.receive_flag /\ g.receive_flag_1 = d.receive_flag_1
    <2> HIDE DEF d
    <2> QED
      BY <1>1, <1>2 DEF Device, SameExchange, Lawful, AckFlags
  <1>5. /\ e \in Event /\ e.kind = "ReceiveCheck" /\ e.node = n /\ 9 \in Delay
    BY Delays DEF Hop, Event, RadioEvent, RadioKind
  <1>6. ReceiveStart(r, n, p, from) =
          IF d.receive_flag THEN WithDevice(r, n, f)
          ELSE PostOn(WithDevice(r, n, g), 9, e)
    BY DEF ReceiveStart, WithDevice
  <1> HIDE DEF e
  <1>7. CASE d.receive_flag
    <2>1. Window(f, r.cal, n)
      <3> HIDE DEF d, f
      <3> QED
        BY <1>2, <1>4, <1>7 DEF Window
    <2> HIDE DEF f
    <2>2. /\ Laws(WithDevice(r, n, f)) /\ Undisturbed(r, WithDevice(r, n, f))
      BY <1>3, <1>4, <2>1, DeviceLaws
    <2> QED
      BY <1>6, <1>7, <2>2
  <1>8. CASE ~d.receive_flag
    <2>1. \A u \in Delay : Check(r.cal, n, u) = {} /\ ~d.receive_flag_1
      BY <1>2, <1>8 DEF Window
    <2>2. \A u \in Delay :
             /\ Check(c, n, u) = IF u = 9 THEN {Len(r.cal[9]) + 1} ELSE {}
             /\ Recv(c, n, u) = {}
      <3>1. ASSUME NEW K, NEW u \in Delay
            PROVE  At(c, K, n, u) =
                     At(r.cal, K, n, u) \cup
                     (IF u = 9 /\ e.kind \in K /\ e.node = n
                      THEN {Len(r.cal[9]) + 1} ELSE {})
        BY <1>1, <1>5, PostPlaces
      <3> HIDE DEF c
      <3>2. ASSUME NEW u \in Delay
            PROVE  Recv(c, n, u) = {}
        <4>1. Recv(r.cal, n, u) = {} /\ e.kind \notin {"Receive"}
          BY <1>5
        <4> QED
          BY <3>1, <4>1 DEF Recv
      <3>3. ASSUME NEW u \in Delay
            PROVE  Check(c, n, u) = IF u = 9 THEN {Len(r.cal[9]) + 1} ELSE {}
        <4>1. Check(r.cal, n, u) = {} /\ e.kind \in {"ReceiveCheck"} /\ e.node = n
          BY <1>5, <2>1
        <4> QED
          BY <3>1, <4>1 DEF Check
      <3> QED
        BY <3>2, <3>3
    <2> HIDE DEF c, g, d
    <2>3. Window(g, c, n)
      BY <1>4, <1>5, <2>1, <2>2 DEF Window
    <2>4. /\ Laws(PostOn(WithDevice(r, n, g), 9, e))
          /\ Undisturbed(r, PostOn(WithDevice(r, n, g), 9, e))
      BY <1>3, <1>4, <1>5, <2>3, ReceptionLaws DEF c, d
    <2> QED
      BY <1>6, <1>8, <2>4
  <1> QED
    BY <1>7, <1>8

LEMMA ReceiveCheckLaws ==
  ASSUME NEW r \in Networks, NEW n \in Node,
         \A m \in Node : /\ Lawful(r.dev[m], m)
                         /\ m # n => Window(r.dev[m], r.cal, m),
         \A t \in Delay : Check(r.cal, n, t) = {} /\ Recv(r.cal, n, t) = {},
         NEW p \in Packet, NEW from \in Sensor
  PROVE  /\ Laws(ReceiveCheck(r, n, p, from))
         /\ Undisturbed(r, ReceiveCheck(r, n, p, from))
  <1> DEFINE d == r.dev[n]
             f == [d EXCEPT !.receive_flag = FALSE, !.receive_flag_1 = FALSE]
             e == Hop("Receive", n, p, from)
             c == Post(r.cal, 0, e)
  <1>1. /\ d \in Device /\ r.cal \in Calendars(Event) /\ Lawful(d, n)
        /\ r = [dev |-> r.dev, cal |-> r.cal] /\ r.dev \in [Node -> Device]
    BY DEF Networks
  <1>2. \A m \in Node \ {n} : Window(r.dev[m], r.cal, m) /\ Lawful(r.dev[m], m)
    OBVIOUS
  <1>3. /\ f \in Device /\ SameExchange(d, f) /\ Lawful(f, n)
        /\ ~f.receive_flag /\ ~f.receive_flag_1
    <2> HIDE DEF d
    <2> QED
      BY <1>1 DEF Device, SameExchange, Lawful, AckFlags
  <1>4. e \in Event /\ e.kind = "Receive" /\ e.node = n /\ 0 \in Delay
    BY Delays DEF Hop, Event, RadioEvent, RadioKind
  <1>5. ReceiveCheck(r, n, p, from) =
          IF d.receive_flag_1 THEN WithDevice(r, n, f)
          ELSE PostOn(WithDevice(r, n, f), 0, e)
    <2>1. [r EXCEPT !.dev[n].receive_flag = FALSE, !.dev[n].receive_flag_1 = FALSE]
            = [r EXCEPT !.dev[n] = f]
      BY <1>1
    <2> QED
      BY <2>1 DEF ReceiveCheck, WithDevice
  <1> HIDE DEF e, f
  <1>6. Window(f, r.cal, n)
    BY <1>3 DEF Window
  <1>7. /\ Laws(WithDevice(r, n, f)) /\ Undisturbed(r, WithDevice(r, n, f))
    BY <1>2, <1>3, <1>6, DeviceLaws
  <1>8. Window(f, c, n)
    <2>1. \A u \in Delay :
             /\ Check(c, n, u) = {}
             /\ Recv(c, n, u) = IF u = 0 THEN {Len(r.cal[0]) + 1} ELSE {}
      <3>1. ASSUME NEW K, NEW u \in Delay
            PROVE  At(c, K, n, u) =
                     At(r.cal, K, n, u) \cup
                     (IF u = 0 /\ e.kind \in K /\ e.node = n
                      THEN {Len(r.cal[0]) + 1} ELSE {})
        BY <1>1, <1>4, PostPlaces
      <3> HIDE DEF c
      <3>2. ASSUME NEW u \in Delay
            PROVE  Check(c, n, u) = {}
        <4>1. Check(r.cal, n, u) = {} /\ e.kind \notin {"ReceiveCheck"}
          BY <1>4
        <4> QED
          BY <3>1, <4>1 DEF Check
      <3>3. ASSUME NEW u \in Delay
            PROVE  Recv(c, n, u) = IF u = 0 THEN {Len(r.cal[0]) + 1} ELSE {}
        <4>1. Recv(r.cal, n, u) = {} /\ e.kind \in {"Receive"} /\ e.node = n
          BY <1>4
        <4> QED
          BY <3>1, <4>1 DEF Recv
      <3> QED
        BY <3>2, <3>3
    <2> HIDE DEF c
    <2> QED
      BY <1>3, <1>4, <2>1 DEF Window
  <1>9. /\ Laws(PostOn(WithDevice(r, n, f), 0, e))
        /\ Undisturbed(r, PostOn(WithDevice(r, n, f), 0, e))
    <2> HIDE DEF d
    <2> QED
      BY <1>2, <1>3, <1>4, <1>8, ReceptionLaws DEF d, c
  <1> QED
    BY <1>5, <1>7, <1>9

LEMMA AcceptDataActs ==
  ASSUME NEW r, NEW s, NEW n \in Sensor, Acts(r, s, n),
         NEW p \in Packet, NEW from \in Node, NEW t \in {1, Second + 1}
  PROVE  /\ Acts(r, AcceptData(s, n, p, from, t), n)
         /\ SameExchange(s.dev[n], AcceptData(s, n, p, from, t).dev[n])
  <1> DEFINE d == s.dev[n]
             f == [d EXCEPT !.send_flag = TRUE]
             a == Hop("AckSend", n, p, from)
             b == Hop("Forwarding", n, p, Opposite(n, from))
             s1 == WithDevice(s, n, f)
             s2 == PostOn(s1, t, a)
             s3 == PostOn(s2, t, b)
  <1>1. /\ n \in Node /\ Left(n) \in Node /\ Right(n) \in Node /\ t \in Delay
        /\ d \in Device /\ Lawful(d, n)
    BY Line, Delays, ActsHasDevice
  <1>2. f \in Device /\ SameFlags(d, f) /\ Lawful(f, n) /\ SameExchange(d, f)
    BY <1>1, AwakeDevice DEF SameExchange
  <1>3. /\ a \in Event /\ a.kind = "AckSend"
        /\ b \in Event /\ b.kind = "Forwarding"
    <2>1. Opposite(n, from) \in Node
      BY <1>1 DEF Opposite
    <2> QED
      BY <2>1 DEF Hop, Event, HopEvent, HopKind
  <1>4. AcceptData(s, n, p, from, t) = s3
    BY DEF AcceptData, WithDevice
  <1> HIDE DEF f, a, b
  <1>5. Acts(r, s1, n) /\ s1.dev[n] = f
    BY <1>1, <1>2, ActsDevice
  <1> HIDE DEF s1
  <1>6. Acts(r, s2, n) /\ s2.dev = s1.dev
    BY <1>1, <1>3, <1>5, ActsPost
  <1> HIDE DEF s2
  <1>7. Acts(r, s3, n) /\ s3.dev = s2.dev
    BY <1>1, <1>3, <1>6, ActsPost
  <1> HIDE DEF s3
  <1> QED
    BY <1>2, <1>4, <1>5, <1>6, <1>7

(* The packet comes from a neighbour that has had its data.                *)
LEMMA ReceiveActs ==
  ASSUME NEW r \in Networks, NEW n \in Node, Lawful(r.dev[n], n),
         NEW p \in Packet, NEW from \in Sensor, Adjacent(n, from),
         Data(p) \in heard[from]
  PROVE  /\ Acts(r, Receive(r, n, p, from), n)
         /\ SameExchange(r.dev[n], Receive(r, n, p, from).dev[n])
  <1> DEFINE d == r.dev[n]
             q == d.m_queue
             qc == QueueCheck(q, p)
             qd == DequeueIfHead(q, p)
             f1 == [d EXCEPT !.m_queue = qc]
             f2 == [d EXCEPT !.m_queue = qd]
             s1 == WithDevice(r, n, f1)
             s2 == WithDevice(r, n, f2)
             g1 == [d EXCEPT !.rack_flag = TRUE]
             g2 == [d EXCEPT !.lack_flag = TRUE]
             Fine(s) == Acts(r, s, n) /\ SameExchange(d, s.dev[n])
  <1>1. d \in Device /\ q \in Seq(Packet) /\ Lawful(d, n) /\ Distinct(q)
    BY DEF Networks, Device, Lawful
  <1>2. /\ qc \in Seq(Packet) /\ Distinct(qc)
        /\ qd \in Seq(Packet) /\ Distinct(qd)
    BY <1>1, DistinctOperations
  <1>3. Fine(r)
    BY <1>1 DEF Acts, SameFlags, SameReceptions, SameExchange
  <1>4. Fine(s1) /\ Fine(s2)
    <2> HIDE DEF qc, qd, q
    <2>1. /\ f1 \in Device /\ SameFlags(d, f1) /\ Lawful(f1, n) /\ SameExchange(d, f1)
          /\ f2 \in Device /\ SameFlags(d, f2) /\ Lawful(f2, n) /\ SameExchange(d, f2)
      <3> HIDE DEF d
      <3> QED
        BY <1>1, <1>2 DEF Device, SameFlags, SameExchange, Lawful, AckFlags
    <2> HIDE DEF f1, f2
    <2>2. Acts(r, s1, n) /\ s1.dev[n] = f1 /\ Acts(r, s2, n) /\ s2.dev[n] = f2
      BY <1>3, <2>1, ActsDevice
    <2> QED
      BY <2>1, <2>2
  <1>5. ReceiveAtGateway(r, n, p) = IF p.type = "IACK" THEN r ELSE s1
    BY DEF ReceiveAtGateway, WithDevice
  <1>6. ReceiveWhileWaiting(r, n, p) \in {r, s1}
    BY DEF ReceiveWhileWaiting, WithDevice
  <1>7. ASSUME n \in Sensor, d.wait_ack, SameData(d.m_txPacket, p)
        PROVE  Fine(AckReceive(r, n, from))
    <2>1. Data(d.m_txPacket) = Data(p) /\ (from = Right(n) \/ from = Left(n))
      BY <1>7 DEF SameData, Data, Adjacent
    <2>2. CASE from = Right(n)
      <3>1. g1 \in Device /\ SameFlags(d, g1) /\ Lawful(g1, n) /\ SameExchange(d, g1)
        <4> HIDE DEF d
        <4> QED
          BY <1>1, <2>1, <2>2 DEF Device, SameFlags, SameExchange, Lawful, AckFlags
      <3>2. AckReceive(r, n, from) = WithDevice(r, n, g1)
        BY <2>2 DEF AckReceive, WithDevice
      <3> HIDE DEF g1
      <3>3. Acts(r, WithDevice(r, n, g1), n) /\ WithDevice(r, n, g1).dev[n] = g1
        BY <1>3, <3>1, ActsDevice
      <3> QED
        BY <3>1, <3>2, <3>3
    <2>3. CASE from # Right(n)
      <3>1. g2 \in Device /\ SameFlags(d, g2) /\ Lawful(g2, n) /\ SameExchange(d, g2)
        <4> HIDE DEF d
        <4> QED
          BY <1>1, <2>1, <2>3 DEF Device, SameFlags, SameExchange, Lawful, AckFlags
      <3>2. AckReceive(r, n, from) = WithDevice(r, n, g2)
        BY <2>3 DEF AckReceive, WithDevice
      <3> HIDE DEF g2
      <3>3. Acts(r, WithDevice(r, n, g2), n) /\ WithDevice(r, n, g2).dev[n] = g2
        BY <1>3, <3>1, ActsDevice
      <3> QED
        BY <3>1, <3>2, <3>3
    <2> QED
      BY <2>2, <2>3
  <1>8. ASSUME n \in Sensor
        PROVE  \A t \in {1, Second + 1} :
                  Fine(AcceptData(r, n, p, from, t)) /\ Fine(AcceptData(s2, n, p, from, t))
    <2>1. from \in Node
      BY Line
    <2>2. ASSUME NEW s, Fine(s), NEW t \in {1, Second + 1}
          PROVE  Fine(AcceptData(s, n, p, from, t))
      <3>1. /\ Acts(r, AcceptData(s, n, p, from, t), n)
            /\ SameExchange(s.dev[n], AcceptData(s, n, p, from, t).dev[n])
        BY <1>8, <2>1, <2>2, AcceptDataActs
      <3> QED
        BY <2>2, <3>1 DEF SameExchange
    <2> QED
      BY <1>3, <1>4, <2>2
  <1>9. /\ ReceiveOriginal(r, n, p, from) =
              IF d.wait_ack THEN ReceiveWhileWaiting(r, n, p)
              ELSE AcceptData(r, n, p, from, IF from = Right(n) THEN 1 ELSE Second + 1)
        /\ ReceiveForwarding(r, n, p, from) =
              IF d.wait_ack THEN ReceiveWhileWaiting(r, n, p)
              ELSE AcceptData(s2, n, p, from, 1)
        /\ ReceiveIack(r, n, p, from) =
              IF ~d.wait_ack THEN s2
              ELSE IF SameData(d.m_txPacket, p) THEN AckReceive(r, n, from)
              ELSE r
    BY DEF ReceiveOriginal, ReceiveForwarding, ReceiveIack, WithDevice
  <1>10. Receive(r, n, p, from) \in
           {r, ReceiveAtGateway(r, n, p)} \cup
           (IF n \in Sensor
            THEN {ReceiveOriginal(r, n, p, from), ReceiveForwarding(r, n, p, from),
                  ReceiveIack(r, n, p, from)}
            ELSE {})
    <2>1. p.type \in {"ORIGINAL_TRANSMISSION", "FORWARDING", "IACK"}
      BY DEF Packet, PacketType
    <2>2. n \notin Gateway => n \in Sensor
      BY LineAssumption DEF Node, Gateway, Sensor
    <2> QED
      BY <2>1, <2>2 DEF Receive
  <1> HIDE DEF s1, s2, d, Fine
  <1>11. ASSUME n \in Sensor
         PROVE  /\ Fine(ReceiveOriginal(r, n, p, from))
                /\ Fine(ReceiveForwarding(r, n, p, from))
                /\ Fine(ReceiveIack(r, n, p, from))
    BY <1>3, <1>4, <1>6, <1>7, <1>8, <1>9, <1>11
  <1>12. Fine(Receive(r, n, p, from))
    BY <1>3, <1>4, <1>5, <1>10, <1>11
  <1> QED
    BY <1>12 DEF Fine, d
-----------------------------------------------------------------------------
(* The actions.                                                            *)

AllLaws == \A n \in Node : Window(device[n], calendar, n) /\ Lawful(device[n], n)

(* What ExchangeUndisturbed says of a step.                                *)
LeavesExchanges ==
  \A n \in Sensor :
     (device[n].wait_ack /\ ~RunsTimerOf(n)) =>
       /\ device'[n].wait_ack
       /\ device'[n].m_txPacket = device[n].m_txPacket

LEMMA AllLawsOfNow ==
  ASSUME IInv, AllLaws
  PROVE  /\ Laws(Now) /\ Now \in Networks
         /\ Now.dev = device /\ Now.cal = calendar
  <1>1. Now.dev = device /\ Now.cal = calendar
    BY DEF Now
  <1>2. Now \in Networks
    BY DEF IInv, Nets, Devices, Agendas, Networks
  <1> QED
    BY <1>1, <1>2 DEF AllLaws, Laws

(* The history only grows. *)
LEMMA BecomesLaws ==
  ASSUME NEW s, Laws(s), device' = s.dev, calendar' = s.cal,
         \A n \in Node : heard[n] \subseteq heard'[n]
  PROVE  AllLaws'
  <1>1. ASSUME NEW n \in Node
        PROVE  /\ Window(device'[n], calendar', n) /\ Distinct(device'[n].m_queue)
               /\ n \in Sensor => AckFlags(device[n], n)'
    <2>1. Window(device'[n], calendar', n) /\ Lawful(device'[n], n)
      BY DEF Laws
    <2>2. ASSUME n \in Sensor PROVE AckFlags(device[n], n)'
      <3>1. AckFlags(device'[n], n) /\ Left(n) \in Node /\ Right(n) \in Node
        BY <2>1, <2>2, Line DEF Lawful
      <3> QED
        BY <3>1 DEF AckFlags
    <2> QED
      BY <2>1, <2>2 DEF Lawful
  <1> QED
    BY <1>1 DEF AllLaws, Lawful

(* No packet waits to be handled at the beginning of a slot.               *)
LEMMA NothingToReceive ==
  ASSUME NEW h \in Histories, NEW nd \in Identities, NEW s \in Nets(h, nd, 0),
         NEW n, NEW d, Window(d, s.cal, n)
  PROVE  \A t \in Delay : Recv(s.cal, n, t) = {}
  <1> SUFFICES ASSUME NEW t \in Delay, NEW i \in Recv(s.cal, n, t) PROVE FALSE
    OBVIOUS
  <1>1. s.cal \in Agendas(h, 0) /\ t = 0
    BY DEF Nets, Window
  <1> DEFINE E == Events(h, (0 + t) % Second)
  <1>2. /\ s.cal[t] \in Seq(E) /\ i \in 1..Len(s.cal[t])
        /\ s.cal[t][i].kind = "Receive"
    BY <1>1 DEF Agendas, Recv, At
  <1>3. \A b \in E : PhaseOf(b.kind) = 0
    BY <1>1, Delays DEF Events, Radios, Hops, Owns, Bares
  <1> HIDE DEF E
  <1>4. s.cal[t][i] \in E
    BY <1>2
  <1> QED
    BY <1>2, <1>3, <1>4 DEF PhaseOf

LEMMA EventKeepsLaws ==
  ASSUME IInv, Exchanges, AllLaws, RunEvent
  PROVE  AllLaws' /\ LeavesExchanges
  <1> DEFINE s == Now
             r == Popped
             e == Event1
             n == e.node
  <1>1. Due(calendar)
    BY DEF RunEvent, RunReceiveStart, RunReceiveCheck, RunReceiveCorrupt,
           RunReceive, RunSetSleep, RunAckSend, RunForwarding, RunWaitSend,
           RunAckCheck, RunOriginalAckCheck, RunReSend, RunReOriginalSend,
           Calls
  <1>2. /\ e \in Events(heard, clock)
        /\ r \in Nets(heard, NextIdentities(device), clock)
    BY <1>1, EventRuns
  <1>3. heard \in Histories /\ NextIdentities(device) \in Identities
        /\ clock \in Clocks /\ s \in Nets(heard, NextIdentities(device), clock)
    BY DEF IInv
  <1>4. /\ clock = PhaseOf(e.kind)
        /\ e.kind \in RadioKind =>
             /\ n \in Node /\ e.pkt \in Packet /\ e.peer \in Sensor
             /\ Adjacent(n, e.peer) /\ Data(e.pkt) \in heard[e.peer]
        /\ e.kind \in HopKind =>
             n \in Sensor /\ e.pkt \in Packet /\ e.peer \in Node
        /\ e.kind \in OwnKind => n \in Sensor /\ e.pkt \in Packet
        /\ e.kind \in BareKind => n \in Sensor
    BY <1>2, <1>3, EventParts
  <1>5. s.dev = device /\ s.cal = calendar /\ First(s.cal) = e /\ Due(s.cal)
        /\ r = [dev |-> s.dev, cal |-> Pop(s.cal)]
    BY <1>1 DEF Now, Event1, Popped
  <1>6. Settled(s, fresh) /\ s \in Networks /\ Laws(s) /\ s.cal \in Calendars(Event)
    BY ExchangesSettled, AllLawsOfNow DEF Settled, Networks
  <1>7. Aligned(s.cal, n, clock)
    BY <1>2, <1>3, NetsAligned
  <1>8. /\ \A m \in Node : heard[m] \subseteq heard'[m]
    <2>1. CASE RunReceive
      BY <1>3, <2>1 DEF RunReceive, Histories
    <2>2. CASE ~RunReceive
      BY <2>2 DEF RunEvent, RunReceiveStart, RunReceiveCheck, RunReceiveCorrupt,
           RunSetSleep, RunAckSend, RunForwarding, RunWaitSend,
           RunAckCheck, RunOriginalAckCheck, RunReSend, RunReOriginalSend
    <2> QED
      BY <2>1, <2>2
  <1>9. \A m : RunsTimerOf(m) <=> e.kind \in TimerKind /\ m = n
    BY <1>1 DEF RunsTimerOf
  <1> HIDE DEF s, r, e
  <1>10. /\ r \in Networks /\ r.dev = device
         /\ e.kind # "ReceiveCheck" => Laws(r)
         /\ \A m \in Node : /\ Lawful(r.dev[m], m)
                            /\ m # n => Window(r.dev[m], r.cal, m)
    BY <1>5, <1>6, PopLaws
  <1>11. ASSUME NEW q, Becomes(q), Laws(q), Undisturbed(r, q)
         PROVE  AllLaws' /\ LeavesExchanges
    <2>1. AllLaws'
      BY <1>8, <1>11, BecomesLaws DEF Becomes
    <2>2. LeavesExchanges
      BY <1>10, <1>11, Line DEF Becomes, Undisturbed, SameExchange, LeavesExchanges
    <2> QED
      BY <2>1, <2>2
  <1>12. ASSUME NEW q, Becomes(q), n \in Node, Laws(r), Acts(r, q, n),
                SameExchange(r.dev[n], q.dev[n])
         PROVE  AllLaws' /\ LeavesExchanges
    <2>1. Laws(q)
      BY <1>12, ActsKeepsLaws
    <2>2. Undisturbed(r, q)
      BY <1>12 DEF Acts, Undisturbed, SameExchange
    <2> QED
      BY <1>11, <1>12, <2>1, <2>2
  <1>13. ASSUME NEW q, Becomes(q), n \in Sensor, e.kind # "ReceiveCheck",
                Acts(r, q, n), e.kind \in TimerKind \/ ~device[n].wait_ack
         PROVE  AllLaws' /\ LeavesExchanges
    <2>1. Laws(q) /\ n \in Node
      BY <1>10, <1>13, Line, ActsKeepsLaws
    <2>2. AllLaws'
      BY <1>8, <1>13, <2>1, BecomesLaws DEF Becomes
    <2>3. LeavesExchanges
      BY <1>9, <1>10, <1>13, Line DEF Becomes, Acts, LeavesExchanges
    <2> QED
      BY <2>2, <2>3
  <1>14. ASSUME n \in Node PROVE Acts(r, r, n)
    BY <1>10, <1>14 DEF Acts, SameFlags, SameReceptions
  <1>15. CASE RunReceiveStart
    <2>1. e.kind = "ReceiveStart"
      BY <1>5, <1>15 DEF RunReceiveStart, Calls, Event1, e
    <2>2. n \in Node /\ e.pkt \in Packet /\ e.peer \in Sensor /\ Laws(r)
      BY <1>4, <1>10, <2>1 DEF RadioKind
    <2>3. r \in Nets(heard, NextIdentities(device), 0)
      BY <1>2, <1>4, <2>1 DEF PhaseOf
    <2>4. \A t \in Delay : Recv(r.cal, n, t) = {}
      BY <1>3, <2>2, <2>3, NothingToReceive DEF Laws
    <2>5. /\ Laws(ReceiveStart(r, n, e.pkt, e.peer))
          /\ Undisturbed(r, ReceiveStart(r, n, e.pkt, e.peer))
      BY <1>10, <2>2, <2>4, ReceiveStartLaws
    <2> QED
      BY <1>11, <1>15, <2>5 DEF RunReceiveStart, r, e
  <1>16. CASE RunReceiveCheck
    <2>1. e.kind = "ReceiveCheck"
      BY <1>5, <1>16 DEF RunReceiveCheck, Calls, Event1, e
    <2>2. n \in Node /\ e.pkt \in Packet /\ e.peer \in Sensor
      BY <1>4, <2>1 DEF RadioKind
    <2>3. \A t \in Delay : Check(r.cal, n, t) = {} /\ Recv(r.cal, n, t) = {}
      <3>1. Window(s.dev[n], s.cal, n)
        BY <1>6, <2>2 DEF Laws
      <3>2. First(s.cal).kind = "ReceiveCheck" /\ First(s.cal).node = n
        BY <1>5, <2>1
      <3>3. r.cal = Pop(s.cal)
        BY <1>5
      <3> QED
        BY <1>5, <1>6, <3>1, <3>2, <3>3, PopOwnCheck
    <2>4. /\ Laws(ReceiveCheck(r, n, e.pkt, e.peer))
          /\ Undisturbed(r, ReceiveCheck(r, n, e.pkt, e.peer))
      BY <1>10, <2>2, <2>3, ReceiveCheckLaws
    <2> QED
      BY <1>11, <1>16, <2>4 DEF RunReceiveCheck, r, e
  <1>17. CASE RunReceiveCorrupt
    <2>1. e.kind = "Receive"
      BY <1>5, <1>17 DEF RunReceiveCorrupt, Calls, Event1, e
    <2>2. Laws(r) /\ Undisturbed(r, r)
      BY <1>10, <2>1 DEF Undisturbed, SameExchange
    <2> QED
      BY <1>11, <1>17, <2>2 DEF RunReceiveCorrupt, r
  <1>18. CASE RunReceive
    <2>1. e.kind = "Receive"
      BY <1>5, <1>18 DEF RunReceive, Calls, Event1, e
    <2>2. /\ n \in Node /\ e.pkt \in Packet /\ e.peer \in Sensor
          /\ Adjacent(n, e.peer) /\ Data(e.pkt) \in heard[e.peer] /\ Laws(r)
      BY <1>4, <1>10, <2>1 DEF RadioKind
    <2>3. /\ Acts(r, Receive(r, n, e.pkt, e.peer), n)
          /\ SameExchange(r.dev[n], Receive(r, n, e.pkt, e.peer).dev[n])
      BY <1>10, <2>2, ReceiveActs
    <2> QED
      BY <1>12, <1>18, <2>2, <2>3 DEF RunReceive, r, e
  <1>19. CASE RunSetSleep
    <2>1. e.kind = "SetSleep" /\ n \in Sensor /\ n \in Node /\ Laws(r)
      BY <1>4, <1>5, <1>10, <1>19, Line DEF RunSetSleep, Calls, BareKind, Event1, e
    <2> DEFINE d == r.dev[n]
               f == [d EXCEPT !.send_flag = FALSE]
    <2>2. d \in Device /\ Lawful(d, n)
      BY <1>10, <2>1 DEF Networks
    <2>3. f \in Device /\ SameFlags(d, f) /\ Lawful(f, n) /\ SameExchange(d, f)
      <3> HIDE DEF d
      <3> QED
        BY <2>2 DEF Device, SameFlags, SameExchange, Lawful, AckFlags
    <2>4. WithDevice(r, n, f) = SetSleep(r, n)
      BY DEF SetSleep, WithDevice
    <2> HIDE DEF f
    <2> DEFINE q == WithDevice(r, n, f)
    <2>5. Acts(r, q, n) /\ q.dev[n] = f
      BY <1>14, <2>1, <2>3, ActsDevice
    <2>6. Becomes(q)
      BY <1>19, <2>4 DEF RunSetSleep, r, e
    <2> HIDE DEF q
    <2> QED
      BY <1>12, <2>1, <2>3, <2>5, <2>6
  <1>20. CASE RunAckSend
    <2>1. e.kind = "AckSend"
      BY <1>5, <1>20 DEF RunAckSend, Calls, Event1, e
    <2>2. n \in Sensor /\ n \in Node /\ e.pkt \in Packet /\ e.peer \in Node
      BY <1>4, <2>1, Line DEF HopKind
    <2>3. ~device[n].wait_ack
      <3>1. Exchange(s.dev[n], s.cal, n, fresh)
        BY <1>6, <2>2 DEF Settled
      <3>2. 1 \in Ack(s.cal, n, 0) /\ 0 \in Delay
        BY <1>5, <1>6, <2>1, FirstPlace DEF Ack
      <3>3. 1 + 1 \in Fwd(s.cal, n, 0)
        BY <3>1, <3>2 DEF Exchange, Replies
      <3> QED
        BY <1>5, <3>1, <3>2, <3>3 DEF Exchange, Replies
    <2>4. Acts(r, AckSend(r, n, e.pkt, e.peer), n)
      BY <1>14, <2>2, AckSendActs
    <2> QED
      BY <1>13, <1>20, <2>1, <2>2, <2>3, <2>4 DEF RunAckSend, r, e
  <1>21. CASE RunForwarding
    <2>1. e.kind = "Forwarding"
      BY <1>5, <1>21 DEF RunForwarding, Calls, Event1, e
    <2>2. n \in Sensor /\ n \in Node /\ e.pkt \in Packet /\ e.peer \in Node
      BY <1>4, <2>1, Line DEF HopKind
    <2>3. ~device[n].wait_ack
      <3>1. Exchange(s.dev[n], s.cal, n, fresh)
        BY <1>6, <2>2 DEF Settled
      <3>2. 1 \in Fwd(s.cal, n, 0) /\ 0 \in Delay
        BY <1>5, <1>6, <2>1, FirstPlace DEF Fwd
      <3> QED
        BY <1>5, <3>1, <3>2 DEF Exchange, Replies
    <2>4. Acts(r, Forwarding(r, n, e.pkt, e.peer), n)
      BY <1>10, <1>14, <2>2, <2>3, ForwardingActs
    <2> QED
      BY <1>13, <1>21, <2>1, <2>2, <2>3, <2>4 DEF RunForwarding, r, e
  <1>22. CASE RunWaitSend
    <2>1. e.kind = "WaitSend" /\ n \in Sensor /\ n \in Node
      BY <1>4, <1>5, <1>22, Line DEF RunWaitSend, Calls, BareKind, Event1, e
    <2>2. CASE r.dev[n].send_flag
      <3>1. WaitSend(r, n) = r
        BY <2>2 DEF WaitSend
      <3>2. Laws(r) /\ Undisturbed(r, r)
        BY <1>10, <2>1 DEF Undisturbed, SameExchange
      <3>3. Becomes(r)
        BY <1>22, <3>1 DEF RunWaitSend, r, e
      <3> QED
        BY <1>11, <3>2, <3>3
    <2>3. CASE ~r.dev[n].send_flag
      <3>1. Exchange(s.dev[n], s.cal, n, fresh)
        BY <1>6, <2>1 DEF Settled
      <3>2. Aligned(s.cal, n, 0)
        BY <1>4, <1>7, <2>1 DEF PhaseOf
      <3>3. /\ fresh' = FALSE /\ ~s.dev[n].send_flag
            /\ First(s.cal).kind = "WaitSend" /\ First(s.cal).node = n
        BY <1>5, <1>10, <1>22, <2>1, <2>3 DEF RunWaitSend, Becomes
      <3>4. ~s.dev[n].wait_ack
        BY <1>5, <1>6, <2>1, <3>1, <3>2, <3>3, PopWaitFree
      <3>5. ~device[n].wait_ack /\ ~r.dev[n].wait_ack
        BY <1>5, <1>10, <3>4
      <3>6. Acts(r, WaitSend(r, n), n)
        BY <1>14, <2>1, <3>5, WaitSendActs
      <3> QED
        BY <1>13, <1>22, <2>1, <3>5, <3>6 DEF RunWaitSend, r, e
    <2> QED
      BY <2>2, <2>3
  <1>23. CASE RunAckCheck
    <2>1. e.kind = "AckCheck"
      BY <1>5, <1>23 DEF RunAckCheck, Calls, Event1, e
    <2>2. n \in Sensor /\ n \in Node /\ e.pkt \in Packet /\ e.peer \in Node
      BY <1>4, <2>1, Line DEF HopKind
    <2>3. PICK delay \in RandTimes(r.dev[n]) :
            Becomes(AckCheck(r, n, e.pkt, e.peer, delay))
      BY <1>10, <1>23 DEF RunAckCheck, r, e
    <2>4. Acts(r, AckCheck(r, n, e.pkt, e.peer, delay), n)
      BY <1>14, <2>2, AckCheckActs
    <2> QED
      BY <1>13, <2>1, <2>2, <2>3, <2>4 DEF TimerKind
  <1>24. CASE RunOriginalAckCheck
    <2>1. e.kind = "OriginalAckCheck"
      BY <1>5, <1>24 DEF RunOriginalAckCheck, Calls, Event1, e
    <2>2. n \in Sensor /\ n \in Node /\ e.pkt \in Packet
      BY <1>4, <2>1, Line DEF OwnKind
    <2>3. PICK delay \in RandTimes(r.dev[n]) :
            Becomes(OriginalAckCheck(r, n, e.pkt, delay))
      BY <1>10, <1>24 DEF RunOriginalAckCheck, r, e
    <2>4. Acts(r, OriginalAckCheck(r, n, e.pkt, delay), n)
      BY <1>14, <2>2, OriginalAckCheckActs
    <2> QED
      BY <1>13, <2>1, <2>2, <2>3, <2>4 DEF TimerKind
  <1>25. CASE RunReSend
    <2>1. e.kind = "ReSend"
      BY <1>5, <1>25 DEF RunReSend, Calls, Event1, e
    <2>2. n \in Sensor /\ n \in Node /\ e.pkt \in Packet /\ e.peer \in Node
      BY <1>4, <2>1, Line DEF HopKind
    <2>3. Acts(r, ReSend(r, n, e.pkt, e.peer), n)
      BY <1>14, <2>2, ReSendActs
    <2>4. Becomes(ReSend(r, n, e.pkt, e.peer))
      BY <1>25 DEF RunReSend, r, e
    <2> QED
      BY <1>13, <2>1, <2>2, <2>3, <2>4 DEF TimerKind
  <1>26. CASE RunReOriginalSend
    <2>1. e.kind = "ReOriginalSend"
      BY <1>5, <1>26 DEF RunReOriginalSend, Calls, Event1, e
    <2>2. n \in Sensor /\ n \in Node /\ e.pkt \in Packet
      BY <1>4, <2>1, Line DEF OwnKind
    <2>3. Acts(r, ReOriginalSend(r, n, e.pkt), n)
      BY <1>14, <2>2, ReOriginalSendActs
    <2>4. Becomes(ReOriginalSend(r, n, e.pkt))
      BY <1>26 DEF RunReOriginalSend, r, e
    <2> QED
      BY <1>13, <2>1, <2>2, <2>3, <2>4 DEF TimerKind
  <1> QED
    BY <1>15, <1>16, <1>17, <1>18, <1>19, <1>20, <1>21, <1>22, <1>23, <1>24,
       <1>25, <1>26 DEF RunEvent

(* A new datum is not yet queued, whatever its sensor has queued before.   *)
LEMMA NewDatum ==
  ASSUME IInv, NEW n \in Node, NEW p \in Packet, Data(p) = <<n, device[n].ndid>>
  PROVE  ~Queued(device[n].m_queue, p)
  <1> SUFFICES ASSUME NEW i \in 1..Len(device[n].m_queue),
                      SameData(device[n].m_queue[i], p)
               PROVE  FALSE
    BY DEF Queued
  <1> DEFINE q == device[n].m_queue
             H == Holding(heard[n])
  <1>1. q \in Seq(H)
    <2>1. device \in Devices(heard, NextIdentities(device))
      BY DEF IInv, Nets, Now
    <2> QED
      BY <2>1 DEF Devices, DeviceOf, Queues
  <1> HIDE DEF H
  <1>2. q[i] \in H
    BY <1>1
  <1>3. Data(q[i]) \in heard[n]
    BY <1>2 DEF H, Holding
  <1>4. Data(q[i]) = <<n, device[n].ndid>>
    BY DEF Data, SameData
  <1>5. device[n].ndid < NextIdentities(device)[n]
    BY <1>3, <1>4 DEF IInv, NoPhantom
  <1>6. NextIdentities(device)[n] = device[n].ndid /\ device[n].ndid \in Nat
    <2>1. NextIdentities(device) \in Identities
      BY DEF IInv
    <2> QED
      BY <2>1 DEF NextIdentities, Identities
  <1> QED
    BY <1>5, <1>6

LEMMA ArriveKeepsLaws ==
  ASSUME IInv, AllLaws, NEW n \in Sensor, Arrive(n)
  PROVE  AllLaws' /\ LeavesExchanges
  <1> DEFINE s == Now
             d == device[n]
             p == [type |-> "ORIGINAL_TRANSMISSION", osid |-> n, did |-> d.ndid]
             f == [d EXCEPT !.ndid = @ + 1]
             s1 == WithDevice(s, n, f)
             r == OriginalTransmission(s1, n, p)
             qe == Enqueue(f.m_queue, p)
             g == [f EXCEPT !.m_queue = qe]
  <1>1. /\ d.ndid <= MaxData[n]
        /\ device' = Originate(s, n).dev /\ calendar' = Originate(s, n).cal
        /\ heard' = [heard EXCEPT ![n] = @ \cup {<<n, d.ndid>>}]
    BY DEF Arrive
  <1>2. s.dev = device /\ s.cal = calendar /\ s \in Networks /\ Laws(s) /\ n \in Node
    BY Line, AllLawsOfNow
  <1>3. d \in Device /\ Lawful(d, n)
    BY <1>2 DEF Networks, Laws
  <1>4. d.ndid \in DataId /\ d.ndid + 1 \in 1..(MaxDid + 1)
    <2>1. MaxData[n] \in 0..MaxDid /\ MaxDid \in Int
      BY ScenarioAssumption, LineAssumption
    <2>2. d.ndid \in 1..(MaxDid + 1)
      BY <1>3 DEF Device
    <2> HIDE DEF d
    <2> QED
      BY <1>1, <2>1, <2>2 DEF DataId
  <1>5. p \in Packet /\ Data(p) = <<n, device[n].ndid>>
    BY <1>4 DEF Packet, PacketType, Data
  <1>6. ~Queued(d.m_queue, p)
    <2> HIDE DEF p
    <2> QED
      BY <1>2, <1>5, NewDatum
  <1>7. /\ f \in Device /\ SameFlags(d, f) /\ Lawful(f, n) /\ SameExchange(d, f)
        /\ f.m_queue = d.m_queue
    <2> HIDE DEF d
    <2> QED
      BY <1>3, <1>4 DEF Device, SameFlags, SameExchange, Lawful, AckFlags
  <1>8. Originate(s, n) = r
    BY <1>2 DEF Originate, WithDevice
  <1> HIDE DEF s, f, p
  <1>9. Acts(s, s, n)
    BY <1>2 DEF Acts, SameFlags, SameReceptions, Laws
  <1>10. Acts(s, s1, n) /\ s1.dev[n] = f
    BY <1>2, <1>7, <1>9, ActsDevice
  <1>11. Acts(s, r, n)
    BY <1>5, <1>6, <1>7, <1>10, OriginalTransmissionActs
  <1>12. AllLaws'
    <2> HIDE DEF r, s1
    <2>1. Laws(r)
      BY <1>2, <1>11, ActsKeepsLaws
    <2>2. \A m \in Node : heard[m] \subseteq heard'[m]
      BY <1>1 DEF IInv, Histories
    <2> QED
      BY <1>1, <1>8, <2>1, <2>2, BecomesLaws
  <1>13. ASSUME d.wait_ack
         PROVE  SameExchange(d, r.dev[n])
    <2>1. r = WithDevice(s1, n, g)
      BY <1>7, <1>10, <1>13 DEF OriginalTransmission, SameExchange
    <2>2. f.m_queue \in Seq(Packet) /\ qe \in Seq(Packet)
      <3>1. f.m_queue \in Seq(Packet)
        BY <1>7 DEF Device
      <3> QED
        BY <1>5, <3>1, QueuesOfPackets
    <2> HIDE DEF qe, r, s1, d
    <2>3. g \in Device /\ SameExchange(f, g)
      BY <1>7, <2>2 DEF Device, SameExchange
    <2> HIDE DEF g
    <2>4. WithDevice(s1, n, g).dev[n] = g
      BY <1>2, <1>10, <2>3, WithDeviceNetwork DEF Acts
    <2> QED
      BY <1>7, <2>1, <2>3, <2>4 DEF SameExchange
  <1> HIDE DEF r
  <1>14. LeavesExchanges
    <2>1. \A m \in Node \ {n} : device'[m] = device[m]
      BY <1>1, <1>2, <1>8, <1>11 DEF Acts
    <2>2. device[n].wait_ack => SameExchange(device[n], device'[n])
      BY <1>1, <1>8, <1>13
    <2> QED
      BY <2>1, <2>2, Line DEF LeavesExchanges, SameExchange
  <1> QED
    BY <1>12, <1>14

LEMMA ReportKeepsLaws ==
  ASSUME IInv, AllLaws, NEW g \in Gateway, Report(g)
  PROVE  AllLaws' /\ LeavesExchanges
  <1> DEFINE f == [device[g] EXCEPT !.m_queue = << >>]
  <1>1. device \in [Node -> Device] /\ g \in Node /\ g \notin Sensor
    BY LineAssumption DEF IInv, Nets, Devices, Now, Gateway, Node, Sensor
  <1>2. /\ device' = [device EXCEPT ![g] = f]
        /\ calendar' = calendar /\ heard' = heard
    BY DEF Report
  <1>3. f.m_queue = << >> /\ SameFlags(device[g], f)
    BY <1>1 DEF Device, SameFlags
  <1>4. Lawful(f, g)
    BY <1>1, <1>3 DEF Lawful, Distinct
  <1> HIDE DEF f
  <1>5. ASSUME NEW m \in Node
        PROVE  Window(device'[m], calendar, m) /\ Lawful(device'[m], m)
    <2>1. Window(device[m], calendar, m) /\ Lawful(device[m], m)
      BY DEF AllLaws
    <2>2. CASE m = g
      <3>1. device'[m] = f
        BY <1>1, <1>2, <2>2
      <3> QED
        BY <1>3, <1>4, <2>1, <2>2, <3>1 DEF Window, SameFlags
    <2>3. CASE m # g
      BY <1>1, <1>2, <2>1, <2>3
    <2> QED
      BY <2>2, <2>3
  <1>6. AllLaws'
    <2> DEFINE s == [dev |-> device', cal |-> calendar]
    <2>1. Laws(s) /\ s.dev = device' /\ s.cal = calendar
      BY <1>5 DEF Laws
    <2> HIDE DEF s
    <2> QED
      BY <1>2, <2>1, BecomesLaws
  <1>7. LeavesExchanges
    BY <1>1, <1>2, Line DEF LeavesExchanges
  <1> QED
    BY <1>6, <1>7

LEMMA AdvanceWindow ==
  ASSUME NEW cal \in Calendars(Event), NEW n, NEW d, Window(d, cal, n),
         NEW t \in 1..Second, \A u \in 0..(t - 1) : cal[u] = << >>
  PROVE  Window(d, Advance(cal, t), n)
  <1> DEFINE c == Advance(cal, t)
  <1>0. t \in Delay /\ 0 \in Delay /\ t \in Nat \ {0} /\ Horizon \in Nat
    BY HorizonAssumption DEF Delay, Second
  <1>1. ASSUME NEW K, NEW u \in Delay, NEW i \in At(c, K, n, u)
        PROVE  u + t \in Delay /\ i \in At(cal, K, n, u + t)
    BY <1>0, <1>1, AdvancePlaces
  <1>2. ASSUME NEW K, NEW u \in Delay, At(cal, K, n, u) # {}
        PROVE  u - t \in Delay /\ At(c, K, n, u - t) # {}
    <2>1. u \in Nat /\ u <= Horizon
      BY <1>0 DEF Delay
    <2>2. cal[u] # << >>
      BY <1>2 DEF At
    <2>3. u >= t
      BY <1>0, <2>1, <2>2
    <2>4. u - t \in Delay /\ (u - t) + t = u
      BY <1>0, <2>1, <2>3 DEF Delay
    <2>5. At(c, K, n, u - t) = At(cal, K, n, u)
      BY <1>0, <2>4, AdvancePlaces
    <2> QED
      BY <1>2, <2>4, <2>5
  <1> HIDE DEF c
  <1>3. ASSUME NEW u \in Delay, NEW i \in Check(c, n, u)
        PROVE  /\ d.receive_flag
               /\ \A v \in Delay : \A j \in Check(c, n, v) : v = u /\ j = i
    <2>1. u + t \in Delay /\ i \in Check(cal, n, u + t)
      BY <1>1, <1>3 DEF Check
    <2>2. ASSUME NEW v \in Delay, NEW j \in Check(c, n, v)
          PROVE  v = u /\ j = i
      <3>1. v + t \in Delay /\ j \in Check(cal, n, v + t)
        BY <1>1, <2>2 DEF Check
      <3>2. v + t = u + t /\ j = i
        BY <2>1, <3>1 DEF Window
      <3> QED
        BY <1>0, <3>2 DEF Delay
    <2> QED
      BY <2>1, <2>2 DEF Window
  <1>4. d.receive_flag => \E u \in Delay : Check(c, n, u) # {}
    BY <1>2 DEF Window, Check
  <1>5. \A u \in Delay : Recv(c, n, u) = {}
    <2> SUFFICES ASSUME NEW u \in Delay, NEW i \in Recv(c, n, u) PROVE FALSE
      OBVIOUS
    <2>1. u + t \in Delay /\ i \in Recv(cal, n, u + t)
      BY <1>1 DEF Recv
    <2>2. u + t = 0 /\ u \in Nat
      BY <1>0, <2>1 DEF Window, Delay
    <2> QED
      BY <1>0, <2>2
  <1> QED
    BY <1>3, <1>4, <1>5 DEF Window, c

LEMMA TickKeepsLaws ==
  ASSUME IInv, AllLaws, Tick
  PROVE  AllLaws' /\ LeavesExchanges
  <1>1. PICK t \in 1..Second :
          /\ \A u \in 1..(t - 1) : ~IsInstant(u)
          /\ calendar' = Advance(calendar, t)
    BY DEF Tick
  <1>2. ~Due(calendar) /\ device' = device /\ heard' = heard
    BY DEF Tick
  <1>3. calendar \in Calendars(Event)
    BY DEF IInv, Nets, Agendas, Now
  <1>4. \A u \in 0..(t - 1) : calendar[u] = << >>
    BY <1>1, <1>2 DEF Due, IsInstant
  <1>5. ASSUME NEW n \in Node
        PROVE  Window(device[n], Advance(calendar, t), n) /\ Lawful(device[n], n)
    BY <1>3, <1>4, AdvanceWindow DEF AllLaws
  <1> DEFINE s == [dev |-> device, cal |-> Advance(calendar, t)]
  <1>6. Laws(s) /\ s.dev = device' /\ s.cal = calendar'
    BY <1>1, <1>2, <1>5 DEF Laws
  <1> HIDE DEF s
  <1>7. AllLaws'
    BY <1>2, <1>6, BecomesLaws
  <1>8. LeavesExchanges
    BY <1>2 DEF LeavesExchanges
  <1> QED
    BY <1>7, <1>8

LEMMA InitAllLaws == Init => AllLaws
  <1> SUFFICES ASSUME Init, NEW n \in Node
               PROVE  Window(device[n], calendar, n) /\ Lawful(device[n], n)
    BY DEF AllLaws
  <1>1. calendar = [t \in Delay |-> << >>] /\ device[n] = NewDevice
    BY DEF Init, EmptyCalendar
  <1>2. \A t \in Delay : Check(calendar, n, t) = {} /\ Recv(calendar, n, t) = {}
    BY <1>1 DEF At, Check, Recv
  <1>3. /\ ~device[n].receive_flag /\ ~device[n].receive_flag_1
        /\ ~device[n].wait_ack /\ device[n].m_queue = << >>
    BY <1>1 DEF NewDevice
  <1> QED
    BY <1>2, <1>3 DEF Window, Lawful, Distinct, AckFlags

LEMMA NextKeepsLaws ==
  ASSUME IInv, Exchanges, AllLaws, Next
  PROVE  AllLaws' /\ LeavesExchanges
  BY ArriveKeepsLaws, ReportKeepsLaws, TickKeepsLaws, EventKeepsLaws DEF Next

LEMMA StepKeepsLaws == IInv /\ Exchanges /\ AllLaws /\ [Next]_vars => AllLaws'
  <1> SUFFICES ASSUME IInv, Exchanges, AllLaws, [Next]_vars PROVE AllLaws'
    OBVIOUS
  <1>1. CASE UNCHANGED vars
    BY <1>1 DEF AllLaws, Lawful, AckFlags, vars
  <1> QED
    BY <1>1, NextKeepsLaws

LEMMA AlwaysLaws == Spec => []AllLaws
  BY InitIInv, InitExchanges, InitAllLaws, StepKeepsIInv, StepKeepsExchanges,
     StepKeepsLaws, PTL DEF Spec
-----------------------------------------------------------------------------
(* One reception at a time, at every node of every line: the window is     *)
(* open exactly while its ReceiveCheck is scheduled, a collision is marked *)
(* only inside a window, and at most one received packet waits to be       *)
(* handled.                                                                *)
THEOREM OneReceptionAtATime == Spec => []ReceptionWindow
  <1>1. ASSUME IInv, AllLaws PROVE ReceptionWindow
    <2> SUFFICES
          ASSUME NEW n \in Node
          PROVE  /\ Cardinality(Pending(calendar, {"ReceiveCheck"}, n)) =
                      IF device[n].receive_flag THEN 1 ELSE 0
                 /\ device[n].receive_flag_1 => device[n].receive_flag
                 /\ Cardinality(Pending(calendar, {"Receive"}, n)) <= 1
      BY DEF ReceptionWindow
    <2>1. calendar \in Calendars(Event) /\ Window(device[n], calendar, n)
      BY <1>1 DEF AllLaws, IInv, Nets, Agendas, Now
    <2> DEFINE C == Pending(calendar, {"ReceiveCheck"}, n)
               R == Pending(calendar, {"Receive"}, n)
    <2>2. \A e \in C : /\ e[1] \in Delay /\ e[2] \in Check(calendar, n, e[1])
                       /\ e = <<e[1], e[2]>>
      BY <2>1, PendingPlaces DEF Check
    <2>3. \A t \in Delay : \A i \in Check(calendar, n, t) : <<t, i>> \in C
      BY <2>1, PendingPlaces DEF Check
    <2>4. \A e \in R : /\ e[1] \in Delay /\ e[2] \in Recv(calendar, n, e[1])
                       /\ e = <<e[1], e[2]>>
      BY <2>1, PendingPlaces DEF Recv
    <2> HIDE DEF C, R
    <2>5. Cardinality(C) = IF device[n].receive_flag THEN 1 ELSE 0
      <3>1. CASE C = {}
        <4>1. ~device[n].receive_flag
          BY <2>1, <2>3, <3>1 DEF Window
        <4> QED
          BY <3>1, <4>1, FS_EmptySet
      <3>2. CASE C # {}
        <4>1. PICK e \in C : TRUE
          BY <3>2
        <4>2. device[n].receive_flag
          BY <2>1, <2>2, <4>1 DEF Window
        <4>3. ASSUME NEW f \in C PROVE f = e
          <5>1. f[1] = e[1] /\ f[2] = e[2]
            BY <2>1, <2>2, <4>1, <4>3 DEF Window
          <5> QED
            BY <2>2, <4>1, <4>3, <5>1
        <4>4. C = {e}
          BY <4>1, <4>3
        <4> QED
          BY <4>2, <4>4, FS_Singleton
      <3> QED
        BY <3>1, <3>2
    <2>6. Cardinality(R) <= 1
      <3>1. CASE R = {}
        BY <3>1, FS_EmptySet
      <3>2. CASE R # {}
        <4>1. PICK e \in R : TRUE
          BY <3>2
        <4>2. ASSUME NEW f \in R PROVE f = e
          <5>1. f[1] = 0 /\ e[1] = 0
            BY <2>1, <2>4, <4>1, <4>2 DEF Window
          <5>2. f[2] = e[2]
            BY <2>1, <2>4, <4>1, <4>2, <5>1 DEF Window
          <5> QED
            BY <2>4, <4>1, <4>2, <5>1, <5>2
        <4>3. R = {e}
          BY <4>1, <4>2
        <4> QED
          BY <4>3, FS_Singleton
      <3> QED
        BY <3>1, <3>2
    <2>7. device[n].receive_flag_1 => device[n].receive_flag
      BY <2>1 DEF Window
    <2> QED
      BY <2>5, <2>6, <2>7 DEF C, R
  <1> QED
    BY <1>1, AlwaysIInv, AlwaysLaws, PTL

(* An acknowledgement flag that is up during an exchange is true, whatever *)
(* was lost, repeated or retransmitted: the neighbour on that side has had *)
(* the data in its hands.                                                  *)
THEOREM FlagsAreTrue == Spec => []AckFlagsSound
  <1>1. ASSUME AllLaws PROVE AckFlagsSound
    <2>1. \A n \in Sensor : AckFlags(device[n], n)
      BY <1>1, Line DEF AllLaws, Lawful
    <2> QED
      BY <2>1 DEF AckFlagsSound, AckFlags
  <1> QED
    BY <1>1, AlwaysLaws, PTL

(* No queue holds the same data twice, although originating, overhearing,  *)
(* relaying and reporting all fill it: a gateway counts a datum once.      *)
THEOREM QueuesAreDistinct == Spec => []NoDuplicatesQueued
  <1>1. ASSUME AllLaws PROVE NoDuplicatesQueued
    BY <1>1 DEF AllLaws, Lawful, Distinct, NoDuplicatesQueued
  <1> QED
    BY <1>1, AlwaysLaws, PTL

(* Only the exchange's own timer ends it or replaces its packet: on every  *)
(* line no arrival, reception, reply or leftover WaitSend of the same      *)
(* node, and no step of another node, does.                                *)
THEOREM ExchangeKept == Spec => ExchangeUndisturbed
  <1> DEFINE A == \A n \in Sensor :
                    (device[n].wait_ack /\ ~RunsTimerOf(n)) =>
                      /\ device'[n].wait_ack
                      /\ device'[n].m_txPacket = device[n].m_txPacket
  <1>1. IInv /\ Exchanges /\ AllLaws /\ [Next]_vars => [A]_vars
    BY NextKeepsLaws DEF LeavesExchanges
  <1>2. Spec => [][A]_vars
    <2> HIDE DEF A
    <2> QED
      BY <1>1, AlwaysIInv, AlwaysExchanges, AlwaysLaws, PTL DEF Spec
  <1> QED
    BY <1>2 DEF ExchangeUndisturbed
=============================================================================
