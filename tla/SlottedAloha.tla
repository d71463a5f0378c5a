---------------------------- MODULE SlottedAloha ----------------------------
(***************************************************************************)
(* The scenarios of scratch/: a line of N sensors between two gateways on  *)
(* one SimpleChannel, whose applications originate data at whole seconds,  *)
(* run by the discrete-event simulator.  Every action but Arrive, Tick and *)
(* Report is the run of one scheduled handler of SimpleNetDevice.          *)
(***************************************************************************)
EXTENDS SimpleNetDevice

CONSTANTS MaxData,      \* how much data each sensor's application originates
          Lossy         \* whether the devices have a receive error model

ASSUME ScenarioAssumption ==
  /\ MaxData \in [Sensor -> 0..MaxDid]
  /\ Lossy \in BOOLEAN

VARIABLES device,       \* the state of each device
          calendar,     \* the simulator's event list
          clock,        \* tenths of a second since the last whole second
          fresh,        \* no event has run yet at this instant
          heard         \* history: the data each node has had in its hands

vars == <<device, calendar, clock, fresh, heard>>

Init ==
  /\ device = [n \in Node |-> NewDevice]
  /\ calendar = EmptyCalendar
  /\ clock = 0
  /\ fresh = TRUE
  /\ heard = [n \in Node |-> {}]

Now == [dev |-> device, cal |-> calendar]

(* The network becomes s. *)
Becomes(s) ==
  /\ device' = s.dev
  /\ calendar' = s.cal
  /\ fresh' = FALSE
  /\ UNCHANGED clock

-----------------------------------------------------------------------------
(* The scripts schedule the arrivals before Simulator::Run at whole        *)
(* seconds, so they run before anything else that is due at that instant.  *)
Arrive(n) ==
  /\ clock = 0 /\ fresh
  /\ device[n].ndid <= MaxData[n]
  /\ LET s == Originate(Now, n)
     IN  device' = s.dev /\ calendar' = s.cal
  /\ heard' = [heard EXCEPT ![n] = @ \cup {<<n, device[n].ndid>>}]
  /\ UNCHANGED <<clock, fresh>>

(* Print, scheduled by the scripts for a time after the last arrival: a    *)
(* gateway reports and empties its queue.                                  *)
Report(g) ==
  /\ clock = 0 /\ fresh
  /\ \A n \in Sensor : device[n].ndid > MaxData[n]
  /\ device' = [device EXCEPT ![g].m_queue = << >>]
  /\ UNCHANGED <<calendar, clock, fresh, heard>>

(* Nothing is left to run now: on to the next event or whole second. *)
IsInstant(t) == calendar[t] # << >> \/ (clock + t) % Second = 0

Tick ==
  /\ ~Due(calendar)
  /\ ~(Idle(calendar) /\ clock = 0 /\ fresh)
  /\ \E t \in 1..Second :
       /\ IsInstant(t)
       /\ \A u \in 1..(t - 1) : ~IsInstant(u)
       /\ calendar' = Advance(calendar, t)
       /\ clock' = (clock + t) % Second
       /\ fresh' = TRUE
  /\ UNCHANGED <<device, heard>>

-----------------------------------------------------------------------------
(* The next event is a call of the handler. *)
Calls(kind) ==
  /\ Due(calendar)
  /\ First(calendar).kind = kind

Event1 == First(calendar)
Popped == [dev |-> device, cal |-> Pop(calendar)]

RunReceiveStart ==
  /\ Calls("ReceiveStart")
  /\ Becomes(ReceiveStart(Popped, Event1.node, Event1.pkt, Event1.peer))
  /\ UNCHANGED heard

RunReceiveCheck ==
  /\ Calls("ReceiveCheck")
  /\ Becomes(ReceiveCheck(Popped, Event1.node, Event1.pkt, Event1.peer))
  /\ UNCHANGED heard

(* The error model takes the packet. *)
RunReceiveCorrupt ==
  /\ Calls("Receive")
  /\ Lossy
  /\ Becomes(Popped)
  /\ UNCHANGED heard

RunReceive ==
  /\ Calls("Receive")
  /\ Becomes(Receive(Popped, Event1.node, Event1.pkt, Event1.peer))
  /\ heard' = [heard EXCEPT ![Event1.node] =
                 IF device[Event1.node].send_flag \/ Event1.pkt.type = "IACK"
                 THEN @
                 ELSE @ \cup {Data(Event1.pkt)}]

RunSetSleep ==
  /\ Calls("SetSleep")
  /\ Becomes(SetSleep(Popped, Event1.node))
  /\ UNCHANGED heard

RunAckSend ==
  /\ Calls("AckSend")
  /\ Becomes(AckSend(Popped, Event1.node, Event1.pkt, Event1.peer))
  /\ UNCHANGED heard

RunForwarding ==
  /\ Calls("Forwarding")
  /\ Becomes(Forwarding(Popped, Event1.node, Event1.pkt, Event1.peer))
  /\ UNCHANGED heard

RunWaitSend ==
  /\ Calls("WaitSend")
  /\ Becomes(WaitSend(Popped, Event1.node))
  /\ UNCHANGED heard

RunAckCheck ==
  /\ Calls("AckCheck")
  /\ \E delay \in RandTimes(device[Event1.node]) :
       Becomes(AckCheck(Popped, Event1.node, Event1.pkt, Event1.peer, delay))
  /\ UNCHANGED heard

RunOriginalAckCheck ==
  /\ Calls("OriginalAckCheck")
  /\ \E delay \in RandTimes(device[Event1.node]) :
       Becomes(OriginalAckCheck(Popped, Event1.node, Event1.pkt, delay))
  /\ UNCHANGED heard

RunReSend ==
  /\ Calls("ReSend")
  /\ Becomes(ReSend(Popped, Event1.node, Event1.pkt, Event1.peer))
  /\ UNCHANGED heard

RunReOriginalSend ==
  /\ Calls("ReOriginalSend")
  /\ Becomes(ReOriginalSend(Popped, Event1.node, Event1.pkt))
  /\ UNCHANGED heard

(* Simulator::Run: the event list is worked off. *)
RunEvent ==
  \/ RunReceiveStart \/ RunReceiveCheck
  \/ RunReceiveCorrupt \/ RunReceive
  \/ RunSetSleep \/ RunAckSend \/ RunForwarding \/ RunWaitSend
  \/ RunAckCheck \/ RunOriginalAckCheck \/ RunReSend \/ RunReOriginalSend

Next ==
  \/ \E n \in Sensor : Arrive(n)
  \/ \E g \in Gateway : Report(g)
  \/ Tick
  \/ RunEvent

(* The simulator never stops while an event is scheduled. *)
Fairness == WF_vars(Tick \/ RunEvent)

Spec == Init /\ [][Next]_vars
FairSpec == Spec /\ Fairness
-----------------------------------------------------------------------------
(* Type correctness, including the drop-tail limit: no device ever holds   *)
(* more than MaxPackets in m_queue, whichever handler filled it.           *)
TypeOK ==
  /\ device \in [Node -> Device]
  /\ \A n \in Node : Len(device[n].m_queue) <= MaxPackets
  /\ calendar \in Calendars(Event)
  /\ clock \in 0..(Second - 1)
  /\ fresh \in BOOLEAN
  /\ heard \in [Node -> SUBSET (Sensor \X DataId)]

(* Slots: transmissions start, and every timer runs, at a whole second;    *)
(* reception ends 0.9 s into the slot.  The 0.1 s and 1.1 s reply delays   *)
(* of Receive bring a relay back to the next slot boundary.                *)
PhaseOf(kind) == IF kind \in {"ReceiveCheck", "Receive"} THEN 9 ELSE 0

SlotAligned ==
  \A e \in Entries(calendar) :
     (clock + e[1]) % Second = PhaseOf(Entry(calendar, e).kind)

(* Stop and wait: a sensor awaits an acknowledgement exactly while one of  *)
(* its acknowledgement timers (check or back-off) is scheduled, and never  *)
(* has two: no exchange is left waiting for ever or checked twice.         *)
AwaitingHasOneTimer ==
  \A n \in Sensor :
     Cardinality(Pending(calendar, TimerKind, n)) =
       IF device[n].wait_ack THEN 1 ELSE 0

(* The timer of an exchange is for the packet in m_txPacket, which is      *)
(* therefore never null when Receive dereferences it on an IACK.           *)
TimerIsForTxPacket ==
  \A n \in Sensor : \A e \in Pending(calendar, TimerKind, n) :
     /\ device[n].m_txPacket # NoPacket
     /\ SameData(device[n].m_txPacket, Entry(calendar, e).pkt)

(* send_flag is up from the acceptance of data, through the reply delay,   *)
(* until the last SetSleep of the sends: no SetSleep of an earlier send    *)
(* ends a later one, and no node sends or is about to while it listens.    *)
SendFlagCoversSending ==
  \A n \in Sensor :
     LET replies == Pending(calendar, {"AckSend", "Forwarding"}, n)
         sleeps  == Pending(calendar, {"SetSleep"}, n)
     IN  /\ device[n].send_flag => replies \cup sleeps # {}
         /\ replies # {} => device[n].send_flag
         /\ (\E e \in sleeps : e[1] > 0) => device[n].send_flag

(* An acknowledgement flag that is up during an exchange is true: the      *)
(* neighbour on that side has had the data in its hands.  (The flags       *)
(* preset towards a gateway are not acknowledgements.)                     *)
AckFlagsSound ==
  \A n \in Sensor : device[n].wait_ack =>
     LET data == Data(device[n].m_txPacket)
     IN  /\ device[n].rack_flag => n = N \/ data \in heard[Right(n)]
         /\ device[n].lack_flag => n = 1 \/ data \in heard[Left(n)]

(* One reception at a time: the window is open exactly while its           *)
(* ReceiveCheck is scheduled, a collision is marked only inside a window,  *)
(* and at most one received packet waits to be handled.                    *)
ReceptionWindow ==
  \A n \in Node :
     /\ Cardinality(Pending(calendar, {"ReceiveCheck"}, n)) =
          IF device[n].receive_flag THEN 1 ELSE 0
     /\ device[n].receive_flag_1 => device[n].receive_flag
     /\ Cardinality(Pending(calendar, {"Receive"}, n)) <= 1

(* No queue holds the same data twice: a gateway's report counts a datum   *)
(* once, and a sensor does not queue for relaying what it already has      *)
(* there, although several handlers fill the queue.                        *)
NoDuplicatesQueued ==
  \A n \in Node : \A i, j \in 1..Len(device[n].m_queue) :
     SameData(device[n].m_queue[i], device[n].m_queue[j]) => i = j

(* Back-off belongs to an exchange: outside one, k is back to 1, so no     *)
(* exchange starts with rounds already used up.                            *)
BackoffBelongsToExchange ==
  \A n \in Sensor :
     /\ device[n].k <= Round + 1
     /\ ~device[n].wait_ack => device[n].k = 1

(* Only the exchange's own timer ends it or replaces its packet; no        *)
(* arrival, reception or WaitSend of the same node does.                   *)
RunsTimerOf(n) == Due(calendar) /\ Event1.kind \in TimerKind /\ Event1.node = n

ExchangeUndisturbed ==
  [][\A n \in Sensor :
       (device[n].wait_ack /\ ~RunsTimerOf(n)) =>
         /\ device'[n].wait_ack
         /\ device'[n].m_txPacket = device[n].m_txPacket]_vars

(* Every run ends: back-off is bounded and no chain of acknowledgements    *)
(* and relays feeds itself, so the event list empties.                     *)
Quiesces == <>[]Idle(calendar)

(* The slot schedule of the acknowledgements is free of collisions when    *)
(* nobody else talks: data that crosses a silent line never collides and   *)
(* is never retransmitted.                                                 *)
NoCollision ==
  \A n \in Node : ~device[n].receive_flag_1 /\ device[n].k = 1

(* Data on a silent, lossless line reaches both gateways. *)
ReachesBothGateways ==
  \A n \in Sensor : \A i \in 1..MaxData[n] :
     <<n, i>> \in heard[n] ~> \A g \in Gateway : <<n, i>> \in heard[g]

(* README.md: "데이터가 생기면 바로 전송한다", data is transmitted as soon  *)
(* as it arises.  At the least, none is still queued at its own sensor     *)
(* when nothing more will run.                                             *)
OwnDataTransmitted ==
  Idle(calendar) =>
    \A n \in Sensor : \A i \in 1..Len(device[n].m_queue) :
       device[n].m_queue[i].osid # n

-----------------------------------------------------------------------------
(* What the line promises: data moves outward, hop by hop (LineRelay).     *)
Relay == INSTANCE LineRelay WITH known <- heard

ImplementsLineRelay == Relay!Spec

(* No hop is skipped: a node that has a datum has it from its neighbour on *)
(* the way, so every node between it and the originator has had it.        *)
NoHopSkipped == Relay!PathComplete
=============================================================================
