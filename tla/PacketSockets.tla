--------------------------- MODULE PacketSockets ---------------------------
(***************************************************************************)
(* The packet sockets of a node (packet-socket.cc) and the list of         *)
(* protocol handlers through which the node hands them what its devices    *)
(* receive (node.cc).  The node walks the list while the handlers run, and *)
(* a handler runs the application's receive callback, which may call any   *)
(* socket: the steps of the walk and the calls interleave.                 *)
(***************************************************************************)
EXTENDS Naturals, Sequences, FiniteSets, Sums
LOCAL INSTANCE SequencesExt

CONSTANTS Socket,
          Device,
          Protocol,      \* protocol numbers, 0 aside
          Binding,       \* the addresses sockets bind to: <<device, protocol>>
          AllDevices,    \* the address of no single device
          Sizes,         \* the sizes of packets
          RcvBufSize,
          Mtu,           \* the smallest MTU of the devices
          None           \* no reception, no callback, no address

ASSUME SocketAssumption ==
  /\ Protocol \subseteq Nat \ {0} /\ Sizes \subseteq Nat \ {0}
  /\ Binding \subseteq (Device \cup {AllDevices}) \X (Protocol \cup {0})
  /\ RcvBufSize \in Nat /\ Mtu \in Nat /\ None \notin Socket

VARIABLES handlers,      \* m_handlers: a sequence of [socket, device, protocol]
          m_state, m_shutdownSend, m_shutdownRecv, m_errno,
          m_deliveryQueue,  \* the sizes of the packets in it
          m_rxAvailable,
          reception      \* the walk that is under way

sockets == <<m_state, m_shutdownSend, m_shutdownRecv, m_errno>>
buffers == <<m_deliveryQueue, m_rxAvailable>>
vars == <<handlers, sockets, buffers, reception>>

Init ==
  /\ handlers = << >>
  /\ m_state = [s \in Socket |-> "OPEN"]
  /\ m_shutdownSend = [s \in Socket |-> FALSE]
  /\ m_shutdownRecv = [s \in Socket |-> FALSE]
  /\ m_errno = [s \in Socket |-> "NOTERROR"]
  /\ m_deliveryQueue = [s \in Socket |-> << >>]
  /\ m_rxAvailable = [s \in Socket |-> 0]
  /\ reception = None

Registered(s) == {i \in DOMAIN handlers : handlers[i].socket = s}
Matches(h, device, protocol) ==
  h.device \in {AllDevices, device} /\ h.protocol \in {0, protocol}

-----------------------------------------------------------------------------
(* The node.  A walk remembers its iterator and the socket whose callback  *)
(* runs; due and offered are history: the sockets that it has to reach,    *)
(* and how often it has reached each.                                      *)
ReceiveFromDevice(device, protocol, size) ==
  /\ reception = None
  /\ reception' = [device |-> device, protocol |-> protocol, size |-> size,
                   next |-> 1, callback |-> None,
                   due |-> {s \in Socket : \E i \in Registered(s) :
                              Matches(handlers[i], device, protocol)},
                   offered |-> [s \in Socket |-> 0]]
  /\ UNCHANGED <<handlers, sockets, buffers>>

Walking == reception # None /\ reception.callback = None
InWalk  == Walking /\ reception.next <= Len(handlers)
Current == handlers[reception.next]

Skip ==
  /\ InWalk /\ ~Matches(Current, reception.device, reception.protocol)
  /\ reception' = [reception EXCEPT !.next = @ + 1]
  /\ UNCHANGED <<handlers, sockets, buffers>>

AfterFirst ==                           \* variant: the walk ends at a handler
  reception' = [reception EXCEPT !.offered[Current.socket] = @ + 1,
                                 !.next = Len(handlers) + 1]

(* The handler returns and the iterator moves on. *)
PassedBy == reception' = [reception EXCEPT !.offered[Current.socket] = @ + 1,
                                           !.next = @ + 1]
CallsBack == reception' = [reception EXCEPT !.offered[Current.socket] = @ + 1,
                                            !.callback = Current.socket]

ForwardUpAnyway(s) ==                   \* variant: also after a shutdown
  /\ m_rxAvailable[s] + reception.size <= RcvBufSize
  /\ m_deliveryQueue' = [m_deliveryQueue EXCEPT ![s] = Append(@, reception.size)]
  /\ m_rxAvailable' = [m_rxAvailable EXCEPT ![s] = @ + reception.size]
  /\ CallsBack

ForwardUpUncounted(s) ==                \* variant: the size is not added
  /\ ~m_shutdownRecv[s] /\ m_rxAvailable[s] + reception.size <= RcvBufSize
  /\ m_deliveryQueue' = [m_deliveryQueue EXCEPT ![s] = Append(@, reception.size)]
  /\ CallsBack
  /\ UNCHANGED m_rxAvailable

(* The packet is delivered, and the receive callback starts. *)
ForwardUp(s) ==
  /\ ~m_shutdownRecv[s] /\ m_rxAvailable[s] + reception.size <= RcvBufSize
  /\ m_deliveryQueue' = [m_deliveryQueue EXCEPT ![s] = Append(@, reception.size)]
  /\ m_rxAvailable' = [m_rxAvailable EXCEPT ![s] = @ + reception.size]
  /\ CallsBack

(* The socket does not receive any more, or has no room: the packet drops. *)
ForwardUpDropped(s) ==
  /\ m_shutdownRecv[s] \/ m_rxAvailable[s] + reception.size > RcvBufSize
  /\ PassedBy
  /\ UNCHANGED buffers

Handle ==
  /\ InWalk /\ Matches(Current, reception.device, reception.protocol)
  /\ ForwardUp(Current.socket) \/ ForwardUpDropped(Current.socket)
  /\ UNCHANGED <<handlers, sockets>>

CallbackReturns ==
  /\ reception # None /\ reception.callback # None
  /\ reception' = [reception EXCEPT !.callback = None, !.next = @ + 1]
  /\ UNCHANGED <<handlers, sockets, buffers>>

WalkEnds ==
  /\ Walking /\ reception.next = Len(handlers) + 1
  /\ reception' = None
  /\ UNCHANGED <<handlers, sockets, buffers>>

UnregisterProtocolHandler(s) ==
  handlers' = RemoveAt(handlers, CHOOSE i \in Registered(s) : TRUE)

-----------------------------------------------------------------------------
(* The sockets.  Applications call them between events and in callbacks.   *)
(* A callback does not bind a socket, nor close one whose handler the walk *)
(* has reached: either would move the handlers under the iterator.         *)
Application == reception # None => reception.callback # None
Fails(s, error) == m_errno' = [m_errno EXCEPT ![s] = error]
NoEffect == UNCHANGED <<handlers, m_state, m_shutdownSend, m_shutdownRecv,
                        buffers, reception>>

Bind(s, address) ==
  /\ Application
  /\ \/ /\ m_state[s] = "OPEN" /\ reception = None
        /\ handlers' = Append(handlers, [socket |-> s, device |-> address[1],
                                         protocol |-> address[2]])
        /\ m_state' = [m_state EXCEPT ![s] = "BOUND"]
        /\ UNCHANGED <<m_shutdownSend, m_shutdownRecv, m_errno, buffers, reception>>
     \/ m_state[s] \in {"BOUND", "CONNECTED"} /\ Fails(s, "INVAL") /\ NoEffect
     \/ m_state[s] = "CLOSED" /\ Fails(s, "BADF") /\ NoEffect

Connect(s) ==
  /\ Application
  /\ \/ /\ m_state[s] = "BOUND"
        /\ m_state' = [m_state EXCEPT ![s] = "CONNECTED"]
        /\ UNCHANGED <<handlers, m_shutdownSend, m_shutdownRecv, m_errno,
                       buffers, reception>>
     \/ m_state[s] = "CLOSED" /\ Fails(s, "BADF") /\ NoEffect
     \/ m_state[s] = "OPEN" /\ Fails(s, "INVAL") /\ NoEffect
     \/ m_state[s] = "CONNECTED" /\ Fails(s, "ISCONN") /\ NoEffect
     \/ m_state[s] = "BOUND" /\ Fails(s, "AFNOSUPPORT") /\ NoEffect

Shutdown(s, flag) == [flag EXCEPT ![s] = TRUE]

ShutdownSend(s) ==
  /\ Application
  /\ IF m_state[s] = "CLOSED" THEN Fails(s, "BADF") /\ NoEffect
     ELSE /\ m_shutdownSend' = Shutdown(s, m_shutdownSend)
          /\ UNCHANGED <<handlers, m_state, m_shutdownRecv, m_errno, buffers, reception>>

ShutdownRecv(s) ==
  /\ Application
  /\ IF m_state[s] = "CLOSED" THEN Fails(s, "BADF") /\ NoEffect
     ELSE /\ m_shutdownRecv' = Shutdown(s, m_shutdownRecv)
          /\ UNCHANGED <<handlers, m_state, m_shutdownSend, m_errno, buffers, reception>>

ClosingBound(s) ==                    \* variant: stays registered if connected
  /\ m_state[s] # "CLOSED"
  /\ m_state' = [m_state EXCEPT ![s] = "CLOSED"]
  /\ m_shutdownSend' = Shutdown(s, m_shutdownSend)
  /\ m_shutdownRecv' = Shutdown(s, m_shutdownRecv)
  /\ IF m_state[s] = "BOUND" THEN UnregisterProtocolHandler(s) ELSE UNCHANGED handlers
  /\ reception' = IF reception = None THEN None ELSE [reception EXCEPT !.due = @ \ {s}]
  /\ UNCHANGED <<m_errno, buffers>>

(* Close of a socket that is open: it leaves what it has received in its   *)
(* queue.                                                                  *)
Closing(s) ==
  /\ m_state[s] # "CLOSED"
  /\ m_state' = [m_state EXCEPT ![s] = "CLOSED"]
  /\ m_shutdownSend' = Shutdown(s, m_shutdownSend)
  /\ m_shutdownRecv' = Shutdown(s, m_shutdownRecv)
  /\ IF m_state[s] \in {"BOUND", "CONNECTED"} THEN UnregisterProtocolHandler(s)
     ELSE UNCHANGED handlers
  /\ reception' = IF reception = None THEN None ELSE [reception EXCEPT !.due = @ \ {s}]
  /\ UNCHANGED <<m_errno, buffers>>

Close(s) ==
  /\ Application
  /\ reception # None => \A i \in Registered(s) : i > reception.next
  /\ Closing(s) \/ (m_state[s] = "CLOSED" /\ Fails(s, "BADF") /\ NoEffect)

(* The devices send the packet, or one of them fails; none of it changes   *)
(* the node or its sockets.                                                *)
SendTo(s, size) ==
  /\ Application
  /\ \/ m_state[s] = "CLOSED" /\ Fails(s, "BADF")
     \/ m_state[s] # "CLOSED" /\ m_shutdownSend[s] /\ Fails(s, "SHUTDOWN")
     \/ /\ m_state[s] # "CLOSED" /\ ~m_shutdownSend[s]
        /\ \/ Fails(s, "AFNOSUPPORT")
           \/ size > Mtu /\ Fails(s, "MSGSIZE")
           \/ size <= Mtu /\ (Fails(s, "INVAL") \/ UNCHANGED m_errno)
  /\ NoEffect

(* Send is SendTo the address that Connect has set. *)
Send(s, size) ==
  \/ Application /\ m_state[s] \in {"OPEN", "BOUND"} /\ Fails(s, "NOTCONN") /\ NoEffect
  \/ m_state[s] \in {"CONNECTED", "CLOSED"} /\ SendTo(s, size)

(* RecvFrom gives back nothing when the packet is larger than maxSize. *)
RecvFrom(s, maxSize) ==
  /\ Application
  /\ m_deliveryQueue[s] # << >> /\ Head(m_deliveryQueue[s]) <= maxSize
  /\ m_deliveryQueue' = [m_deliveryQueue EXCEPT ![s] = Tail(@)]
  /\ m_rxAvailable' = [m_rxAvailable EXCEPT ![s] = @ - Head(m_deliveryQueue[s])]
  /\ UNCHANGED <<handlers, sockets, reception>>

Next ==
  \/ \E d \in Device, p \in Protocol, n \in Sizes : ReceiveFromDevice(d, p, n)
  \/ Skip \/ Handle \/ CallbackReturns \/ WalkEnds
  \/ \E s \in Socket :
        \/ \E address \in Binding : Bind(s, address)
        \/ Connect(s) \/ ShutdownSend(s) \/ ShutdownRecv(s) \/ Close(s)
        \/ \E n \in Sizes : SendTo(s, n) \/ Send(s, n) \/ RecvFrom(s, n)

Spec == Init /\ [][Next]_vars

-----------------------------------------------------------------------------
(* Whatever calls are made, also in the middle of a walk, a socket is in   *)
(* the node's list exactly while it is bound or connected, and only once   *)
(* (packet-socket.cc:162, 207): a forgotten handler would keep a closed    *)
(* socket receiving, a second one would give it every packet twice.        *)
RegisteredWhileBound ==
  \A s \in Socket : Cardinality(Registered(s)) =
                      IF m_state[s] \in {"BOUND", "CONNECTED"} THEN 1 ELSE 0

(* m_rxAvailable, kept apart from the queue "to avoid walking the queue"   *)
(* (packet-socket.cc:434), is what the queue holds, and the receive buffer *)
(* is never exceeded, whatever a callback reads while ForwardUp runs.      *)
RxAvailableIsQueued ==
  \A s \in Socket : /\ m_rxAvailable[s] = Sum(m_deliveryQueue[s])
                    /\ m_rxAvailable[s] <= RcvBufSize

(* A walk offers its packet to every socket that listens from its start to *)
(* its end, and to none twice, although callbacks take handlers out of the *)
(* list while it is walked (node.cc:313, 269).                             *)
OfferedOnce ==
  (Walking /\ reception.next > Len(handlers)) =>
     \A s \in Socket : /\ reception.offered[s] <= 1
                       /\ s \in reception.due => reception.offered[s] = 1

(* After a close the handler is never invoked again (node.h:180), even if  *)
(* the walk that would have reached it is under way; and a socket that was *)
(* shut down only loses packets to its reader.                             *)
SilentAfterShutdown ==
  [][\A s \in Socket :
       /\ m_shutdownRecv[s] => Len(m_deliveryQueue'[s]) <= Len(m_deliveryQueue[s])
       /\ (m_state[s] = "CLOSED" /\ reception # None /\ reception' # None)
             => reception'.offered[s] = reception.offered[s]]_vars
=============================================================================
