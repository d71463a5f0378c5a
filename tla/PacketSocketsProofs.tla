------------------------ MODULE PacketSocketsProofs ------------------------
(***************************************************************************)
(* A socket is in its node's list of handlers exactly while it is bound or *)
(* connected, a closed socket is silent, its receive buffer is counted     *)
(* right and never exceeded, and a walk offers its packet to every socket  *)
(* it should once, for any number of sockets, devices, protocols and       *)
(* packets and every order of calls, also from callbacks in the middle of  *)
(* a walk, as long as a callback does not bind a socket or close its own   *)
(* or an earlier one (the guards of Bind and Close).                       *)
(***************************************************************************)
EXTENDS PacketSockets, SumTheorems
LOCAL INSTANCE SequencesExt

Handler == [socket : Socket, device : Device \cup {AllDevices},
            protocol : Protocol \cup {0}]
Bound(s) == m_state[s] \in {"BOUND", "CONNECTED"}

(* RegisteredWhileBound, with the one index itself rather than a count. *)
Registration ==
  /\ handlers \in Seq(Handler)
  /\ m_state \in [Socket -> {"OPEN", "BOUND", "CONNECTED", "CLOSED"}]
  /\ \A s \in Socket : Bound(s) => \E i \in DOMAIN handlers : Registered(s) = {i}
  /\ \A s \in Socket : ~Bound(s) => Registered(s) = {}

-----------------------------------------------------------------------------
(* Lists of handlers *)

(* Taking the k-th handler out moves those behind it one place forward. *)
LEMMA Removal ==
  ASSUME NEW h \in Seq(Handler), NEW k \in 1..Len(h)
  PROVE  /\ RemoveAt(h, k) \in Seq(Handler)
         /\ Len(RemoveAt(h, k)) = Len(h) - 1
         /\ \A j \in 1..(Len(h) - 1) :
               RemoveAt(h, k)[j] = IF j < k THEN h[j] ELSE h[j + 1]
  <1> DEFINE front == SubSeq(h, 1, k - 1)
             back  == SubSeq(h, k + 1, Len(h))
  <1>0. /\ Len(h) \in Nat /\ k \in Int /\ 1 <= k /\ k <= Len(h)
        /\ \A i \in 1..Len(h) : h[i] \in Handler
    BY LenProperties
  <1>1. /\ front \in Seq(Handler) /\ Len(front) = k - 1
        /\ \A j \in 1..(k - 1) : front[j] = h[j]
    BY <1>0, SubSeqProperties
  <1>2. /\ back \in Seq(Handler) /\ Len(back) = Len(h) - k
        /\ \A j \in 1..(Len(h) - k) : back[j] = h[k + j]
    BY <1>0, SubSeqProperties
  <1> HIDE DEF front, back
  <1>3. /\ front \o back \in Seq(Handler)
        /\ Len(front \o back) = Len(front) + Len(back)
        /\ \A j \in 1..(Len(front) + Len(back)) :
              (front \o back)[j] =
                IF j <= Len(front) THEN front[j] ELSE back[j - Len(front)]
    BY <1>1, <1>2, ConcatProperties
  <1>4. RemoveAt(h, k) = front \o back
    BY DEF RemoveAt, front, back
  <1>5. ASSUME NEW j \in 1..(Len(h) - 1)
        PROVE  (front \o back)[j] = IF j < k THEN h[j] ELSE h[j + 1]
    <2>1. CASE j < k
      BY <1>0, <1>1, <1>2, <1>3, <2>1
    <2>2. CASE ~(j < k)
      <3>1. (front \o back)[j] = back[j - (k - 1)]
        BY <1>0, <1>1, <1>2, <1>3, <2>2
      <3>2. back[j - (k - 1)] = h[k + (j - (k - 1))]
        BY <1>0, <1>2, <2>2
      <3> QED
        BY <1>0, <3>1, <3>2, <2>2
    <2> QED
      BY <2>1, <2>2
  <1>6. Len(front \o back) = Len(h) - 1
    BY <1>0, <1>1, <1>2, <1>3
  <1>7. front \o back \in Seq(Handler)
    BY <1>3
  <1> QED
    BY <1>4, <1>5, <1>6, <1>7, Zenon

-----------------------------------------------------------------------------
(* Registration *)

(* Bind, of a socket that is open: its handler is the last one. *)
LEMMA BindRegisters ==
  ASSUME Registration, NEW s \in Socket, NEW h \in Handler, h.socket = s,
         m_state[s] = "OPEN", handlers' = Append(handlers, h),
         m_state' = [m_state EXCEPT ![s] = "BOUND"]
  PROVE  Registration'
  <1> DEFINE n == Len(handlers) + 1
  <1>1. /\ handlers' \in Seq(Handler) /\ Len(handlers') = n
        /\ DOMAIN handlers = 1..Len(handlers) /\ DOMAIN handlers' = 1..n
        /\ Len(handlers) \in Nat
        /\ \A i \in 1..Len(handlers) : handlers'[i] = handlers[i]
        /\ handlers'[n] = h
    BY AppendProperties, LenProperties DEF Registration
  <1>2. m_state' \in [Socket -> {"OPEN", "BOUND", "CONNECTED", "CLOSED"}]
    BY DEF Registration
  <1>3. Registered(s)' = {n} /\ Bound(s)'
    <2>1. Registered(s) = {}
      BY DEF Registration, Bound
    <2>2. \A i \in 1..n : handlers'[i].socket = s <=> i = n
      BY <1>1, <2>1 DEF Registered
    <2> QED
      BY <1>1, <2>2 DEF Registered, Registration, Bound
  <1>4. ASSUME NEW t \in Socket, t # s
        PROVE  Registered(t)' = Registered(t) /\ (Bound(t)' <=> Bound(t))
    <2>1. Registered(t)' = Registered(t)
      BY <1>1, <1>4 DEF Registered
    <2> QED
      BY <2>1, <1>4 DEF Bound, Registration
  <1>5. ASSUME NEW t \in Socket, Bound(t)'
        PROVE  \E i \in DOMAIN handlers' : Registered(t)' = {i}
    BY <1>1, <1>3, <1>4, <1>5 DEF Registration
  <1>6. ASSUME NEW t \in Socket, ~Bound(t)'
        PROVE  Registered(t)' = {}
    BY <1>3, <1>4, <1>6 DEF Registration
  <1> QED
    BY <1>1, <1>2, <1>5, <1>6 DEF Registration, Bound, Registered

(* Close: the handlers behind the one taken out are each found one place   *)
(* further on.                                                             *)
LEMMA CloseUnregisters ==
  ASSUME Registration, NEW s \in Socket, Bound(s), UnregisterProtocolHandler(s),
         m_state' = [m_state EXCEPT ![s] = "CLOSED"]
  PROVE  Registration'
  <1>1. PICK k \in DOMAIN handlers : Registered(s) = {k}
    BY DEF Registration
  <1>2. handlers' = RemoveAt(handlers, k)
    BY <1>1 DEF UnregisterProtocolHandler
  <1>3. /\ Len(handlers) \in Nat /\ DOMAIN handlers = 1..Len(handlers)
        /\ handlers \in Seq(Handler)
    BY LenProperties DEF Registration
  <1>4. /\ handlers' \in Seq(Handler) /\ Len(handlers') = Len(handlers) - 1
        /\ \A j \in 1..(Len(handlers) - 1) :
              handlers'[j] = IF j < k THEN handlers[j] ELSE handlers[j + 1]
    BY <1>2, <1>3, Removal
  <1>5. DOMAIN handlers' = 1..(Len(handlers) - 1)
    BY <1>4, LenProperties
  <1>6. m_state' \in [Socket -> {"OPEN", "BOUND", "CONNECTED", "CLOSED"}]
    BY DEF Registration
  <1>7. \A i \in 1..Len(handlers) : handlers[i].socket = s <=> i = k
    BY <1>1, <1>3 DEF Registered
  <1>8. Registered(s)' = {} /\ ~Bound(s)'
    <2>1. \A j \in 1..(Len(handlers) - 1) : handlers'[j].socket # s
      BY <1>3, <1>4, <1>7
    <2> QED
      BY <1>5, <2>1 DEF Registered, Bound, Registration
  <1>9. ASSUME NEW t \in Socket, t # s, Bound(t)'
        PROVE  \E j \in DOMAIN handlers' : Registered(t)' = {j}
    <2>1. Bound(t)
      BY <1>9 DEF Bound, Registration
    <2>2. PICK i \in DOMAIN handlers : Registered(t) = {i}
      BY <2>1 DEF Registration
    <2>3. \A n \in 1..Len(handlers) : handlers[n].socket = t <=> n = i
      BY <1>3, <2>2 DEF Registered
    <2>4. i # k
      BY <1>3, <1>7, <1>9, <2>3
    <2> DEFINE j == IF i < k THEN i ELSE i - 1
    <2>5. j \in 1..(Len(handlers) - 1)
      BY <1>3, <2>4
    <2>6. \A n \in 1..(Len(handlers) - 1) : handlers'[n].socket = t <=> n = j
      <3> SUFFICES ASSUME NEW n \in 1..(Len(handlers) - 1)
                   PROVE  handlers'[n].socket = t <=> n = j
        OBVIOUS
      <3>1. CASE n < k
        <4>1. handlers'[n] = handlers[n] /\ n \in 1..Len(handlers)
          BY <1>3, <1>4, <3>1
        <4> QED
          BY <1>3, <2>3, <2>4, <3>1, <4>1
      <3>2. CASE ~(n < k)
        <4>1. handlers'[n] = handlers[n + 1] /\ n + 1 \in 1..Len(handlers)
          BY <1>3, <1>4, <3>2
        <4>2. handlers[n + 1].socket = t <=> n + 1 = i
          BY <2>3, <4>1
        <4> QED
          BY <1>3, <2>4, <3>2, <4>1, <4>2
      <3> QED
        BY <3>1, <3>2
    <2> QED
      BY <1>5, <2>5, <2>6 DEF Registered
  <1>10. ASSUME NEW t \in Socket, t # s, ~Bound(t)'
         PROVE  Registered(t)' = {}
    <2>1. Registered(t) = {}
      BY <1>10 DEF Bound, Registration
    <2>2. \A n \in 1..Len(handlers) : handlers[n].socket # t
      BY <1>3, <2>1 DEF Registered
    <2> QED
      BY <1>3, <1>4, <1>5, <2>2 DEF Registered
  <1> QED
    BY <1>4, <1>6, <1>8, <1>9, <1>10 DEF Registration, Bound, Registered

(* A call that leaves the list alone and binds or closes nobody. *)
LEMMA OthersKeepRegistration ==
  ASSUME Registration, UNCHANGED handlers,
         m_state' \in [Socket -> {"OPEN", "BOUND", "CONNECTED", "CLOSED"}],
         \A s \in Socket : Bound(s)' <=> Bound(s)
  PROVE  Registration'
  <1>1. \A s \in Socket : Registered(s)' = Registered(s)
    BY DEF Registered
  <1> QED
    BY <1>1 DEF Registration, Bound, Registered

LEMMA InitRegistration == Init => Registration
  <1> SUFFICES ASSUME Init PROVE Registration
    OBVIOUS
  <1>1. handlers = << >> /\ m_state = [s \in Socket |-> "OPEN"]
    BY DEF Init
  <1>2. handlers \in Seq(Handler) /\ DOMAIN handlers = {}
    BY <1>1
  <1> QED
    BY <1>1, <1>2 DEF Registration, Bound, Registered

LEMMA StepRegistration == Registration /\ [Next]_vars => Registration'
  <1> SUFFICES ASSUME Registration, [Next]_vars PROVE Registration'
    OBVIOUS
  <1>t. m_state \in [Socket -> {"OPEN", "BOUND", "CONNECTED", "CLOSED"}]
    BY DEF Registration
  <1>0. ASSUME UNCHANGED <<handlers, m_state>> PROVE Registration'
    BY <1>0, <1>t, OthersKeepRegistration DEF Bound
  <1>1. ASSUME NEW d \in Device, NEW p \in Protocol, NEW n \in Sizes,
               ReceiveFromDevice(d, p, n)
        PROVE  Registration'
    BY <1>0, <1>1 DEF ReceiveFromDevice, sockets
  <1>2. CASE Skip \/ Handle \/ CallbackReturns \/ WalkEnds
    BY <1>0, <1>2 DEF Skip, Handle, CallbackReturns, WalkEnds, sockets
  <1>3. ASSUME NEW s \in Socket, NEW address \in Binding, Bind(s, address)
        PROVE  Registration'
    <2>1. CASE m_state[s] = "OPEN" /\ m_state' = [m_state EXCEPT ![s] = "BOUND"]
      <3> DEFINE h == [socket |-> s, device |-> address[1], protocol |-> address[2]]
      <3>1. h \in Handler /\ h.socket = s
        BY SocketAssumption DEF Handler
      <3>2. handlers' = Append(handlers, h)
        BY <1>3, <2>1 DEF Bind
      <3> HIDE DEF h
      <3> QED
        BY <2>1, <3>1, <3>2, BindRegisters
    <2> QED
      BY <1>0, <1>3, <2>1 DEF Bind, NoEffect
  <1>4. ASSUME NEW s \in Socket, Connect(s)
        PROVE  Registration'
    <2>1. CASE /\ m_state[s] = "BOUND" /\ UNCHANGED handlers
               /\ m_state' = [m_state EXCEPT ![s] = "CONNECTED"]
      <3>1. /\ m_state' \in [Socket -> {"OPEN", "BOUND", "CONNECTED", "CLOSED"}]
            /\ \A t \in Socket : Bound(t)' <=> Bound(t)
        BY <1>t, <2>1 DEF Bound
      <3> QED
        BY <2>1, <3>1, OthersKeepRegistration
    <2> QED
      BY <1>0, <1>4, <2>1 DEF Connect, NoEffect
  <1>5. ASSUME NEW s \in Socket, Close(s)
        PROVE  Registration'
    <2>1. CASE Closing(s)
      <3>1. CASE Bound(s)
        BY <2>1, <3>1, CloseUnregisters DEF Closing, Bound
      <3>2. CASE ~Bound(s)
        <4>1. m_state' = [m_state EXCEPT ![s] = "CLOSED"] /\ UNCHANGED handlers
          BY <2>1, <3>2 DEF Closing, Bound
        <4>2. /\ m_state' \in [Socket -> {"OPEN", "BOUND", "CONNECTED", "CLOSED"}]
              /\ \A t \in Socket : Bound(t)' <=> Bound(t)
          BY <1>t, <3>2, <4>1 DEF Bound
        <4> QED
          BY <4>1, <4>2, OthersKeepRegistration
      <3> QED
        BY <3>1, <3>2
    <2> QED
      BY <1>0, <1>5, <2>1 DEF Close, NoEffect
  <1>6. ASSUME NEW s \in Socket, ShutdownSend(s) \/ ShutdownRecv(s)
        PROVE  Registration'
    BY <1>0, <1>6 DEF ShutdownSend, ShutdownRecv, NoEffect
  <1>7. ASSUME NEW s \in Socket, NEW n \in Sizes,
               SendTo(s, n) \/ Send(s, n) \/ RecvFrom(s, n)
        PROVE  Registration'
    BY <1>0, <1>7 DEF SendTo, Send, RecvFrom, NoEffect, sockets
  <1>8. CASE UNCHANGED vars
    BY <1>0, <1>8 DEF vars, sockets
  <1> QED
    BY <1>1, <1>2, <1>3, <1>4, <1>5, <1>6, <1>7, <1>8 DEF Next

LEMMA AlwaysRegistration == Spec => []Registration
  BY InitRegistration, StepRegistration, PTL DEF Spec

(* A socket's handler is in the node's list, once, exactly while the       *)
(* socket is bound or connected.                                           *)
THEOREM BoundIsRegistered == Spec => []RegisteredWhileBound
  <1>1. Registration => RegisteredWhileBound
    <2> SUFFICES ASSUME Registration, NEW s \in Socket
                 PROVE  Cardinality(Registered(s)) = IF Bound(s) THEN 1 ELSE 0
      BY DEF RegisteredWhileBound, Bound
    <2>1. CASE Bound(s)
      BY <2>1, FS_Singleton DEF Registration
    <2>2. CASE ~Bound(s)
      BY <2>2, FS_EmptySet DEF Registration
    <2> QED
      BY <2>1, <2>2
  <1> QED
    BY <1>1, AlwaysRegistration, PTL

-----------------------------------------------------------------------------
(* Silence *)

Receptions == [device : Device, protocol : Protocol, size : Sizes, next : Nat \ {0},
               callback : Socket \cup {None}, due : SUBSET Socket,
               offered : [Socket -> Nat]]
Types ==
  /\ m_deliveryQueue \in [Socket -> Seq(Sizes)]
  /\ reception # None => reception \in Receptions

LEMMA InitTypes == Init => Types
  BY DEF Init, Types

(* The walk only calls sockets that are bound or connected. *)
LEMMA CurrentIsBound ==
  ASSUME Registration, Types, InWalk
  PROVE  Current.socket \in Socket /\ Bound(Current.socket)
  <1>1. reception.next \in 1..Len(handlers) /\ DOMAIN handlers = 1..Len(handlers)
    BY LenProperties DEF Types, Receptions, InWalk, Walking, Registration
  <1>2. Current.socket \in Socket
    <2>1. Current \in Handler
      BY <1>1, LenProperties DEF Current, Registration
    <2> QED
      BY <2>1 DEF Handler
  <1>3. Registered(Current.socket) # {}
    BY <1>1 DEF Registered, Current
  <1> QED
    BY <1>2, <1>3 DEF Registration

(* The changes that a walk makes to its record *)
LEMMA MovesOn ==
  ASSUME NEW r \in Receptions
  PROVE  /\ [r EXCEPT !.next = @ + 1] \in Receptions
         /\ [r EXCEPT !.next = @ + 1].offered = r.offered
  BY DEF Receptions

LEMMA SetsCallback ==
  ASSUME NEW r \in Receptions, NEW c \in Socket \cup {None}
  PROVE  /\ [r EXCEPT !.callback = c] \in Receptions
         /\ [r EXCEPT !.callback = c].offered = r.offered
  BY DEF Receptions

LEMMA Offers ==
  ASSUME NEW r \in Receptions, NEW c \in Socket
  PROVE  /\ [r EXCEPT !.offered[c] = @ + 1] \in Receptions
         /\ [r EXCEPT !.offered[c] = @ + 1].offered =
              [r.offered EXCEPT ![c] = @ + 1]
  <1>1. [r.offered EXCEPT ![c] = r.offered[c] + 1] \in [Socket -> Nat]
    BY DEF Receptions
  <1> QED
    BY <1>1 DEF Receptions

(* A handler is called: its socket, and only it, is offered the packet. *)
LEMMA Handles ==
  ASSUME Registration, Types, Handle
  PROVE  /\ Current.socket \in Socket /\ Bound(Current.socket)
         /\ reception \in Receptions /\ reception' \in Receptions
         /\ reception'.offered = [reception.offered EXCEPT ![Current.socket] = @ + 1]
  <1> DEFINE c == Current.socket
             r == [reception EXCEPT !.offered[c] = @ + 1]
  <1>1. c \in Socket /\ Bound(c) /\ reception \in Receptions
    BY CurrentIsBound DEF Handle, Types, InWalk, Walking
  <1>2. /\ r \in Receptions
        /\ r.offered = [reception.offered EXCEPT ![c] = @ + 1]
    BY <1>1, Offers
  <1>3. CASE CallsBack
    <2>1. reception' = [r EXCEPT !.callback = c]
      BY <1>3 DEF CallsBack
    <2> HIDE DEF r, c
    <2> QED
      BY <1>1, <1>2, <2>1, SetsCallback DEF c
  <1>4. CASE PassedBy
    <2>1. reception' = [r EXCEPT !.next = @ + 1]
      BY <1>4 DEF PassedBy
    <2> HIDE DEF r, c
    <2> QED
      BY <1>1, <1>2, <2>1, MovesOn DEF c
  <1> QED
    BY <1>3, <1>4 DEF Handle, ForwardUp, ForwardUpDropped

LEMMA StepTypes == Registration /\ Types /\ [Next]_vars => Types'
  <1> SUFFICES ASSUME Registration, Types, [Next]_vars PROVE Types'
    OBVIOUS
  <1>0. ASSUME UNCHANGED <<m_deliveryQueue, reception>> PROVE Types'
    BY <1>0 DEF Types
  <1>1. ASSUME NEW d \in Device, NEW p \in Protocol, NEW n \in Sizes,
               ReceiveFromDevice(d, p, n)
        PROVE  Types'
    BY <1>1 DEF ReceiveFromDevice, buffers, Types, Receptions
  <1>2. CASE Skip
    BY <1>2, MovesOn DEF Skip, InWalk, Walking, buffers, Types
  <1>3. CASE Handle
    <2>1. /\ Current.socket \in Socket
          /\ reception \in Receptions /\ reception' \in Receptions
      BY <1>3, Handles
    <2>2. CASE ForwardUp(Current.socket)
      <3>1. reception.size \in Sizes
        BY <2>1 DEF Receptions
      <3>2. Append(m_deliveryQueue[Current.socket], reception.size) \in Seq(Sizes)
        BY <2>1, <3>1, AppendProperties DEF Types
      <3>3. m_deliveryQueue' \in [Socket -> Seq(Sizes)]
        BY <2>1, <2>2, <3>2 DEF ForwardUp, Types
      <3> QED
        BY <2>1, <3>3 DEF Types
    <2>3. CASE ForwardUpDropped(Current.socket)
      BY <2>1, <2>3 DEF ForwardUpDropped, buffers, Types
    <2> QED
      BY <1>3, <2>2, <2>3 DEF Handle
  <1>4. CASE CallbackReturns
    <2>1. reception \in Receptions /\ UNCHANGED m_deliveryQueue
      BY <1>4 DEF CallbackReturns, buffers, Types
    <2> DEFINE r == [reception EXCEPT !.callback = None]
    <2>2. r \in Receptions
      BY <2>1, SetsCallback
    <2>3. reception' = [r EXCEPT !.next = @ + 1]
      BY <1>4 DEF CallbackReturns
    <2> HIDE DEF r
    <2> QED
      BY <2>1, <2>2, <2>3, MovesOn DEF Types
  <1>5. CASE WalkEnds
    BY <1>5 DEF WalkEnds, buffers, Types
  <1>6. ASSUME NEW s \in Socket, NEW address \in Binding, Bind(s, address)
        PROVE  Types'
    BY <1>0, <1>6 DEF Bind, NoEffect, buffers
  <1>7. ASSUME NEW s \in Socket, Connect(s) \/ ShutdownSend(s) \/ ShutdownRecv(s)
        PROVE  Types'
    BY <1>0, <1>7 DEF Connect, ShutdownSend, ShutdownRecv, NoEffect, buffers
  <1>8. ASSUME NEW s \in Socket, Close(s)
        PROVE  Types'
    <2>1. CASE Closing(s)
      BY <2>1 DEF Closing, buffers, Types, Receptions
    <2> QED
      BY <1>0, <1>8, <2>1 DEF Close, NoEffect, buffers
  <1>9. ASSUME NEW s \in Socket, NEW n \in Sizes, SendTo(s, n) \/ Send(s, n)
        PROVE  Types'
    BY <1>0, <1>9 DEF SendTo, Send, NoEffect, buffers
  <1>10. ASSUME NEW s \in Socket, NEW n \in Sizes, RecvFrom(s, n)
         PROVE  Types'
    <2>1. m_deliveryQueue[s] \in Seq(Sizes) /\ m_deliveryQueue[s] # << >>
      BY <1>10 DEF RecvFrom, Types
    <2>2. Tail(m_deliveryQueue[s]) \in Seq(Sizes)
      BY <2>1, HeadTailProperties
    <2> QED
      BY <1>10, <2>2 DEF RecvFrom, Types
  <1>11. CASE UNCHANGED vars
    BY <1>0, <1>11 DEF vars, buffers
  <1> QED
    BY <1>1, <1>2, <1>3, <1>4, <1>5, <1>6, <1>7, <1>8, <1>9, <1>10, <1>11 DEF Next

LEMMA AlwaysTypes == Spec => [](Registration /\ Types)
  BY InitRegistration, StepRegistration, InitTypes, StepTypes, PTL DEF Spec

-----------------------------------------------------------------------------
(* The receive buffer *)

Filled == m_rxAvailable \in [Socket -> Int] /\ RxAvailableIsQueued

LEMMA SizesAreNumbers == \A q \in Seq(Sizes) : q \in Seq(Int)
  <1>1. Sizes \subseteq Int
    BY SocketAssumption
  <1> QED
    BY <1>1, SeqMonotonic

LEMMA InitFilled == Init => Filled
  <1> SUFFICES ASSUME Init PROVE Filled
    OBVIOUS
  <1>1. RcvBufSize \in Nat
    BY SocketAssumption
  <1>2. m_rxAvailable \in [Socket -> Int]
    BY DEF Init
  <1>3. ASSUME NEW s \in Socket
        PROVE  m_rxAvailable[s] = 0 /\ m_deliveryQueue[s] = << >>
    BY DEF Init
  <1> QED
    BY <1>1, <1>2, <1>3, SumEmpty DEF Filled, RxAvailableIsQueued

(* One socket's queue and its count change together; no other's do. *)
LEMMA OneFills ==
  ASSUME Filled, Types, NEW s \in Socket, NEW q \in Seq(Sizes), NEW n \in Int,
         m_deliveryQueue' = [m_deliveryQueue EXCEPT ![s] = q],
         m_rxAvailable' = [m_rxAvailable EXCEPT ![s] = n],
         n = Sum(q), n <= RcvBufSize
  PROVE  Filled'
  <1>1. m_rxAvailable' \in [Socket -> Int]
    BY DEF Filled
  <1>2. m_rxAvailable'[s] = n /\ m_deliveryQueue'[s] = q
    BY DEF Filled, Types
  <1>3. ASSUME NEW t \in Socket, t # s
        PROVE  m_rxAvailable'[t] = m_rxAvailable[t]
               /\ m_deliveryQueue'[t] = m_deliveryQueue[t]
    BY <1>3 DEF Filled, Types
  <1>4. ASSUME NEW t \in Socket
        PROVE  /\ m_rxAvailable'[t] = Sum(m_deliveryQueue'[t])
               /\ m_rxAvailable'[t] <= RcvBufSize
    BY <1>2, <1>3 DEF Filled, RxAvailableIsQueued
  <1> QED
    BY <1>1, <1>4 DEF Filled, RxAvailableIsQueued

(* What ForwardUp appends it adds, after it has asked for the room. *)
LEMMA ForwardFills ==
  ASSUME Registration, Types, Filled, Handle, ForwardUp(Current.socket)
  PROVE  Filled'
  <1> DEFINE s == Current.socket
             q == m_deliveryQueue[s]
             n == m_rxAvailable[s]
             size == reception.size
  <1>1. s \in Socket /\ reception \in Receptions
    BY Handles
  <1>2. size \in Sizes /\ size \in Int
    <2>1. size \in Sizes
      BY <1>1 DEF Receptions
    <2> HIDE DEF size
    <2> QED
      BY <2>1, SocketAssumption
  <1>3. /\ n + size <= RcvBufSize
        /\ m_deliveryQueue' = [m_deliveryQueue EXCEPT ![s] = Append(q, size)]
        /\ m_rxAvailable' = [m_rxAvailable EXCEPT ![s] = n + size]
    BY DEF ForwardUp
  <1>4. q \in Seq(Sizes) /\ q \in Seq(Int) /\ n \in Int /\ n = Sum(q)
    BY <1>1, SizesAreNumbers DEF Types, Filled, RxAvailableIsQueued
  <1> HIDE DEF s, q, n, size
  <1>5. Append(q, size) \in Seq(Sizes) /\ n + size \in Int
        /\ Sum(Append(q, size)) = n + size
    BY <1>2, <1>4, SumAppend, AppendProperties
  <1> QED
    BY <1>1, <1>3, <1>5, OneFills

(* RecvFrom takes the head, and its size off the count. *)
LEMMA RecvEmpties ==
  ASSUME Types, Filled, NEW s \in Socket, NEW maxSize, RecvFrom(s, maxSize)
  PROVE  Filled'
  <1> DEFINE q == m_deliveryQueue[s]
             n == m_rxAvailable[s]
             size == Head(q)
  <1>1. /\ q # << >>
        /\ m_deliveryQueue' = [m_deliveryQueue EXCEPT ![s] = Tail(q)]
        /\ m_rxAvailable' = [m_rxAvailable EXCEPT ![s] = n - size]
    BY DEF RecvFrom
  <1>2. /\ q \in Seq(Sizes) /\ q \in Seq(Int) /\ n \in Int /\ n = Sum(q)
        /\ n <= RcvBufSize /\ RcvBufSize \in Nat
    BY SizesAreNumbers, SocketAssumption DEF Types, Filled, RxAvailableIsQueued
  <1>3. size \in Sizes /\ Tail(q) \in Seq(Sizes)
    BY <1>1, <1>2, HeadTailProperties
  <1>4. size \in Nat
    BY <1>3, SocketAssumption
  <1>5. Sum(q) = size + Sum(Tail(q)) /\ Sum(Tail(q)) \in Int
    BY <1>1, <1>2, <1>3, SumTail, SumType, SizesAreNumbers
  <1> HIDE DEF q, n, size
  <1>6. n - size \in Int /\ n - size = Sum(Tail(q)) /\ n - size <= RcvBufSize
    BY <1>2, <1>4, <1>5
  <1> QED
    BY <1>1, <1>3, <1>6, OneFills

LEMMA StepFilled ==
  Registration /\ Types /\ Filled /\ [Next]_vars => Filled'
  <1> SUFFICES ASSUME Registration, Types, Filled, [Next]_vars PROVE Filled'
    OBVIOUS
  <1>0. ASSUME UNCHANGED buffers PROVE Filled'
    BY <1>0 DEF Filled, RxAvailableIsQueued, buffers
  <1>1. ASSUME NEW d \in Device, NEW p \in Protocol, NEW n \in Sizes,
               ReceiveFromDevice(d, p, n)
        PROVE  Filled'
    BY <1>0, <1>1 DEF ReceiveFromDevice
  <1>2. CASE Skip \/ CallbackReturns \/ WalkEnds
    BY <1>0, <1>2 DEF Skip, CallbackReturns, WalkEnds
  <1>3. CASE Handle
    <2>1. CASE ForwardUp(Current.socket)
      BY <1>3, <2>1, ForwardFills
    <2>2. CASE ForwardUpDropped(Current.socket)
      BY <1>0, <2>2 DEF ForwardUpDropped
    <2> QED
      BY <1>3, <2>1, <2>2 DEF Handle
  <1>4. ASSUME NEW s \in Socket, NEW address \in Binding, Bind(s, address)
        PROVE  Filled'
    BY <1>0, <1>4 DEF Bind, NoEffect
  <1>5. ASSUME NEW s \in Socket, Connect(s) \/ ShutdownSend(s) \/ ShutdownRecv(s)
        PROVE  Filled'
    BY <1>0, <1>5 DEF Connect, ShutdownSend, ShutdownRecv, NoEffect
  <1>6. ASSUME NEW s \in Socket, Close(s)
        PROVE  Filled'
    BY <1>0, <1>6 DEF Close, Closing, NoEffect, buffers
  <1>7. ASSUME NEW s \in Socket, NEW n \in Sizes, SendTo(s, n) \/ Send(s, n)
        PROVE  Filled'
    BY <1>0, <1>7 DEF SendTo, Send, NoEffect
  <1>8. ASSUME NEW s \in Socket, NEW n \in Sizes, RecvFrom(s, n)
        PROVE  Filled'
    BY <1>8, RecvEmpties
  <1>9. CASE UNCHANGED vars
    BY <1>0, <1>9 DEF vars
  <1> QED
    BY <1>1, <1>2, <1>3, <1>4, <1>5, <1>6, <1>7, <1>8, <1>9 DEF Next

(* m_rxAvailable is the sum of the sizes of the packets in the delivery    *)
(* queue, and within the receive buffer, after calls in any order.         *)
THEOREM BufferIsCounted == Spec => []RxAvailableIsQueued
  <1>1. Filled => RxAvailableIsQueued
    BY DEF Filled
  <1> QED
    BY <1>1, InitFilled, StepFilled, InitRegistration, StepRegistration,
       InitTypes, StepTypes, PTL DEF Spec

-----------------------------------------------------------------------------

Silent ==
  \A s \in Socket :
    /\ m_shutdownRecv[s] => Len(m_deliveryQueue'[s]) <= Len(m_deliveryQueue[s])
    /\ (m_state[s] = "CLOSED" /\ reception # None /\ reception' # None)
          => reception'.offered[s] = reception.offered[s]

LEMMA StepSilent == Registration /\ Types /\ [Next]_vars => [Silent]_vars
  <1> SUFFICES ASSUME Registration, Types, Next PROVE Silent
    OBVIOUS
  <1>t. \A s \in Socket : Len(m_deliveryQueue[s]) \in Nat
    BY LenProperties DEF Types
  <1>0. ASSUME UNCHANGED <<m_deliveryQueue, reception>> PROVE Silent
    BY <1>0, <1>t DEF Silent
  <1>1. ASSUME NEW d \in Device, NEW p \in Protocol, NEW n \in Sizes,
               ReceiveFromDevice(d, p, n)
        PROVE  Silent
    BY <1>1, <1>t DEF ReceiveFromDevice, buffers, Silent
  <1>2. CASE Skip
    BY <1>2, <1>t, MovesOn DEF Skip, InWalk, Walking, buffers, Types, Silent
  <1>3. CASE Handle
    <2> DEFINE c == Current.socket
    <2>1. /\ c \in Socket /\ Bound(c) /\ reception \in Receptions
          /\ reception'.offered = [reception.offered EXCEPT ![c] = @ + 1]
      BY <1>3, Handles
    <2>4. \A s \in Socket : m_state[s] = "CLOSED" =>
            reception'.offered[s] = reception.offered[s]
      BY <2>1 DEF Bound, Receptions
    <2>5. \A s \in Socket : m_shutdownRecv[s] =>
            m_deliveryQueue'[s] = m_deliveryQueue[s]
      BY <1>3, <2>1 DEF Handle, ForwardUp, ForwardUpDropped, buffers, Types
    <2> QED
      BY <1>t, <2>4, <2>5 DEF Silent
  <1>4. CASE CallbackReturns
    <2>1. reception \in Receptions /\ UNCHANGED m_deliveryQueue
      BY <1>4 DEF CallbackReturns, buffers, Types
    <2>2. reception'.offered = reception.offered
      BY <1>4, <2>1 DEF CallbackReturns, Receptions
    <2> QED
      BY <1>t, <2>1, <2>2 DEF Silent
  <1>5. CASE WalkEnds
    BY <1>5, <1>t DEF WalkEnds, buffers, Silent
  <1>6. ASSUME NEW s \in Socket, NEW address \in Binding, Bind(s, address)
        PROVE  Silent
    BY <1>0, <1>6 DEF Bind, NoEffect, buffers
  <1>7. ASSUME NEW s \in Socket, Connect(s) \/ ShutdownSend(s) \/ ShutdownRecv(s)
        PROVE  Silent
    BY <1>0, <1>7 DEF Connect, ShutdownSend, ShutdownRecv, NoEffect, buffers
  <1>8. ASSUME NEW s \in Socket, Close(s)
        PROVE  Silent
    <2>1. CASE Closing(s)
      BY <1>t, <2>1 DEF Closing, buffers, Types, Receptions, Silent
    <2> QED
      BY <1>0, <1>8, <2>1 DEF Close, NoEffect, buffers
  <1>9. ASSUME NEW s \in Socket, NEW n \in Sizes, SendTo(s, n) \/ Send(s, n)
        PROVE  Silent
    BY <1>0, <1>9 DEF SendTo, Send, NoEffect, buffers
  <1>10. ASSUME NEW s \in Socket, NEW n \in Sizes, RecvFrom(s, n)
         PROVE  Silent
    <2>1. m_deliveryQueue[s] \in Seq(Sizes) /\ m_deliveryQueue[s] # << >>
      BY <1>10 DEF RecvFrom, Types
    <2>2. Len(Tail(m_deliveryQueue[s])) = Len(m_deliveryQueue[s]) - 1
      BY <2>1, HeadTailProperties
    <2>3. UNCHANGED reception
          /\ m_deliveryQueue' = [m_deliveryQueue EXCEPT ![s] = Tail(@)]
      BY <1>10 DEF RecvFrom
    <2>4. \A t \in Socket : Len(m_deliveryQueue'[t]) <= Len(m_deliveryQueue[t])
      BY <1>t, <2>2, <2>3 DEF Types
    <2> QED
      BY <2>3, <2>4 DEF Silent
  <1> QED
    BY <1>1, <1>2, <1>3, <1>4, <1>5, <1>6, <1>7, <1>8, <1>9, <1>10 DEF Next

(* After a close the handler is never invoked, and a socket that was shut  *)
(* down gets nothing any more, also from a walk that is under way.         *)
THEOREM ClosedIsSilent == Spec => SilentAfterShutdown
  <1>1. [Silent]_vars <=> [\A s \in Socket :
       /\ m_shutdownRecv[s] => Len(m_deliveryQueue'[s]) <= Len(m_deliveryQueue[s])
       /\ (m_state[s] = "CLOSED" /\ reception # None /\ reception' # None)
             => reception'.offered[s] = reception.offered[s]]_vars
    BY DEF Silent
  <1> QED
    BY <1>1, AlwaysTypes, StepSilent, PTL DEF Spec, SilentAfterShutdown

-----------------------------------------------------------------------------
(* The walk *)

Reached(i) == \/ i < reception.next
              \/ i = reception.next /\ reception.callback # None
Asked(i) == reception.offered[handlers[i].socket]

(* Half way through a walk: the handlers that it has reached have been     *)
(* offered the packet if they were due, the others have not.               *)
WalkInv ==
  reception # None =>
    /\ reception.next <= Len(handlers) + 1
    /\ reception.callback # None => reception.next <= Len(handlers)
    /\ \A s \in Socket : reception.offered[s] <= 1
    /\ \A i \in DOMAIN handlers : ~Reached(i) => Asked(i) = 0
    /\ \A i \in DOMAIN handlers :
          Reached(i) /\ handlers[i].socket \in reception.due => Asked(i) = 1
    /\ \A s \in reception.due : \E i \in DOMAIN handlers :
          /\ handlers[i].socket = s
          /\ Matches(handlers[i], reception.device, reception.protocol)

LEMMA OneHandlerEach ==
  ASSUME Registration
  PROVE  /\ Len(handlers) \in Nat /\ DOMAIN handlers = 1..Len(handlers)
         /\ \A i \in DOMAIN handlers : handlers[i].socket \in Socket
         /\ \A i, j \in DOMAIN handlers :
               handlers[i].socket = handlers[j].socket => i = j
  <1>1. /\ Len(handlers) \in Nat /\ DOMAIN handlers = 1..Len(handlers)
        /\ \A i \in DOMAIN handlers : handlers[i] \in Handler
    BY LenProperties DEF Registration
  <1>2. \A i \in DOMAIN handlers : handlers[i].socket \in Socket
    BY <1>1 DEF Handler
  <1>3. ASSUME NEW i \in DOMAIN handlers, NEW j \in DOMAIN handlers,
               handlers[i].socket = handlers[j].socket
        PROVE  i = j
    <2> DEFINE s == handlers[i].socket
    <2>1. s \in Socket /\ i \in Registered(s) /\ j \in Registered(s)
      BY <1>2, <1>3 DEF Registered
    <2>2. PICK k \in DOMAIN handlers : Registered(s) = {k}
      BY <2>1 DEF Registration
    <2> QED
      BY <2>1, <2>2
  <1> QED
    BY <1>1, <1>2, <1>3

LEMMA WalkStarts ==
  ASSUME Registration, Types, NEW d \in Device, NEW p \in Protocol,
         NEW n \in Sizes, ReceiveFromDevice(d, p, n)
  PROVE  WalkInv'
  <1>1. /\ Len(handlers) \in Nat /\ DOMAIN handlers = 1..Len(handlers)
        /\ \A i \in DOMAIN handlers : handlers[i].socket \in Socket
    BY OneHandlerEach
  <1>2. /\ handlers' = handlers
        /\ reception'.device = d /\ reception'.protocol = p
        /\ reception'.next = 1 /\ reception'.callback = None
        /\ reception'.offered = [s \in Socket |-> 0]
        /\ reception'.due = {s \in Socket : \E i \in Registered(s) :
                               Matches(handlers[i], d, p)}
    BY DEF ReceiveFromDevice
  <1>3. \A s \in reception'.due : \E i \in DOMAIN handlers :
          /\ handlers[i].socket = s
          /\ Matches(handlers[i], d, p)
    BY <1>2 DEF Registered
  <1>4. /\ \A s \in Socket : reception'.offered[s] = 0
        /\ \A i \in DOMAIN handlers : Asked(i)' = 0 /\ ~Reached(i)'
    BY <1>1, <1>2 DEF Asked, Reached
  <1> QED
    BY <1>1, <1>2, <1>3, <1>4 DEF WalkInv, Matches

LEMMA WalkSkips ==
  ASSUME Registration, Types, WalkInv, Skip
  PROVE  WalkInv'
  <1>1. /\ Len(handlers) \in Nat /\ DOMAIN handlers = 1..Len(handlers)
        /\ \A i, j \in DOMAIN handlers :
              handlers[i].socket = handlers[j].socket => i = j
    BY OneHandlerEach
  <1>2. /\ reception \in Receptions /\ reception # None
        /\ reception.callback = None /\ reception.next <= Len(handlers)
        /\ reception' = [reception EXCEPT !.next = @ + 1] /\ handlers' = handlers
        /\ ~Matches(Current, reception.device, reception.protocol)
    BY DEF Skip, InWalk, Walking, Types
  <1>3. /\ reception'.next = reception.next + 1 /\ reception.next \in Nat \ {0}
        /\ reception'.callback = None /\ reception'.offered = reception.offered
        /\ reception'.due = reception.due /\ reception'.device = reception.device
        /\ reception'.protocol = reception.protocol
    BY <1>2 DEF Receptions
  <1>4. handlers[reception.next].socket \notin reception.due
    <2> SUFFICES ASSUME handlers[reception.next].socket \in reception.due PROVE FALSE
      OBVIOUS
    <2>1. PICK i \in DOMAIN handlers :
            /\ handlers[i].socket = handlers[reception.next].socket
            /\ Matches(handlers[i], reception.device, reception.protocol)
      BY <1>2 DEF WalkInv
    <2>2. i = reception.next
      BY <1>1, <1>2, <1>3, <2>1
    <2> QED
      BY <1>2, <2>1, <2>2 DEF Current
  <1>5. \A i \in DOMAIN handlers :
           /\ Asked(i)' = Asked(i)
           /\ Reached(i)' <=> (Reached(i) \/ i = reception.next)
    BY <1>1, <1>2, <1>3 DEF Asked, Reached
  <1> QED
    BY <1>1, <1>2, <1>3, <1>4, <1>5 DEF WalkInv, Matches

LEMMA WalkHandles ==
  ASSUME Registration, Types, WalkInv, Handle
  PROVE  WalkInv'
  <1> DEFINE c == Current.socket
  <1>1. /\ Len(handlers) \in Nat /\ DOMAIN handlers = 1..Len(handlers)
        /\ \A i \in DOMAIN handlers : handlers[i].socket \in Socket
        /\ \A i, j \in DOMAIN handlers :
              handlers[i].socket = handlers[j].socket => i = j
    BY OneHandlerEach
  <1>2. /\ c \in Socket /\ reception \in Receptions
        /\ reception'.offered = [reception.offered EXCEPT ![c] = @ + 1]
    BY Handles
  <1>3. /\ reception # None /\ reception.callback = None /\ handlers' = handlers
        /\ reception.next \in DOMAIN handlers /\ c = handlers[reception.next].socket
    BY <1>1, <1>2 DEF Handle, InWalk, Walking, Current, Receptions
  <1>4. /\ reception'.due = reception.due /\ reception'.device = reception.device
        /\ reception'.protocol = reception.protocol
        /\ \/ reception'.next = reception.next /\ reception'.callback = c
           \/ reception'.next = reception.next + 1 /\ reception'.callback = None
    BY <1>2, <1>3 DEF Handle, ForwardUp, ForwardUpDropped, CallsBack, PassedBy, Receptions
  <1>5. c # None
    BY <1>2, SocketAssumption
  <1>6. \A i \in DOMAIN handlers : Reached(i)' <=> (Reached(i) \/ i = reception.next)
    BY <1>1, <1>3, <1>4, <1>5 DEF Reached
  <1>7. reception.offered[c] = 0
    BY <1>3 DEF WalkInv, Reached, Asked
  <1>8. /\ reception'.offered[c] = 1
        /\ \A s \in Socket : s # c => reception'.offered[s] = reception.offered[s]
    BY <1>2, <1>7 DEF Receptions
  <1>9. \A i \in DOMAIN handlers :
          Asked(i)' = IF i = reception.next THEN 1 ELSE Asked(i)
    BY <1>1, <1>3, <1>8 DEF Asked
  <1>10. \A s \in Socket : reception'.offered[s] <= 1
    BY <1>3, <1>8 DEF WalkInv
  <1>11. /\ reception'.next <= Len(handlers) + 1
         /\ reception'.callback # None => reception'.next <= Len(handlers)
    BY <1>1, <1>3, <1>4
  <1>12. ASSUME NEW i \in DOMAIN handlers
         PROVE  /\ ~Reached(i)' => Asked(i)' = 0
                /\ Reached(i)' /\ handlers[i].socket \in reception.due => Asked(i)' = 1
    BY <1>3, <1>6, <1>9 DEF WalkInv
  <1> QED
    BY <1>3, <1>4, <1>10, <1>11, <1>12 DEF WalkInv, Matches

LEMMA WalkReturns ==
  ASSUME Registration, Types, WalkInv, CallbackReturns
  PROVE  WalkInv'
  <1>1. Len(handlers) \in Nat /\ DOMAIN handlers = 1..Len(handlers)
    BY OneHandlerEach
  <1>2. /\ reception \in Receptions /\ reception # None
        /\ reception.callback # None /\ handlers' = handlers
        /\ reception' = [reception EXCEPT !.callback = None, !.next = @ + 1]
    BY DEF CallbackReturns, Types
  <1>3. /\ reception'.next = reception.next + 1 /\ reception.next \in Nat \ {0}
        /\ reception'.callback = None /\ reception'.offered = reception.offered
        /\ reception'.due = reception.due /\ reception'.device = reception.device
        /\ reception'.protocol = reception.protocol
    BY <1>2 DEF Receptions
  <1>4. \A i \in DOMAIN handlers :
          Asked(i)' = Asked(i) /\ (Reached(i)' <=> Reached(i))
    BY <1>1, <1>2, <1>3 DEF Asked, Reached
  <1>5. reception.next <= Len(handlers)
    BY <1>2 DEF WalkInv
  <1> QED
    BY <1>1, <1>2, <1>3, <1>4, <1>5 DEF WalkInv, Matches

(* A callback closes a socket whose handler the walk has not reached. *)
LEMMA WalkLosesHandler ==
  ASSUME Registration, Types, WalkInv, NEW s \in Socket, Close(s), Closing(s),
         reception # None
  PROVE  WalkInv'
  <1>1. /\ Len(handlers) \in Nat /\ DOMAIN handlers = 1..Len(handlers)
        /\ \A i \in DOMAIN handlers : handlers[i].socket \in Socket
        /\ \A i, j \in DOMAIN handlers :
              handlers[i].socket = handlers[j].socket => i = j
    BY OneHandlerEach
  <1>2. /\ reception \in Receptions
        /\ reception' = [reception EXCEPT !.due = @ \ {s}]
        /\ \A i \in Registered(s) : i > reception.next
    BY DEF Types, Closing, Close
  <1>3. /\ reception'.next = reception.next /\ reception.next \in Nat \ {0}
        /\ reception'.callback = reception.callback
        /\ reception'.offered = reception.offered
        /\ reception'.due = reception.due \ {s}
        /\ reception'.device = reception.device
        /\ reception'.protocol = reception.protocol
    BY <1>2 DEF Receptions
  <1>4. CASE handlers' = handlers
    <2>1. \A i \in DOMAIN handlers :
            Asked(i)' = Asked(i) /\ (Reached(i)' <=> Reached(i))
      BY <1>3, <1>4 DEF Asked, Reached
    <2> QED
      BY <1>3, <1>4, <2>1 DEF WalkInv, Matches
  <1>5. CASE Bound(s)
    <2>1. PICK k \in DOMAIN handlers : Registered(s) = {k}
      BY <1>5 DEF Registration
    <2>2. handlers' = RemoveAt(handlers, k)
      BY <1>5, <2>1 DEF Closing, Bound, UnregisterProtocolHandler
    <2>3. /\ handlers' \in Seq(Handler) /\ Len(handlers') = Len(handlers) - 1
          /\ \A j \in 1..(Len(handlers) - 1) :
                handlers'[j] = IF j < k THEN handlers[j] ELSE handlers[j + 1]
      <3>1. handlers \in Seq(Handler) /\ k \in 1..Len(handlers)
        BY <1>1 DEF Registration
      <3> QED
        BY <2>2, <3>1, Removal
    <2>4. DOMAIN handlers' = 1..(Len(handlers) - 1) /\ k > reception.next
      BY <1>2, <2>1, <2>3, LenProperties
    <2> DEFINE Was(j) == IF j < k THEN j ELSE j + 1
    <2>5. ASSUME NEW j \in DOMAIN handlers'
          PROVE  /\ Was(j) \in DOMAIN handlers /\ handlers'[j] = handlers[Was(j)]
                 /\ Reached(j)' <=> Reached(Was(j))
                 /\ Asked(j)' = Asked(Was(j))
      <3>1. Was(j) \in DOMAIN handlers /\ handlers'[j] = handlers[Was(j)]
        BY <1>1, <2>1, <2>3, <2>4, <2>5
      <3>2. Reached(j)' <=> Reached(Was(j))
        BY <1>1, <1>3, <2>1, <2>4, <2>5 DEF Reached
      <3> HIDE DEF Was
      <3> QED
        BY <1>3, <3>1, <3>2 DEF Asked
    <2>6. ASSUME NEW t \in reception'.due
          PROVE  \E j \in DOMAIN handlers' :
                   /\ handlers'[j].socket = t
                   /\ Matches(handlers'[j], reception.device, reception.protocol)
      <3>1. PICK i \in DOMAIN handlers :
              /\ handlers[i].socket = t
              /\ Matches(handlers[i], reception.device, reception.protocol)
        BY <1>3, <2>6 DEF WalkInv
      <3>2. i # k
        BY <1>3, <2>1, <2>6, <3>1 DEF Registered
      <3> DEFINE j == IF i < k THEN i ELSE i - 1
      <3>3. j \in DOMAIN handlers' /\ Was(j) = i
        BY <1>1, <2>1, <2>4, <3>2
      <3>4. handlers'[j] = handlers[i]
        BY <2>5, <3>3
      <3> HIDE DEF j, Was
      <3> QED
        BY <3>1, <3>3, <3>4 DEF Matches
    <2>7. reception.callback # None
      BY DEF Close, Application
    <2>8. reception'.next <= Len(handlers')
      BY <1>1, <1>3, <2>1, <2>3, <2>4
    <2> HIDE DEF Was
    <2>9. /\ \A j \in DOMAIN handlers' : ~Reached(j)' => Asked(j)' = 0
          /\ \A j \in DOMAIN handlers' :
                Reached(j)' /\ handlers'[j].socket \in reception'.due => Asked(j)' = 1
      BY <1>3, <2>5 DEF WalkInv
    <2>10. \A t \in Socket : reception'.offered[t] <= 1
      BY <1>3 DEF WalkInv
    <2>11. reception'.next <= Len(handlers') + 1
      BY <1>1, <1>3, <2>3, <2>8
    <2> QED
      BY <1>3, <2>6, <2>8, <2>9, <2>10, <2>11 DEF WalkInv, Matches
  <1> QED
    BY <1>4, <1>5 DEF Closing, Bound

LEMMA StepWalk == Registration /\ Types /\ WalkInv /\ [Next]_vars => WalkInv'
  <1> SUFFICES ASSUME Registration, Types, WalkInv, [Next]_vars PROVE WalkInv'
    OBVIOUS
  <1>0. ASSUME UNCHANGED <<handlers, reception>> PROVE WalkInv'
    BY <1>0 DEF WalkInv, Reached, Asked, Matches
  <1>1. ASSUME NEW d \in Device, NEW p \in Protocol, NEW n \in Sizes,
               ReceiveFromDevice(d, p, n)
        PROVE  WalkInv'
    BY <1>1, WalkStarts
  <1>2. CASE Skip \/ Handle \/ CallbackReturns
    BY <1>2, WalkSkips, WalkHandles, WalkReturns
  <1>3. CASE WalkEnds
    BY <1>3 DEF WalkEnds, WalkInv
  <1>4. ASSUME NEW s \in Socket, NEW address \in Binding, Bind(s, address)
        PROVE  WalkInv'
    <2>1. CASE reception = None /\ UNCHANGED reception
      BY <2>1 DEF WalkInv
    <2> QED
      BY <1>0, <1>4, <2>1 DEF Bind, NoEffect
  <1>5. ASSUME NEW s \in Socket, Connect(s) \/ ShutdownSend(s) \/ ShutdownRecv(s)
        PROVE  WalkInv'
    BY <1>0, <1>5 DEF Connect, ShutdownSend, ShutdownRecv, NoEffect
  <1>6. ASSUME NEW s \in Socket, Close(s)
        PROVE  WalkInv'
    <2>1. CASE Closing(s) /\ reception # None
      BY <1>6, <2>1, WalkLosesHandler
    <2>2. CASE Closing(s) /\ reception = None
      BY <2>2 DEF Closing, WalkInv
    <2> QED
      BY <1>0, <1>6, <2>1, <2>2 DEF Close, NoEffect
  <1>7. ASSUME NEW s \in Socket, NEW n \in Sizes,
               SendTo(s, n) \/ Send(s, n) \/ RecvFrom(s, n)
        PROVE  WalkInv'
    BY <1>0, <1>7 DEF SendTo, Send, RecvFrom, NoEffect
  <1>8. CASE UNCHANGED vars
    BY <1>0, <1>8 DEF vars
  <1> QED
    BY <1>1, <1>2, <1>3, <1>4, <1>5, <1>6, <1>7, <1>8 DEF Next

(* A walk offers its packet to every socket that listens from its start to *)
(* its end, and to none twice.                                             *)
THEOREM EachOfferedOnce == Spec => []OfferedOnce
  <1>1. Init => WalkInv
    BY DEF Init, WalkInv
  <1>2. Registration /\ Types /\ WalkInv => OfferedOnce
    <2> SUFFICES ASSUME Registration, Types, WalkInv, Walking,
                        reception.next > Len(handlers), NEW s \in Socket
                 PROVE  /\ reception.offered[s] <= 1
                        /\ s \in reception.due => reception.offered[s] = 1
      BY DEF OfferedOnce
    <2>1. reception # None /\ reception.offered[s] <= 1
      BY DEF Walking, WalkInv
    <2>2. ASSUME s \in reception.due PROVE reception.offered[s] = 1
      <3>1. PICK i \in DOMAIN handlers : handlers[i].socket = s
        BY <2>1, <2>2 DEF WalkInv
      <3>2. Reached(i)
        BY <2>1, <3>1, OneHandlerEach DEF Reached, Types, Receptions
      <3> QED
        BY <2>1, <2>2, <3>1, <3>2 DEF WalkInv, Asked
    <2> QED
      BY <2>1, <2>2
  <1> QED
    BY <1>1, <1>2, AlwaysTypes, StepWalk, PTL DEF Spec
=============================================================================
