# Slotted ALOHA on a linear sensor network: a verification project

The repository is a modified copy of the ns-3 `network` module. Its own part is
a slotted-ALOHA MAC, `SimpleNetDevice`, for a *line* of sensors between two
gateways, with six simulation scripts in `scratch/` that drive it; the rest is
ns-3's packet, queue, socket and node machinery, of which the scripts use some.
This directory holds TLA+ models of that code, the TLC runs that check them and
TLAPS proofs about them.

Files are named relative to the repository; `network/` stands for
`src/network/`.

## 1. Inventory

Every component, with its status, is also listed in `PROJECT.json`.

### The slotted MAC (`network/utils/simple-net-device.cc`)

*State* of a device: its identity `m_sid` (0 for a gateway) and neighbours;
`send_flag` (sending or about to), `wait_ack` (an exchange is under way),
`lack_flag`/`rack_flag` (acknowledged from the left/right), `receive_flag`
and `receive_flag_1` (a reception is under way / has collided), the back-off
round `k`, the next data identity `ndid`, the data relayed last `txarray`, the
packet of the exchange `m_txPacket`, and a drop-tail `m_queue`.

*Operations* are event handlers. `OriginalTransmission` sends the application's
data to both neighbours (or queues it); `ReceiveStart`, `ReceiveCheck` and
`Receive` are the reception window and what follows it; `AckSend` and
`Forwarding` answer and relay; `AckCheck`, `OriginalAckCheck`, `ReSend`,
`ReOriginalSend` and `RandTime` are the acknowledgement timers and the back-off;
`WaitSend` takes the next queued packet; `SetSleep` ends a transmission.

*Interactions*: handlers call each other directly, schedule each other on
the simulator's event list, and reach the neighbour through `SimpleChannel`,
which schedules `ReceiveStart` there. All of them share the flags above.

*Hard behaviour*: many handlers of one node are due at the same instant and
their order matters; a flag is set by one exchange and read by the next;
collisions and losses make exchanges repeat; a second exchange starts while
events of the first are still scheduled; the queue is emptied only by calls of
`WaitSend` that may do nothing.

*What makes it correct*: slots are kept; an exchange has exactly one timer, for
the packet it is about; only the exchange's own timer ends it; acknowledgement
flags mean what they say; sending and listening exclude each other; back-off
starts afresh for every exchange; the simulation ends; data travels hop by hop
and, on a silent line, reaches both gateways.

### The scenarios (`scratch/*.cc`)

Each builds the line, gives the devices identities, neighbours and an optional
`SetLastNode`, schedules originations at whole seconds (fixed, uniform or
exponential draws) and `Print` of the gateways at the end. They keep no state
of their own.

### Queue and DropTailQueue (`network/utils/queue.cc`, `drop-tail-queue.cc`)

*State*: the items, two counters of what is stored, four totals, a mode
(packets or bytes) and two limits. *Operations*: enqueue, dequeue, remove,
flush, reset of the totals, and setters that abort the program when they would
leave the queue over its limit. *Hard*: mode and limits change while the queue
is in use, and each check looks at one counter only; sums wrap at 32 bits.
*Correct when* the counters describe the contents, the capacity holds in every
mode, the totals account for every packet, and order is kept.

### Device transmission queue and byte limits (`network/model/net-device.cc`, `network/utils/dynamic-queue-limits.cc`)

*State*: two independent reasons why a queue is stopped, and the limit
algorithm's running totals. *Operations*: bytes queued, bytes transmitted,
stop, wake, reset. *Interaction*: the queue disc above is called back when the
queue opens. *Hard*: the two reasons are cleared in either order; running
totals wrap; one field is read before it is ever written. *Correct when* no
wake-up is lost, a stopped queue reopens, and the device holds no more than the
limit allows.

### Packet tags (`network/model/packet-tag-list.cc`)

*State*: a tree of counted nodes, one tag each; the list of a packet is a path
from its node towards the root, and copies of a packet share a path.
*Operations*: add, remove, replace, peek, copy, remove all. *Hard*: a change
behind a *merge* (a node with a count above one) first copies the nodes in front
of it, one by one, moving the counts along. *Correct when* every count is the
number of pointers to its node, nothing dangles or leaks, and no packet sees
another's change.

### Packet buffers (`network/model/buffer.cc`)

*State*: blocks of memory with a count and a *dirty area*, and per packet the
bounds of its bytes in a block, some of which (the *zero area*) have no memory.
*Operations*: grow and cut at either end, fragment, join, write, make real.
*Hard*: a buffer writes without copying the block when the dirty area says that
nobody else uses the place; positions behind the zero area are virtual. *Correct
when* a packet's bytes are changed by its own calls only, and as they say.

### Byte tags (`network/model/byte-tag-list.cc`)

*State*: items with offsets in blocks that copies share, and per packet a length,
an adjustment of the offsets and two bounds that serve as shortcuts.
*Operations*: as for buffers, and add and remove all. *Hard*: offsets are
adjusted and cut lazily; a list appends into a shared block if a dirty mark
says that nobody did before. *Correct when* a tag stays with its bytes.

### Node and packet sockets (`network/model/node.cc`, `network/utils/packet-socket.cc`)

*State*: the node's vector of protocol handlers; per socket its state, two
shutdown flags, a delivery queue and its size in bytes. *Operations*: bind,
connect, shut down, close, send, receive, and delivery from the node. *Hard*: the
node walks the vector while the handlers run, and each runs application code
that may call any socket, also to take a handler out of the vector. *Correct
when* each listening socket is offered each packet once, a closed one never,
and the receive buffer is accounted for.

### The rest

| component | state and operations | what would make it correct |
| --- | --- | --- |
| `LwsnHeader` | type, identities, times; 16-bit serialization | reads back what it wrote |
| `SimpleChannel` | devices, black list; `Send` | a black-listed pair never hears each other |
| error models | rate, bursts, lists; `IsCorrupt` | a burst loses a run of packets, a list exactly its own |
| metadata, `NixVector`, tag buffers, headers | bit vectors, serialization | headers come off as they went on |
| `NodeList`, `Channel`, `Application` | registries; start and stop events | each started once |
| socket factories, addresses, client and server | construction; applications on top of sockets | |
| `SequenceNumber` | wrapping arithmetic and order | order is right within half the range |
| addresses, frame formats, capture files | conversions and file I/O | not state machines |
| measurement, helpers, bindings, tests, examples | no control state | not modelled |

## 2. Modules

| module | models | extends |
| --- | --- | --- |
| `EventCalendar` | the simulator's event list, as the MAC uses it (external) | |
| `SimpleNetDevice` | one device: every MAC handler as a function | `EventCalendar` |
| `SlottedAloha` | the line, the scenarios, the actions, the properties | `SimpleNetDevice` |
| `LineRelay` | abstract: what a line promises about its data | |
| `MCSlottedAloha` | scenarios for TLC | `SlottedAloha` |
| `SlottedAlohaProofs` | types, slots, hops and the refinement; stop and wait: timers, `send_flag`, back-off; the reception window, flags, queues, the action property, proved | `SlottedAloha` |
| `Sums`, `SumTheorems` | the sum of a sequence; its laws and those of wrapping, proved | |
| `DropTailQueue` | `Queue` with `DropTailQueue` | `Sums` |
| `MCDropTailQueue` | capacities for TLC | `DropTailQueue` |
| `DropTailQueueProofs` | order, counters, totals, capacity, modes, proved | `DropTailQueue`, `SumTheorems` |
| `DynamicQueueLimits` | the byte limit, as functions on a record | |
| `DeviceQueue` | `NetDeviceQueue` with it, a device and a queue disc | `DynamicQueueLimits`, `Sums` |
| `MCDeviceQueue` | sizes for TLC | `DeviceQueue` |
| `DeviceQueueProofs` | wake-ups, bytes in flight, the limit, proved | `DeviceQueue`, `SumTheorems` |
| `PerPacketTags` | abstract: every packet has a list of tags of its own | |
| `PacketTagList`, `MCPacketTagList` | the shared tree of tags; packets and tags for TLC | |
| `PacketTagListProofs` | live pointers, counts, no leaks and the refinement, proved | `PacketTagList`, `SumTheorems` |
| `OwnBytes` | abstract: every packet has bytes of its own, which each call changes as it says | |
| `PacketBuffer`, `MCPacketBuffer` | blocks, dirty areas and zero areas; memory for TLC | |
| `PacketBufferProofs` | counts of the blocks, bounds of the buffers, proved | `PacketBuffer`, `SumTheorems` |
| `PerByteTags` | abstract: every byte has its tags and takes them where a call puts it | |
| `ByteTagList`, `MCByteTagList` | items in shared blocks; memory for TLC | |
| `ByteTagListProofs` | sharing, bounds and the refinement, proved | `ByteTagList`, `SumTheorems` |
| `PacketSockets` | a node's handlers and its packet sockets | `Sums` |
| `MCPacketSockets` | sockets for TLC | `PacketSockets` |
| `PacketSocketsProofs` | registration, silence, the walk, the receive buffer, proved | `PacketSockets`, `SumTheorems` |

An operator marked *variant* is a definition with a plausible mistake in it.
No specification uses one; substituted for the real definition it makes a
property fail, which shows that the property depends on the code (`PROJECT.json`
lists which belongs to which).

### The MAC: how state and actions correspond to the code

A network state is a record `s` of `s.dev` (the devices) and `s.cal` (the event
list). A C++ handler is a function from network states to network states, and a
handler that calls another is the composition of the two, in the order of the
calls; so an action is one handler *with everything it calls*, as in the
simulator, where nothing runs in between. Fields keep their names. `Node` is
the position on the line: sensor `i` has `m_sid = i`, the gateways stand at 0
and `N + 1`, `m_laddress` and `m_raddress` are the positions beside it, and
the sensors at the ends are those with `last_node`.

Every action of `SlottedAloha` except three takes the next event off the
calendar and runs its handler. The exceptions are `Arrive(n)` (the application
originates: at a whole second, before everything else due then, because the
scripts schedule it before `Simulator::Run`), `Report(g)` (the gateway's
`Print`, after the last arrival) and `Tick` (time moves to the next instant
at which something is due, or to the next whole second). Arrivals may be at
any whole second in any order, which covers every draw of the scripts.

The calendar holds *relative* delays in tenths of a second, so that two
situations that differ only in absolute time are one state. All the delays of
the code are multiples of a tenth. Events of one instant run in the order in
which they were scheduled, which is what ns-3's default scheduler does; that
order is essential (a `SetSleep` and the next send are due together).

What is abstracted:

- A packet is its type, originator and data identity. `E`, `R`, `StartTime`,
  destination fields and sizes control nothing. Where the code stacks a second
  header on a packet, only the top one is ever read, so the model replaces it.
- `RandTime` is any of the back-offs its random draw may give, and its
  sentinel 100 ("give up") is kept as such.
- The channel's delay is 0, its default; only the addressee reacts to
  `ReceiveStart`. An error model is the loss of any reception (`Lossy`).
- `m_rxCallback` and the promiscuous callback are not called: the nodes of the
  scenarios install no protocol. `packetType` is read uninitialized there
  (line 314) when `send_flag` is up, which decides only whether a callback
  without effect is called.
- `QueueCheck` cycles the queue through `temp_queue`, a queue of the same
  capacity, and so amounts to "append unless the data is queued already".
- Counters kept for the printed statistics are left out.
- `heard` is a history variable: the data a node has received or originated.
  No action reads it.

### The abstract specification

`LineRelay` has one variable, who knows which data, and two steps: a sensor
originates data that nobody knows, or a node learns data from its neighbour on
the originator's side. `SlottedAloha` implements it under `known <- heard`:
collisions, retransmissions, queues and give-ups are stutters or hops, and no
fabricated, relabelled or skipped datum exists.

### Queue

An item is its packet's size. Setters are guarded by the negation of the
condition under which they abort the program. `since` is a history of the
packets that came, left and were lost since `ResetStatistics`. `Word` is 2^32.

### Device queue

`DynamicQueueLimits` keeps the width: `Unsigned` and `Signed` are the two
readings of a word. Of the slack timer only "has the hold time passed" is kept
(`held`, set by `HoldTime` at any moment). Undefined behaviour is
nondeterminism: `m_adjLimit` starts with any value, since neither the
constructor nor `Reset` writes it; and `Posdiff`, where `a - b` overflows
`int32_t`, yields either what wrapping then comparing gives or what comparing
`a` with `b` gives. The queue disc and the device are not in this repository;
they behave as `net-device.h` asks: the disc passes packets until it finds the
queue stopped and then waits for the callback, the device stops the queue when
it is full and wakes it when it has room.

### Packet tags, buffers and byte tags

The three share an outline. The memory is a function from addresses to nodes or
blocks; a function named after a C++ method maps one *store* (the packets' fields
and the memory) to another, and an action applies it for one call of `Packet`.
`new` takes a free address, `delete` gives it back, so that a pointer kept too
long refers to nothing or to something else. The free lists of the code are
`Slack`: a recycled block is at least as large as asked. Contents of a block
that nobody wrote are `Old`, a byte of its own that no call may leave in a
packet except where the code leaves it (padding). Each is shown to implement an
abstract specification without sharing: `PacketTagList` the lists of
`PerPacketTags` (including what `Peek` and `Remove` answer), `PacketBuffer` the
byte strings of `OwnBytes`, `ByteTagList` the tags on every byte of
`PerByteTags`. In the last two the variable `call` tells the name and the arguments
of the last call, and the abstract specification says for each call exactly what
it does: `RemoveAtStart (p, n)` takes n bytes from the front of `p`, with their
tags, `CreateFragment (p, q, start, length)` the bytes of `q` from `start` on. A step
that cuts another number or at the other end, that leaves tags on the wrong bytes
or loses them, or that another packet could see, is none of the abstract
specification. `call` is history: no action reads it, and the views leave it out.

In `PacketBuffer` a header or trailer is a number of bytes written by the caller;
`AddAtStart` in a new block puts the data where the code's running estimate of
the head-room says, which is any position (`Starts`). In `ByteTagList` a block's
room is counted in items, and the trailing items nobody's list reaches are
forgotten.

### Sockets

A walk of `Node::ReceiveFromDevice` is the record `reception`: the iterator
`next`, and the socket whose receive callback is running. While a callback runs,
and between walks, the application may make calls on any socket (`Application`).
`due` and `offered` are history: who has to be reached by the walk, and how often
each was. A queue holds the packets' sizes. What a device does with a packet it
is asked to send is outside; that it fails is a choice. Two assumptions on
applications are stated in `Bind` and `Close`: a callback neither binds a socket
nor closes one whose handler the walk has reached. Either would invalidate the
iterator of the walk (see section 3).

## 3. Runs

| run | instance | states | shows |
| --- | --- | --- | --- |
| `three_sensors` | N=3, 2 rounds, one datum each, queue of 3, no losses | 547,753 | the MAC's invariants under contention; refinement of `LineRelay` |
| `lossy_line` | N=3, 1 round, two data, queue of 1, any loss | 240,684 | the invariants under losses and full queues; the run always ends |
| `silent_line` | N=8, one datum at sensor 3 | 181 | the acknowledgement schedule is free of collisions; both gateways are reached |
| `stranded` | N=3, 1 round, one datum each | violation | a sensor's own datum may stay in its queue for ever |
| `queue_capacity` | packets of 1 and 3 bytes, limits 1-3 and 2/5 | 174,558 | counters, capacity, totals, order, mode changes |
| `empty_packets` | packets of 0 and 1 byte | violation | the mode changes with packets in the queue |
| `flow_control` | word 32, limits 1-3, sizes 1-2, device of 3 | 89,048 | no lost wake-up, no stuck stop, byte bound |
| `packet_tags` | 3 packets, 3 types, 4 tags | 41,919 | counts and reachability; refinement of `PerPacketTags` |
| `packet_buffers` | 2 packets of up to 3 bytes | 184,740 | bounds and counts; every call leaves the bytes that `OwnBytes` says |
| `joined_zeroes` | the same with recycled blocks, zero areas may meet | violation | the join of two zero areas loses bytes |
| `byte_tags` | 2 packets of up to 2 bytes, lists of up to 2 items | 47,572 | sharing, bounds; every call leaves the tags that `PerByteTags` says |
| `sockets` | 3 sockets, 2 devices, 2 protocols, sizes 1-2, buffer of 2 | 1,525,728 | registration, buffer, walk, shutdown |

**The bounds and why they are enough.** N=3 is the smallest line with a sensor
that has only sensors for neighbours and two that have a gateway; the code
distinguishes nothing else by position. One datum per sensor gives every pair
of neighbours the chance to collide, to find each other busy, to fill a queue
and to relay each other's data. Two back-off rounds include a first draw of 0
or 1 s, a second of 0 to 3 s, and giving up; one round in the lossy run keeps
the product with losses small. A queue of 1 packet makes every queue overflow,
one of 3 none. `MaxDid` only bounds a 16-bit counter. `Horizon` (30 tenths) is
the longest delay in these instances, the three seconds of `OriginalWaitAck`
and the longest back-off; `BackoffAssumption` says so. N=8 for the silent line
lets three relays be under way behind each other, on both sides of an
originator that is neither in the middle nor at an end.
For the queue, `MaxOffered` (4) bounds the packets offered between two resets
of the totals; 4 fill the largest queue and overflow it. For the flow control,
a word of 32 with at most 6 bytes in flight wraps often while leaving the
quarter range the code relies on; the totals run through all residues.

For the tags, three packets make a tree with two merges in one path, and three
types a tag in front of, at and behind a merge; ten addresses are one more than
the nodes there can be. For the buffers, three bytes give
a byte before, in and behind the zero area; two packets are one that shares and
one that does not. For the byte tags, an item may end one byte beyond, or begin
any number before, its packet (`MaxReach`; offsets before the packet all behave
alike, which the view `Shape` uses). Views drop addresses only, and what the
comments beside them argue. For the sockets, three make a walk with a handler
before and one behind the one that calls back; two sizes and a buffer of 2 give
room for one, two or none. `Observed` drops `m_errno`, which nothing reads, and
`m_shutdownSend`, which decides only `m_errno`.

**Deadlock** is not checked in the MAC's runs (`CHECK_DEADLOCK FALSE`):
`Simulator::Run` returns when the event list is empty and the last arrival is
past, and the model stops there too. The other runs check it.

**Fairness.** `WF(Tick \/ RunEvent)`: while an event is scheduled, the simulator
runs it or moves the time to it; that is the loop of `Simulator::Run`. Nothing is
assumed of arrivals, reports, losses or random draws. The device queue assumes
that the device goes on transmitting what it holds and wakes the queue once it
has room; nothing of the queue disc.

### Properties

MAC: `TypeOK` (with the drop-tail limit), `SlotAligned`, `AwaitingHasOneTimer`,
`TimerIsForTxPacket`, `SendFlagCoversSending`, `AckFlagsSound`,
`ReceptionWindow`, `NoDuplicatesQueued`, `BackoffBelongsToExchange`,
`NoHopSkipped`, the action property `ExchangeUndisturbed`, the liveness
properties `Quiesces` and `ReachesBothGateways`, `NoCollision`, and the
refinement `ImplementsLineRelay`. `NoDuplicatesQueued` is checked in the run
with contention only: in the lossy run queues hold one packet. Each of the
others is checked in the run that strains it most.

Queue: `CountersAgree`, `CapacityKept`, `TotalsAccount`, `FifoOrder`,
`ModeChangesWhenEmpty`. In `queue_capacity` packets are not empty and limits are
away from the top of the word; section "What the violations mean" says why.

Device queue: `TypeOK`, `InFlightAccounted`, `NoLostWakeup`,
`StoppedHasInFlight`, `QueueReopens`, `StaysBounded`.

Packet tags: `TypeOK` (nothing dangles), `CountsPointers`, `AllReachable`,
`ImplementsOwnLists`. Buffers: `CheckInternalState` (the code's own consistency
check), `CountsBuffers`, `ImplementsOwnBytes`. Byte tags: `SharedBelowDirty`,
`BoundsCoverItems`, `ImplementsPerByteTags`.

Sockets: `RegisteredWhileBound`, `RxAvailableIsQueued`, `OfferedOnce`,
`SilentAfterShutdown`.

### What the violations mean

- **Stranded data** (`stranded`). `README.md:6` says data is sent as soon as it
  arises. `WaitSend` does nothing while `send_flag` is up
  (simple-net-device.cc:798), and it is called only at the end of an exchange
  or two seconds after a relay to a gateway. A datum queued at a busy sensor
  can be left there when the last event has run.
- **Mode change with empty packets** (`empty_packets`). `SetMode` asks
  `m_nBytes` whether the queue is empty; packets of size 0 do not show.
- **Joined zero areas** (`joined_zeroes`). `Buffer::AddAtEnd (o)` joins two zero
  areas that meet and copies what is behind the second with
  `Iterator::Write (Iterator, Iterator)`, which takes the virtual position for
  one in memory: the bytes land elsewhere, and the packet ends with bytes that
  nobody wrote. The pass run therefore excludes this join
  (`TailsAfterZeroes = FALSE`).

Other disagreements between code and text, seen while modelling, for which no
run is kept:

- With `MaxBytes` near 2^32 the 32-bit sum in `Queue`'s capacity check
  (queue.cc:108) wraps, and the queue takes more than `MaxBytes`.
- queue-limits.h:67 says that `NotifyTransmittedBytes` stops the queue when
  `Available` is negative; it never does (net-device.cc:148). The effect is one
  packet over the limit; `StaysBounded` shows that it is not more.
- `Posdiff` (dynamic-queue-limits.cc:226) compares running totals as signed
  integers; at 2^31 the subtraction overflows and the limit may not grow.
- packet.h:370 calls the padding of `AddPaddingAtEnd` zero-filled; packet.cc:329
  only makes room, whose content is undefined (buffer.h:515). `OwnBytes` says what
  the code does: padding is bytes that nobody wrote.
- buffer.cc:842 asserts that `Iterator::Write` copies from another block.
  `AddAtEnd (o)` makes full copies first, but that of a buffer without a zero area
  is a buffer on the same block. Joined with a copy or a fragment of itself, and
  with room behind it, a packet is copied within its block: after
  `TransformIntoRealBuffer (p)`, `Copy (q, p)`, `AddAtEnd (p, q)`, for one. A build
  with assertions stops there. The model, and so `ImplementsOwnBytes`, is of a build
  without, in which the bytes come out right.
- A receive callback that closes its own or an earlier socket makes
  `Node::ReceiveFromDevice` (node.cc:313) skip a handler or pass the end of the
  vector, and one that binds a socket may move the vector.
- An application that sends on a received packet with its tags makes the next
  `PacketSocket::ForwardUp` (packet-socket.cc:408) add a tag twice, against the
  assertion of packet-tag-list.cc:250.

Observed while modelling, and not contradicting any text: two data that arrive
at a gateway may be in another order than they were originated in; after a
give-up a datum may reach neither gateway; acknowledgement flags are stale
outside an exchange, which `AckFlagsSound` shows to be harmless inside one.

## 4. Proofs

TLAPS proves, for every value of the constants that meets the stated
assumptions:

| theorem | statement |
| --- | --- |
| `TypeCorrect` | MAC: `Spec => []TypeOK` |
| `SlotsAligned` | MAC: `Spec => []SlotAligned` |
| `HopByHop` | MAC: `Spec => []NoHopSkipped` |
| `Implementation` | MAC: `Spec => ImplementsLineRelay` |
| `OneTimerPerExchange` | MAC: `Spec => []AwaitingHasOneTimer` |
| `TimerMatchesPacket` | MAC: `Spec => []TimerIsForTxPacket` |
| `SendFlagCovers` | MAC: `Spec => []SendFlagCoversSending` |
| `BackoffIsReset` | MAC: `Spec => []BackoffBelongsToExchange` |
| `OneReceptionAtATime` | MAC: `Spec => []ReceptionWindow` |
| `FlagsAreTrue` | MAC: `Spec => []AckFlagsSound` |
| `QueuesAreDistinct` | MAC: `Spec => []NoDuplicatesQueued` |
| `ExchangeKept` | MAC: `Spec => ExchangeUndisturbed` |
| `FirstInFirstOut` | `DropTailQueue`: `Spec => []FifoOrder` |
| `CountersDescribe` | `DropTailQueue`: `Spec => []CountersAgree` |
| `TotalsAreExact` | `DropTailQueue`: `Spec => []TotalsAccount` |
| `NeverOverCapacity` | `DropTailQueue`, with `OrdinarySizes`: `Spec => []CapacityKept` |
| `ModeNeedsEmpty` | `DropTailQueue`, with `OrdinarySizes`: `Spec => ModeChangesWhenEmpty` |
| `NoWakeupLost` | `DeviceQueue`: `Spec => []NoLostWakeup` |
| `FlowTypes` | `DeviceQueue`: `Spec => []TypeOK` |
| `InFlightIsHeld` | `DeviceQueue`: `Spec => []InFlightAccounted` |
| `StoppedWillComplete` | `DeviceQueue`: `Spec => []StoppedHasInFlight` |
| `LimitIsKept` | `DeviceQueue`: `Spec => StaysBounded` |
| `BoundIsRegistered` | `PacketSockets`: `Spec => []RegisteredWhileBound` |
| `ClosedIsSilent` | `PacketSockets`: `Spec => SilentAfterShutdown` |
| `EachOfferedOnce` | `PacketSockets`: `Spec => []OfferedOnce` |
| `BufferIsCounted` | `PacketSockets`: `Spec => []RxAvailableIsQueued` |
| `BlocksCountTheirBuffers` | `PacketBuffer`, with `GoneIsNothing`: `Spec => []CountsBuffers` |
| `BuffersAreSane` | `PacketBuffer`, with `GoneIsNothing`: `Spec => []CheckInternalState` |
| `PointersAreLive` | `PacketTagList`: `Spec => []TypeOK` |
| `CountsAreRight` | `PacketTagList`: `Spec => []CountsPointers` |
| `NothingLeaks` | `PacketTagList`: `Spec => []AllReachable` |
| `TreeImplementsLists` | `PacketTagList`: `Spec => ImplementsOwnLists` |
| `ListsStayBelowDirty` | `ByteTagList`, with `GoneIsNothing`: `Spec => []SharedBelowDirty` |
| `BoundsAreSound` | `ByteTagList`, with `GoneIsNothing`: `Spec => []BoundsCoverItems` |
| `TagsStickToBytes` | `ByteTagList`, with `GoneIsNothing`: `Spec => ImplementsPerByteTags` |

*Assumptions* are the `ASSUME`s of the modules: at least two sensors, a queue
limit and identities in their ranges, back-offs that fit the calendar
(`BackoffAssumption`), `NoPacket` different from packets, more addresses than
buffers, byte-tag lists, or tags that all packets together can have, so that
`new` finds memory (the `MemoryAssumption` of each module). TLC evaluates each on
every run. Two theorems of the queue have a hypothesis besides, `OrdinarySizes`:
packets are not empty, and a limit and a packet together stay below 2^32. It
holds in `queue_capacity`; without it the two are false, which `empty_packets`
shows for the mode and the wrapping sum of section 3 for the capacity. Those of
the packet buffers and of the byte tags have `GoneIsNothing`: the value that
stands for a packet or block that does not exist is not itself a record of one,
nor a length or a row of tags.

*The argument for the MAC.* `SlotAligned` is not inductive alone: that a handler
posts an event in phase depends on the handler's own phase, and that a hop
goes to a neighbour depends on the arguments of the event that started it. The
invariant `IInv` therefore says that the network state lies in a set
`Nets(heard, identities, clock)`: every device holds only data of its own
history; every event is scheduled for its phase of the slot; a packet in an
event is in the history of the node that sent or holds it; and sender and
receiver are neighbours. It adds that no identity is in use before it is
assigned (so an origination is fresh) and that histories have no gaps. For each
handler one lemma shows that it maps `Nets` into `Nets`; the lemma of a handler
that calls another cites the other's. The step lemma takes them together, one
case per action. The step simulation of `Implementation` uses the same
invariant: a reception is a `Hop` because its sender is a neighbour whose
history has the datum; everything else that leaves `heard` alone is a stutter.

*The exchange.* That a sensor has one timer is not inductive, because what keeps
a second send from starting is spread over the calendar. `Exchanges` says, for
each sensor and on top of `IInv`, where its own events are. `Timers`: at most
one timer, there exactly while `wait_ack` is up, for `m_txPacket`, and later
than every `SetSleep`. `Sleeps`: the ends of a send are due together, in front
of nothing else that the node does at that instant, and `send_flag` is up until
then. `Replies`: an `AckSend` stands directly before its `Forwarding`, and
neither an exchange nor a send is under way when they run. `Waits`: a
`WaitSend` that is left over when an exchange starts is due at that instant
while `send_flag` is up, so that it does nothing; any other is due one second
after a `SetSleep`. `Backoff`: `k` is within the rounds, and 1 outside an
exchange. The proof follows each handler through its calls: `Begins` is what
holds where a send may start, `Sending` where one more may join, `Settled` where
a handler returns. Handlers of other nodes add at most a `ReceiveStart`.

*Receptions.* `AllLaws` says of every node that its window is open exactly while
one `ReceiveCheck` is scheduled, and that a `Receive` is due at once, alone and
with the window closed. It needs `SlotAligned`: receptions end 0.9 s into a
slot and begin at its start, so that no `Receive` is pending when `ReceiveStart`
runs. `Distinct` of the queues needs that `QueueCheck` asks before it appends,
that the identity of an origination is fresh (`IInv`), and that what `WaitSend`
may put back it has just taken out; `AckFlags` that every exchange starts with
the flags reset, and that an acknowledgement comes from a node that has the
datum (`IInv`). `ExchangeKept`
follows from `Exchanges`: where a handler other than the timer starts a send,
`wait_ack` is down.

*Sums.* The folds of the community modules recurse over sets, and the
library's induction theorems take operators as parameters. `SumTheorems`
therefore derives an induction over *sets* of naturals from the theorem that <
is well-founded, uses it to show that the recursive function behind
`FoldFunction` exists and does not depend on the order in which elements are
chosen, and concludes what `Append`, `Tail` and a bound on the elements do to a
sum, for every sequence. It also has the laws of counters that wrap.

*The queue.* `QInv` adds to `FifoOrder` that `m_nPackets`, which the operations
ask, is the length of the list. `Counts` says that `m_nBytes` is the sum of the
sizes modulo the word, and each total what the history since the last reset
says. The capacity needs `OrdinarySizes`: then the sum in `Enqueue`'s check does
not wrap, and only an empty queue holds 0 bytes.

*The device queue.* `NoLostWakeup` is inductive. `FlowInv` adds to the other
invariants that `m_limit` never exceeds `MaxLimit` and that a full device has
stopped the queue, so that what it holds stays below half the word; there a
difference of two wrapped totals, read as a signed number, is the difference
itself (`AvailableIs`). `Completed` yields a limit within its bounds whatever
the undefined subtraction gives (`CompletedIs`). The queue cannot be stopped
with nothing in flight because the last completion finds `Available` at the
limit, which is not negative.

*The sockets.* `Registration` says of each bound or connected socket which one
index is its handler's, instead of counting them; a close moves the indices
behind the one it takes out, which `Removal` describes. `ClosedIsSilent` uses it:
the walk calls only registered sockets, hence none that is closed.
`EachOfferedOnce` needs what `OfferedOnce` says of the middle of a walk: in
`WalkInv` every socket due a packet that the walk has reached has been offered it
once, and none that it has not reached at all. A close from a callback moves the
handlers behind the walk's place, all still to be reached, and so keeps it.
`BufferIsCounted` needs the types of the queue only (`Filled`).

*The packet buffers.* A call of a packet is several calls of buffers, some of
them local to it, so the invariant `Good` is about a store and not about the
state: every buffer of the store, `dst`, `src` and `tmp` included, is on an
existing block and `Sane` on it, and every block counts the buffers on it. One
lemma, `Rebound`, says what a change of one buffer must do to each block
(`Follows`); from it follow the ways a buffer changes: in place (`InPlace`), to
a new block (`Rehoused`), to another's block (`AssignedIsGood`) or away
(`DestroyedIsGood`). A change in place keeps the others sane because it only
widens a shared dirty area: `StartDirty` and `EndDirty` hold back the buffers that
do not reach its edge. Every store operation keeps `Good` and all other buffers
(`Kept`), the calls are compositions of these, and each ends with its local
buffers gone (`Idle`), which is `IInv`. That a block is free when one is needed
is a pigeonhole: each block in use has a buffer of its own. The two theorems do
not depend on `TailsAfterZeroes`: the join that loses bytes (`joined_zeroes`)
still keeps counts and bounds.

*The packet tags.* `Good (s, f)` says that in the store `s` the packets have the
lists `f`: the pointers of a packet lead through the nodes of its list, one after
the other, and then nowhere; a list has one tag of each type; every node is on a
list; and every node counts the links (of packets or of nodes) to it. The lists
are named because a recursion along the pointers says nothing until it is known
to end: where a list exists, it is what `Chain` computes (`ChainIs`), and there is
only one (`OneList`). `Sound` is `Good` for the lists of the state. The core is that
a count of one means one link (`OnlyLink`): the nodes of a list in front of the
first merge are on no other list (`Private`), and a link behind such nodes is no
link of another (`OwnLink`), so what is done there disturbs nobody
(`Done`, `Others`). One turn of the copying loop keeps `Good` and the tags of all
lists, leaves one node more alone and makes a merge of the next (`CopiedIs`,
`OneTurn`, `LoopIs`), whose other links are on the list of another packet (`Shared`).
Each call then is a change of one list at its end (`Changed`): `RemovedIs`,
`ReplacedIs`, `PushedIs`, `ReleasedIs`, `AssignedIs`. That `new` finds memory is a
count of the nodes on the lists by packet and type (`RoomLeft`).

*The byte tags.* `Good` is again about a store with the local lists of a call
(`list` of the shortcuts, `copy` of `AddAtEnd`): every list has its first `m_used`
items in its block, below the block's size and its dirty mark, and inside its own
bounds; every block counts its lists. Without the bounds the shortcuts could not
be shown to skip nothing; with the mark alone a list could lose items to another.
`Rebound`, `InPlace` and `Rehoused` play the parts they play for the buffers: an
item is put into a shared block only where `dirty = m_used`, and there the others,
being below the mark, do not reach (`AddedIsGood`). The refinement is about what
a list *shows* on a byte (`Shows`): `Added` shows one tag more on the item's bytes;
an iterator stops at items that show, between its two offsets, what the list does
(`BeginIs`); so the rebuilt list shows what is before or behind the offset and
nothing else, and by the bounds a list that takes the shortcut does so already
(`AddAtEndIsGood`, `AddAtStartIsGood`). `Adjust` shifts what is shown. The calls
compose these, and every other list keeps its items (`Rest`), hence what it shows.
What is shown on each byte makes the row of the packet (`TakesPart`,
`GrowsInFront`, `GrowsBehind`), so that each call is the abstract one with the same
name and arguments (`RemoveAtStartTells`, `ConcatenateTells`, ...). That the loop of `Add (o)` ends in
a store at all is an induction over its calls, by the sets of `SumTheorems`.
Offsets are integers here: none comes near 32 bits while packets are shorter than
`MaxLength <= Infinity`, which is INT32_MAX.

Only model-checked: `ImplementsOwnBytes`, which needs the contents
of every block between the dirty bounds besides the bounds; `NoCollision`, which
is about the one scenario of `silent_line` and false under contention; all
liveness (`Quiesces`, `ReachesBothGateways`, `QueueReopens`; fairness is out of the
provers' reach); and the violations, which need one behaviour each.

## 5. Not modelled, and the plan

Not modelled and not planned: address conversions, frame formats, capture files,
statistics, helpers, bindings, tests and examples (no state machine, or I/O
only); `SimpleNetDevice::Send`, `SendFrom` and `TransmitComplete` of the original
ns-3 device, which no scenario reaches.

`network/bindings/modulegen__*.py` are Python wrappers that a generator wrote from
the C++ headers: registrations of names, no behaviour, and a model of them
would say nothing. The program is the C++ code, which the models are of.

Modelled in part, and what is left out: promiscuous handlers, `Node::AddDevice` and
disposal; `Packet`'s serialization of a whole packet; the rate, burst and list error
models (covered as any loss); `SimpleChannel`'s black list and delay, which no
scenario sets; `LwsnHeader`'s 16-bit fields.

Planned, in this order:

1. *Depth.* `ImplementsOwnBytes` without the joined zeroes, from `Good`.
2. *Breadth.* `SimpleChannel` with its black list, the error models (bursts,
   lists), `SequenceNumber` against its definition, `NixVector`.
