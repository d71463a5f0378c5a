---------------------------- MODULE PacketBuffer ----------------------------
(***************************************************************************)
(* The byte buffers of buffer.cc, through the operations of packet.cc.     *)
(* Several buffers may share one block of memory; each has its own bounds  *)
(* in it and a "zero area" that takes no memory.  A buffer may extend into *)
(* the block in place only outside the area that other buffers use (the    *)
(* dirty area); else it moves to a block of its own.                       *)
(***************************************************************************)
EXTENDS Integers, Sequences, FiniteSets
LOCAL INSTANCE SequencesExt
LOCAL INSTANCE FiniteSetsExt

CONSTANTS Packet,       \* the packets, each with a Buffer
          Address,      \* where blocks are allocated: a set of numbers
          Byte, Zero,   \* what is written; Zero is one of them
          Old,          \* what a new block holds
          Gone,         \* a packet or a block that does not exist
          Slack,        \* how much larger than asked a recycled block may be
          AddSizes,     \* bytes added by one call
          MaxLength,    \* bound on the length of a packet
          TailsAfterZeroes  \* may b.AddAtEnd(o) merge zeroes when o has more?

ASSUME BufferAssumption ==
  /\ Address \subseteq Nat /\ Slack \subseteq Nat /\ AddSizes \subseteq Nat
  /\ MaxLength \in Nat /\ Zero \in Byte /\ Old \notin Byte
  /\ TailsAfterZeroes \in BOOLEAN

Temporary == {"tmp", "dst", "src"}      \* the local Buffers of a call

(* new always finds memory. *)
ASSUME MemoryAssumption ==
  /\ IsFiniteSet(Packet) /\ Packet \cap Temporary = {}
  /\ IsFiniteSet(Address)
  /\ Cardinality(Address) > Cardinality(Packet \cup Temporary)

VARIABLES buffer,       \* the Buffer of each packet
          block,        \* the Buffer::Data at each address
          call          \* history: the last call, its packet, its arguments

vars == <<buffer, block, call>>

Store == [buffer |-> [p \in Packet \cup Temporary |->
                         IF p \in Packet THEN buffer[p] ELSE Gone],
          block  |-> block]

-----------------------------------------------------------------------------
(* GetSize, GetInternalSize, GetInternalEnd of a buffer b *)
Size(b)         == b.m_end - b.m_start
ZeroSize(b)     == b.m_zeroAreaEnd - b.m_zeroAreaStart
InternalSize(b) == Size(b) - ZeroSize(b)
InternalEnd(b)  == b.m_end - ZeroSize(b)
Data(s, p)      == s.block[s.buffer[p].m_data]

(* The bytes of buffer b on data d, at the virtual positions from m_start *)
BytesOf(b, d) ==
  LET z == ZeroSize(b)
  IN  [i \in 1..Size(b) |->
         LET at == b.m_start + i - 1
         IN  IF at < b.m_zeroAreaStart THEN d[at]
             ELSE IF at < b.m_zeroAreaEnd THEN Zero
             ELSE d[at - z]]
Contents(s, p) == BytesOf(s.buffer[p], Data(s, p).bytes)

(* A Buffer with its bounds, and a store with one buffer and one block set *)
Span(a, start, zeroStart, zeroEnd, end) ==
  [m_data |-> a, m_start |-> start, m_zeroAreaStart |-> zeroStart,
   m_zeroAreaEnd |-> zeroEnd, m_end |-> end]
Put(s, p, b, a, d) == [buffer |-> [s.buffer EXCEPT ![p] = b],
                       block  |-> [s.block EXCEPT ![a] = d]]

(* Create: a new block, or one from the free list, at least this large. *)
Fresh(s)          == Min({a \in Address : s.block[a] = Gone})
Room(size, slack) == Max({size, 1}) + slack
Allocated(n, dirtyStart, dirtyEnd, bytes) ==
  [m_count |-> 1, m_size |-> n, m_dirtyStart |-> dirtyStart,
   m_dirtyEnd |-> dirtyEnd, bytes |-> bytes]

ReleaseOnce(s, a) ==                      \* variant: not recycled at 0
  [s EXCEPT !.block[a].m_count = @ - 1]

(* A buffer lets go of its block, which is recycled when it was the last. *)
Release(s, a) ==
  IF s.block[a].m_count = 1
  THEN [s EXCEPT !.block[a] = Gone]
  ELSE [s EXCEPT !.block[a].m_count = @ - 1]

(* The destructor. *)
Destroyed(s, p) ==
  LET t == Release(s, s.buffer[p].m_data) IN [t EXCEPT !.buffer[p] = Gone]

(* The copy constructor (p is Gone) and the assignment *)
Assigned(s, p, q) ==
  LET o == s.buffer[q]
      t == IF s.buffer[p] = Gone THEN s ELSE Release(s, s.buffer[p].m_data)
  IN  IF s.buffer[p] # Gone /\ s.buffer[p].m_data = o.m_data
      THEN [s EXCEPT !.buffer[p] = o]
      ELSE Put(t, p, o, o.m_data, [t.block[o.m_data] EXCEPT !.m_count = @ + 1])

(* Initialize: where the data starts in the block is a heuristic. *)
Initialized(s, p, zeroSize, slack, start) ==
  LET a   == Fresh(s)
      n   == Room(0, slack)
      end == start + zeroSize
  IN  Put(s, p, Span(a, start, start, end, end),
          a, Allocated(n, start, end, [i \in 0..(n - 1) |-> Old]))

(* The buffer moves to a new block, with room for n more bytes in front    *)
(* (where = "front") or behind.                                            *)
Moved(s, p, n, where, slack) ==
  LET b     == s.buffer[p]
      front == IF where = "front" THEN n ELSE 0
      a     == Fresh(s)
      m     == Room(InternalSize(b) + n, slack)
      end   == Size(b) + n
      copied == [i \in 0..(m - 1) |->
                   IF i \in front..(front + InternalSize(b) - 1)
                   THEN Data(s, p).bytes[b.m_start + i - front] ELSE Old]
      delta == front - b.m_start
      moved == Put(s, p, Span(a, 0, b.m_zeroAreaStart + delta,
                              b.m_zeroAreaEnd + delta, end),
                   a, Allocated(m, 0, end, copied))
  IN  Release(moved, b.m_data)

StartDirty(s, p) ==
  Data(s, p).m_count > 1 /\ s.buffer[p].m_start > Data(s, p).m_dirtyStart

EndDirty(s, p) ==
  Data(s, p).m_count > 1 /\ s.buffer[p].m_end < Data(s, p).m_dirtyEnd

GrownAtStart(s, p, n, slack) ==
  LET b == s.buffer[p]
  IN  IF b.m_start >= n /\ ~StartDirty(s, p)
      THEN Put(s, p, [b EXCEPT !.m_start = @ - n],
               b.m_data, [Data(s, p) EXCEPT !.m_dirtyStart = b.m_start - n])
      ELSE Moved(s, p, n, "front", slack)

GrownAtEndClean(s, p, n, slack) ==        \* variant: dirty end not moved
  LET b == s.buffer[p]
  IN  IF InternalEnd(b) + n <= Data(s, p).m_size /\ ~EndDirty(s, p)
      THEN [s EXCEPT !.buffer[p].m_end = @ + n]
      ELSE Moved(s, p, n, "end", slack)

GrownAtEnd(s, p, n, slack) ==
  LET b == s.buffer[p]
  IN  IF InternalEnd(b) + n <= Data(s, p).m_size /\ ~EndDirty(s, p)
      THEN Put(s, p, [b EXCEPT !.m_end = @ + n],
               b.m_data, [Data(s, p) EXCEPT !.m_dirtyEnd = b.m_end + n])
      ELSE Moved(s, p, n, "end", slack)

Overwritten(bytes, at, q) ==
  [i \in DOMAIN bytes |->
     IF i \in at..(at + Len(q) - 1) THEN q[i - at + 1] ELSE bytes[i]]

(* Iterator::WriteU8 and Write from memory, at a virtual position *)
Written(s, p, at, q) ==
  LET b    == s.buffer[p]
      from == IF at < b.m_zeroAreaStart THEN at ELSE at - ZeroSize(b)
  IN  [s EXCEPT !.block[b.m_data].bytes = Overwritten(@, from, q)]

(* Iterator::Write from another iterator does not subtract the zero area;  *)
(* what falls behind the block is not kept.                                *)
WrittenRaw(s, p, at, q) ==
  [s EXCEPT !.block[s.buffer[p].m_data].bytes = Overwritten(@, at, q)]

CutAtStart(s, p, n) ==
  LET b        == s.buffer[p]
      newStart == b.m_start + n
      delta    == newStart - b.m_zeroAreaStart
      z        == ZeroSize(b)
      To(start, zeroStart, zeroEnd, end) ==
        [s EXCEPT !.buffer[p] = Span(b.m_data, start, zeroStart, zeroEnd, end)]
  IN  IF newStart <= b.m_zeroAreaStart
      THEN To(newStart, b.m_zeroAreaStart, b.m_zeroAreaEnd, b.m_end)
      ELSE IF newStart <= b.m_zeroAreaEnd
      THEN To(b.m_zeroAreaStart, b.m_zeroAreaStart, b.m_zeroAreaEnd - delta,
              b.m_end - delta)
      ELSE IF newStart <= b.m_end
      THEN To(newStart - z, newStart - z, newStart - z, b.m_end - z)
      ELSE To(b.m_end - z, b.m_end - z, b.m_end - z, b.m_end - z)


CutAtEnd(s, p, n) ==
  LET b      == s.buffer[p]
      newEnd == b.m_end - Min({n, Size(b)})
  IN  [s EXCEPT !.buffer[p] = Span(b.m_data, b.m_start,
         Min({b.m_zeroAreaStart, newEnd}), Min({b.m_zeroAreaEnd, newEnd}), newEnd)]

(* CreateFullCopy into t: a block of its own, with the zeroes in it, or    *)
(* just another buffer on the same block when there are none.              *)
FullCopy(s, p, t, slack, start) ==
  LET b     == s.buffer[p]
      head  == SubSeq(Contents(s, p), 1, b.m_zeroAreaStart - b.m_start)
      tail  == SubSeq(Contents(s, p), b.m_zeroAreaEnd - b.m_start + 1, Size(b))
      Prepend(u, q) == LET v == GrownAtStart(u, t, Len(q), slack)
                       IN  Written(v, t, v.buffer[t].m_start, q)
      zero  == Prepend(Initialized(s, t, 0, slack, start),
                       [i \in 1..ZeroSize(b) |-> Zero])
      back  == GrownAtEnd(Prepend(zero, head), t, Len(tail), slack)
  IN  IF ZeroSize(b) = 0 THEN Assigned(s, t, p)
      ELSE Written(back, t, back.buffer[t].m_end - Len(tail), tail)

(* The case in which AddAtEnd joins two adjacent zero areas *)
JoinsZeroes(s, p, q) ==
  LET b == s.buffer[p] o == s.buffer[q]
  IN  /\ Data(s, p).m_count = 1
      /\ b.m_end = b.m_zeroAreaEnd /\ b.m_end = Data(s, p).m_dirtyEnd
      /\ o.m_start = o.m_zeroAreaStart /\ ZeroSize(o) > 0

Joined(s, p, q, slack) ==
  LET b    == s.buffer[p]
      end  == b.m_end + ZeroSize(s.buffer[q])
      wide == Put(s, p, Span(b.m_data, b.m_start, b.m_zeroAreaStart, end, end),
                  b.m_data, [Data(s, p) EXCEPT !.m_dirtyEnd = end])
      o    == wide.buffer[q]
      n    == o.m_end - o.m_zeroAreaEnd
      t    == GrownAtEnd(wide, p, n, slack)
      tail == SubSeq(Contents(t, q), Size(t.buffer[q]) - n + 1, Size(t.buffer[q]))
  IN  WrittenRaw(t, p, t.buffer[p].m_end - n, tail)

(* The general case, up to the point where dst is written *)
Concatenating(s, p, q, slack, start) ==
  LET dst == FullCopy(s, p, "dst", slack, start)
      src == FullCopy(dst, q, "src", slack, start)
  IN  GrownAtEnd(src, "dst", Size(src.buffer["src"]), slack)

Concatenated(s, p, q, slack, start) ==
  LET t == Concatenating(s, p, q, slack, start)
      n == Size(t.buffer["src"])
      w == WrittenRaw(t, "dst", t.buffer["dst"].m_end - n, Contents(t, "src"))
  IN  Destroyed(Destroyed(Assigned(w, p, "dst"), "src"), "dst")

-----------------------------------------------------------------------------
Exists(p) == buffer[p] # Gone

(* Bytes of a block that no buffer refers to are not told apart: they are  *)
(* Old until somebody writes them.                                         *)
Used(s, a) == UNION {s.buffer[p].m_start..(InternalEnd(s.buffer[p]) - 1) :
                     p \in {q \in Packet : s.buffer[q] # Gone /\ s.buffer[q].m_data = a}}
Become(s) ==
  /\ buffer' = [p \in Packet |-> s.buffer[p]]
  /\ block' = [a \in Address |->
       IF s.block[a] = Gone THEN Gone
       ELSE [s.block[a] EXCEPT !.bytes =
               [i \in DOMAIN @ |-> IF i \in Used(s, a) THEN @[i] ELSE Old]]]
Fits(p, n) == Size(buffer[p]) + n <= MaxLength
Starts(slack) == 0..(1 + slack)

Init ==
  /\ buffer = [p \in Packet |-> Gone] /\ block = [a \in Address |-> Gone]
  /\ call = << >>

(* Packet (size): a packet of zeroes that take no memory *)
Create(p, n) ==
  /\ ~Exists(p)
  /\ \E slack \in Slack : \E start \in Starts(slack) :
       Become(Initialized(Store, p, n, slack, start))
  /\ call' = <<"Create", p, n>>

Destroy(p) ==
  /\ Exists(p) /\ Become(Destroyed(Store, p))
  /\ call' = <<"Destroy", p>>

Copy(p, q) ==
  /\ p # q /\ Exists(q) /\ Become(Assigned(Store, p, q))
  /\ call' = <<"Copy", p, q>>

AddHeader(p, n, v) ==
  /\ Exists(p) /\ Fits(p, n)
  /\ \E slack \in Slack :
       LET t == GrownAtStart(Store, p, n, slack)
       IN  Become(Written(t, p, t.buffer[p].m_start, [i \in 1..n |-> v]))
  /\ call' = <<"AddHeader", p, n, v>>

AddTrailer(p, n, v) ==
  /\ Exists(p) /\ Fits(p, n)
  /\ \E slack \in Slack :
       LET t == GrownAtEnd(Store, p, n, slack)
       IN  Become(Written(t, p, t.buffer[p].m_end - n, [i \in 1..n |-> v]))
  /\ call' = <<"AddTrailer", p, n, v>>

AddPaddingAtEnd(p, n) ==
  /\ Exists(p) /\ Fits(p, n)
  /\ \E slack \in Slack : Become(GrownAtEnd(Store, p, n, slack))
  /\ call' = <<"AddPaddingAtEnd", p, n>>

(* RemoveHeader, RemoveTrailer and their own calls: more than there is may *)
(* be asked for.                                                           *)
RemoveAtStart(p, n) ==
  /\ Exists(p) /\ Become(CutAtStart(Store, p, n))
  /\ call' = <<"RemoveAtStart", p, n>>
RemoveAtEnd(p, n) ==
  /\ Exists(p) /\ Become(CutAtEnd(Store, p, n))
  /\ call' = <<"RemoveAtEnd", p, n>>

CreateFragment(p, q, start, length) ==
  /\ ~Exists(p) /\ Exists(q) /\ start + length <= Size(buffer[q])
  /\ Become(CutAtEnd(CutAtStart(Assigned(Store, p, q), p, start), p,
                     Size(buffer[q]) - (start + length)))
  /\ call' = <<"CreateFragment", p, q, start, length>>

(* When both parts are in one block, the assertion in Iterator::Write      *)
(* (buffer.cc:842) stops a build that has assertions; this is what any     *)
(* other build does.                                                       *)
AddAtEnd(p, q) ==
  /\ Exists(p) /\ Exists(q) /\ Fits(p, Size(buffer[q]))
  /\ \E slack \in Slack :
       IF JoinsZeroes(Store, p, q)
       THEN /\ TailsAfterZeroes \/ buffer[q].m_end = buffer[q].m_zeroAreaEnd
            /\ Become(Joined(Store, p, q, slack))
       ELSE \E start \in Starts(slack) :
              Become(Concatenated(Store, p, q, slack, start))
  /\ call' = <<"AddAtEnd", p, q>>

(* PeekData: the zeroes get memory. *)
TransformIntoRealBuffer(p) ==
  /\ Exists(p)
  /\ \E slack \in Slack : \E start \in Starts(slack) :
       LET t == FullCopy(Store, p, "tmp", slack, start)
       IN  Become(Destroyed(Assigned(t, p, "tmp"), "tmp"))
  /\ call' = <<"TransformIntoRealBuffer", p>>

Next ==
  \E p \in Packet :
     \/ Destroy(p) \/ TransformIntoRealBuffer(p)
     \/ \E n \in AddSizes :
          \/ Create(p, n) \/ AddPaddingAtEnd(p, n)
          \/ \E v \in Byte \ {Zero} : AddHeader(p, n, v) \/ AddTrailer(p, n, v)
     \/ \E n \in 1..(MaxLength + 1) : RemoveAtStart(p, n) \/ RemoveAtEnd(p, n)
     \/ \E q \in Packet :
          \/ Copy(p, q) \/ AddAtEnd(p, q)
          \/ \E i, n \in 0..MaxLength : CreateFragment(p, q, i, n)

Spec == Init /\ [][Next]_vars

-----------------------------------------------------------------------------
Living == {p \in Packet : Exists(p)}

(* The check that buffer.cc:213 has switched off: bounds in order, inside  *)
(* the dirty area and inside the block.                                    *)
CheckInternalState ==
  \A p \in Living :
     LET b == buffer[p] d == block[buffer[p].m_data]
     IN  /\ b.m_start <= b.m_zeroAreaStart
         /\ b.m_zeroAreaStart <= b.m_zeroAreaEnd /\ b.m_zeroAreaEnd <= b.m_end
         /\ b.m_start >= d.m_dirtyStart /\ b.m_end <= d.m_dirtyEnd
         /\ InternalEnd(b) <= d.m_size /\ b.m_zeroAreaStart <= d.m_size

(* A block counts exactly the buffers that refer to it: no block is freed  *)
(* while one does, and none stays when none does (m_count, Recycle).       *)
CountsBuffers ==
  /\ \A p \in Living : block[buffer[p].m_data] # Gone
  /\ \A a \in {c \in Address : block[c] # Gone} :
        /\ block[a].m_count = Cardinality({p \in Living : buffer[p].m_data = a})
        /\ block[a].m_count > 0

(* Sharing is invisible, and every call does what it says to its own      *)
(* packet: as many bytes as it is given come and go, at the end it names,  *)
(* with the value that was written; a fragment is the bytes from start on  *)
(* (buffer.h:655, "New user data can be safely written only outside of the *)
(* dirty area").  Padding is bytes nobody has written, as buffer.h:515     *)
(* says, not the zeroes of packet.h:370.                                   *)
Bytes == [p \in Packet |-> IF Exists(p)
                           THEN BytesOf(buffer[p], block[buffer[p].m_data].bytes)
                           ELSE Gone]
Own == INSTANCE OwnBytes WITH bytes <- Bytes, Undefined <- Old
ImplementsOwnBytes == Own!Spec
=============================================================================
