---------------------------- MODULE ByteTagList ----------------------------
(***************************************************************************)
(* The byte tags of byte-tag-list.cc, under the operations of packet.cc.   *)
(* A list is a run of items (a tag, the first byte, the byte after the     *)
(* last) in a block that several lists may share; each list has its own    *)
(* length and its own adjustment, which is added to the items' offsets.    *)
(* Offsets are cut to the packet only when somebody looks, or when bytes   *)
(* are added that an item must not reach into.                             *)
(***************************************************************************)
EXTENDS Integers, Sequences, FiniteSets
LOCAL INSTANCE FiniteSetsExt

CONSTANTS Packet,        \* the packets, each with a ByteTagList
          Address,       \* where blocks are allocated: a set of numbers
          Tag,           \* the tags
          Null,          \* the null pointer
          Gone,          \* a packet or a block that does not exist
          Infinity,      \* INT32_MAX, beyond every offset
          Slack,         \* how many items more a recycled block may hold
          MaxLength,     \* bound on the length of a packet
          MaxItems,      \* bound on the length of a list
          MaxReach       \* bound on the offset of an item's end in a packet

ASSUME ByteTagAssumption ==
  /\ Address \subseteq Nat /\ Null \notin Address /\ Slack \subseteq Nat
  /\ MaxLength \in Nat /\ MaxItems \in Nat /\ MaxReach \in Nat
  /\ Infinity \in Nat /\ MaxLength <= Infinity

Temporary == {"list", "copy"}        \* the local lists of a call

(* new always finds memory. *)
ASSUME MemoryAssumption ==
  /\ IsFiniteSet(Packet) /\ Packet \cap Temporary = {}
  /\ IsFiniteSet(Address)
  /\ Cardinality(Address) > Cardinality(Packet \cup Temporary)

VARIABLES size,          \* the number of bytes of each packet
          tags,          \* the ByteTagList of each packet
          block,         \* the ByteTagListData at each address
          call           \* history: the last call, by name and arguments

vars == <<size, tags, block, call>>

Store == [tags  |-> [p \in Packet \cup Temporary |->
                        IF p \in Packet THEN tags[p] ELSE Gone],
          block |-> block]

(* A ByteTagList, the one a packet starts with, and a ByteTagListData *)
ListOf(min, max, adjustment, used, a) ==
  [m_minStart |-> min, m_maxEnd |-> max, m_adjustment |-> adjustment,
   m_used |-> used, m_data |-> a]
EmptyList == ListOf(Infinity, -Infinity, 0, 0, Null)
BlockOf(n, count, dirty, items) ==
  [size |-> n, count |-> count, dirty |-> dirty, items |-> items]

(* A store with one list and one block set *)
Put(s, p, l, a, d) == [tags  |-> [s.tags EXCEPT ![p] = l],
                       block |-> [s.block EXCEPT ![a] = d]]

Shift(i, d)    == [tag |-> i.tag, start |-> i.start + d, end |-> i.end + d]
Cut(i, lo, hi) == [tag |-> i.tag, start |-> Max({i.start, lo}), end |-> Min({i.end, hi})]

-----------------------------------------------------------------------------
(* The items of a list; and those that reach between two offsets, cut to   *)
(* them, each at its place: what an iterator stops at.                     *)
Items(s, p) ==
  LET l == s.tags[p]
  IN  IF l.m_data = Null THEN << >> ELSE SubSeq(s.block[l.m_data].items, 1, l.m_used)
Begin(s, p, from, to) ==
  LET all   == Items(s, p)
      d     == s.tags[p].m_adjustment
  IN  [n \in {m \in DOMAIN all : all[m].start + d < to /\ all[m].end + d > from} |->
         Cut(Shift(all[n], d), from, to)]
BeginAll(s, p) == Begin(s, p, 0, Infinity)

Deallocate(s, a) ==
  IF a = Null THEN s
  ELSE IF s.block[a].count = 1 THEN [s EXCEPT !.block[a] = Gone]
  ELSE [s EXCEPT !.block[a].count = @ - 1]

(* The destructor, and the copy constructor or assignment *)
Destroyed(s, p) ==
  LET t == Deallocate(s, s.tags[p].m_data) IN [t EXCEPT !.tags[p] = Gone]
Assigned(s, p, q) ==
  LET l == s.tags[q]
      t == IF s.tags[p] = Gone THEN s ELSE Deallocate(s, s.tags[p].m_data)
  IN  IF p = q THEN s
      ELSE IF l.m_data = Null THEN [t EXCEPT !.tags[p] = l]
      ELSE Put(t, p, l, l.m_data, [t.block[l.m_data] EXCEPT !.count = @ + 1])

RemoveAll(s, p) ==
  LET t == Deallocate(s, s.tags[p].m_data) IN [t EXCEPT !.tags[p] = EmptyList]

(* No room behind the items, or somebody else has used it *)
CannotAppend(s, p) ==
  LET l == s.tags[p]
      d == s.block[l.m_data]
  IN  d.size < l.m_used + 1 \/ (d.count # 1 /\ d.dirty # l.m_used)

Unmarked(d, n) == d                     \* variant: the dirty mark not moved

(* The block is in use up to its n-th item. *)
Marked(d, n) == [d EXCEPT !.dirty = n]

Fresh(s) == Min({a \in Address : s.block[a] = Gone})
Overwritten(items, n, i) ==
  [k \in 1..Max({n, Len(items)}) |-> IF k = n THEN i ELSE items[k]]

WidenedAtStart(l, i, a) ==              \* variant: the last byte not noticed
  ListOf(Min({l.m_minStart, i.start}), l.m_maxEnd, l.m_adjustment, l.m_used + 1, a)

(* The list with one item more, on the block at a *)
Widened(l, i, a) ==
  ListOf(Min({l.m_minStart, i.start}), Max({l.m_maxEnd, i.end}), l.m_adjustment,
         l.m_used + 1, a)

(* Add: item has offsets in the packet.  It goes behind the other items,   *)
(* or with them to a new block with room for it.                           *)
Added(s, p, item, slack) ==
  LET l      == s.tags[p]
      n      == l.m_used + 1
      a      == Fresh(s)
      stored == Shift(item, -l.m_adjustment)
      new    == BlockOf(n + slack, 1, 0, Append(Items(s, p), stored))
      d      == s.block[l.m_data]
      more   == BlockOf(d.size, d.count, d.dirty, Overwritten(d.items, n, stored))
  IN  IF l.m_data = Null \/ CannotAppend(s, p)
      THEN Deallocate(Put(s, p, Widened(l, stored, a), a, Marked(new, n)), l.m_data)
      ELSE Put(s, p, Widened(l, stored, l.m_data), l.m_data, Marked(more, n))

AddedAll(s, p, items, slack) ==
  LET after[n \in Nat] == IF n = 0 THEN s
                          ELSE IF n \in DOMAIN items
                          THEN Added(after[n - 1], p, items[n], slack)
                          ELSE after[n - 1]
  IN  after[Max(DOMAIN items \cup {0})]

(* The list becomes one that holds these items and nothing else. *)
Rebuilt(s, p, items, slack) ==
  LET t == AddedAll([s EXCEPT !.tags["list"] = EmptyList], "list", items, slack)
  IN  Destroyed(Assigned(t, p, "list"), "list")

(* AddAtEnd: no item reaches beyond offset, where bytes are added.  (Of    *)
(* all items, those from offset on are skipped and the others cut; at 0,   *)
(* where an item that spans 0 begins once it is cut, all are skipped.)     *)
AddAtEnd(s, p, offset, slack) ==
  IF s.tags[p].m_maxEnd <= offset - s.tags[p].m_adjustment THEN s
  ELSE Rebuilt(s, p, IF offset = 0 THEN << >> ELSE Begin(s, p, 0, offset), slack)

(* AddAtStart: no item begins before offset. *)
AddAtStart(s, p, offset, slack) ==
  IF s.tags[p].m_minStart >= offset - s.tags[p].m_adjustment THEN s
  ELSE Rebuilt(s, p, Begin(s, p, offset, Infinity), slack)

Adjust(s, p, d) ==
  LET l == s.tags[p]
  IN  [s EXCEPT !.tags[p] = ListOf(l.m_minStart, l.m_maxEnd, l.m_adjustment + d,
                                   l.m_used, l.m_data)]

-----------------------------------------------------------------------------
Exists(p)   == size[p] # Gone
Fits(n)     == n <= MaxLength
Bounded(s)  == \A p \in Packet : s.tags[p] # Gone =>
                  /\ s.tags[p].m_used <= MaxItems
                  /\ s.tags[p].m_maxEnd + s.tags[p].m_adjustment <= MaxReach

(* Items behind the last list that uses a block are never read. *)
Become(s) ==
  LET Used(a) == Max({0} \cup {s.tags[p].m_used :
                   p \in {q \in Packet : s.tags[q] # Gone /\ s.tags[q].m_data = a}})
  IN  /\ Bounded(s)
      /\ tags' = [p \in Packet |-> s.tags[p]]
      /\ block' = [a \in Address |-> IF s.block[a] = Gone THEN Gone
                     ELSE [s.block[a] EXCEPT !.items = SubSeq(@, 1, Used(a))]]

Init ==
  /\ size = [p \in Packet |-> Gone]
  /\ tags = [p \in Packet |-> Gone]
  /\ block = [a \in Address |-> Gone]
  /\ call = << >>

Create(p, n) ==
  /\ ~Exists(p)
  /\ call' = <<"Create", p, n>>
  /\ size' = [size EXCEPT ![p] = n]
  /\ tags' = [tags EXCEPT ![p] = EmptyList]
  /\ UNCHANGED block

Destroy(p) ==
  /\ Exists(p)
  /\ call' = <<"Destroy", p>>
  /\ size' = [size EXCEPT ![p] = Gone]
  /\ Become(Destroyed(Store, p))

Copy(p, q) ==
  /\ Exists(q)
  /\ call' = <<"Copy", p, q>>
  /\ size' = [size EXCEPT ![p] = size[q]]
  /\ Become(Assigned(Store, p, q))

CreateFragment(p, q, start, length) ==
  /\ ~Exists(p) /\ Exists(q) /\ start + length <= size[q]
  /\ call' = <<"CreateFragment", p, q, start, length>>
  /\ size' = [size EXCEPT ![p] = length]
  /\ Become(Adjust(Assigned(Store, p, q), p, -start))

AddHeader(p, n) ==
  /\ Exists(p) /\ Fits(size[p] + n)
  /\ call' = <<"AddHeader", p, n>>
  /\ size' = [size EXCEPT ![p] = @ + n]
  /\ \E slack \in Slack : Become(AddAtStart(Adjust(Store, p, n), p, n, slack))

RemoveAtStartUnadjusted(p, n) ==        \* variant: the tags stay where they were
  /\ Exists(p)
  /\ call' = <<"RemoveAtStart", p, n>>
  /\ size' = [size EXCEPT ![p] = Max({@ - n, 0})]
  /\ Become(Store)

(* RemoveHeader, RemoveAtStart *)
RemoveAtStart(p, n) ==
  /\ Exists(p)
  /\ call' = <<"RemoveAtStart", p, n>>
  /\ size' = [size EXCEPT ![p] = Max({@ - n, 0})]
  /\ Become(Adjust(Store, p, -n))

(* AddTrailer, AddPaddingAtEnd *)
AddTrailer(p, n) ==
  /\ Exists(p) /\ Fits(size[p] + n)
  /\ call' = <<"AddTrailer", p, n>>
  /\ size' = [size EXCEPT ![p] = @ + n]
  /\ \E slack \in Slack : Become(AddAtEnd(Store, p, size[p], slack))

(* RemoveTrailer, RemoveAtEnd: the tags are left as they are. *)
RemoveAtEnd(p, n) ==
  /\ Exists(p)
  /\ call' = <<"RemoveAtEnd", p, n>>
  /\ size' = [size EXCEPT ![p] = Max({@ - n, 0})]
  /\ UNCHANGED <<tags, block>>

Concatenate(p, q) ==
  /\ Exists(p) /\ Exists(q) /\ Fits(size[p] + size[q])
  /\ call' = <<"Concatenate", p, q>>
  /\ size' = [size EXCEPT ![p] = @ + size[q]]
  /\ \E slack \in Slack :
       LET trimmed == AddAtEnd(Store, p, size[p], slack)
           copy    == AddAtStart(Assigned(trimmed, "copy", q), "copy", 0, slack)
           moved   == Adjust(copy, "copy", size[p])
           joined  == AddedAll(moved, p, BeginAll(moved, "copy"), slack)
       IN  Become(Destroyed(joined, "copy"))

AddByteTag(p, t) ==
  /\ Exists(p)
  /\ call' = <<"AddByteTag", p, t>>
  /\ \E slack \in Slack :
       Become(Added(Store, p, [tag |-> t, start |-> 0, end |-> size[p]], slack))
  /\ UNCHANGED size

RemoveAllByteTags(p) ==
  /\ Exists(p)
  /\ call' = <<"RemoveAllByteTags", p>>
  /\ Become(RemoveAll(Store, p))
  /\ UNCHANGED size

Next ==
  \E p \in Packet :
     \/ Destroy(p) \/ RemoveAllByteTags(p)
     \/ \E t \in Tag : AddByteTag(p, t)
     \/ \E n \in 1..MaxLength : \/ Create(p, n) \/ AddHeader(p, n) \/ AddTrailer(p, n)
                                \/ RemoveAtStart(p, n) \/ RemoveAtEnd(p, n)
     \/ \E q \in Packet :
          \/ Copy(p, q) \/ Concatenate(p, q)
          \/ \E i, n \in 0..MaxLength : CreateFragment(p, q, i, n)

Spec == Init /\ [][Next]_vars

-----------------------------------------------------------------------------
Living == {p \in Packet : Exists(p)}

(* A block counts the lists that use it, and a list that shares a block    *)
(* never uses more of it than the dirty mark says, so that the place       *)
(* behind the mark is free for whoever comes first (byte-tag-list.cc:201). *)
SharedBelowDirty ==
  /\ \A p \in Living : tags[p].m_data # Null =>
        /\ block[tags[p].m_data] # Gone
        /\ tags[p].m_used <= block[tags[p].m_data].size
        /\ block[tags[p].m_data].count > 1 =>
             tags[p].m_used <= block[tags[p].m_data].dirty
  /\ \A a \in {b \in Address : block[b] # Gone} :
        block[a].count = Cardinality({p \in Living : tags[p].m_data = a})

(* Tags stick to their bytes: with lazy offsets, shared blocks and the     *)
(* shortcuts of AddAtStart and AddAtEnd (byte-tag-list.cc:280, 312), each  *)
(* call moves the tags exactly as it moves the bytes, by the count and at  *)
(* the end it was given (packet.cc:233, 289, 317, 344), so that every byte *)
(* shows the tags it was given and no others, in all copies.               *)
Marks ==
  [p \in Packet |->
     IF ~Exists(p) THEN Gone
     ELSE LET items == Items(Store, p)
              d     == tags[p].m_adjustment
          IN  [b \in 1..size[p] |->
                 {items[n].tag : n \in {m \in DOMAIN items :
                     items[m].start + d < b /\ b <= items[m].end + d}}]]

(* The two shortcuts are safe: the bounds of a list take in all its items, *)
(* also when other lists on the same block have added theirs since         *)
(* (byte-tag-list.cc:280, 312).                                            *)
BoundsCoverItems ==
  \A p \in Living : \A i \in DOMAIN Items(Store, p) :
     /\ tags[p].m_minStart <= Items(Store, p)[i].start
     /\ Items(Store, p)[i].end <= tags[p].m_maxEnd

PerByte == INSTANCE PerByteTags WITH marks <- Marks
ImplementsPerByteTags == PerByte!Spec
=============================================================================
