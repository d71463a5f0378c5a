--------------------------- MODULE PacketTagList ---------------------------
(***************************************************************************)
(* The packet tags of packet-tag-list.cc.  The lists of all packets share  *)
(* one tree of TagData nodes: a list is a pointer to a node, each node     *)
(* points to the next towards the root, and counts the pointers to it.  A  *)
(* copied packet joins the tree where the original does; a change below a  *)
(* merge first copies the shared nodes on its way (copy on write).         *)
(***************************************************************************)
EXTENDS Naturals, Sequences, FiniteSets
LOCAL INSTANCE SequencesExt

CONSTANTS Packet,     \* the packets, each with a PacketTagList
          Address,    \* where nodes are allocated: a set of numbers
          Type,       \* the tag types
          Value,      \* what a tag may hold
          Tag,        \* the tags: a type and a value
          Null,       \* the null pointer
          None        \* "not found"

ASSUME TagListAssumption ==
  /\ Address \subseteq Nat /\ Null \notin Address /\ None \notin Value
  /\ Packet \cap Address = {} /\ Tag \subseteq [tid : Type, data : Value]

(* new always finds memory. *)
ASSUME MemoryAssumption ==
  /\ IsFiniteSet(Packet) /\ IsFiniteSet(Type) /\ IsFiniteSet(Address)
  /\ Cardinality(Address) > Cardinality(Packet) * Cardinality(Type)

VARIABLES m_next,     \* the first node of each packet's list
          node,       \* the allocated TagData, by address
          answer      \* the tag that the last call gave back

vars == <<m_next, node, answer>>

TagData  == [tid : Type, data : Value, count : Nat, next : Address \cup {Null}]

(* A store is what one call works on: the pointers and the nodes.  A link  *)
(* is the place of a pointer, in a packet or in a node.                    *)
Store == [next |-> m_next, node |-> node]

Fresh(s)       == CHOOSE a \in Address \ DOMAIN s.node :
                    \A b \in Address \ DOMAIN s.node : a <= b
SetLink(s, l, a) ==
  IF l \in Packet THEN [s EXCEPT !.next[l] = a] ELSE [s EXCEPT !.node[l].next = a]
Count(s, a, d) == IF a = Null THEN s ELSE [s EXCEPT !.node[a].count = @ + d]
New(s, a, n)   == [s EXCEPT !.node = [b \in DOMAIN @ \cup {a} |->
                                         IF b = a THEN n ELSE s.node[b]]]
Delete(s, A)   == [s EXCEPT !.node = [b \in DOMAIN @ \ A |-> s.node[b]]]

(* The nodes of a list from its head to the root; the place of the pointer *)
(* to the j-th of them.                                                    *)
Chain(s, p) ==
  LET path[a \in Address \cup {Null}] ==
        IF a \in DOMAIN s.node THEN <<a>> \o path[s.node[a].next] ELSE << >>
  IN  path[s.next[p]]
LinkTo(s, p, j) == IF j = 1 THEN p ELSE Chain(s, p)[j - 1]

-----------------------------------------------------------------------------
Init ==
  /\ m_next = [p \in Packet |-> Null]
  /\ node = << >>
  /\ answer = None

Become(s) == m_next' = s.next /\ node' = s.node

Pushed(s, p, tag) ==
  LET a == Fresh(s)
  IN  SetLink(New(s, a, [tid |-> tag.tid, data |-> tag.data, count |-> 1,
                         next |-> s.next[p]]), p, a)

(* The writers get what COWTraverse has found: the node cur, the link l    *)
(* that leads to it, and whether it is in front of the first merge.        *)
RemoveWriter(w) ==               \* link around cur; free it or leave it to others
  LET next   == w.store.node[w.cur].next
      around == SetLink(w.store, w.link, next)
  IN  IF w.preMerge THEN Delete(around, {w.cur})
      ELSE Count(Count(around, w.cur, -1), next, 1)

ReplaceWriterInPlace(w, data) ==                  \* variant: writes shared data
  [w.store EXCEPT !.node[w.cur].data = data]

CopiedShort(s, l, cur, data) ==                   \* variant: merge not marked
  LET n == s.node[cur]
      a == Fresh(s)
      t == New(Count(s, cur, -1), a,
               [tid |-> n.tid, data |-> data, count |-> 1, next |-> n.next])
  IN  SetLink(t, l, a)

(* A shared node is left to the other lists; a copy of it with this data   *)
(* takes its place at the link, and the merge moves on behind it.          *)
Copied(s, l, cur, data) ==
  LET n == s.node[cur]
      a == Fresh(s)
      t == New(Count(s, cur, -1), a,
               [tid |-> n.tid, data |-> data, count |-> 1, next |-> n.next])
  IN  SetLink(Count(t, n.next, 1), l, a)

ReplaceWriter(w, data) ==        \* rewrite cur, or put a rewritten copy in its place
  IF w.preMerge THEN [w.store EXCEPT !.node[w.cur].data = data]
  ELSE Copied(w.store, w.link, w.cur, data)

(* One turn of the copying loop. *)
Unmerge(w, cur) ==
  [store |-> Copied(w.store, w.link, cur, w.store.node[cur].data),
   link  |-> Fresh(w.store)]

Find(s, p, t) == SelectInSeq(Chain(s, p), LAMBDA a : s.node[a].tid = t)
Merge(s, p)   == SelectInSeq(Chain(s, p), LAMBDA a : s.node[a].count > 1)

(* The loop, from the m-th node of the list up to the one in front of the  *)
(* i-th.                                                                   *)
Unmerged(s, p, m, i) ==
  LET turn[j \in Nat] ==
        IF j < m THEN [store |-> s, link |-> LinkTo(s, p, m)]
        ELSE Unmerge(turn[j - 1], Chain(s, p)[j])
  IN  turn[i - 1]

(* COWTraverse finds the node of this type, i-th in the list; when it is   *)
(* not in front of the first merge, the nodes between are copied first.    *)
COWTraverse(s, p, t) ==
  LET i   == Find(s, p, t)
      m   == Merge(s, p)
      cur == Chain(s, p)[i]
      w   == Unmerged(s, p, m, i)
  IN  IF m = 0 \/ i < m
      THEN [store |-> s, cur |-> cur, link |-> LinkTo(s, p, i), preMerge |-> TRUE]
      ELSE [store |-> w.store, cur |-> cur, link |-> w.link, preMerge |-> FALSE]

-----------------------------------------------------------------------------
Found(p, t) ==
  LET i == Find(Store, p, t)
  IN  IF i = 0 THEN None ELSE node[Chain(Store, p)[i]].data
Has(p, t) == Find(Store, p, t) # 0

(* The caller has to know that the packet has no tag of this type. *)
AddPacketTag(p, tag) ==
  /\ ~Has(p, tag.tid)
  /\ Become(Pushed(Store, p, tag))
  /\ UNCHANGED answer

RemovePacketTag(p, t) ==
  /\ Become(IF Has(p, t) THEN RemoveWriter(COWTraverse(Store, p, t)) ELSE Store)
  /\ answer' = Found(p, t)

ReplacePacketTag(p, tag) ==
  \/ /\ Has(p, tag.tid)
     /\ Become(ReplaceWriter(COWTraverse(Store, p, tag.tid), tag.data))
     /\ answer' = tag.data
  \/ /\ ~Has(p, tag.tid)
     /\ Become(Pushed(Store, p, tag))
     /\ answer' = None

PeekPacketTag(p, t) ==
  /\ answer' = Found(p, t)
  /\ UNCHANGED <<m_next, node>>

ReleasedWhole(s, p) ==                            \* variant: walks past a merge
  SetLink(FoldLeft(LAMBDA u, a : IF u.node[a].count = 1 THEN Delete(u, {a})
                                 ELSE Count(u, a, -1),
                   s, Chain(s, p)), p, Null)

ReleasedLeaking(s, p) ==                          \* variant: frees nothing
  LET m == Merge(s, p)
  IN  SetLink(IF m = 0 THEN s ELSE Count(s, Chain(s, p)[m], -1), p, Null)

(* RemoveAll: every node of the list loses a pointer and is freed when it  *)
(* was the last; the first that has others ends the walk.                  *)
Released(s, p) ==
  LET path  == Chain(s, p)
      m     == Merge(s, p)
      freed == {path[j] : j \in {k \in DOMAIN path : m = 0 \/ k < m}}
      kept  == IF m = 0 THEN s ELSE Count(s, path[m], -1)
  IN  SetLink(Delete(kept, freed), p, Null)

(* Also the end of a packet, whose place is then free for another one. *)
RemoveAllPacketTags(p) == Become(Released(Store, p)) /\ UNCHANGED answer

(* The copy constructor (into an empty list) and the assignment. *)
Assign(p, q) ==
  /\ Become(IF m_next[p] = m_next[q] THEN Store
            ELSE LET s == Released(Store, p)
                 IN  Count(SetLink(s, p, m_next[q]), m_next[q], 1))
  /\ UNCHANGED answer

Next ==
  \E p \in Packet :
     \/ \E tag \in Tag : AddPacketTag(p, tag) \/ ReplacePacketTag(p, tag)
     \/ \E t \in Type : RemovePacketTag(p, t) \/ PeekPacketTag(p, t)
     \/ RemoveAllPacketTags(p)
     \/ \E q \in Packet : Assign(p, q)

Spec == Init /\ [][Next]_vars

-----------------------------------------------------------------------------
Links     == Packet \cup DOMAIN node
Target(l) == IF l \in Packet THEN m_next[l] ELSE node[l].next

(* The pointers and the nodes have their types and no pointer leads to a   *)
(* node that was freed (packet-tag-list.h: count is the number of incoming *)
(* pointers).                                                              *)
TypeOK ==
  /\ m_next \in [Packet -> DOMAIN node \cup {Null}]
  /\ DOMAIN node \subseteq Address /\ node \in [DOMAIN node -> TagData]
  /\ \A a \in DOMAIN node : node[a].next \in DOMAIN node \cup {Null}
  /\ answer \in Value \cup {None}

(* A node counts exactly the pointers to it, whatever order packets were   *)
(* copied, changed and destroyed in: too many and it is never freed, too   *)
(* few and another packet's list is rewritten or freed (packet-tag-list.cc *)
(* 135-141, 177-192, 217-238 and RemoveAll).                               *)
CountsPointers ==
  \A a \in DOMAIN node :
     node[a].count = Cardinality({l \in Links : Target(l) = a})

(* Nothing leaks: every node is on the list of some packet.                *)
AllReachable ==
  DOMAIN node \subseteq UNION {ToSet(Chain(Store, p)) : p \in Packet}

(* The tree with its shared nodes is as good as a list per packet: no call *)
(* on one packet is seen by another, and every call answers from its own   *)
(* packet's tags (packet-tag-list.h, "Copy-on-write").                     *)
TagsOf(p) ==
  LET path == Chain(Store, p)
  IN  [i \in DOMAIN path |-> [tid |-> node[path[i]].tid, data |-> node[path[i]].data]]
OwnLists == INSTANCE PerPacketTags WITH tags <- [p \in Packet |-> TagsOf(p)]
ImplementsOwnLists == OwnLists!Spec
=============================================================================
