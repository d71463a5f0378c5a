--------------------------- MODULE MCByteTagList ---------------------------
(* Packets and memory for TLC. *)
EXTENDS ByteTagList, FiniteSetsExt, TLC

Addresses == 1..5
PacketSymmetry == Permutations(Packet) \cup Permutations(Tag)

(* Two states are the same when they differ in addresses only, in an       *)
(* adjustment that the stored offsets make up for, or in how far before    *)
(* its packet an item begins or ends: no operation tells them apart.  The  *)
(* last call is left out too: no step reads it.                            *)
List(p) ==
  LET l == tags[p]
      d == IF l.m_data = Null THEN Null ELSE block[l.m_data]
      Moved(x, least) == IF x \in {Infinity, -Infinity} THEN x
                         ELSE Max({x + l.m_adjustment, least})
  IN  IF l = Gone THEN Gone
      ELSE [used |-> l.m_used, min |-> Moved(l.m_minStart, -1), max |-> Moved(l.m_maxEnd, 0),
            data |-> IF d = Null THEN Null
                     ELSE [size |-> d.size, dirty |-> d.dirty, count |-> d.count,
                           items |-> [i \in 1..l.m_used |->
                              <<d.items[i].tag, Moved(d.items[i].start, -1), Moved(d.items[i].end, 0)>>]]]
Sharing == {q \in Packet \X Packet : /\ tags[q[1]] # Gone /\ tags[q[2]] # Gone
                                     /\ tags[q[1]].m_data = tags[q[2]].m_data}
Shape == <<size, [p \in Packet |-> List(p)], Sharing>>
=============================================================================
