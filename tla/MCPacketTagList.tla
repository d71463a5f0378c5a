-------------------------- MODULE MCPacketTagList --------------------------
(* Packets and tags for TLC. *)
EXTENDS PacketTagList
LOCAL INSTANCE SequencesExt

CONSTANTS t1, t2, t3, v1, v2

Addresses == 1..10

(* Tags of three types; the value of the first may be replaced. *)
Tags == {[tid |-> t1, data |-> v1], [tid |-> t1, data |-> v2],
         [tid |-> t2, data |-> v1], [tid |-> t3, data |-> v1]}

(* The tree without its addresses and without the last answer, on which    *)
(* nothing depends: which tags each packet has, who shares each node, and  *)
(* its count.  Two states with the same shape behave alike.                *)
Shape ==
  LET path == [p \in Packet |-> Chain(Store, p)]
      on   == [p \in Packet |-> ToSet(path[p])]
      Sharers(a) == {p \in Packet : a \in on[p]}
  IN  <<[p \in Packet |-> [i \in DOMAIN path[p] |->
            LET n == node[path[p][i]]
            IN  <<n.tid, n.data, n.count, Sharers(path[p][i])>>]],
        Cardinality(DOMAIN node),
        {Target(l) : l \in Links} \subseteq DOMAIN node \cup {Null}>>
=============================================================================
