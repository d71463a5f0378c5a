--------------------------- MODULE PerPacketTags ---------------------------
(***************************************************************************)
(* What packet tags promise: every packet has a list of tags of its own,   *)
(* one of each type, the newest first.  A copy of a packet starts with the *)
(* tags of the original, and from then on the two have nothing to do with  *)
(* each other.                                                             *)
(***************************************************************************)
EXTENDS Naturals, Sequences, SequencesExt

CONSTANTS Packet, Type, Tag, None

VARIABLES tags,       \* the list of each packet
          answer      \* what the last call gave back, None for "not found"

(* The place of a tag of type t in a list, 0 if there is none, and what a  *)
(* call that looks for it gives back.                                      *)
Index(list, t) == SelectInSeq(list, LAMBDA tag : tag.tid = t)
Found(list, t) == IF Index(list, t) = 0 THEN None ELSE list[Index(list, t)].data

(* Calls on one packet: its list before and after, and the answer after. *)
AddPacketTag(old, new, tag) ==
  Index(old, tag.tid) = 0 /\ new = <<tag>> \o old /\ UNCHANGED answer

RemovePacketTag(old, new, t) ==
  /\ answer' = Found(old, t)
  /\ new = IF Index(old, t) = 0 THEN old ELSE RemoveAt(old, Index(old, t))

ReplacePacketTag(old, new, tag) ==
  LET i == Index(old, tag.tid)
  IN  /\ answer' = IF i = 0 THEN None ELSE tag.data
      /\ new = IF i = 0 THEN <<tag>> \o old ELSE [old EXCEPT ![i] = tag]

PeekPacketTag(old, new, t) == answer' = Found(old, t) /\ new = old

RemoveAllPacketTags(new) == new = << >> /\ UNCHANGED answer
Copy(other, new)         == new = other /\ UNCHANGED answer

Init == tags = [p \in Packet |-> << >>] /\ answer = None

Next ==
  LET was == tags
      now == tags'
  IN  \E p \in Packet :
        /\ \A q \in Packet \ {p} : now[q] = was[q]
        /\ \/ \E tag \in Tag : \/ AddPacketTag(was[p], now[p], tag)
                               \/ ReplacePacketTag(was[p], now[p], tag)
           \/ \E t \in Type : \/ RemovePacketTag(was[p], now[p], t)
                              \/ PeekPacketTag(was[p], now[p], t)
           \/ RemoveAllPacketTags(now[p])
           \/ \E q \in Packet : Copy(was[q], now[p])

Spec == Init /\ [][Next]_<<tags, answer>>
=============================================================================
