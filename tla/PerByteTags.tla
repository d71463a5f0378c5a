----------------------------- MODULE PerByteTags -----------------------------
(***************************************************************************)
(* What byte tags promise: a tag sticks to the bytes it was attached to,   *)
(* wherever they go.  Each call, by its name and its arguments, says where *)
(* every byte goes: bytes that are added carry no tag, those that stay,    *)
(* are copied, cut out or joined on carry theirs, and only AddByteTag and  *)
(* RemoveAllByteTags put a tag on a byte or take one off.                  *)
(***************************************************************************)
EXTENDS Naturals, Sequences

CONSTANTS Packet, Tag,
          Gone,       \* a packet that does not exist
          MaxLength   \* bound on the sizes that calls are given

VARIABLES marks,      \* the tags on every byte of each packet
          call        \* the last call: its name, its packet, its arguments

Exists(p)   == marks[p] # Gone
Unmarked(n) == [i \in 1..n |-> {}]

(* Call c leaves packet p with these marks, and the others as they are. *)
Does(c, p, new) == call' = c /\ marks' = [marks EXCEPT ![p] = new]

Create(p, n) == ~Exists(p) /\ Does(<<"Create", p, n>>, p, Unmarked(n))
Destroy(p)   == Exists(p) /\ Does(<<"Destroy", p>>, p, Gone)
Copy(p, q)   == Exists(q) /\ Does(<<"Copy", p, q>>, p, marks[q])

(* The bytes of q from start on, length of them *)
CreateFragment(p, q, start, length) ==
  /\ ~Exists(p) /\ Exists(q) /\ start + length <= Len(marks[q])
  /\ Does(<<"CreateFragment", p, q, start, length>>, p,
          SubSeq(marks[q], start + 1, start + length))

AddHeader(p, n) ==
  Exists(p) /\ Does(<<"AddHeader", p, n>>, p, Unmarked(n) \o marks[p])
AddTrailer(p, n) ==
  Exists(p) /\ Does(<<"AddTrailer", p, n>>, p, marks[p] \o Unmarked(n))

(* To remove more bytes than there are is to remove all of them. *)
RemoveAtStart(p, n) ==
  /\ Exists(p)
  /\ Does(<<"RemoveAtStart", p, n>>, p, SubSeq(marks[p], n + 1, Len(marks[p])))
RemoveAtEnd(p, n) ==
  /\ Exists(p)
  /\ Does(<<"RemoveAtEnd", p, n>>, p, SubSeq(marks[p], 1, Len(marks[p]) - n))

Concatenate(p, q) ==
  Exists(p) /\ Exists(q) /\ Does(<<"Concatenate", p, q>>, p, marks[p] \o marks[q])

AddByteTag(p, t) ==
  /\ Exists(p)
  /\ Does(<<"AddByteTag", p, t>>, p,
          [b \in 1..Len(marks[p]) |-> marks[p][b] \cup {t}])

RemoveAllByteTags(p) ==
  Exists(p) /\ Does(<<"RemoveAllByteTags", p>>, p, Unmarked(Len(marks[p])))

Init == marks = [p \in Packet |-> Gone] /\ call = << >>

Next ==
  \E p \in Packet :
     \/ Destroy(p) \/ RemoveAllByteTags(p)
     \/ \E t \in Tag : AddByteTag(p, t)
     \/ \E n \in 1..MaxLength : \/ Create(p, n) \/ AddHeader(p, n) \/ AddTrailer(p, n)
                                \/ RemoveAtStart(p, n) \/ RemoveAtEnd(p, n)
     \/ \E q \in Packet :
          \/ Copy(p, q) \/ Concatenate(p, q)
          \/ \E i, n \in 0..MaxLength : CreateFragment(p, q, i, n)

Spec == Init /\ [][Next]_<<marks, call>>
=============================================================================
