------------------------------ MODULE OwnBytes ------------------------------
(***************************************************************************)
(* What packet buffers promise: every packet has its own bytes.  Each      *)
(* call, by its name and its arguments, says which bytes its packet has    *)
(* afterwards and leaves those of the others: headers come and go in       *)
(* front, trailers and padding behind; a copy or a fragment starts with    *)
(* bytes of the original and is independent of it from then on.            *)
(***************************************************************************)
EXTENDS Naturals, Sequences

CONSTANTS Packet, Byte, Zero,
          Undefined,  \* a byte that nobody has written
          Gone,       \* a packet that does not exist
          AddSizes,   \* the sizes of what calls add
          MaxLength   \* bound on the length of a packet

VARIABLES bytes,      \* the bytes of each packet
          call        \* the last call: its name, its packet, its arguments

Exists(p) == bytes[p] # Gone
Of(n, v)  == [i \in 1..n |-> v]

(* Packet p has these bytes now; the others have theirs. *)
Leaves(p, new) == bytes' = [bytes EXCEPT ![p] = new]

Create(p, n) == call' = <<"Create", p, n>> /\ ~Exists(p) /\ Leaves(p, Of(n, Zero))
Destroy(p)   == call' = <<"Destroy", p>>   /\ Exists(p)  /\ Leaves(p, Gone)
Copy(p, q)   == call' = <<"Copy", p, q>>   /\ Exists(q)  /\ Leaves(p, bytes[q])

(* The bytes of q from start on, length of them *)
CreateFragment(p, q, start, length) ==
  /\ call' = <<"CreateFragment", p, q, start, length>>
  /\ ~Exists(p) /\ Exists(q) /\ start + length <= Len(bytes[q])
  /\ Leaves(p, SubSeq(bytes[q], start + 1, start + length))

AddHeader(p, n, v) ==
  /\ call' = <<"AddHeader", p, n, v>>
  /\ Exists(p) /\ Leaves(p, Of(n, v) \o bytes[p])
AddTrailer(p, n, v) ==
  /\ call' = <<"AddTrailer", p, n, v>>
  /\ Exists(p) /\ Leaves(p, bytes[p] \o Of(n, v))
AddPaddingAtEnd(p, n) ==
  /\ call' = <<"AddPaddingAtEnd", p, n>>
  /\ Exists(p) /\ Leaves(p, bytes[p] \o Of(n, Undefined))

(* To remove more bytes than there are is to remove all of them. *)
RemoveAtStart(p, n) ==
  /\ call' = <<"RemoveAtStart", p, n>>
  /\ Exists(p) /\ Leaves(p, SubSeq(bytes[p], n + 1, Len(bytes[p])))
RemoveAtEnd(p, n) ==
  /\ call' = <<"RemoveAtEnd", p, n>>
  /\ Exists(p) /\ Leaves(p, SubSeq(bytes[p], 1, Len(bytes[p]) - n))

AddAtEnd(p, q) ==
  /\ call' = <<"AddAtEnd", p, q>>
  /\ Exists(p) /\ Exists(q) /\ Leaves(p, bytes[p] \o bytes[q])

(* The packet's bytes are looked at. *)
TransformIntoRealBuffer(p) ==
  call' = <<"TransformIntoRealBuffer", p>> /\ Exists(p) /\ Leaves(p, bytes[p])

Init == bytes = [p \in Packet |-> Gone] /\ call = << >>

Next ==
  \E p \in Packet :
     \/ Destroy(p) \/ TransformIntoRealBuffer(p)
     \/ \E n \in AddSizes :
          \/ Create(p, n) \/ AddPaddingAtEnd(p, n)
          \/ \E v \in Byte : AddHeader(p, n, v) \/ AddTrailer(p, n, v)
     \/ \E n \in 1..(MaxLength + 1) : RemoveAtStart(p, n) \/ RemoveAtEnd(p, n)
     \/ \E q \in Packet :
          \/ Copy(p, q) \/ AddAtEnd(p, q)
          \/ \E i, n \in 0..MaxLength : CreateFragment(p, q, i, n)

Spec == Init /\ [][Next]_<<bytes, call>>
=============================================================================
