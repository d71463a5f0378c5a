--------------------------- MODULE MCPacketBuffer ---------------------------
(* Packets and memory for TLC. *)
EXTENDS PacketBuffer

Addresses == 1..6

(* The packets with their memory, but without their names and without the  *)
(* addresses, and without the last call, which no action reads: two states *)
(* with the same layout behave alike.                                      *)
Layout ==
  LET Of(p) == <<[buffer[p] EXCEPT !.m_data = 0], block[buffer[p].m_data]>>
      Alike(p) == {q \in Living : Of(q) = Of(p)}
      Shares(p) == {q \in Living : buffer[q].m_data = buffer[p].m_data}
  IN  <<{<<Of(p), Cardinality(Alike(p)), {Of(q) : q \in Shares(p)}>> : p \in Living},
        Cardinality({a \in Address : block[a] # Gone})>>
=============================================================================
