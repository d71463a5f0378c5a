--------------------------- MODULE MCSlottedAloha ---------------------------
(* Scenarios for TLC: who originates how much. *)
EXTENDS SlottedAloha

OneEach   == [n \in Sensor |-> 1]
FirstTwo  == [n \in Sensor |-> IF n <= 2 THEN 1 ELSE 0]
OnlyThird == [n \in Sensor |-> IF n = 3 THEN 1 ELSE 0]
=============================================================================
