-------------------------- MODULE MCDropTailQueue --------------------------
(* Capacities for TLC. *)
EXTENDS DropTailQueue

NonEmptyPackets == {1, 3}
AnyPackets      == {0, 1}
OneToThree      == 1..3
TwoAndFive      == {2, 5}
=============================================================================
