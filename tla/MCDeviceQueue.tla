--------------------------- MODULE MCDeviceQueue ---------------------------
(* Packet sizes for TLC. *)
EXTENDS DeviceQueue

OneTwo == {1, 2}
=============================================================================
