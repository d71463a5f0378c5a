-------------------------- MODULE MCPacketSockets --------------------------
(* A node with two devices for TLC. *)
EXTENDS PacketSockets, TLC

CONSTANTS d1, d2
Bindings == {<<AllDevices, 1>>, <<d1, 0>>}
SocketSymmetry == Permutations(Socket)

(* Nothing reads m_errno, and m_shutdownSend decides only what m_errno is. *)
Observed == <<handlers, m_state, m_shutdownRecv, buffers, reception>>
=============================================================================
