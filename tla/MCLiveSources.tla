--------------------------- MODULE MCLiveSources ---------------------------
(* A serial port, a TCP client and an agent. *)
EXTENDS LiveSources

CONSTANTS port1, peer, robot

MCKeys == {port1, peer, robot}
MCKind == [k \in Keys |-> CASE k = port1 -> "serial" [] k = peer -> "client" [] k = robot -> "agent"]
=============================================================================
