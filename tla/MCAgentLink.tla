---------------------------- MODULE MCAgentLink ----------------------------
(* Two message types of one topic: the agent serves one of them. *)
EXTENDS AgentLink

CONSTANTS k1, k2, topic

MCKeys == {k1, k2}
MCTopicOf == [k \in Keys |-> topic]
=============================================================================
