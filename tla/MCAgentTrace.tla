---------------------------- MODULE MCAgentTrace ----------------------------
(* Instances of AgentTrace for TLC. *)
EXTENDS AgentTrace, TLC

CONSTANTS q1, q2, c1, c2

MCCalcs   == {q1, q2}
MCClients == {c1, c2}
\* The subagent that can also fall back.
OneAgent  == {"mapping_agent"}
=============================================================================
