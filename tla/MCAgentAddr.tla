---------------------------- MODULE MCAgentAddr ----------------------------
(* AgentAddr with bytes of two values and hashes of one byte.                 *)
EXTENDS AgentAddr
============================================================================
