---------------------------- MODULE MCAgentToken ----------------------------
(* AgentToken for TLC: enough rotations for a late handler to meet a later one. *)
EXTENDS AgentToken
=============================================================================
