-------------------------- MODULE MCAgentConnection --------------------------
(***************************************************************************)
(* AgentConnection for TLC; its sockets and jobs are model values.  They   *)
(* are not declared symmetric: the runs check liveness.                    *)
(***************************************************************************)
EXTENDS AgentConnection
==============================================================================
