-------------------------- MODULE MCScriptExecution --------------------------
(***************************************************************************)
(* ScriptExecution for TLC; its devices are model values.  They are not    *)
(* declared symmetric: the runs check liveness.                            *)
(***************************************************************************)
EXTENDS ScriptExecution
==============================================================================
