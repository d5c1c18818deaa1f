---------------------------- MODULE MCElevation ----------------------------
(* Elevation for TLC: two technicians who work on the same request. *)
EXTENDS Elevation
=============================================================================
