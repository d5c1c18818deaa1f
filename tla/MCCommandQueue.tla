--------------------------- MODULE MCCommandQueue ---------------------------
(***************************************************************************)
(* CommandQueue for TLC: one command, of any kind, so that every interleav-*)
(* ing of its requests, deliveries, results and reapers is reached.        *)
(***************************************************************************)
EXTENDS CommandQueue

CONSTANT c1

MCCommands == {c1}
MCAllKinds == AllKinds
=============================================================================
