----------------------------- MODULE MCWatchdog -----------------------------
(* Watchdog for TLC: a 24-hour budget of one or two restarts. *)
EXTENDS Watchdog
=============================================================================
