---------------------------- MODULE MCClockSync ----------------------------
(* Instances of ClockSync for TLC. *)
EXTENDS ClockSync
=============================================================================
