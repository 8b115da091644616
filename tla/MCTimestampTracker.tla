------------------------- MODULE MCTimestampTracker -------------------------
(* Instances of TimestampTracker for TLC. *)
EXTENDS TimestampTracker

=============================================================================
