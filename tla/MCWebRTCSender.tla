--------------------------- MODULE MCWebRTCSender ---------------------------
(* Instances of WebRTCSender for TLC.                                      *)
EXTENDS WebRTCSender, TLC

Symmetry == Permutations(Stream) \cup Permutations(Receiver)
=============================================================================
